------------------------------ MODULE Gateway ------------------------------
(* gateway: metrics wait in one limited queue; a task takes them in batches and   *)
(* gives each batch to a goroutine, under a semaphore. The goroutine walks the    *)
(* transfers from a random one on, leaves out those with too many calls in        *)
(* progress, and calls the others until one takes the batch. A batch is one item. *)
EXTENDS Naturals, Sequences, FiniteSets, SequencesExt

CONSTANTS TransferHostnames,   \* sequence of the transfers
          GwMaxConns,          \* Transfer.MaxConns: calls at a time to one transfer
          Retry,               \* rounds over the transfers
          GwQueueSize,         \* DefaultSendQueueMaxSize
          MaxGwBatches

ASSUME GatewayAssumption ==
    /\ TransferHostnames \in Seq(Range(TransferHostnames))
    /\ GwMaxConns \in Nat \ {0} /\ Retry \in Nat /\ GwQueueSize \in Nat /\ MaxGwBatches \in Nat

VARIABLES gwPushed,    \* items received so far, 1 .. gwPushed
          gwOffered,   \* items whose receivers are past the length check of PushFront
          SenderQueue, \* newest first
          gwBatch,     \* the batch popped and waiting for a permit, 0 for none
          gwGo,        \* goroutines: the permits of the semaphore
          inProgress,  \* pfc counters: calls in progress, per transfer
          gwTaken,     \* external: batches a transfer received
          gwCounted    \* Send, SendFail and SendDrop

gatewayVars == <<gwPushed, gwOffered, SenderQueue, gwBatch, gwGo, inProgress, gwTaken, gwCounted>>

transNum == Len(TransferHostnames)
GwPermits == 1 .. GwMaxConns * transNum
Hosts == Range(TransferHostnames)
NoBatch == [pc |-> "idle", batch |-> 0]

GatewayInit ==
    /\ gwPushed = 0 /\ gwOffered = {} /\ SenderQueue = <<>> /\ gwBatch = 0
    /\ gwGo = [p \in GwPermits |-> NoBatch]
    /\ inProgress = [host \in Hosts |-> 0]
    /\ gwTaken = {} /\ gwCounted = [send |-> {}, fail |-> {}, drop |-> {}]

(* PushFront looks at the length, and refuses when the queue is full; the lock is  *)
(* taken again to push, and other receivers may push in between.                  *)
Push2SendQueue ==
    /\ gwPushed < MaxGwBatches /\ gwPushed' = gwPushed + 1
    /\ IF Len(SenderQueue) < GwQueueSize
       THEN gwOffered' = gwOffered \cup {gwPushed'} /\ UNCHANGED gwCounted
       ELSE gwCounted' = [gwCounted EXCEPT !.drop = @ \cup {gwPushed'}] /\ UNCHANGED gwOffered
    /\ UNCHANGED <<SenderQueue, gwBatch, gwGo, inProgress, gwTaken>>

PushFront(i) ==
    /\ i \in gwOffered /\ gwOffered' = gwOffered \ {i}
    /\ SenderQueue' = <<i>> \o SenderQueue
    /\ UNCHANGED <<gwPushed, gwBatch, gwGo, inProgress, gwTaken, gwCounted>>

(* PopBackBy: the oldest item, which then waits for a permit. *)
PopBackBy ==
    /\ gwBatch = 0 /\ SenderQueue # <<>>
    /\ gwBatch' = Last(SenderQueue) /\ SenderQueue' = Front(SenderQueue)
    /\ UNCHANGED <<gwPushed, gwOffered, gwGo, inProgress, gwTaken, gwCounted>>

(* Acquire, go: with any transfer to begin with. *)
AcquireAndGo(p) ==
    /\ gwGo[p] = NoBatch /\ gwBatch # 0
    /\ \E start \in 1..transNum :
         gwGo' = [gwGo EXCEPT ![p] = [pc |-> "look", batch |-> gwBatch, idx |-> start,
                                      left |-> transNum, rounds |-> IF Retry < 1 THEN 1 ELSE Retry]]
    /\ gwBatch' = 0
    /\ UNCHANGED <<gwPushed, gwOffered, SenderQueue, inProgress, gwTaken, gwCounted>>

HostOf(p) == TransferHostnames[gwGo[p].idx]

(* The next transfer, the next round from a random one, or the end. *)
Onwards(p) ==
    LET go == gwGo[p]
    IN  IF go.left > 1
        THEN gwGo' = [gwGo EXCEPT ![p] = [go EXCEPT !.pc = "look", !.left = go.left - 1,
                                                    !.idx = (go.idx % transNum) + 1]]
        ELSE IF go.rounds > 1
        THEN \E start \in 1..transNum :
               gwGo' = [gwGo EXCEPT ![p] = [go EXCEPT !.pc = "look", !.left = transNum,
                                                      !.idx = start, !.rounds = go.rounds - 1]]
        ELSE gwGo' = [gwGo EXCEPT ![p] = [go EXCEPT !.pc = "failed"]]

(* GetCounterCount and the counting are two steps: two goroutines may both find   *)
(* the last place free.                                                           *)
LookBusy(p) ==
    /\ gwGo[p].pc = "look" /\ inProgress[HostOf(p)] >= GwMaxConns
    /\ Onwards(p)
    /\ UNCHANGED <<gwPushed, gwOffered, SenderQueue, gwBatch, inProgress, gwTaken, gwCounted>>

LookFree(p) ==
    /\ gwGo[p].pc = "look" /\ inProgress[HostOf(p)] < GwMaxConns
    /\ gwGo' = [gwGo EXCEPT ![p].pc = "count"]
    /\ UNCHANGED <<gwPushed, gwOffered, SenderQueue, gwBatch, inProgress, gwTaken, gwCounted>>

(* The call is counted; the pool refuses it when all connections are in use. *)
At(host, pcs) == {p \in GwPermits : gwGo[p].pc \in pcs /\ HostOf(p) = host}
CountUp(p) ==
    /\ gwGo[p].pc = "count"
    /\ inProgress' = [inProgress EXCEPT ![HostOf(p)] = @ + 1]
    /\ gwGo' = [gwGo EXCEPT ![p].pc =
                   IF Cardinality(At(HostOf(p), {"call"})) < GwMaxConns THEN "call" ELSE "refused"]
    /\ UNCHANGED <<gwPushed, gwOffered, SenderQueue, gwBatch, gwTaken, gwCounted>>

CallOk(p) ==
    /\ gwGo[p].pc = "call"
    /\ inProgress' = [inProgress EXCEPT ![HostOf(p)] = @ - 1]
    /\ gwTaken' = gwTaken \cup {gwGo[p].batch}
    /\ gwGo' = [gwGo EXCEPT ![p].pc = "sent"]
    /\ UNCHANGED <<gwPushed, gwOffered, SenderQueue, gwBatch, gwCounted>>

(* An error, or a timeout of a call that may have arrived. *)
MayArrive(p) ==
    gwTaken' \in {gwTaken} \cup {gwTaken \cup {gwGo[q].batch} : q \in {p} \cap At(HostOf(p), {"call"})}

(* Slip: the call is not counted down when it fails. *)
CallErrUncounted(p) ==
    /\ gwGo[p].pc \in {"call", "refused"} /\ Onwards(p)
    /\ MayArrive(p)
    /\ UNCHANGED <<gwPushed, gwOffered, SenderQueue, gwBatch, inProgress, gwCounted>>

CallErr(p) ==
    /\ gwGo[p].pc \in {"call", "refused"} /\ Onwards(p)
    /\ inProgress' = [inProgress EXCEPT ![HostOf(p)] = @ - 1]
    /\ MayArrive(p)
    /\ UNCHANGED <<gwPushed, gwOffered, SenderQueue, gwBatch, gwCounted>>

(* Statistics, and the permit is given back. *)
Account(p) ==
    /\ gwGo[p].pc \in {"sent", "failed"}
    /\ gwCounted' = IF gwGo[p].pc = "sent" THEN [gwCounted EXCEPT !.send = @ \cup {gwGo[p].batch}]
                    ELSE [gwCounted EXCEPT !.fail = @ \cup {gwGo[p].batch}]
    /\ gwGo' = [gwGo EXCEPT ![p] = NoBatch]
    /\ UNCHANGED <<gwPushed, gwOffered, SenderQueue, gwBatch, inProgress, gwTaken>>

forward2TransferTask(p) ==
    \/ AcquireAndGo(p) \/ LookBusy(p) \/ LookFree(p) \/ CountUp(p) \/ CallOk(p) \/ CallErr(p) \/ Account(p)

GatewayStep ==
    \/ Push2SendQueue \/ (\E i \in gwOffered : PushFront(i)) \/ PopBackBy
    \/ \E p \in GwPermits : forward2TransferTask(p)

GatewaySpec == GatewayInit /\ [][GatewayStep]_gatewayVars

----------------------------------------------------------------------------
(* The places an item is at. *)
Holders(i) ==
    {<<"receiver", j>> : j \in {i} \cap gwOffered} \cup {<<"popped", j>> : j \in {i} \cap {gwBatch}}
      \cup {<<"queue", k>> : k \in {j \in DOMAIN SenderQueue : SenderQueue[j] = i}}
      \cup {<<"task", p>> : p \in {q \in GwPermits : gwGo[q].batch = i}}
      \cup {<<c, 0>> : c \in {d \in {"send", "fail", "drop"} : i \in gwCounted[d]}}

(* The gateway's books: an item is in exactly one place, with its receiver, in    *)
(* the queue, with the task, with one goroutine or in one of the counters, what   *)
(* counts as sent was taken by a transfer, and                                    *)
(* a transfer counts as busy exactly with the calls that are in progress, so that *)
(* none is left out for ever (forward2TransferTask).                              *)
GatewayBooks ==
    /\ \A i \in 1..MaxGwBatches : Cardinality(Holders(i)) = IF i <= gwPushed THEN 1 ELSE 0
    /\ gwCounted.send \subseteq gwTaken
    /\ \A host \in Hosts : inProgress[host] = Cardinality(At(host, {"call", "refused"}))

============================================================================
