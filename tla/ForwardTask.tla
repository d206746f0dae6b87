---------------------------- MODULE ForwardTask ----------------------------
(***************************************************************************)
(* transfer's way from a received item to a backend: the rpc handlers push *)
(* items into the size-limited send queue of a node (Push2JudgeSendQueue,  *)
(* Push2GraphSendQueue), one task per queue pops batches and starts a      *)
(* goroutine per batch under a semaphore (forward2JudgeTask,               *)
(* forward2GraphTask), and the goroutine calls the backend through the     *)
(* connection pool, at most MaxTry times.  The pool is the one of module   *)
(* ConnPool; its callers are these goroutines, and the semaphore has as    *)
(* many permits as the pool has connections (startSendTasks).              *)
(***************************************************************************)
EXTENDS ConnPool, SequencesExt

CONSTANTS
    Producers,  \* goroutines serving Transfer.Update
    MaxItems,   \* bound: items one producer offers
    MaxSize,    \* maxSize of the SafeListLimited
    Batch,      \* cfg.Judge.Batch, cfg.Graph.Batch
    MaxTry      \* calls per batch, 3 in the code

ASSUME ForwardAssumption ==
    /\ IsFiniteSet(Producers)
    /\ MaxItems \in Nat
    /\ MaxSize \in Nat \ {0}
    /\ Batch \in Nat \ {0}
    /\ MaxTry \in Nat \ {0}

VARIABLES
    todo,       \* number of the item each producer offers next
    checked,    \* producers past the length check of PushFront
    queue,      \* the send queue; PopBackBy takes from its head
    batch,      \* items popped and waiting for the semaphore
    sema,       \* permits taken from the semaphore
    job,        \* the batch each goroutine sends, <<>> when it has none
    tries,      \* calls the goroutine has made for its batch
    served,     \* goroutines whose present call has reached the backend
    late,       \* abandoned requests still on their way to the backend
    recv,       \* how often the backend has received each item
    sent,       \* items counted in SendToJudgeCnt / SendToGraphCnt
    failed,     \* items counted in SendToJudgeFailCnt / SendToGraphFailCnt
    dropped     \* items counted in SendToJudgeDropCnt / SendToGraphDropCnt

queueVars == <<todo, checked, queue, dropped>>
taskVars  == <<batch, sema>>
workVars  == <<job, tries>>
netVars   == <<served, late, recv>>
statVars  == <<sent, failed>>
vars == <<poolVars, queueVars, taskVars, workVars, netVars, statVars>>

Items == Producers \X (1 .. MaxItems)
Item(p) == <<p, todo[p]>>

\* The semaphore of the task: startSendTasks passes MaxConns, at least 1.
Concurrent == IF MaxConns < 1 THEN 1 ELSE MaxConns

Init ==
    /\ NewConnPool
    /\ todo = [p \in Producers |-> 1]
    /\ checked = {}
    /\ queue = <<>>
    /\ batch = <<>>
    /\ sema = 0
    /\ job = [c \in Callers |-> <<>>]
    /\ tries = [c \in Callers |-> 0]
    /\ served = {}
    /\ late = {}
    /\ recv = [i \in Items |-> 0]
    /\ sent = {} /\ failed = {} /\ dropped = {}

-----------------------------------------------------------------------------
(* SafeListLimited.PushFront: the length is read under the list's lock,    *)
(* the item is pushed under a second one.                                  *)

PushFrontFull(p) ==
    /\ p \notin checked
    /\ todo[p] <= MaxItems
    /\ Len(queue) >= MaxSize
    /\ dropped' = dropped \cup {Item(p)}
    /\ todo' = [todo EXCEPT ![p] = @ + 1]
    /\ UNCHANGED <<checked, queue>>
    /\ UNCHANGED <<poolVars, taskVars, workVars, netVars, statVars>>

\* Mutant: the limit is never looked at.
PushFrontUnchecked(p) ==
    /\ p \notin checked
    /\ todo[p] <= MaxItems
    /\ checked' = checked \cup {p}
    /\ UNCHANGED <<todo, queue, dropped>>
    /\ UNCHANGED <<poolVars, taskVars, workVars, netVars, statVars>>

PushFrontCheck(p) ==
    /\ p \notin checked
    /\ todo[p] <= MaxItems
    /\ Len(queue) < MaxSize
    /\ checked' = checked \cup {p}
    /\ UNCHANGED <<todo, queue, dropped>>
    /\ UNCHANGED <<poolVars, taskVars, workVars, netVars, statVars>>

PushFront(p) ==
    /\ p \in checked
    /\ queue' = Append(queue, Item(p))
    /\ checked' = checked \ {p}
    /\ todo' = [todo EXCEPT ![p] = @ + 1]
    /\ UNCHANGED dropped
    /\ UNCHANGED <<poolVars, taskVars, workVars, netVars, statVars>>

-----------------------------------------------------------------------------
(* The task: pop a batch, wait for a permit, start a goroutine.            *)

\* Mutant: one item more is removed from the list than is returned.
PopBackByExtra ==
    /\ batch = <<>>
    /\ queue # <<>>
    /\ LET n == IF Len(queue) > Batch THEN Batch ELSE Len(queue)
       IN  /\ batch' = SubSeq(queue, 1, n)
           /\ queue' = SubSeq(queue, n + 2, Len(queue))
    /\ UNCHANGED <<todo, checked, dropped, sema>>
    /\ UNCHANGED <<poolVars, workVars, netVars, statVars>>

PopBackBy ==
    /\ batch = <<>>
    /\ queue # <<>>
    /\ LET n == IF Len(queue) > Batch THEN Batch ELSE Len(queue)
       IN  /\ batch' = SubSeq(queue, 1, n)
           /\ queue' = SubSeq(queue, n + 1, Len(queue))
    /\ UNCHANGED <<todo, checked, dropped, sema>>
    /\ UNCHANGED <<poolVars, workVars, netVars, statVars>>

\* Mutant: one permit more than the pool has connections.
AcquireOneMore(c) ==
    /\ batch # <<>>
    /\ sema <= Concurrent
    /\ job[c] = <<>>
    /\ sema' = sema + 1
    /\ job' = [job EXCEPT ![c] = batch]
    /\ tries' = [tries EXCEPT ![c] = 0]
    /\ batch' = <<>>
    /\ UNCHANGED <<poolVars, queueVars, netVars, statVars>>

AcquireAndGo(c) ==
    /\ batch # <<>>
    /\ sema < Concurrent
    /\ job[c] = <<>>
    /\ sema' = sema + 1
    /\ job' = [job EXCEPT ![c] = batch]
    /\ tries' = [tries EXCEPT ![c] = 0]
    /\ batch' = <<>>
    /\ UNCHANGED <<poolVars, queueVars, netVars, statVars>>

-----------------------------------------------------------------------------
(* The goroutine of a batch.                                               *)

sendOk(c) == tries[c] > 0 /\ result[c] = "ok"

\* Mutant: the counter of the loop starts again with every try.
CallBeginUncounted(c) ==
    /\ job[c] # <<>>
    /\ held[c] = NoConn
    /\ ~ sendOk(c)
    /\ tries[c] < MaxTry
    /\ Fetch(c)
    /\ tries' = [tries EXCEPT ![c] = 1]
    /\ UNCHANGED <<job, queueVars, taskVars, netVars, statVars>>

\* The next turn of the retry loop; a Fetch that fails is a failed try.
CallBegin(c) ==
    /\ job[c] # <<>>
    /\ held[c] = NoConn
    /\ ~ sendOk(c)
    /\ tries[c] < MaxTry
    /\ Fetch(c)
    /\ tries' = [tries EXCEPT ![c] = @ + 1]
    /\ UNCHANGED <<job, queueVars, taskVars, netVars, statVars>>

Received(items) == [i \in Items |-> recv[i] + (IF Contains(items, i) THEN 1 ELSE 0)]

\* The backend runs Judge.Send or Graph.Send for the call.
Serve(c) ==
    /\ held[c] # NoConn
    /\ c \notin served
    /\ served' = served \cup {c}
    /\ recv' = Received(job[c])
    /\ UNCHANGED <<late, poolVars, queueVars, taskVars, workVars, statVars>>

CallReturnsOk(c) ==
    /\ c \in served
    /\ CallDone(c)
    /\ served' = served \ {c}
    /\ UNCHANGED <<late, recv, queueVars, taskVars, workVars, statVars>>

\* The connection breaks before or after the backend saw the request.
CallReturnsErr(c) ==
    /\ CallFailed(c, "ErrCall")
    /\ served' = served \ {c}
    /\ UNCHANGED <<late, recv, queueVars, taskVars, workVars, statVars>>

\* The caller gives up; a request already written may still be served later.
CallTimesOut(c) ==
    /\ CallFailed(c, "ErrTimeout")
    /\ served' = served \ {c}
    /\ \/ UNCHANGED late
       \/ /\ c \notin served
          /\ late' = late \cup {<<job[c], tries[c]>>}
    /\ UNCHANGED <<recv, queueVars, taskVars, workVars, statVars>>

ServeLate(req) ==
    /\ late' = late \ {req}
    /\ recv' = Received(req[1])
    /\ UNCHANGED <<served, poolVars, queueVars, taskVars, workVars, statVars>>

\* Mutant: the batch is counted as sent whatever the last call returned.
FinishCountsAll(c) ==
    /\ job[c] # <<>>
    /\ held[c] = NoConn
    /\ sendOk(c) \/ tries[c] = MaxTry
    /\ sent' = sent \cup Range(job[c])
    /\ job' = [job EXCEPT ![c] = <<>>]
    /\ sema' = sema - 1
    /\ UNCHANGED <<failed, batch, tries, poolVars, queueVars, netVars>>

\* After the loop: statistics, then the deferred sema.Release.
Finish(c) ==
    /\ job[c] # <<>>
    /\ held[c] = NoConn
    /\ sendOk(c) \/ tries[c] = MaxTry
    /\ IF sendOk(c)
       THEN sent' = sent \cup Range(job[c]) /\ UNCHANGED failed
       ELSE failed' = failed \cup Range(job[c]) /\ UNCHANGED sent
    /\ job' = [job EXCEPT ![c] = <<>>]
    /\ sema' = sema - 1
    /\ UNCHANGED <<batch, tries, poolVars, queueVars, netVars>>

-----------------------------------------------------------------------------
Producer(p) == PushFrontFull(p) \/ PushFrontCheck(p) \/ PushFront(p)

CallReturns(c) == CallReturnsOk(c) \/ CallReturnsErr(c) \/ CallTimesOut(c)

\* The bound on the items is used up and nothing is left to send; any other
\* state without a step is a deadlock.
Quiescent ==
    /\ \A p \in Producers : todo[p] > MaxItems
    /\ queue = <<>> /\ batch = <<>>
    /\ \A c \in Callers : job[c] = <<>>
    /\ UNCHANGED vars

Next ==
    \/ \E p \in Producers : Producer(p)
    \/ PopBackBy
    \/ \E c \in Callers : AcquireAndGo(c) \/ CallBegin(c) \/ Serve(c)
                            \/ CallReturns(c) \/ Finish(c)
    \/ \E req \in late : ServeLate(req)
    \/ Quiescent

\* The task and its goroutines keep running, and a call ends at the latest
\* with its timeout; producers and the network owe nothing.
Fairness ==
    /\ WF_vars(PopBackBy)
    /\ WF_vars(\E c \in Callers : AcquireAndGo(c))
    /\ \A c \in Callers : WF_vars(CallBegin(c) \/ CallReturns(c) \/ Finish(c))

Spec == Init /\ [][Next]_vars

FairSpec == Spec /\ Fairness

-----------------------------------------------------------------------------
\* Types of the queue, the task, its goroutines and the counters.
TypeOK ==
    /\ PoolTypeOK
    /\ todo \in [Producers -> 1 .. MaxItems + 1]
    /\ checked \in SUBSET Producers
    /\ queue \in Seq(Items)
    /\ batch \in Seq(Items)
    /\ sema \in 0 .. Concurrent
    /\ job \in [Callers -> Seq(Items)]
    /\ tries \in [Callers -> 0 .. MaxTry]
    /\ served \in SUBSET Callers
    /\ late \in SUBSET (Seq(Items) \X (1 .. MaxTry))
    /\ recv \in [Items -> Nat]
    /\ sent \in SUBSET Items /\ failed \in SUBSET Items /\ dropped \in SUBSET Items

Offered == {i \in Items : i[2] < todo[i[1]]}

\* Where an item is: its positions in the queue, in the popped batch and in
\* the batches of the goroutines, and the counters that have counted it.
Positions(s, i) == {k \in DOMAIN s : s[k] = i}
Counted(name, S, i) == IF i \in S THEN {<<name>>} ELSE {}
Places(i) ==
    {<<"queue", k>> : k \in Positions(queue, i)}
      \cup {<<"batch", k>> : k \in Positions(batch, i)}
      \cup (UNION {{<<"job", c, k>> : k \in Positions(job[c], i)} : c \in Callers})
      \cup Counted("sent", sent, i) \cup Counted("failed", failed, i)
      \cup Counted("dropped", dropped, i)

\* Every item a producer has handed over is in exactly one place: the queue,
\* the popped batch, one goroutine, or one of the three counters; none is lost
\* or sent by two goroutines (PushFront, PopBackBy, forward2JudgeTask).
NothingVanishes ==
    \A i \in Items : Cardinality(Places(i)) = IF i \in Offered THEN 1 ELSE 0

\* What is counted as sent did reach the backend, and retries after timeouts
\* deliver an item at most MaxTry times, late requests included
\* (forward2JudgeTask, SafeRpcConnPools.Call).
SentWasReceived ==
    /\ \A i \in sent : recv[i] >= 1
    /\ \A i \in Items : recv[i] <= MaxTry

\* The semaphore and the pool are sized alike, so a batch never wastes one of
\* its tries on ErrMaxConn, whatever timeouts and forced closes happened
\* before (startSendTasks, initConnPools, Fetch).
NeverErrMaxConn == \A c \in Callers : result[c] # "ErrMaxConn"

\* The length check and the push are two lock sections, so the queue can pass
\* its limit, but only by the pushers that were in between (PushFront).
QueueOvershoot == Len(queue) + Cardinality(checked) < MaxSize + Cardinality(Producers)

\* Every item accepted into the queue is eventually counted as sent or as
\* failed: no permit, connection or batch is ever stuck (forward2JudgeTask).
AcceptedSettles ==
    \A i \in Items : (Contains(queue, i)) ~> (i \in sent \cup failed)
=============================================================================
