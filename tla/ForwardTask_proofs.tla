------------------------- MODULE ForwardTask_proofs -------------------------
(***************************************************************************)
(* transfer's send queues and tasks, for any number of producers and of    *)
(* goroutines, any queue size, batch size, pool and number of tries.  The  *)
(* argument is built in layers, each inductive given the ones before it:   *)
(*                                                                         *)
(*   TaskInv      types, the pool's own invariant, and the semaphore: its  *)
(*                permits are the goroutines with a batch, and only those  *)
(*                hold connections;                                        *)
(*   PlaceInv     every item handed over is in one place, once;            *)
(*   DeliveryInv  what a batch has delivered, may still deliver late and   *)
(*                is delivering is no more than the calls made for it.     *)
(***************************************************************************)
EXTENDS ForwardTask, ConnPool_proofs

USE PoolAssumption, ForwardAssumption

\* The goroutines that send a batch.
Working == {c \in Callers : job[c] # <<>>}

TaskInv ==
    /\ PoolInv
    /\ TypeOK
    /\ \A p \in checked : todo[p] <= MaxItems
    /\ sema = Cardinality(Working)
    /\ Busy \subseteq Working
    /\ \A c \in Busy : tries[c] > 0

\* Whatever the queue and its tasks do to the pool is a call of the pool.
LEMMA PoolPart == Next \/ UNCHANGED vars => [PoolNext]_poolVars
<1> USE DEF poolVars
<1>1. ASSUME NEW p \in Producers, Producer(p) PROVE UNCHANGED poolVars
  BY <1>1 DEF Producer, PushFrontFull, PushFrontCheck, PushFront
<1>2. ASSUME PopBackBy PROVE UNCHANGED poolVars
  BY <1>2 DEF PopBackBy
<1>3. ASSUME NEW c \in Callers, AcquireAndGo(c) \/ Serve(c) \/ Finish(c)
      PROVE  UNCHANGED poolVars
  BY <1>3 DEF AcquireAndGo, Serve, Finish
<1>4. ASSUME NEW c \in Callers, CallBegin(c) \/ CallReturns(c) PROVE PoolNext
  BY <1>4 DEF CallBegin, CallReturns, CallReturnsOk, CallReturnsErr,
     CallTimesOut, PoolNext, Call
<1>5. ASSUME NEW req \in late, ServeLate(req) PROVE UNCHANGED poolVars
  BY <1>5 DEF ServeLate
<1>6. ASSUME Quiescent \/ UNCHANGED vars PROVE UNCHANGED poolVars
  BY <1>6 DEF Quiescent, vars
<1> QED
  BY <1>1, <1>2, <1>3, <1>4, <1>5, <1>6 DEF Next

\* What PopBackBy takes and what it leaves (SafeListLimited.PopBackBy).
LEMMA PopParts ==
    ASSUME TypeOK, PopBackBy
    PROVE  \E n \in 1 .. Len(queue) :
              /\ batch' \in Seq(Items) /\ Len(batch') = n
              /\ queue' \in Seq(Items) /\ Len(queue') = Len(queue) - n
              /\ \A k \in 1 .. n : batch'[k] = queue[k]
              /\ \A k \in 1 .. Len(queue) - n : queue'[k] = queue[n + k]
<1> DEFINE n == IF Len(queue) > Batch THEN Batch ELSE Len(queue)
<1>1. Len(queue) \in Nat \ {0} /\ queue \in Seq(Items)
  BY EmptySeq, LenProperties DEF PopBackBy, TypeOK
<1>2. n \in 1 .. Len(queue)
  BY <1>1
<1>3. batch' = SubSeq(queue, 1, n) /\ queue' = SubSeq(queue, n + 1, Len(queue))
  BY DEF PopBackBy
<1>4. \A i \in 1 .. Len(queue) : queue[i] \in Items
  BY <1>1, ElementOfSeq
<1> HIDE DEF n
<1>5. /\ batch' \in Seq(Items) /\ Len(batch') = n
      /\ \A k \in 1 .. n : batch'[k] = queue[k]
  <2>1. \A i \in 1 .. n : queue[i] \in Items
    BY <1>1, <1>2, <1>4
  <2> QED
    BY <1>2, <1>3, <2>1, SubSeqProperties
<1>6. /\ queue' \in Seq(Items) /\ Len(queue') = Len(queue) - n
      /\ \A k \in 1 .. Len(queue) - n : queue'[k] = queue[n + k]
  <2>1. \A i \in n + 1 .. Len(queue) : queue[i] \in Items
    BY <1>1, <1>2, <1>4
  <2>2. /\ queue' \in Seq(Items)
        /\ Len(queue') = IF n + 1 <= Len(queue) THEN Len(queue) - (n + 1) + 1 ELSE 0
        /\ \A i \in 1 .. Len(queue) - (n + 1) + 1 : queue'[i] = queue[(n + 1) + i - 1]
    BY <1>1, <1>2, <1>3, <2>1, SubSeqProperties
  <2> QED
    BY <1>1, <1>2, <2>2
<1> QED
  BY <1>2, <1>5, <1>6

\* What a producer pushes is an item.
LEMMA PushParts ==
    ASSUME TypeOK, NEW p \in Producers, todo[p] <= MaxItems
    PROVE  /\ Item(p) \in Items
           /\ todo[p] + 1 \in 1 .. MaxItems + 1
           /\ Append(queue, Item(p)) \in Seq(Items)
           /\ Len(Append(queue, Item(p))) = Len(queue) + 1
           /\ \A k \in 1 .. Len(queue) : Append(queue, Item(p))[k] = queue[k]
           /\ Append(queue, Item(p))[Len(queue) + 1] = Item(p)
<1>1. Item(p) \in Items /\ todo[p] + 1 \in 1 .. MaxItems + 1
  BY DEF TypeOK, Item, Items
<1> QED
  BY <1>1, AppendProperties DEF TypeOK

\* The goroutines with a batch are finitely many, so permits can be counted.
LEMMA WorkingFinite ==
    /\ IsFiniteSet(Working) /\ Cardinality(Working) \in Nat
    /\ Cardinality(Working) = 0 <=> Working = {}
<1>1. IsFiniteSet(Working)
  BY FS_Subset DEF Working
<1> QED
  BY <1>1, FS_CardinalityType, FS_EmptySet

\* Nothing has been offered, popped or called yet.
LEMMA TaskInvInit == Init => TaskInv
<1> SUFFICES ASSUME Init PROVE TaskInv
  OBVIOUS
<1>1. PoolInv
  BY PoolInvInit DEF Init
<1>2. Working = {} /\ Busy = {}
  BY DEF Init, NewConnPool, Working, Busy
<1>3. TypeOK
  BY <1>1, EmptySeq DEF Init, TypeOK, PoolInv, Concurrent
<1> QED
  BY <1>1, <1>2, <1>3, FS_EmptySet DEF Init, TaskInv

\* Every step of a producer, of the task, of a goroutine and of the network
\* preserves the types, and a goroutine owns its permit from the moment it
\* gets a batch to the moment it has counted it.
LEMMA TaskInvStep == TaskInv /\ [Next]_vars => TaskInv'
<1> SUFFICES ASSUME TaskInv, [Next]_vars PROVE TaskInv'
  OBVIOUS
<1>p. PoolInv' /\ PoolTypeOK'
  BY PoolPart, PoolInvStep DEF TaskInv, PoolInv
<1>t. /\ TypeOK /\ PoolTypeOK
      /\ \A p \in checked : todo[p] <= MaxItems
      /\ sema = Cardinality(Working) /\ Busy \subseteq Working
      /\ \A c \in Busy : tries[c] > 0
  BY DEF TaskInv, TypeOK
<1> USE DEF queueVars, taskVars, workVars, netVars, statVars
<1>w. ASSUME UNCHANGED <<job, sema, tries>>, Busy' \subseteq Busy
      PROVE  /\ sema' = Cardinality(Working') /\ Busy' \subseteq Working'
             /\ \A c \in Busy' : tries'[c] > 0
  <2>1. Working' = Working
    BY <1>w DEF Working
  <2> QED
    BY <1>t, <1>w, <2>1
<1>b. ASSUME UNCHANGED poolVars PROVE Busy' = Busy
  BY <1>b DEF poolVars, Busy
<1>1. CASE UNCHANGED vars
  <2>1. TypeOK'
    BY <1>1, <1>p, <1>t DEF vars, TypeOK
  <2> QED
    BY <1>1, <1>p, <1>t, <1>w, <1>b, <2>1 DEF vars, TaskInv
<1>2. ASSUME NEW p \in Producers, PushFrontFull(p) PROVE TaskInv'
  <2>1. Item(p) \in Items /\ todo[p] + 1 \in 1 .. MaxItems + 1
    BY <1>2, <1>t, PushParts DEF PushFrontFull
  <2>2. TypeOK'
    BY <1>2, <1>p, <1>t, <2>1 DEF PushFrontFull, TypeOK
  <2>3. \A q \in checked' : todo'[q] <= MaxItems
    BY <1>2, <1>t DEF PushFrontFull, TypeOK
  <2> QED
    BY <1>2, <1>p, <1>w, <1>b, <2>2, <2>3 DEF PushFrontFull, TaskInv
<1>3. ASSUME NEW p \in Producers, PushFrontCheck(p) PROVE TaskInv'
  <2>1. TypeOK'
    BY <1>3, <1>p, <1>t DEF PushFrontCheck, TypeOK
  <2>2. \A q \in checked' : todo'[q] <= MaxItems
    BY <1>3, <1>t DEF PushFrontCheck, TypeOK
  <2> QED
    BY <1>3, <1>p, <1>w, <1>b, <2>1, <2>2 DEF PushFrontCheck, TaskInv
<1>4. ASSUME NEW p \in Producers, PushFront(p) PROVE TaskInv'
  <2>1. todo[p] + 1 \in 1 .. MaxItems + 1 /\ Append(queue, Item(p)) \in Seq(Items)
    BY <1>4, <1>t, PushParts DEF PushFront
  <2>2. TypeOK'
    BY <1>4, <1>p, <1>t, <2>1 DEF PushFront, TypeOK
  <2>3. \A q \in checked' : todo'[q] <= MaxItems
    BY <1>4, <1>t DEF PushFront, TypeOK
  <2> QED
    BY <1>4, <1>p, <1>w, <1>b, <2>2, <2>3 DEF PushFront, TaskInv
<1>5. CASE PopBackBy
  <2>1. batch' \in Seq(Items) /\ queue' \in Seq(Items)
    BY <1>5, <1>t, PopParts
  <2>2. TypeOK'
    BY <1>5, <1>p, <1>t, <2>1 DEF PopBackBy, TypeOK
  <2> QED
    BY <1>5, <1>p, <1>t, <1>w, <1>b, <2>2 DEF PopBackBy, TaskInv
<1>6. ASSUME NEW c \in Callers, AcquireAndGo(c) PROVE TaskInv'
  <2>1. Working' = Working \cup {c} /\ c \notin Working
    BY <1>6, <1>t DEF AcquireAndGo, Working, TypeOK
  <2>2. Cardinality(Working') = Cardinality(Working) + 1
    BY <2>1, WorkingFinite, FS_AddElement
  <2>3. TypeOK'
    <3>1. Concurrent \in Nat
      BY PoolAssumption DEF Concurrent
    <3>2. sema \in 0 .. Concurrent /\ sema < Concurrent /\ sema' = sema + 1
      BY <1>6, <1>t DEF AcquireAndGo, TypeOK
    <3>3. sema' \in 0 .. Concurrent
      BY <3>1, <3>2
    <3>4. /\ job' \in [Callers -> Seq(Items)] /\ tries' \in [Callers -> 0 .. MaxTry]
          /\ batch' \in Seq(Items)
      BY <1>6, <1>t, EmptySeq, ForwardAssumption DEF AcquireAndGo, TypeOK
    <3> QED
      BY <1>6, <1>p, <1>t, <3>3, <3>4 DEF AcquireAndGo, TypeOK
  <2>4. Busy' = Busy /\ \A d \in Busy' : tries'[d] > 0
    <3>1. Busy' = Busy /\ c \notin Busy
      BY <1>6, <1>b, <1>t, <2>1 DEF AcquireAndGo
    <3> QED
      BY <1>6, <1>t, <3>1 DEF AcquireAndGo, TypeOK, Busy
  <2>5. sema' = sema + 1
    BY <1>6 DEF AcquireAndGo
  <2> QED
    BY <1>6, <1>p, <1>t, <2>1, <2>2, <2>3, <2>4, <2>5 DEF AcquireAndGo, TaskInv
<1>7. ASSUME NEW c \in Callers, CallBegin(c) PROVE TaskInv'
  <2>1. TypeOK'
    BY <1>7, <1>p, <1>t DEF CallBegin, TypeOK
  <2>2. Busy' \subseteq Busy \cup {c}
    BY <1>7, <1>t DEF CallBegin, Fetch, fetchFree, fetchOverMax, newConn,
       newConnFails, Busy, PoolTypeOK
  <2>3. Working' = Working /\ c \in Working
    BY <1>7 DEF CallBegin, Working
  <2>4. \A d \in Busy' : tries'[d] > 0
    BY <1>7, <1>t, <2>2 DEF CallBegin, TypeOK, Busy
  <2> QED
    BY <1>7, <1>p, <1>t, <2>1, <2>2, <2>3, <2>4 DEF CallBegin, TaskInv
<1>8. ASSUME NEW c \in Callers, Serve(c) PROVE TaskInv'
  <2>1. recv' \in [Items -> Nat]
    BY <1>8, <1>t DEF Serve, Received, TypeOK
  <2>2. TypeOK'
    BY <1>8, <1>p, <1>t, <2>1 DEF Serve, TypeOK
  <2> QED
    BY <1>8, <1>p, <1>t, <1>w, <1>b, <2>2 DEF Serve, TaskInv
<1>h. ASSUME NEW c \in Callers, held' = [held EXCEPT ![c] = NoConn]
      PROVE  Busy' \subseteq Busy
  BY <1>h, <1>t DEF Busy, PoolTypeOK
<1>9. ASSUME NEW c \in Callers, CallReturnsOk(c) \/ CallReturnsErr(c) PROVE TaskInv'
  <2>1. TypeOK'
    BY <1>9, <1>p, <1>t DEF CallReturnsOk, CallReturnsErr, TypeOK
  <2>2. Busy' \subseteq Busy
    BY <1>9, <1>h DEF CallReturnsOk, CallReturnsErr, CallDone, CallFailed
  <2> QED
    BY <1>9, <1>p, <1>t, <1>w, <2>1, <2>2 DEF CallReturnsOk, CallReturnsErr, TaskInv
<1>10. ASSUME NEW c \in Callers, CallTimesOut(c) PROVE TaskInv'
  <2>1. held[c] # NoConn /\ Busy' \subseteq Busy
    BY <1>10, <1>h DEF CallTimesOut, CallFailed
  <2>2. late' \in SUBSET (Seq(Items) \X (1 .. MaxTry))
    <3>1. job[c] \in Seq(Items) /\ tries[c] \in 1 .. MaxTry
      BY <1>t, <2>1 DEF TypeOK, Busy
    <3> QED
      BY <1>10, <1>t, <3>1 DEF CallTimesOut, TypeOK
  <2> QED
    BY <1>10, <1>p, <1>t, <1>w, <2>1, <2>2 DEF CallTimesOut, TaskInv, TypeOK
<1>11. ASSUME NEW c \in Callers, Finish(c) PROVE TaskInv'
  <2>1. Working' = Working \ {c} /\ c \in Working
    BY <1>11, <1>t DEF Finish, Working, TypeOK
  <2>2. Cardinality(Working') = Cardinality(Working) - 1 /\ Cardinality(Working) > 0
    <3>1. Cardinality(Working) # 0 /\ Cardinality(Working) \in Nat
      BY <2>1, WorkingFinite
    <3>2. Cardinality(Working \ {c}) = Cardinality(Working) - 1
      BY <2>1, WorkingFinite, FS_RemoveElement
    <3> QED
      BY <2>1, <3>1, <3>2
  <2>3. Busy' = Busy /\ c \notin Busy
    BY <1>11, <1>b DEF Finish, Busy
  <2>4. Range(job[c]) \subseteq Items
    BY <1>t DEF TypeOK, Range
  <2>5. sema' = sema - 1 /\ sema' \in 0 .. Concurrent
    BY <1>11, <1>t, <2>2, WorkingFinite DEF Finish, TypeOK, Concurrent
  <2>6. sent' \in SUBSET Items /\ failed' \in SUBSET Items
    BY <1>11, <1>t, <2>4 DEF Finish, TypeOK
  <2>7. TypeOK'
    BY <1>11, <1>p, <1>t, <2>5, <2>6, EmptySeq DEF Finish, TypeOK
  <2> QED
    BY <1>11, <1>p, <1>t, <2>1, <2>2, <2>3, <2>5, <2>7 DEF Finish, TaskInv
<1>12. ASSUME NEW req \in late, ServeLate(req) PROVE TaskInv'
  <2>1. recv' \in [Items -> Nat]
    BY <1>12, <1>t DEF ServeLate, Received, TypeOK
  <2>2. TypeOK'
    BY <1>12, <1>p, <1>t, <2>1 DEF ServeLate, TypeOK
  <2> QED
    BY <1>12, <1>p, <1>t, <1>w, <1>b, <2>2 DEF ServeLate, TaskInv
<1>13. CASE Quiescent
  BY <1>1, <1>13 DEF Quiescent
<1> QED
  BY <1>1, <1>2, <1>3, <1>4, <1>5, <1>6, <1>7, <1>8, <1>9, <1>10, <1>11, <1>12, <1>13
     DEF Next, Producer, CallReturns

\* The invariant of the first layer holds throughout.
LEMMA TaskInvAlways == Spec => []TaskInv
BY TaskInvInit, TaskInvStep, PTL DEF Spec

\* The pool's guarantees hold inside transfer: no connection is leaked or
\* shared and the limits hold while batches are sent, retried and given up
\* (SafeRpcConnPools.Call, forward2JudgeTask).
THEOREM TransferPoolSafe ==
    Spec => [](TypeOK /\ PoolAccounting /\ ConnExclusive /\ PoolBounded)
<1>1. TaskInv => TypeOK /\ PoolAccounting /\ ConnExclusive /\ PoolBounded
  BY DEF TaskInv, PoolInv
<1> QED
  BY <1>1, TaskInvAlways, PTL

-----------------------------------------------------------------------------
(* The queue's limit.                                                      *)

\* The producers between the check and the push are finitely many.
LEMMA CheckedFinite ==
    ASSUME TypeOK
    PROVE  /\ IsFiniteSet(checked)
           /\ Cardinality(checked) \in Nat /\ Cardinality(Producers) \in Nat
           /\ Cardinality(checked) <= Cardinality(Producers)
BY FS_Subset, FS_CardinalityType DEF TypeOK

\* Each push uses up one length check that found room.
LEMMA OvershootStep == TaskInv /\ QueueOvershoot /\ [Next]_vars => QueueOvershoot'
<1> SUFFICES ASSUME TaskInv, QueueOvershoot, [Next]_vars PROVE QueueOvershoot'
  OBVIOUS
<1> USE DEF queueVars, taskVars, workVars, netVars, statVars
<1>t. TypeOK /\ TypeOK' /\ \A p \in checked : todo[p] <= MaxItems
  BY TaskInvStep DEF TaskInv
<1>n. /\ Len(queue) \in Nat /\ Cardinality(checked) \in Nat
      /\ Cardinality(Producers) \in Nat /\ IsFiniteSet(checked)
      /\ Len(queue) + Cardinality(checked) < MaxSize + Cardinality(Producers)
  BY <1>t, CheckedFinite, LenProperties DEF QueueOvershoot, TypeOK
<1>u. ASSUME UNCHANGED <<queue, checked>> PROVE QueueOvershoot'
  BY <1>n, <1>u DEF QueueOvershoot
<1>1. ASSUME NEW p \in Producers, PushFrontCheck(p) PROVE QueueOvershoot'
  <2>1. Len(queue') < MaxSize /\ Len(queue') \in Nat
    BY <1>1, <1>n DEF PushFrontCheck
  <2>2. Cardinality(checked') \in Nat /\ Cardinality(checked') <= Cardinality(Producers)
    BY <1>t, FS_Subset, FS_CardinalityType DEF TypeOK
  <2> QED
    BY <1>n, <2>1, <2>2 DEF QueueOvershoot
<1>2. ASSUME NEW p \in Producers, PushFront(p) PROVE QueueOvershoot'
  <2>1. Len(queue') = Len(queue) + 1
    BY <1>2, <1>t, PushParts DEF PushFront
  <2>2. checked' = checked \ {p} /\ p \in checked
    BY <1>2 DEF PushFront
  <2>3. Cardinality(checked') = Cardinality(checked) - 1
    BY <1>n, <2>2, FS_RemoveElement
  <2> QED
    BY <1>n, <2>1, <2>3 DEF QueueOvershoot
<1>3. CASE PopBackBy
  <2>1. PICK n \in 1 .. Len(queue) : Len(queue') = Len(queue) - n
    BY <1>3, <1>t, PopParts
  <2>2. checked' = checked
    BY <1>3 DEF PopBackBy
  <2> QED
    BY <1>n, <2>1, <2>2 DEF QueueOvershoot
<1> QED
  BY <1>1, <1>2, <1>3, <1>u DEF Next, Producer, PushFrontFull, AcquireAndGo,
     CallBegin, Serve, CallReturns, CallReturnsOk, CallReturnsErr, CallTimesOut,
     Finish, ServeLate, Quiescent, vars

\* For every queue size and any number of concurrent pushers, the queue passes
\* its limit by no more than the pushers between the length check and the
\* push (SafeListLimited.PushFront).
THEOREM QueueNearLimit == Spec => []QueueOvershoot
<1>1. Init => QueueOvershoot
  <2>1. Cardinality(Producers) \in Nat
    BY FS_CardinalityType
  <2> QED
    BY <2>1, FS_EmptySet DEF Init, QueueOvershoot
<1> QED
  BY <1>1, TaskInvAlways, OvershootStep, PTL DEF Spec

-----------------------------------------------------------------------------
(* The semaphore and the pool.                                             *)

\* A goroutine that is about to fetch has a permit and no connection, so the
\* others hold fewer connections than the pool may open.
LEMMA RoomForCall ==
    ASSUME TaskInv, NEW c \in Callers, job[c] # <<>>, held[c] = NoConn
    PROVE  ~ (free = <<>> /\ overMax)
<1> USE DEF TaskInv
<1>1. Busy \subseteq Working \ {c} /\ c \in Working
  BY DEF Busy, Working
<1>2. IsFiniteSet(Working \ {c}) /\ Cardinality(Working \ {c}) = Cardinality(Working) - 1
  BY <1>1, WorkingFinite, FS_RemoveElement
<1>3. Cardinality(Busy) <= Cardinality(Working \ {c})
  BY <1>1, <1>2, FS_Subset
<1>4. Cardinality(Busy) \in Nat /\ (free = <<>> => Cardinality(Busy) = active)
  BY BusyCount
<1>5. Cardinality(Working) <= MaxConns
  BY DEF TypeOK, Concurrent
<1> QED
  BY <1>2, <1>3, <1>4, <1>5, WorkingFinite DEF overMax

\* For all sizes of the pool, a batch never spends one of its tries on
\* ErrMaxConn: the semaphore of the task admits no more goroutines than the
\* pool has connections, and none of them keeps one beyond its call
\* (startSendTasks, SafeRpcConnPools.Call).
THEOREM TriesNeverRefused == Spec => []NeverErrMaxConn
<1>1. Init => NeverErrMaxConn
  BY DEF Init, NewConnPool, NeverErrMaxConn
<1>2. TaskInv /\ NeverErrMaxConn /\ [Next]_vars => NeverErrMaxConn'
  <2> SUFFICES ASSUME TaskInv, NeverErrMaxConn, [Next]_vars PROVE NeverErrMaxConn'
    OBVIOUS
  <2>t. result \in [Callers -> Results]
    BY DEF TaskInv, TypeOK, PoolTypeOK
  <2>u. ASSUME UNCHANGED result PROVE NeverErrMaxConn'
    BY <2>u DEF NeverErrMaxConn
  <2>s. ASSUME NEW c \in Callers, NEW r \in {"ok", "ErrCall", "ErrTimeout", "ErrDial"},
               result' = [result EXCEPT ![c] = r]
        PROVE  NeverErrMaxConn'
    BY <2>s, <2>t DEF NeverErrMaxConn
  <2>1. ASSUME NEW c \in Callers, CallBegin(c) PROVE NeverErrMaxConn'
    <3>1. ~ fetchOverMax(c)
      BY <2>1, RoomForCall DEF CallBegin, fetchOverMax
    <3> QED
      BY <2>1, <2>s, <2>u, <3>1 DEF CallBegin, Fetch, fetchFree, newConn, newConnFails
  <2>2. ASSUME NEW c \in Callers, CallReturns(c) PROVE NeverErrMaxConn'
    BY <2>2, <2>s DEF CallReturns, CallReturnsOk, CallReturnsErr, CallTimesOut,
       CallDone, CallFailed
  <2> QED
    BY <2>1, <2>2, <2>u DEF Next, Producer, PushFrontFull, PushFrontCheck, PushFront,
       PopBackBy, AcquireAndGo, Serve, Finish, ServeLate, Quiescent, vars, poolVars
<1> QED
  BY <1>1, <1>2, TaskInvAlways, PTL DEF Spec

-----------------------------------------------------------------------------
(* Where an item is.                                                       *)

Once(s) == \A j, k \in 1 .. Len(s) : s[j] = s[k] => j = k

Queued     == Range(queue)
Popped     == Range(batch)
Sending(c) == Range(job[c])
Settled    == sent \cup failed \cup dropped

PlaceInv ==
    /\ Once(queue) /\ Once(batch)
    /\ \A c \in Callers : Once(job[c])
    /\ Queued \cap Popped = {}
    /\ \A c \in Callers : Sending(c) \cap (Queued \cup Popped) = {}
    /\ \A c, d \in Callers : c # d => Sending(c) \cap Sending(d) = {}
    /\ Settled \cap (Queued \cup Popped) = {}
    /\ \A c \in Callers : Settled \cap Sending(c) = {}
    /\ sent \cap failed = {} /\ sent \cap dropped = {} /\ failed \cap dropped = {}
    /\ \A i \in Items : i \in Offered <=> \/ i \in Queued \/ i \in Popped \/ i \in Settled
                                        \/ \E c \in Callers : i \in Sending(c)

\* What a sequence holds.
LEMMA RangeEntries ==
    ASSUME NEW S, NEW s \in Seq(S)
    PROVE  /\ Len(s) \in Nat /\ DOMAIN s = 1 .. Len(s)
           /\ \A x : x \in Range(s) <=> \E k \in 1 .. Len(s) : s[k] = x
           /\ Range(s) = {} <=> s = <<>>
           /\ Range(s) \subseteq S
<1>1. Len(s) \in Nat /\ DOMAIN s = 1 .. Len(s) /\ (Len(s) = 0 <=> s = <<>>)
  BY EmptySeq, LenProperties
<1>2. \A x : x \in Range(s) <=> \E k \in 1 .. Len(s) : s[k] = x
  BY <1>1 DEF Range
<1>3. Range(s) = {} <=> s = <<>>
  <2>1. ASSUME s # <<>> PROVE s[1] \in Range(s)
    <3>1. 1 \in 1 .. Len(s)
      BY <1>1, <2>1
    <3> QED
      BY <1>2, <3>1
  <2>2. ASSUME s = <<>> PROVE \A x : x \notin Range(s)
    <3>1. 1 .. Len(s) = {}
      BY <1>1, <2>2
    <3> QED
      BY <1>2, <3>1
  <2> QED
    BY <2>1, <2>2
<1>4. Range(s) \subseteq S
  BY <1>2, ElementOfSeq
<1> QED
  BY <1>1, <1>2, <1>3, <1>4

\* The item a producer offers next has not been offered.
LEMMA OfferedNext ==
    ASSUME TypeOK, NEW p \in Producers, todo[p] <= MaxItems,
           todo' = [todo EXCEPT ![p] = @ + 1]
    PROVE  Offered' = Offered \cup {Item(p)} /\ Item(p) \notin Offered
<1>1. Item(p) \in Items /\ Item(p)[1] = p /\ Item(p)[2] = todo[p]
  BY PushParts DEF Item
<1>2. \A q \in Producers : todo[q] \in Nat
  BY DEF TypeOK
<1>3. \A q \in Producers : todo'[q] = IF q = p THEN todo[p] + 1 ELSE todo[q]
  BY DEF TypeOK
<1>4. ASSUME NEW i \in Items
      PROVE  /\ i[1] \in Producers /\ i[2] \in Nat
             /\ i = Item(p) <=> i[1] = p /\ i[2] = todo[p]
  BY DEF Items, Item
<1>5. ASSUME NEW i \in Items
      PROVE  i[2] < todo'[i[1]] <=> i[2] < todo[i[1]] \/ i = Item(p)
  BY <1>2, <1>3, <1>4
<1> QED
  BY <1>1, <1>2, <1>5 DEF Offered

\* Every step moves items from one place to the next, whole batches at a time.
LEMMA PlaceInvStep == TaskInv /\ PlaceInv /\ [Next]_vars => PlaceInv'
<1> SUFFICES ASSUME TaskInv, PlaceInv, [Next]_vars PROVE PlaceInv'
  OBVIOUS
<1>t. /\ TypeOK /\ TypeOK'
      /\ \A p \in checked : todo[p] <= MaxItems
  BY TaskInvStep DEF TaskInv
<1>s. /\ queue \in Seq(Items) /\ queue' \in Seq(Items)
      /\ batch \in Seq(Items) /\ batch' \in Seq(Items)
      /\ \A c \in Callers : job[c] \in Seq(Items)
  BY <1>t DEF TypeOK
<1> USE DEF queueVars, taskVars, workVars, netVars, statVars
<1>u. ASSUME UNCHANGED <<todo, queue, batch, job, sent, failed, dropped>> PROVE PlaceInv'
  <2>1. /\ Queued' = Queued /\ Popped' = Popped /\ Settled' = Settled /\ Offered' = Offered
        /\ \A c \in Callers : Sending(c)' = Sending(c)
    BY <1>u DEF Queued, Popped, Settled, Offered, Sending
  <2> QED
    BY <1>u, <2>1 DEF PlaceInv, Once
<1>1. ASSUME NEW p \in Producers, PushFrontFull(p) PROVE PlaceInv'
  <2>1. Offered' = Offered \cup {Item(p)} /\ Item(p) \notin Offered
    BY <1>1, <1>t, OfferedNext DEF PushFrontFull
  <2>i. Item(p) \in Items
    BY <1>1, <1>t, PushParts DEF PushFrontFull
  <2>2. /\ Queued' = Queued /\ Popped' = Popped /\ Settled' = Settled \cup {Item(p)}
        /\ \A c \in Callers : Sending(c)' = Sending(c)
        /\ dropped' = dropped \cup {Item(p)} /\ sent' = sent /\ failed' = failed
        /\ queue' = queue /\ batch' = batch /\ job' = job
    BY <1>1 DEF PushFrontFull, Queued, Popped, Settled, Sending
  <2>3. /\ Item(p) \notin Queued /\ Item(p) \notin Popped /\ Item(p) \notin Settled
        /\ \A c \in Callers : Item(p) \notin Sending(c)
    BY <2>1, <2>i DEF PlaceInv
  <2>4. Item(p) \notin sent /\ Item(p) \notin failed
    BY <2>3 DEF Settled
  <2>5. Once(queue') /\ Once(batch') /\ \A c \in Callers : Once(job'[c])
    BY <2>2 DEF PlaceInv
  <2> QED
    BY <2>1, <2>2, <2>3, <2>4, <2>5 DEF PlaceInv, Once
<1>2. ASSUME NEW p \in Producers, PushFront(p) PROVE PlaceInv'
  <2>0. todo[p] <= MaxItems
    BY <1>2, <1>t DEF PushFront
  <2>1. Offered' = Offered \cup {Item(p)} /\ Item(p) \notin Offered
    BY <1>2, <1>t, <2>0, OfferedNext DEF PushFront
  <2>i. Item(p) \in Items
    BY <1>t, <2>0, PushParts
  <2>2. /\ Len(queue') = Len(queue) + 1 /\ Len(queue) \in Nat
        /\ \A k \in 1 .. Len(queue) : queue'[k] = queue[k]
        /\ queue'[Len(queue) + 1] = Item(p)
    BY <1>2, <1>t, <1>s, <2>0, PushParts, RangeEntries DEF PushFront
  <2>3. ASSUME NEW x PROVE x \in Queued' <=> x \in Queued \/ x = Item(p)
    <3>1. 1 .. Len(queue') = 1 .. Len(queue) \cup {Len(queue) + 1}
      BY <2>2
    <3>2. /\ x \in Queued <=> \E k \in 1 .. Len(queue) : queue[k] = x
          /\ x \in Queued' <=> \E k \in 1 .. Len(queue') : queue'[k] = x
      BY <1>s, RangeEntries DEF Queued
    <3> QED
      BY <2>2, <3>1, <3>2
  <2>4. /\ Popped' = Popped /\ Settled' = Settled
        /\ \A c \in Callers : Sending(c)' = Sending(c)
        /\ batch' = batch /\ job' = job
        /\ sent' = sent /\ failed' = failed /\ dropped' = dropped
    BY <1>2 DEF PushFront, Popped, Settled, Sending
  <2>5. /\ Item(p) \notin Queued /\ Item(p) \notin Popped /\ Item(p) \notin Settled
        /\ \A c \in Callers : Item(p) \notin Sending(c)
    BY <2>1, <2>i DEF PlaceInv
  <2>6. Once(queue')
    <3> SUFFICES ASSUME NEW j \in 1 .. Len(queue'), NEW k \in 1 .. Len(queue'),
                        queue'[j] = queue'[k]
                 PROVE  j = k
      BY DEF Once
    <3>1. \A n \in 1 .. Len(queue) : queue[n] # Item(p)
      BY <1>s, <2>5, RangeEntries DEF Queued
    <3>2. /\ j \in 1 .. Len(queue) \/ j = Len(queue) + 1
          /\ k \in 1 .. Len(queue) \/ k = Len(queue) + 1
      BY <2>2
    <3> QED
      BY <2>2, <3>1, <3>2 DEF PlaceInv, Once
  <2>7. Queued' = Queued \cup {Item(p)}
    BY <2>3
  <2>8. Once(batch') /\ \A c \in Callers : Once(job'[c])
    BY <2>4 DEF PlaceInv
  <2> QED
    BY <2>1, <2>4, <2>5, <2>6, <2>7, <2>8 DEF PlaceInv, Once
<1>3. CASE PopBackBy
  <2>1. PICK n \in 1 .. Len(queue) :
              /\ Len(batch') = n /\ Len(queue') = Len(queue) - n
              /\ \A k \in 1 .. n : batch'[k] = queue[k]
              /\ \A k \in 1 .. Len(queue) - n : queue'[k] = queue[n + k]
    BY <1>3, <1>t, PopParts
  <2>2. Len(queue) \in Nat /\ n \in Nat
    BY <1>s, RangeEntries
  <2>3. Once(queue)
    BY DEF PlaceInv
  <2>4. Once(batch') /\ Once(queue')
    <3>1. \A k \in 1 .. n : k \in 1 .. Len(queue)
      BY <2>2
    <3>2. \A k \in 1 .. Len(queue) - n : n + k \in 1 .. Len(queue)
      BY <2>2
    <3>4. Once(batch')
      BY <2>1, <2>3, <3>1 DEF Once
    <3>5. ASSUME NEW j \in 1 .. Len(queue) - n, NEW k \in 1 .. Len(queue) - n,
                 queue'[j] = queue'[k]
          PROVE  j = k
      <4>1. queue[n + j] = queue[n + k]
        BY <2>1, <3>5
      <4>2. n + j = n + k
        BY <2>3, <3>2, <4>1 DEF Once
      <4> QED
        BY <2>2, <4>2
    <3>6. Once(queue')
      BY <2>1, <3>5 DEF Once
    <3> QED
      BY <3>4, <3>6
  <2>5. ASSUME NEW x PROVE x \in Queued <=> x \in Queued' \/ x \in Popped'
    <3>1. /\ x \in Queued <=> \E k \in 1 .. Len(queue) : queue[k] = x
          /\ x \in Queued' <=> \E k \in 1 .. Len(queue) - n : queue'[k] = x
          /\ x \in Popped' <=> \E k \in 1 .. n : batch'[k] = x
      BY <1>s, <2>1, RangeEntries DEF Queued, Popped
    <3>2. \A k \in 1 .. Len(queue) :
             k \in 1 .. n \/ (k - n \in 1 .. Len(queue) - n /\ n + (k - n) = k)
      BY <2>2
    <3>3. /\ \A k \in 1 .. n : k \in 1 .. Len(queue)
          /\ \A k \in 1 .. Len(queue) - n : n + k \in 1 .. Len(queue)
      BY <2>2
    <3>4. ASSUME NEW k \in 1 .. Len(queue), queue[k] = x
          PROVE  x \in Queued' \/ x \in Popped'
      <4>1. CASE k \in 1 .. n
        BY <2>1, <3>1, <3>4, <4>1
      <4>2. CASE k - n \in 1 .. Len(queue) - n /\ n + (k - n) = k
        <5>1. queue'[k - n] = x
          BY <2>1, <3>4, <4>2
        <5> QED
          BY <3>1, <4>2, <5>1
      <4> QED
        BY <3>2, <4>1, <4>2
    <3>5. ASSUME x \in Queued' \/ x \in Popped' PROVE x \in Queued
      BY <2>1, <3>1, <3>3, <3>5
    <3> QED
      BY <3>1, <3>4, <3>5
  <2>6. Queued' \cap Popped' = {}
    <3> SUFFICES ASSUME NEW x, x \in Queued', x \in Popped' PROVE FALSE
      OBVIOUS
    <3>a. PICK j \in 1 .. Len(queue) - n : queue'[j] = x
      BY <1>s, <2>1, RangeEntries DEF Queued
    <3>b. PICK k \in 1 .. n : batch'[k] = x
      BY <1>s, <2>1, RangeEntries DEF Popped
    <3>1. n + j \in 1 .. Len(queue) /\ k \in 1 .. Len(queue) /\ n + j # k
      BY <2>2
    <3>2. queue[n + j] = queue[k]
      BY <2>1, <3>a, <3>b
    <3> QED
      BY <2>3, <3>1, <3>2 DEF Once
  <2>7. /\ Settled' = Settled /\ Offered' = Offered /\ Popped = {}
        /\ \A c \in Callers : Sending(c)' = Sending(c)
        /\ job' = job /\ sent' = sent /\ failed' = failed /\ dropped' = dropped
    BY <1>3, <1>s, RangeEntries DEF PopBackBy, Popped, Settled, Offered, Sending
  <2>8. Queued = Queued' \cup Popped'
    BY <2>5
  <2>9. \A c \in Callers : Once(job'[c])
    BY <2>7 DEF PlaceInv
  <2> QED
    BY <2>4, <2>6, <2>7, <2>8, <2>9 DEF PlaceInv, Once
<1>4. ASSUME NEW c \in Callers, AcquireAndGo(c) PROVE PlaceInv'
  <2>1. /\ job' = [job EXCEPT ![c] = batch] /\ batch' = <<>> /\ job[c] = <<>>
        /\ queue' = queue /\ sent' = sent /\ failed' = failed /\ dropped' = dropped
        /\ todo' = todo
    BY <1>4 DEF AcquireAndGo
  <2>2. \A d \in Callers : job'[d] = IF d = c THEN batch ELSE job[d]
    BY <1>t, <2>1 DEF TypeOK
  <2>3. /\ Sending(c) = {} /\ Sending(c)' = Popped /\ Popped' = {}
        /\ \A d \in Callers : d # c => Sending(d)' = Sending(d)
    BY <1>s, <2>1, <2>2, RangeEntries DEF Sending, Popped
  <2>4. Queued' = Queued /\ Settled' = Settled /\ Offered' = Offered
    BY <2>1 DEF Queued, Settled, Offered
  <2>5. Once(queue') /\ Once(batch') /\ \A d \in Callers : Once(job'[d])
    BY <2>1, <2>2 DEF PlaceInv, Once
  <2>6. \A d \in Callers : Sending(d)' = IF d = c THEN Popped ELSE Sending(d)
    BY <2>3
  <2>7. \A d, e \in Callers : d # e => Sending(d)' \cap Sending(e)' = {}
    BY <2>6 DEF PlaceInv
  <2>8. \A i : (\E d \in Callers : i \in Sending(d)')
                 <=> i \in Popped \/ \E d \in Callers : i \in Sending(d)
    BY <2>3, <2>6
  <2> QED
    BY <2>1, <2>3, <2>4, <2>5, <2>6, <2>7, <2>8 DEF PlaceInv, Once
<1>5. ASSUME NEW c \in Callers, Finish(c) PROVE PlaceInv'
  <2>1. /\ job' = [job EXCEPT ![c] = <<>>]
        /\ queue' = queue /\ batch' = batch /\ dropped' = dropped /\ todo' = todo
        /\ \/ sent' = sent \cup Sending(c) /\ failed' = failed
           \/ failed' = failed \cup Sending(c) /\ sent' = sent
    BY <1>5 DEF Finish, Sending
  <2>2. \A d \in Callers : job'[d] = IF d = c THEN <<>> ELSE job[d]
    BY <1>t, <2>1 DEF TypeOK
  <2>3. \A d \in Callers : Sending(d)' = IF d = c THEN {} ELSE Sending(d)
    BY <1>s, <2>2, EmptySeq, RangeEntries DEF Sending
  <2>4. /\ Queued' = Queued /\ Popped' = Popped /\ Offered' = Offered
        /\ Settled' = Settled \cup Sending(c)
    BY <2>1 DEF Queued, Popped, Offered, Settled
  <2>5. Once(queue') /\ Once(batch') /\ \A d \in Callers : Once(job'[d])
    BY <2>1, <2>2 DEF PlaceInv, Once
  <2>6. /\ Sending(c) \cap sent = {} /\ Sending(c) \cap failed = {} /\ Sending(c) \cap dropped = {}
    BY DEF PlaceInv, Settled
  <2>7. sent' \cap failed' = {} /\ sent' \cap dropped' = {} /\ failed' \cap dropped' = {}
    BY <2>1, <2>6 DEF PlaceInv
  <2>8. \A i : (\E d \in Callers : i \in Sending(d))
                 <=> i \in Sending(c) \/ \E d \in Callers : i \in Sending(d)'
    BY <2>3
  <2>9. \A d, e \in Callers : d # e => Sending(d)' \cap Sending(e)' = {}
    BY <2>3 DEF PlaceInv
  <2>10. \A d \in Callers : /\ Sending(d)' \cap (Queued' \cup Popped') = {}
                            /\ Settled' \cap Sending(d)' = {}
    BY <2>3, <2>4 DEF PlaceInv
  <2>11. Settled' \cap (Queued' \cup Popped') = {}
    BY <2>4 DEF PlaceInv
  <2>12. \A i \in Items : i \in Offered' <=>
              \/ i \in Queued' \/ i \in Popped' \/ i \in Settled'
              \/ \E d \in Callers : i \in Sending(d)'
    BY <2>4, <2>8 DEF PlaceInv
  <2> QED
    BY <2>4, <2>5, <2>7, <2>9, <2>10, <2>11, <2>12 DEF PlaceInv, Once
<1> QED
  BY <1>1, <1>2, <1>3, <1>4, <1>5, <1>u DEF Next, Producer, PushFrontCheck,
     CallBegin, Serve, CallReturns, CallReturnsOk, CallReturnsErr, CallTimesOut,
     ServeLate, Quiescent, vars

\* Nothing is anywhere at first, and nothing has been offered.
LEMMA PlaceInvInit == Init => PlaceInv
<1> SUFFICES ASSUME Init PROVE PlaceInv
  OBVIOUS
<1>1. /\ Queued = {} /\ Popped = {} /\ Settled = {} /\ \A c \in Callers : Sending(c) = {}
  BY EmptySeq DEF Init, Queued, Popped, Settled, Sending, Range
<1>2. Offered = {}
  BY DEF Init, Offered, Items
<1>3. Once(queue) /\ Once(batch) /\ \A c \in Callers : Once(job[c])
  BY DEF Init, Once
<1> QED
  BY <1>1, <1>2, <1>3 DEF Init, PlaceInv

\* Every item is where it belongs throughout.
LEMMA PlaceInvAlways == Spec => []PlaceInv
BY PlaceInvInit, PlaceInvStep, TaskInvAlways, PTL DEF Spec

\* A sequence without repetitions holds an item at one position or at none.
LEMMA PositionsOnce ==
    ASSUME NEW s \in Seq(Items), Once(s), NEW i
    PROVE  /\ i \notin Range(s) => Positions(s, i) = {}
           /\ i \in Range(s) => \E k : Positions(s, i) = {k}
<1>1. /\ DOMAIN s = 1 .. Len(s)
      /\ i \in Range(s) <=> \E k \in 1 .. Len(s) : s[k] = i
  BY RangeEntries
<1>2. ASSUME NEW k \in 1 .. Len(s), s[k] = i PROVE Positions(s, i) = {k}
  BY <1>1, <1>2 DEF Once, Positions
<1> QED
  BY <1>1, <1>2 DEF Positions

\* An item in one place only has one place; one that was not offered, none.
LEMMA OnePlace ==
    ASSUME TaskInv, PlaceInv, NEW i \in Items
    PROVE  Cardinality(Places(i)) = IF i \in Offered THEN 1 ELSE 0
<1> DEFINE Q == {<<"queue", k>> : k \in Positions(queue, i)}
           B == {<<"batch", k>> : k \in Positions(batch, i)}
           J(c) == {<<"job", c, k>> : k \in Positions(job[c], i)}
           AllJ == UNION {J(c) : c \in Callers}
           C == Counted("sent", sent, i) \cup Counted("failed", failed, i)
                  \cup Counted("dropped", dropped, i)
<1>1. Places(i) = Q \cup B \cup AllJ \cup C
  BY DEF Places
<1>s. /\ queue \in Seq(Items) /\ batch \in Seq(Items)
      /\ \A c \in Callers : job[c] \in Seq(Items)
      /\ Once(queue) /\ Once(batch) /\ \A c \in Callers : Once(job[c])
  BY DEF TaskInv, TypeOK, PlaceInv
<1>2. (i \notin Queued => Q = {}) /\ (i \in Queued => \E w : Q = {w})
  <2>1. CASE i \notin Queued
    BY <1>s, <2>1, PositionsOnce DEF Queued
  <2>2. CASE i \in Queued
    <3>1. PICK k : Positions(queue, i) = {k}
      BY <1>s, <2>2, PositionsOnce DEF Queued
    <3>2. Q = {<<"queue", k>>}
      BY <3>1
    <3> QED
      BY <2>2, <3>2
  <2> QED
    BY <2>1, <2>2
<1>3. (i \notin Popped => B = {}) /\ (i \in Popped => \E w : B = {w})
  <2>1. CASE i \notin Popped
    BY <1>s, <2>1, PositionsOnce DEF Popped
  <2>2. CASE i \in Popped
    <3>1. PICK k : Positions(batch, i) = {k}
      BY <1>s, <2>2, PositionsOnce DEF Popped
    <3>2. B = {<<"batch", k>>}
      BY <3>1
    <3> QED
      BY <2>2, <3>2
  <2> QED
    BY <2>1, <2>2
<1>4. ASSUME NEW c \in Callers
      PROVE  (i \notin Sending(c) => J(c) = {}) /\ (i \in Sending(c) => \E w : J(c) = {w})
  <2>1. CASE i \notin Sending(c)
    BY <1>s, <2>1, PositionsOnce DEF Sending
  <2>2. CASE i \in Sending(c)
    <3>1. PICK k : Positions(job[c], i) = {k}
      BY <1>s, <2>2, PositionsOnce DEF Sending
    <3>2. J(c) = {<<"job", c, k>>}
      BY <3>1
    <3> QED
      BY <2>2, <3>2
  <2> QED
    BY <2>1, <2>2
<1>5. (i \notin Settled => C = {}) /\ (i \in Settled => \E w : C = {w})
  <2>1. /\ Counted("sent", sent, i) = IF i \in sent THEN {<<"sent">>} ELSE {}
        /\ Counted("failed", failed, i) = IF i \in failed THEN {<<"failed">>} ELSE {}
        /\ Counted("dropped", dropped, i) = IF i \in dropped THEN {<<"dropped">>} ELSE {}
    BY DEF Counted
  <2>2. /\ ~ (i \in sent /\ i \in failed) /\ ~ (i \in sent /\ i \in dropped)
        /\ ~ (i \in failed /\ i \in dropped)
    BY DEF PlaceInv
  <2>3. CASE i \in sent
    <3>1. C = {<<"sent">>}
      BY <2>1, <2>2, <2>3
    <3> QED
      BY <2>3, <3>1 DEF Settled
  <2>4. CASE i \in failed
    <3>1. C = {<<"failed">>}
      BY <2>1, <2>2, <2>4
    <3> QED
      BY <2>4, <3>1 DEF Settled
  <2>5. CASE i \in dropped
    <3>1. C = {<<"dropped">>}
      BY <2>1, <2>2, <2>5
    <3> QED
      BY <2>5, <3>1 DEF Settled
  <2>6. CASE i \notin Settled
    BY <2>1, <2>6 DEF Settled
  <2> QED
    BY <2>3, <2>4, <2>5, <2>6 DEF Settled
<1>6. (\A c \in Callers : i \notin Sending(c)) => AllJ = {}
  BY <1>4
<1>7. ASSUME NEW c \in Callers, i \in Sending(c) PROVE \E w : AllJ = {w}
  <2>1. \A d \in Callers : d # c => i \notin Sending(d)
    BY <1>7 DEF PlaceInv
  <2>2. AllJ = J(c)
    BY <1>4, <2>1
  <2> QED
    BY <1>4, <1>7, <2>2
<1> HIDE DEF Q, B, J, AllJ, C
<1>8. ASSUME i \in Offered PROVE \E w : Places(i) = {w}
  <2>0. \/ i \in Queued \/ i \in Popped \/ i \in Settled
        \/ \E c \in Callers : i \in Sending(c)
    BY <1>8 DEF PlaceInv
  <2>1. CASE i \in Queued
    <3>1. i \notin Popped /\ i \notin Settled /\ \A c \in Callers : i \notin Sending(c)
      BY <2>1 DEF PlaceInv
    <3> QED
      BY <1>1, <1>2, <1>3, <1>5, <1>6, <2>1, <3>1
  <2>2. CASE i \in Popped
    <3>1. i \notin Queued /\ i \notin Settled /\ \A c \in Callers : i \notin Sending(c)
      BY <2>2 DEF PlaceInv
    <3> QED
      BY <1>1, <1>2, <1>3, <1>5, <1>6, <2>2, <3>1
  <2>3. CASE i \in Settled
    <3>1. i \notin Queued /\ i \notin Popped /\ \A c \in Callers : i \notin Sending(c)
      BY <2>3 DEF PlaceInv
    <3> QED
      BY <1>1, <1>2, <1>3, <1>5, <1>6, <2>3, <3>1
  <2>4. ASSUME NEW c \in Callers, i \in Sending(c) PROVE \E w : Places(i) = {w}
    <3>1. i \notin Queued /\ i \notin Popped /\ i \notin Settled
      BY <2>4 DEF PlaceInv
    <3> QED
      BY <1>1, <1>2, <1>3, <1>5, <1>7, <2>4, <3>1
  <2> QED
    BY <2>0, <2>1, <2>2, <2>3, <2>4
<1>9. ASSUME i \notin Offered PROVE Places(i) = {}
  <2>1. /\ i \notin Queued /\ i \notin Popped /\ i \notin Settled
        /\ \A c \in Callers : i \notin Sending(c)
    BY <1>9 DEF PlaceInv
  <2> QED
    BY <1>1, <1>2, <1>3, <1>5, <1>6, <2>1
<1> QED
  BY <1>8, <1>9, FS_EmptySet, FS_Singleton

\* For every number of producers and goroutines, every queue, batch and pool
\* size: an item handed to a send queue is in exactly one place from then on,
\* never lost between the list, the popped batch, the goroutines and the
\* counters, and never sent by two goroutines (PushFront, PopBackBy,
\* forward2JudgeTask, forward2GraphTask).
THEOREM NothingEverVanishes == Spec => []NothingVanishes
<1>1. TaskInv /\ PlaceInv => NothingVanishes
  BY OnePlace DEF NothingVanishes
<1> QED
  BY <1>1, TaskInvAlways, PlaceInvAlways, PTL

-----------------------------------------------------------------------------
(* How often an item is delivered.                                         *)

\* Abandoned requests that hold the item, and all its deliveries so far and
\* to come from calls that are over.
LateOf(i) == {req \in late : Contains(req[1], i)}
Load(i)   == recv[i] + Cardinality(LateOf(i))

\* A call in progress that the backend has not seen is one more delivery.
Pending(c) == IF held[c] # NoConn /\ c \notin served THEN 1 ELSE 0

\* No goroutine has touched the item yet.
Fresh(i) == i \notin Settled /\ \A c \in Callers : i \notin Sending(c)

DeliveryInv ==
    /\ IsFiniteSet(late)
    /\ served \subseteq Busy
    /\ \A c \in Callers : \A i \in Sending(c) : Load(i) + Pending(c) <= tries[c]
    /\ \A i \in Items : Load(i) <= MaxTry
    /\ \A i \in Items : Fresh(i) => Load(i) = 0
    /\ \A c \in served : \A i \in Sending(c) : recv[i] > 0
    /\ \A c \in Callers : sendOk(c) /\ held[c] = NoConn
                             => \A i \in Sending(c) : recv[i] > 0
    /\ \A i \in sent : recv[i] > 0

\* Deliveries are numbers.
LEMMA LoadType ==
    ASSUME TypeOK, IsFiniteSet(late), NEW i \in Items
    PROVE  /\ IsFiniteSet(LateOf(i)) /\ Cardinality(LateOf(i)) \in Nat
           /\ recv[i] \in Nat /\ Load(i) \in Nat
<1>1. IsFiniteSet(LateOf(i))
  BY FS_Subset DEF LateOf
<1> QED
  BY <1>1, FS_CardinalityType DEF Load, TypeOK

\* Steps that move no request and end no call leave the deliveries alone.
LEMMA DeliveryQuiet ==
    ASSUME DeliveryInv, TypeOK,
           UNCHANGED <<late, recv, served, sent, held, result, tries>>,
           \A c \in Callers : Sending(c)' \subseteq Sending(c),
           \A i \in Items : Fresh(i)' => Fresh(i)
    PROVE  DeliveryInv'
<1>1. \A i \in Items : Load(i)' = Load(i)
  BY DEF Load, LateOf
<1>2. Busy' = Busy /\ \A c \in Callers : Pending(c)' = Pending(c) /\ sendOk(c)' = sendOk(c)
  BY DEF Busy, Pending, sendOk
<1>3. \A c \in Callers : Sending(c) \subseteq Items
  BY RangeEntries DEF TypeOK, Sending
<1> QED
  BY <1>1, <1>2, <1>3 DEF DeliveryInv, TypeOK

\* Every call that is made pays for one delivery, whenever the request
\* arrives: before the reply, after the caller gave up, or never.
LEMMA DeliveryInvStep ==
    TaskInv /\ PlaceInv /\ DeliveryInv /\ [Next]_vars => DeliveryInv'
<1> SUFFICES ASSUME TaskInv, PlaceInv, DeliveryInv, [Next]_vars PROVE DeliveryInv'
  OBVIOUS
<1>t. TypeOK /\ TypeOK' /\ PoolTypeOK /\ Busy \subseteq Working
  BY TaskInvStep DEF TaskInv, TypeOK
<1>i. /\ \A c \in Callers : Sending(c) \subseteq Items
      /\ \A c \in Callers : \A i : i \in Sending(c) <=> Contains(job[c], i)
      /\ \A c \in Callers : job[c] = <<>> <=> Sending(c) = {}
      /\ \A c, d \in Callers : c # d => Sending(c) \cap Sending(d) = {}
  <2>1. ASSUME NEW c \in Callers
        PROVE  /\ Sending(c) \subseteq Items
               /\ \A i : i \in Sending(c) <=> Contains(job[c], i)
               /\ job[c] = <<>> <=> Sending(c) = {}
    <3>1. job[c] \in Seq(Items)
      BY <1>t DEF TypeOK
    <3> QED
      BY <3>1, RangeEntries DEF Sending, Contains
  <2>2. \A c, d \in Callers : c # d => Sending(c) \cap Sending(d) = {}
    BY DEF PlaceInv
  <2> QED
    BY <2>1, <2>2
<1>l. \A i \in Items : /\ Load(i) \in Nat /\ recv[i] \in Nat
                       /\ IsFiniteSet(LateOf(i)) /\ Cardinality(LateOf(i)) \in Nat
                       /\ Load(i) = recv[i] + Cardinality(LateOf(i))
  BY <1>t, LoadType DEF DeliveryInv, Load
<1>p. \A c \in Callers : /\ Pending(c) \in {0, 1} /\ tries[c] \in 0 .. MaxTry
                         /\ Pending(c) = 1 <=> (c \in Busy /\ c \notin served)
  BY <1>t DEF Pending, TypeOK, Busy
<1>d. /\ IsFiniteSet(late)
      /\ served \subseteq Busy
      /\ \A c \in Callers : \A i \in Sending(c) : Load(i) + Pending(c) <= tries[c]
      /\ \A i \in Items : Load(i) <= MaxTry
      /\ \A i \in Items : Fresh(i) => Load(i) = 0
      /\ \A c \in served : \A i \in Sending(c) : recv[i] > 0
      /\ \A c \in Callers : sendOk(c) /\ held[c] = NoConn
                             => \A i \in Sending(c) : recv[i] > 0
      /\ \A i \in sent : recv[i] > 0
  BY DEF DeliveryInv
<1> USE DEF queueVars, taskVars, workVars, netVars, statVars
<1>1. ASSUME NEW p \in Producers, Producer(p) PROVE DeliveryInv'
  <2>1. /\ UNCHANGED <<late, recv, served, sent, held, result, tries>>
        /\ UNCHANGED <<job, failed>> /\ dropped \subseteq dropped'
    BY <1>1 DEF Producer, PushFrontFull, PushFrontCheck, PushFront, poolVars
  <2>2. \A c \in Callers : Sending(c)' = Sending(c)
    BY <2>1 DEF Sending
  <2>3. \A i \in Items : Fresh(i)' => Fresh(i)
    BY <2>1, <2>2 DEF Fresh, Settled
  <2> QED
    BY <1>t, <2>1, <2>2, <2>3, DeliveryQuiet
<1>2. CASE PopBackBy \/ Quiescent \/ UNCHANGED vars
  <2>1. /\ UNCHANGED <<late, recv, served, sent, held, result, tries>>
        /\ UNCHANGED <<job, failed, dropped>>
    BY <1>2 DEF PopBackBy, Quiescent, vars, poolVars
  <2>2. \A c \in Callers : Sending(c)' = Sending(c)
    BY <2>1 DEF Sending
  <2>3. \A i \in Items : Fresh(i)' => Fresh(i)
    BY <2>1, <2>2 DEF Fresh, Settled
  <2> QED
    BY <1>t, <2>1, <2>2, <2>3, DeliveryQuiet
<1>3. ASSUME NEW c \in Callers, AcquireAndGo(c) PROVE DeliveryInv'
  <2>1. /\ UNCHANGED <<late, recv, served, sent, held, result, failed, dropped>>
        /\ job' = [job EXCEPT ![c] = batch] /\ job[c] = <<>>
        /\ tries' = [tries EXCEPT ![c] = 0]
    BY <1>3 DEF AcquireAndGo, poolVars
  <2>2. \A d \in Callers : /\ d # c => Sending(d)' = Sending(d) /\ tries'[d] = tries[d]
                           /\ d = c => Sending(d)' = Popped /\ tries'[d] = 0
    BY <1>t, <2>1 DEF Sending, Popped, TypeOK
  <2>3. Sending(c) = {} /\ c \notin Busy
    BY <1>i, <1>t, <2>1 DEF Working
  <2>4. \A i \in Items : Load(i)' = Load(i)
    BY <2>1 DEF Load, LateOf
  <2>5. Busy' = Busy /\ \A d \in Callers : Pending(d)' = Pending(d)
    BY <2>1 DEF Busy, Pending
  <2>6. \A i \in Items : Fresh(i)' => Fresh(i)
    BY <2>1, <2>2, <2>3 DEF Fresh, Settled
  <2>7. \A i \in Popped : i \in Items /\ Fresh(i)
    <3>1. Popped \subseteq Items
      BY <1>t, RangeEntries DEF TypeOK, Popped
    <3> QED
      BY <3>1 DEF PlaceInv, Fresh
  <2>8. \A d \in Callers : \A i \in Sending(d)' : Load(i)' + Pending(d)' <= tries'[d]
    <3>1. Pending(c) = 0
      BY <1>p, <2>3
    <3>2. \A i \in Popped : Load(i) + Pending(c) <= 0
      BY <1>d, <2>7, <3>1
    <3> QED
      BY <1>d, <1>i, <2>2, <2>4, <2>5, <2>7, <3>2
  <2>9. \A d \in served' : \A i \in Sending(d)' : recv'[i] > 0
    BY <1>d, <2>1, <2>2, <2>3 DEF Busy
  <2>10. \A d \in Callers : sendOk(d)' /\ held'[d] = NoConn
                             => \A i \in Sending(d)' : recv'[i] > 0
    BY <1>d, <2>1, <2>2 DEF sendOk
  <2> QED
    BY <1>d, <2>1, <2>4, <2>5, <2>6, <2>8, <2>9, <2>10 DEF DeliveryInv
<1>4. ASSUME NEW c \in Callers, CallBegin(c) PROVE DeliveryInv'
  <2>1. /\ UNCHANGED <<late, recv, served, sent, failed, dropped, job>>
        /\ tries' = [tries EXCEPT ![c] = @ + 1] /\ held[c] = NoConn
        /\ \A d \in Callers : d # c => held'[d] = held[d] /\ result'[d] = result[d]
        /\ held'[c] = NoConn => result'[c] \in {"ErrMaxConn", "ErrDial"}
    <3>1. ASSUME fetchFree(c) \/ newConn(c)
          PROVE  /\ held'[c] # NoConn
                 /\ \A d \in Callers : d # c => held'[d] = held[d] /\ result'[d] = result[d]
      <4>1. CASE fetchFree(c)
        <5>1. Head(free) \in Conns
          BY <1>t, <4>1, HeadTailProperties DEF fetchFree, PoolTypeOK
        <5> QED
          BY <1>t, <4>1, <5>1 DEF fetchFree, PoolTypeOK, Conns, NoConn
      <4>2. CASE newConn(c)
        BY <1>t, <4>2 DEF newConn, PoolTypeOK, NoConn
      <4> QED
        BY <3>1, <4>1, <4>2
    <3>2. ASSUME fetchOverMax(c) \/ newConnFails(c)
          PROVE  /\ result'[c] \in {"ErrMaxConn", "ErrDial"}
                 /\ \A d \in Callers : d # c => held'[d] = held[d] /\ result'[d] = result[d]
      BY <1>t, <3>2 DEF fetchOverMax, newConnFails, PoolTypeOK
    <3> QED
      BY <1>4, <3>1, <3>2 DEF CallBegin, Fetch
  <2>2. \A d \in Callers : /\ Sending(d)' = Sending(d)
                           /\ tries'[d] = IF d = c THEN tries[c] + 1 ELSE tries[d]
    BY <1>t, <2>1 DEF Sending, TypeOK
  <2>3. \A i \in Items : Load(i)' = Load(i)
    BY <2>1 DEF Load, LateOf
  <2>4. \A i \in Items : Fresh(i)' => Fresh(i)
    BY <2>1, <2>2 DEF Fresh, Settled
  <2>5. served' \subseteq Busy' /\ c \notin served
    BY <1>d, <2>1 DEF Busy
  <2>6. Pending(c) = 0 /\ Pending(c)' \in {0, 1}
        /\ \A d \in Callers : d # c => Pending(d)' = Pending(d)
    BY <2>1 DEF Pending
  <2>7. \A d \in Callers : \A i \in Sending(d)' : Load(i)' + Pending(d)' <= tries'[d]
    <3> SUFFICES ASSUME NEW d \in Callers, NEW i \in Sending(d)
                 PROVE  Load(i)' + Pending(d)' <= tries'[d]
      BY <2>2
    <3>1. i \in Items /\ Load(i)' = Load(i) /\ Load(i) + Pending(d) <= tries[d]
      BY <1>i, <1>d, <2>3
    <3> QED
      BY <1>l, <1>p, <2>2, <2>6, <3>1
  <2>8. \A d \in Callers : sendOk(d)' /\ held'[d] = NoConn
                             => \A i \in Sending(d)' : recv'[i] > 0
    BY <1>d, <2>1, <2>2 DEF sendOk
  <2>9. \A d \in served' : \A i \in Sending(d)' : recv'[i] > 0
    BY <1>d, <2>1, <2>2 DEF Busy
  <2> QED
    BY <1>d, <2>1, <2>3, <2>4, <2>5, <2>7, <2>8, <2>9 DEF DeliveryInv
<1>5. ASSUME NEW c \in Callers, Serve(c) PROVE DeliveryInv'
  <2>1. /\ UNCHANGED <<late, sent, failed, dropped, job, held, result, tries>>
        /\ c \in Busy /\ c \notin served /\ served' = served \cup {c}
        /\ recv' = Received(job[c])
    BY <1>5 DEF Serve, poolVars, Busy
  <2>2. \A i \in Items : recv'[i] = recv[i] + (IF i \in Sending(c) THEN 1 ELSE 0)
    BY <1>i, <2>1 DEF Received
  <2>3. \A i \in Items : Load(i)' = Load(i) + (IF i \in Sending(c) THEN 1 ELSE 0)
    <3>1. \A i \in Items : LateOf(i)' = LateOf(i)
      BY <2>1 DEF LateOf
    <3> QED
      BY <1>l, <2>2, <3>1 DEF Load
  <2>4. \A d \in Callers : Sending(d)' = Sending(d) /\ tries'[d] = tries[d]
    BY <2>1 DEF Sending
  <2>5. \A i \in Items : Fresh(i)' => Fresh(i) /\ i \notin Sending(c)
    BY <2>1, <2>4 DEF Fresh, Settled
  <2>6. /\ Pending(c) = 1 /\ Pending(c)' = 0
        /\ \A d \in Callers : d # c => Pending(d)' = Pending(d)
    BY <2>1 DEF Pending, Busy
  <2>7. ASSUME NEW d \in Callers, NEW i \in Sending(d)
        PROVE  Load(i)' + Pending(d)' <= tries[d]
    <3>1. i \in Items /\ Load(i) + Pending(d) <= tries[d]
      BY <1>i, <1>d
    <3>2. CASE d = c
      BY <1>l, <2>3, <2>6, <2>7, <3>1, <3>2
    <3>3. CASE d # c
      <4>1. i \notin Sending(c)
        BY <1>i, <2>7, <3>3
      <4> QED
        BY <1>l, <2>3, <2>6, <3>1, <3>3, <4>1
    <3> QED
      BY <3>2, <3>3
  <2>8. ASSUME NEW i \in Items PROVE Load(i)' <= MaxTry
    <3>1. CASE i \in Sending(c)
      BY <1>l, <1>p, <2>3, <2>6, <2>7, <3>1
    <3>2. CASE i \notin Sending(c)
      BY <1>d, <1>l, <2>3, <3>2
    <3> QED
      BY <3>1, <3>2
  <2>9. \A i \in Items : Fresh(i)' => Load(i)' = 0
    BY <1>d, <1>l, <2>3, <2>5
  <2>10. /\ \A i \in Items : recv[i] > 0 => recv'[i] > 0
         /\ \A i \in Sending(c) : recv'[i] > 0
    BY <1>i, <1>l, <2>2
  <2>11. /\ \A d \in served' : \A i \in Sending(d)' : recv'[i] > 0
         /\ \A d \in Callers : sendOk(d)' /\ held'[d] = NoConn
                                 => \A i \in Sending(d)' : recv'[i] > 0
         /\ \A i \in sent' : recv'[i] > 0
    BY <1>d, <1>i, <1>t, <2>1, <2>4, <2>10 DEF sendOk, TypeOK
  <2>12. served' \subseteq Busy'
    BY <1>d, <2>1 DEF Busy
  <2> QED
    BY <1>d, <2>1, <2>4, <2>7, <2>8, <2>9, <2>11, <2>12 DEF DeliveryInv
<1>6. ASSUME NEW c \in Callers, CallReturns(c) PROVE DeliveryInv'
  <2>1. /\ UNCHANGED <<recv, sent, failed, dropped, job, tries>>
        /\ held[c] # NoConn /\ held' = [held EXCEPT ![c] = NoConn]
        /\ served' = served \ {c}
        /\ \E r \in {"ok", "ErrCall", "ErrTimeout"} :
              result' = [result EXCEPT ![c] = r] /\ (r = "ok" => c \in served)
        /\ late' = late \/ (c \notin served /\ late' = late \cup {<<job[c], tries[c]>>})
    BY <1>6 DEF CallReturns, CallReturnsOk, CallReturnsErr, CallTimesOut,
       CallDone, CallFailed
  <2>2. /\ held'[c] = NoConn /\ (result'[c] = "ok" => c \in served)
        /\ \A d \in Callers : d # c => held'[d] = held[d] /\ result'[d] = result[d]
    BY <1>t, <2>1 DEF PoolTypeOK
  <2>3. \A d \in Callers : Sending(d)' = Sending(d) /\ tries'[d] = tries[d]
    BY <2>1 DEF Sending
  <2>4. \A i \in Items : Fresh(i)' => Fresh(i)
    BY <2>1, <2>3 DEF Fresh, Settled
  <2>5. /\ Pending(c)' = 0 /\ (c \notin served => Pending(c) = 1)
        /\ \A d \in Callers : d # c => Pending(d)' = Pending(d)
    BY <2>1, <2>2 DEF Pending
  <2>6. IsFiniteSet(late')
    <3>1. IsFiniteSet(late \cup {<<job[c], tries[c]>>})
      BY <1>d, FS_AddElement
    <3> QED
      BY <1>d, <2>1, <3>1
  <2>7. ASSUME NEW i \in Items, i \notin Sending(c) PROVE Load(i)' = Load(i)
    <3>1. ~ Contains(<<job[c], tries[c]>>[1], i)
      BY <1>i, <2>7
    <3>2. LateOf(i)' = LateOf(i)
      BY <2>1, <3>1 DEF LateOf
    <3> QED
      BY <2>1, <3>2 DEF Load
  <2>8. ASSUME NEW i \in Sending(c) PROVE Load(i)' <= Load(i) + Pending(c) /\ Load(i)' \in Nat
    <3>0. i \in Items /\ Load(i)' \in Nat
      <4>1. i \in Items
        BY <1>i
      <4>2. IsFiniteSet(LateOf(i)')
        BY <2>6, FS_Subset DEF LateOf
      <4> QED
        BY <1>t, <4>1, <4>2, FS_CardinalityType DEF Load, TypeOK
    <3>1. CASE late' = late
      <4>1. Load(i)' = Load(i)
        BY <2>1, <3>1 DEF Load, LateOf
      <4> QED
        BY <1>l, <1>p, <3>0, <4>1
    <3>2. CASE c \notin served /\ late' = late \cup {<<job[c], tries[c]>>}
      <4> DEFINE req == <<job[c], tries[c]>>
      <4>1. LateOf(i)' \subseteq LateOf(i) \cup {req}
        BY <3>2 DEF LateOf
      <4>2. /\ IsFiniteSet(LateOf(i) \cup {req})
            /\ Cardinality(LateOf(i) \cup {req}) <= Cardinality(LateOf(i)) + 1
        <5>1. IsFiniteSet(LateOf(i)) /\ Cardinality(LateOf(i)) \in Nat
          BY <1>l, <3>0
        <5>2. /\ IsFiniteSet(LateOf(i) \cup {req})
              /\ \/ Cardinality(LateOf(i) \cup {req}) = Cardinality(LateOf(i))
                 \/ Cardinality(LateOf(i) \cup {req}) = Cardinality(LateOf(i)) + 1
          BY <5>1, FS_AddElement
        <5> QED
          BY <5>1, <5>2
      <4>3. /\ Cardinality(LateOf(i)') <= Cardinality(LateOf(i) \cup {req})
            /\ Cardinality(LateOf(i)') \in Nat /\ Cardinality(LateOf(i) \cup {req}) \in Nat
        BY <4>1, <4>2, FS_Subset, FS_CardinalityType
      <4>4. Cardinality(LateOf(i)') <= Cardinality(LateOf(i)) + 1
        BY <1>l, <3>0, <4>2, <4>3
      <4>5. Load(i)' = recv[i] + Cardinality(LateOf(i)')
        BY <2>1 DEF Load
      <4> QED
        BY <1>l, <2>5, <3>0, <3>2, <4>3, <4>4, <4>5
    <3> QED
      BY <2>1, <3>1, <3>2
  <2>9. ASSUME NEW d \in Callers, NEW i \in Sending(d)
        PROVE  Load(i)' + Pending(d)' <= tries[d]
    <3>1. i \in Items /\ Load(i) + Pending(d) <= tries[d]
      BY <1>i, <1>d
    <3>2. CASE d = c
      BY <1>l, <1>p, <2>5, <2>8, <2>9, <3>1, <3>2
    <3>3. CASE d # c
      BY <1>i, <2>5, <2>7, <2>9, <3>1, <3>3
    <3> QED
      BY <3>2, <3>3
  <2>10. ASSUME NEW i \in Items PROVE Load(i)' <= MaxTry
    <3>1. CASE i \in Sending(c)
      BY <1>p, <2>5, <2>8, <2>9, <3>1
    <3>2. CASE i \notin Sending(c)
      BY <1>d, <2>7, <3>2
    <3> QED
      BY <3>1, <3>2
  <2>11. \A i \in Items : Fresh(i)' => Load(i)' = 0
    BY <1>d, <2>4, <2>7 DEF Fresh
  <2>12. served' \subseteq Busy'
    BY <1>d, <2>1, <2>2 DEF Busy
  <2>13. \A d \in served' : \A i \in Sending(d)' : recv'[i] > 0
    BY <1>d, <1>t, <2>1, <2>3 DEF TypeOK
  <2>14. \A d \in Callers : sendOk(d)' /\ held'[d] = NoConn
                             => \A i \in Sending(d)' : recv'[i] > 0
    BY <1>d, <2>1, <2>2, <2>3 DEF sendOk
  <2>15. \A i \in sent' : recv'[i] > 0
    BY <1>d, <2>1
  <2> QED
    BY <2>1, <2>3, <2>6, <2>9, <2>10, <2>11, <2>12, <2>13, <2>14, <2>15 DEF DeliveryInv
<1>7. ASSUME NEW c \in Callers, Finish(c) PROVE DeliveryInv'
  <2>1. /\ UNCHANGED <<late, recv, served, held, result, tries, dropped>>
        /\ job' = [job EXCEPT ![c] = <<>>] /\ held[c] = NoConn
        /\ \/ sendOk(c) /\ sent' = sent \cup Sending(c) /\ failed' = failed
           \/ sent' = sent /\ failed' = failed \cup Sending(c)
    BY <1>7 DEF Finish, Sending, poolVars
  <2>2. \A d \in Callers : Sending(d)' = IF d = c THEN {} ELSE Sending(d)
    <3>1. \A d \in Callers : job'[d] = IF d = c THEN <<>> ELSE job[d]
      BY <1>t, <2>1 DEF TypeOK
    <3> QED
      BY <1>t, <3>1, RangeEntries, EmptySeq DEF Sending, TypeOK
  <2>3. \A i \in Items : Load(i)' = Load(i)
    BY <2>1 DEF Load, LateOf
  <2>4. Busy' = Busy /\ \A d \in Callers : Pending(d)' = Pending(d) /\ sendOk(d)' = sendOk(d)
    BY <2>1 DEF Busy, Pending, sendOk
  <2>5. \A i \in Items : Fresh(i)' => Fresh(i)
    BY <2>1, <2>2 DEF Fresh, Settled
  <2>6. \A i \in sent' : recv'[i] > 0
    BY <1>d, <2>1
  <2>7. \A d \in Callers : \A i \in Sending(d)' : Load(i)' + Pending(d)' <= tries'[d]
    BY <1>d, <1>i, <2>1, <2>2, <2>3, <2>4
  <2>8. /\ \A d \in served' : \A i \in Sending(d)' : recv'[i] > 0
        /\ \A d \in Callers : sendOk(d)' /\ held'[d] = NoConn
                                => \A i \in Sending(d)' : recv'[i] > 0
    BY <1>d, <1>t, <2>1, <2>2, <2>4 DEF TypeOK
  <2> QED
    BY <1>d, <2>1, <2>3, <2>4, <2>5, <2>6, <2>7, <2>8 DEF DeliveryInv
<1>8. ASSUME NEW req \in late, ServeLate(req) PROVE DeliveryInv'
  <2>1. /\ UNCHANGED <<served, sent, failed, dropped, job, held, result, tries>>
        /\ late' = late \ {req} /\ recv' = Received(req[1])
    BY <1>8 DEF ServeLate, poolVars
  <2>2. \A d \in Callers : Sending(d)' = Sending(d) /\ Pending(d)' = Pending(d)
    BY <2>1 DEF Sending, Pending
  <2>3. IsFiniteSet(late')
    BY <1>d, <2>1, FS_RemoveElement
  <2>4. ASSUME NEW i \in Items
        PROVE  Load(i)' = Load(i) /\ (recv[i] > 0 => recv'[i] > 0)
    <3>1. CASE Contains(req[1], i)
      <4>1. LateOf(i)' = LateOf(i) \ {req} /\ req \in LateOf(i)
        BY <2>1, <3>1 DEF LateOf
      <4>2. Cardinality(LateOf(i) \ {req}) = Cardinality(LateOf(i)) - 1
        BY <1>l, <4>1, FS_RemoveElement
      <4>3. recv'[i] = recv[i] + 1
        BY <2>1, <3>1 DEF Received
      <4>4. Load(i)' = (recv[i] + 1) + (Cardinality(LateOf(i)) - 1)
        BY <4>1, <4>2, <4>3 DEF Load
      <4> QED
        BY <1>l, <4>3, <4>4
    <3>2. CASE ~ Contains(req[1], i)
      <4>1. LateOf(i)' = LateOf(i)
        BY <2>1, <3>2 DEF LateOf
      <4>2. recv'[i] = recv[i]
        BY <1>l, <2>1, <3>2 DEF Received
      <4> QED
        BY <4>1, <4>2 DEF Load
    <3> QED
      BY <3>1, <3>2
  <2>5. Busy' = Busy /\ \A d \in Callers : sendOk(d)' = sendOk(d)
    BY <2>1 DEF Busy, sendOk
  <2>6. \A i \in Items : Fresh(i)' => Fresh(i)
    BY <2>1, <2>2 DEF Fresh, Settled
  <2>7. \A d \in Callers : \A i \in Sending(d)' : Load(i)' + Pending(d)' <= tries'[d]
    BY <1>d, <1>i, <2>1, <2>2, <2>4
  <2>8. /\ \A d \in served' : \A i \in Sending(d)' : recv'[i] > 0
        /\ \A d \in Callers : sendOk(d)' /\ held'[d] = NoConn
                                => \A i \in Sending(d)' : recv'[i] > 0
        /\ \A i \in sent' : recv'[i] > 0
    BY <1>d, <1>i, <1>t, <2>1, <2>2, <2>4, <2>5 DEF TypeOK
  <2> QED
    BY <1>d, <2>1, <2>3, <2>4, <2>5, <2>6, <2>7, <2>8 DEF DeliveryInv
<1> QED
  BY <1>1, <1>2, <1>3, <1>4, <1>5, <1>6, <1>7, <1>8 DEF Next

\* Nothing has been delivered yet.
LEMMA DeliveryInvInit == Init => DeliveryInv
<1> SUFFICES ASSUME Init PROVE DeliveryInv
  OBVIOUS
<1>1. \A i \in Items : Load(i) = 0
  <2>1. \A i \in Items : LateOf(i) = {}
    BY DEF Init, LateOf
  <2>2. \A i \in Items : Load(i) = 0 + 0
    BY <2>1, FS_EmptySet DEF Init, Load
  <2> QED
    BY <2>2
<1>2. \A c \in Callers : Sending(c) = {}
  BY EmptySeq DEF Init, Sending, Range
<1> QED
  BY <1>1, <1>2, FS_EmptySet DEF Init, DeliveryInv

\* For every pool, batch and number of tries: an item is counted as sent only
\* after the backend has received it, and it is received at most MaxTry times
\* even when requests arrive after their caller timed out and retried
\* (forward2JudgeTask, forward2GraphTask, SafeRpcConnPools.Call).
THEOREM SentMeansReceived == Spec => []SentWasReceived
<1>1. TaskInv /\ DeliveryInv => SentWasReceived
  <2> SUFFICES ASSUME TaskInv, DeliveryInv PROVE SentWasReceived
    OBVIOUS
  <2>1. \A i \in Items : /\ recv[i] \in Nat /\ Cardinality(LateOf(i)) \in Nat
                         /\ Load(i) = recv[i] + Cardinality(LateOf(i))
                         /\ Load(i) <= MaxTry
    BY LoadType DEF TaskInv, DeliveryInv, Load
  <2>2. sent \subseteq Items /\ \A i \in sent : recv[i] > 0
    BY DEF TaskInv, TypeOK, DeliveryInv
  <2> QED
    BY <2>1, <2>2 DEF SentWasReceived
<1> QED
  BY <1>1, DeliveryInvInit, DeliveryInvStep, TaskInvAlways, PlaceInvAlways, PTL DEF Spec
=============================================================================
