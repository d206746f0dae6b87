-------------------------- MODULE ConnPool_proofs --------------------------
(***************************************************************************)
(* The accounting of the connection pool, for any number of callers and    *)
(* any limits.  PoolAccounting is not inductive alone: a new connection is *)
(* only known to be new because no number above cnt is in use (PoolFresh), *)
(* and deleting one only lowers the count by one because nobody else holds *)
(* it and it is not idle (ConnExclusive).                                  *)
(***************************************************************************)
EXTENDS ConnPool, FiniteSetTheorems, SequenceTheorems, TLAPS

\* Every connection the pool knows was numbered by newConn.
PoolFresh == all \subseteq 1 .. cnt

PoolInv ==
    /\ PoolTypeOK
    /\ PoolAccounting
    /\ ConnExclusive
    /\ PoolBounded
    /\ PoolFresh

USE PoolAssumption

\* The sets the pool's bookkeeping counts are finite.
LEMMA PoolFinite ==
    ASSUME PoolTypeOK
    PROVE  /\ IsFiniteSet(all)
           /\ Cardinality(all) \in Nat
<1>1. IsFiniteSet(1 .. MaxCnt)
  BY FS_Interval
<1>2. IsFiniteSet(all)
  BY <1>1, FS_Subset DEF PoolTypeOK, Conns
<1> QED
  BY <1>2, FS_CardinalityType

\* Idle connections are the entries of the free list (fetchFree, addFree).
LEMMA IdleEntries ==
    ASSUME free \in Seq(Conns)
    PROVE  /\ Len(free) \in Nat
           /\ \A x : x \in Idle <=> \E i \in 1 .. Len(free) : free[i] = x
BY LenProperties DEF Idle, Range

\* The same after a step.
LEMMA IdleEntriesNext ==
    ASSUME free' \in Seq(Conns)
    PROVE  /\ Len(free') \in Nat
           /\ \A x : x \in Idle' <=> \E i \in 1 .. Len(free') : free'[i] = x
BY LenProperties DEF Idle, Range

\* An empty pool satisfies the invariant (NewConnPool).
LEMMA PoolInvInit == NewConnPool => PoolInv
<1> SUFFICES ASSUME NewConnPool PROVE PoolInv
  OBVIOUS
<1> USE DEF NewConnPool
<1>1. PoolTypeOK
  BY EmptySeq DEF PoolTypeOK, Conns, Results, NoConn
<1>2. Busy = {} /\ InUse = {} /\ Idle = {}
  BY EmptySeq DEF Busy, InUse, Idle, Range, NoConn
<1>3. PoolAccounting
  BY <1>2, FS_EmptySet DEF PoolAccounting
<1>4. ConnExclusive
  BY <1>2 DEF ConnExclusive
<1>5. PoolBounded /\ PoolFresh
  BY DEF PoolBounded, PoolFresh
<1> QED
  BY <1>1, <1>3, <1>4, <1>5 DEF PoolInv

\* Taking the head of the free list moves one connection from idle to in use.
LEMMA PoolInvFetchFree ==
    ASSUME PoolInv, NEW c \in Callers, fetchFree(c)
    PROVE  PoolInv'
<1> USE DEF PoolInv, fetchFree
<1> DEFINE h == Head(free)
<1>1. /\ h \in Conns
      /\ free' \in Seq(Conns)
      /\ Len(free') = Len(free) - 1
      /\ \A i \in 1 .. Len(free') : free'[i] = free[i + 1]
      /\ h = free[1]
      /\ Len(free) \in Nat \ {0}
  BY HeadTailProperties, EmptySeq DEF PoolTypeOK
<1>2. PoolTypeOK'
  BY <1>1 DEF PoolTypeOK, Results
<1>3. h # NoConn
  BY <1>1 DEF Conns, NoConn
<1>4. Busy' = Busy \cup {c} /\ c \notin Busy
  BY <1>3 DEF Busy, PoolTypeOK
<1>5. InUse' = InUse \cup {h}
  BY <1>4 DEF InUse, Busy, PoolTypeOK
<1>6. h \in Idle
  BY <1>1, IdleEntries DEF PoolTypeOK
<1>7. ASSUME NEW x PROVE x \in Idle <=> x \in Idle' \/ x = h
  <2>1. x \in Idle' <=> \E i \in 1 .. Len(free') : free'[i] = x
    BY <1>1, IdleEntriesNext
  <2>2. ASSUME NEW i \in 1 .. Len(free), i # 1
        PROVE  i - 1 \in 1 .. Len(free') /\ free[i] = free'[i - 1]
    BY <1>1, <2>2
  <2>3. ASSUME NEW i \in 1 .. Len(free') PROVE i + 1 \in 1 .. Len(free)
    BY <1>1
  <2>4. x \in Idle <=> \E i \in 1 .. Len(free) : free[i] = x
    BY IdleEntries DEF PoolTypeOK
  <2>5. 1 \in 1 .. Len(free)
    BY <1>1
  <2> QED
    BY <2>1, <2>2, <2>3, <2>4, <2>5, <1>1
<1>8. h \notin Idle'
  <2> SUFFICES ASSUME NEW i \in 1 .. Len(free'), free'[i] = h PROVE FALSE
    BY <1>1, IdleEntriesNext
  <2>1. i + 1 \in 1 .. Len(free) /\ 1 \in 1 .. Len(free) /\ i + 1 # 1
    BY <1>1
  <2>2. free[i + 1] = free[1]
    BY <1>1
  <2> QED
    BY <2>1, <2>2 DEF ConnExclusive
<1>9. PoolAccounting'
  BY <1>5, <1>6, <1>7 DEF PoolAccounting
<1>10. ConnExclusive'
  <2>1. \A d \in Busy : held'[d] = held[d] /\ held[d] # h
    BY <1>4, <1>6 DEF ConnExclusive, InUse, PoolTypeOK
  <2>2. \A d, e \in Busy' : d # e => held'[d] # held'[e]
    BY <2>1, <1>4 DEF ConnExclusive, PoolTypeOK
  <2>3. InUse' \cap Idle' = {}
    BY <1>5, <1>7, <1>8 DEF ConnExclusive
  <2>4. ASSUME NEW i \in 1 .. Len(free'), NEW j \in 1 .. Len(free'), i # j
        PROVE  free'[i] # free'[j]
    <3>1. i + 1 \in 1 .. Len(free) /\ j + 1 \in 1 .. Len(free) /\ i + 1 # j + 1
      BY <1>1, <2>4
    <3> QED
      BY <3>1, <1>1 DEF ConnExclusive
  <2> QED
    BY <2>2, <2>3, <2>4 DEF ConnExclusive
<1>11. PoolBounded' /\ PoolFresh'
  BY <1>1 DEF PoolBounded, PoolFresh, PoolTypeOK
<1> QED
  BY <1>2, <1>9, <1>10, <1>11

\* A connection numbered cnt + 1 is new, so active and all grow together.
LEMMA PoolInvNewConn ==
    ASSUME PoolInv, NEW c \in Callers, newConn(c)
    PROVE  PoolInv'
<1> USE DEF PoolInv, newConn
<1> DEFINE n == cnt + 1
<1>1. n \in Conns /\ n # NoConn /\ n \notin all
  BY DEF PoolTypeOK, PoolFresh, Conns, NoConn
<1>2. PoolTypeOK'
  BY <1>1 DEF PoolTypeOK, Conns
<1>3. Busy' = Busy \cup {c} /\ c \notin Busy
  BY <1>1 DEF Busy, PoolTypeOK
<1>4. InUse' = InUse \cup {n}
  BY <1>3 DEF InUse, Busy, PoolTypeOK
<1>5. Idle' = Idle
  BY DEF Idle
<1>6. PoolAccounting'
  <2>1. Cardinality(all \cup {n}) = Cardinality(all) + 1
    BY <1>1, PoolFinite, FS_AddElement
  <2> QED
    BY <2>1, <1>4, <1>5 DEF PoolAccounting
<1>7. ConnExclusive'
  <2>1. \A d \in Busy : held'[d] = held[d] /\ held[d] # n
    BY <1>1, <1>3 DEF PoolAccounting, InUse, PoolTypeOK
  <2>2. \A d, e \in Busy' : d # e => held'[d] # held'[e]
    BY <2>1, <1>3 DEF ConnExclusive, PoolTypeOK
  <2>3. InUse' \cap Idle' = {}
    BY <1>1, <1>4, <1>5 DEF ConnExclusive, PoolAccounting
  <2> QED
    BY <2>2, <2>3 DEF ConnExclusive
<1>8. PoolBounded'
  BY DEF PoolBounded, overMax, PoolTypeOK
<1>9. PoolFresh'
  BY DEF PoolFresh, PoolTypeOK
<1> QED
  BY <1>2, <1>6, <1>7, <1>8, <1>9

\* Deleting the connection of a caller removes it from in use and from all.
LEMMA PoolInvDelete ==
    ASSUME PoolInv, NEW c \in Callers, held[c] # NoConn, delete(c),
           NEW r \in Results,
           held' = [held EXCEPT ![c] = NoConn],
           result' = [result EXCEPT ![c] = r],
           UNCHANGED cnt
    PROVE  PoolInv'
<1> USE DEF PoolInv, delete
<1> DEFINE h == held[c]
<1>1. PoolTypeOK'
  BY DEF PoolTypeOK
<1>2. Busy' = Busy \ {c} /\ c \in Busy
  BY DEF Busy, PoolTypeOK
<1>3. h \in InUse /\ h \in all /\ h \notin Idle
  BY <1>2 DEF InUse, PoolAccounting, ConnExclusive
<1>4. InUse' = InUse \ {h}
  BY <1>2 DEF InUse, Busy, PoolTypeOK, ConnExclusive
<1>5. Idle' = Idle
  BY DEF Idle
<1>6. PoolAccounting'
  <2>1. Cardinality(all \ {h}) = Cardinality(all) - 1
    BY <1>3, PoolFinite, FS_RemoveElement
  <2> QED
    BY <2>1, <1>3, <1>4, <1>5 DEF PoolAccounting
<1>7. ConnExclusive'
  <2>1. \A d \in Busy' : held'[d] = held[d] /\ d \in Busy
    BY <1>2 DEF PoolTypeOK, Busy
  <2> QED
    BY <2>1, <1>4, <1>5 DEF ConnExclusive
<1>8. PoolBounded'
  <2>1. active - 1 <= MaxConns
    BY DEF PoolBounded, PoolTypeOK
  <2> QED
    BY <2>1 DEF PoolBounded
<1>9. PoolFresh'
  BY DEF PoolFresh
<1> QED
  BY <1>1, <1>6, <1>7, <1>8, <1>9

\* Putting a connection back moves it from in use to idle.
LEMMA PoolInvAddFree ==
    ASSUME PoolInv, NEW c \in Callers, held[c] # NoConn, ~ overMaxIdle,
           free' = Append(free, held[c]),
           held' = [held EXCEPT ![c] = NoConn],
           result' = [result EXCEPT ![c] = "ok"],
           UNCHANGED <<active, all, cnt>>
    PROVE  PoolInv'
<1> USE DEF PoolInv
<1> DEFINE h == held[c]
           n == Len(free)
<1>1. h \in Conns /\ n \in Nat
  BY LenProperties DEF PoolTypeOK, NoConn
<1>2. /\ free' \in Seq(Conns)
      /\ Len(free') = n + 1
      /\ \A i \in 1 .. n : free'[i] = free[i]
      /\ free'[n + 1] = h
  BY <1>1, AppendProperties DEF PoolTypeOK
<1>3. PoolTypeOK'
  BY <1>2 DEF PoolTypeOK, Results
<1>4. Busy' = Busy \ {c} /\ c \in Busy
  BY DEF Busy, PoolTypeOK
<1>5. h \in InUse /\ h \in all /\ h \notin Idle
  BY <1>4 DEF InUse, PoolAccounting, ConnExclusive
<1>6. InUse' = InUse \ {h}
  BY <1>4 DEF InUse, Busy, PoolTypeOK, ConnExclusive
<1>7. ASSUME NEW x PROVE x \in Idle' <=> x \in Idle \/ x = h
  <2>1. x \in Idle' <=> \E i \in 1 .. Len(free') : free'[i] = x
    BY <1>2, IdleEntriesNext
  <2>2. 1 .. Len(free') = (1 .. n) \cup {n + 1}
    BY <1>1, <1>2
  <2>3. \A i \in 1 .. n : free'[i] = free[i]
    BY <1>2
  <2> QED
    BY <2>1, <2>2, <2>3, <1>2, IdleEntries DEF PoolTypeOK
<1>8. PoolAccounting'
  BY <1>5, <1>6, <1>7 DEF PoolAccounting
<1>9. ConnExclusive'
  <2>1. \A d \in Busy' : held'[d] = held[d] /\ d \in Busy
    BY <1>4 DEF PoolTypeOK, Busy
  <2>2. InUse' \cap Idle' = {}
    BY <1>6, <1>7 DEF ConnExclusive
  <2>3. ASSUME NEW i \in 1 .. Len(free'), NEW j \in 1 .. Len(free'), i # j
        PROVE  free'[i] # free'[j]
    <3>1. \A k \in 1 .. n : free[k] # h
      BY <1>5, IdleEntries DEF PoolTypeOK
    <3>2. \A k \in 1 .. Len(free') : k \in 1 .. n \/ k = n + 1
      BY <1>1, <1>2
    <3> QED
      BY <1>2, <3>1, <3>2, <2>3 DEF ConnExclusive
  <2> QED
    BY <2>1, <2>2, <2>3 DEF ConnExclusive
<1>10. PoolBounded'
  BY <1>1, <1>2 DEF PoolBounded, overMaxIdle
<1>11. PoolFresh'
  BY DEF PoolFresh
<1> QED
  BY <1>3, <1>8, <1>9, <1>10, <1>11

\* Every step of every caller preserves the invariant.
LEMMA PoolInvStep == PoolInv /\ [PoolNext]_poolVars => PoolInv'
<1> SUFFICES ASSUME PoolInv, [PoolNext]_poolVars PROVE PoolInv'
  OBVIOUS
<1>1. CASE UNCHANGED poolVars
  <2>1. Busy' = Busy /\ InUse' = InUse /\ Idle' = Idle
    BY <1>1 DEF poolVars, Busy, InUse, Idle
  <2> QED
    BY <1>1, <2>1 DEF poolVars, PoolInv, PoolTypeOK, PoolAccounting,
       ConnExclusive, PoolBounded, PoolFresh
<1>2. ASSUME NEW c \in Callers, fetchFree(c) PROVE PoolInv'
  BY <1>2, PoolInvFetchFree
<1>3. ASSUME NEW c \in Callers, fetchOverMax(c) \/ newConnFails(c) PROVE PoolInv'
  <2>1. Busy' = Busy /\ InUse' = InUse /\ Idle' = Idle
    BY <1>3 DEF fetchOverMax, newConnFails, Busy, InUse, Idle
  <2>2. PoolTypeOK'
    BY <1>3 DEF fetchOverMax, newConnFails, PoolInv, PoolTypeOK, Results
  <2> QED
    BY <1>3, <2>1, <2>2 DEF fetchOverMax, newConnFails, PoolInv,
       PoolAccounting, ConnExclusive, PoolBounded, PoolFresh
<1>4. ASSUME NEW c \in Callers, newConn(c) PROVE PoolInv'
  BY <1>4, PoolInvNewConn
<1>5. ASSUME NEW c \in Callers, CallDone(c) PROVE PoolInv'
  <2>1. CASE overMaxIdle
    BY <1>5, <2>1, PoolInvDelete DEF CallDone, Release, Results
  <2>2. CASE ~ overMaxIdle
    BY <1>5, <2>2, PoolInvAddFree DEF CallDone, Release
  <2> QED
    BY <2>1, <2>2
<1>6. ASSUME NEW c \in Callers, NEW err \in {"ErrCall", "ErrTimeout"},
             CallFailed(c, err)
      PROVE  PoolInv'
  BY <1>6, PoolInvDelete DEF CallFailed, ForceClose, Results
<1> QED
  BY <1>1, <1>2, <1>3, <1>4, <1>5, <1>6 DEF PoolNext, Call, Fetch

\* The invariant holds in every state of every behaviour of the pool.
LEMMA PoolInvAlways == PoolSpec => []PoolInv
BY PoolInvInit, PoolInvStep, PTL DEF PoolSpec

\* For every number of callers and every configured limit, the pool never
\* loses count of a connection: active is the number of the known ones, and
\* those are held or idle (Fetch, Release and ForceClose of conn_pool.go).
THEOREM PoolCorrect == PoolSpec => [](PoolTypeOK /\ PoolAccounting)
<1>1. PoolInv => PoolTypeOK /\ PoolAccounting
  BY DEF PoolInv
<1> QED
  BY <1>1, PoolInvAlways, PTL

\* For every number of callers, no connection ever carries the calls of two
\* of them and none is handed out while it is idle (fetchFree, addFree).
THEOREM PoolNeverShares == PoolSpec => []ConnExclusive
<1>1. PoolInv => ConnExclusive
  BY DEF PoolInv
<1> QED
  BY <1>1, PoolInvAlways, PTL

\* For every configuration, no more than MaxConns connections are open and no
\* more than MaxIdle idle (overMax, overMaxIdle).
THEOREM PoolWithinLimits == PoolSpec => []PoolBounded
<1>1. PoolInv => PoolBounded
  BY DEF PoolInv
<1> QED
  BY <1>1, PoolInvAlways, PTL

\* A busy caller stands for exactly one connection in use, so callers can be
\* counted by connections: an idle connection is room for one more caller.
LEMMA BusyCount ==
    ASSUME PoolInv
    PROVE  /\ Cardinality(Busy) \in Nat
           /\ Cardinality(Busy) <= active
           /\ free = <<>> => Cardinality(Busy) = active
           /\ free # <<>> => Cardinality(Busy) < active
<1> USE DEF PoolInv
<1>1. IsFiniteSet(Busy)
  BY FS_Subset DEF Busy
<1> DEFINE f == [c \in Busy |-> held[c]]
<1>2. f \in Bijection(Busy, InUse)
  BY DEF Bijection, Injection, Surjection, IsInjective, InUse, ConnExclusive
<1>3. Cardinality(InUse) = Cardinality(Busy) /\ IsFiniteSet(InUse)
  BY <1>1, <1>2, FS_Bijection DEF ExistsBijection
<1>4. InUse \in SUBSET all
  BY DEF PoolAccounting
<1>5. IsFiniteSet(all) /\ Cardinality(all) = active
  BY PoolFinite DEF PoolAccounting
<1>6. Cardinality(InUse) <= active /\ (Cardinality(InUse) = active => InUse = all)
  BY <1>4, <1>5, FS_Subset
<1>7. Cardinality(InUse) \in Nat /\ active \in Nat
  BY <1>3, <1>5, FS_CardinalityType
<1>8. ASSUME free = <<>> PROVE InUse = all
  BY <1>8, EmptySeq DEF PoolAccounting, Idle, Range
<1>9. ASSUME free # <<>> PROVE InUse # all
  <2>1. 1 \in 1 .. Len(free)
    BY <1>9, EmptySeq DEF PoolTypeOK
  <2>2. free[1] \in Idle
    BY <2>1, IdleEntries DEF PoolTypeOK
  <2> QED
    BY <2>2 DEF PoolAccounting, ConnExclusive
<1> QED
  BY <1>3, <1>5, <1>6, <1>7, <1>8, <1>9

\* The abstract specification counts as FiniteSets does.
LEMMA SameCardinality == \A S : Permits!Cardinality(S) = Cardinality(S)
BY DEF Permits!Cardinality, Cardinality, Permits!IsFiniteSet, IsFiniteSet

\* Every step of the pool is a step of the permits or leaves them alone.
LEMMA PermitStep ==
    PoolInv /\ [PoolNext]_poolVars => [Permits!Next]_(Permits!absVars)
<1> SUFFICES ASSUME PoolInv, [PoolNext]_poolVars
             PROVE  [Permits!Next]_(Permits!absVars)
  OBVIOUS
<1> USE DEF PoolInv
<1>0. /\ Cardinality(Busy) \in Nat
      /\ Cardinality(Busy) <= active
      /\ free = <<>> => Cardinality(Busy) = active
      /\ free # <<>> => Cardinality(Busy) < active
      /\ active \in Int /\ active <= MaxConns
  BY BusyCount DEF PoolTypeOK, PoolBounded
<1>1. CASE UNCHANGED poolVars
  BY <1>1 DEF poolVars, Permits!absVars, Busy
<1>2. ASSUME NEW c \in Callers, fetchFree(c) PROVE Permits!Grant(c)
  <2>1. Head(free) \in Conns
    BY <1>2, HeadTailProperties DEF fetchFree, PoolTypeOK
  <2>2. Busy' = Busy \cup {c} /\ c \notin Busy
    BY <1>2, <2>1 DEF fetchFree, Busy, PoolTypeOK, Conns, NoConn
  <2>3. Cardinality(Busy) < MaxConns
    BY <1>0, <1>2 DEF fetchFree
  <2> QED
    BY <1>2, <2>2, <2>3, SameCardinality DEF fetchFree, Permits!Grant
<1>3. ASSUME NEW c \in Callers, newConn(c) PROVE Permits!Grant(c)
  <2>1. cnt + 1 # NoConn
    BY <1>3 DEF PoolTypeOK, NoConn
  <2>2. Busy' = Busy \cup {c} /\ c \notin Busy
    BY <1>3, <2>1 DEF newConn, Busy, PoolTypeOK
  <2>3. Cardinality(Busy) < MaxConns
    BY <1>0, <1>3 DEF newConn, overMax
  <2> QED
    BY <1>3, <2>2, <2>3, SameCardinality DEF newConn, Permits!Grant
<1>4. ASSUME NEW c \in Callers, fetchOverMax(c) PROVE Permits!Refuse(c)
  <2>1. Cardinality(Busy) = MaxConns
    BY <1>0, <1>4 DEF fetchOverMax, overMax
  <2> QED
    BY <1>4, <2>1, SameCardinality DEF fetchOverMax, Permits!Refuse, Busy
<1>5. ASSUME NEW c \in Callers, newConnFails(c) PROVE Permits!Unreachable(c)
  <2>1. Cardinality(Busy) < MaxConns
    BY <1>0, <1>5 DEF newConnFails, overMax
  <2> QED
    BY <1>5, <2>1, SameCardinality DEF newConnFails, Permits!Unreachable, Busy
<1>6. ASSUME NEW c \in Callers,
             held[c] # NoConn, held' = [held EXCEPT ![c] = NoConn],
             NEW r \in {"ok", "ErrCall", "ErrTimeout"},
             result' = [result EXCEPT ![c] = r]
      PROVE  Permits!Return(c)
  <2>1. Busy' = Busy \ {c} /\ c \in Busy
    BY <1>6 DEF Busy, PoolTypeOK
  <2> QED
    BY <1>6, <2>1 DEF Permits!Return
<1>7. ASSUME NEW c \in Callers, CallDone(c) PROVE Permits!Return(c)
  BY <1>6, <1>7 DEF CallDone
<1>8. ASSUME NEW c \in Callers, NEW err \in {"ErrCall", "ErrTimeout"},
             CallFailed(c, err)
      PROVE  Permits!Return(c)
  BY <1>6, <1>8 DEF CallFailed
<1> QED
  BY <1>1, <1>2, <1>3, <1>4, <1>5, <1>7, <1>8
     DEF PoolNext, Call, Fetch, Permits!Next

\* The pool implements the abstract permits for all limits and any number of
\* callers: ErrMaxConn is returned only while MaxConns calls are in progress
\* (Fetch of conn_pool.go, Call of rpc_backends.go).
THEOREM PoolImplementsPermits == PoolSpec => ImplementsPermits
<1>1. NewConnPool => Permits!Init
  BY DEF NewConnPool, Permits!Init, Busy
<1> QED
  BY <1>1, PoolInvAlways, PermitStep, PTL DEF PoolSpec, ImplementsPermits, Permits!Spec
=============================================================================
