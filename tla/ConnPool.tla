------------------------------ MODULE ConnPool ------------------------------
(***************************************************************************)
(* The connection pool behind every rpc of transfer, gateway and api       *)
(* (toolkits/conn_pool), with the call protocol of backend_pool on top:    *)
(* SafeRpcConnPools.Call and TsdbConnPoolHelper.Send fetch a connection,   *)
(* run the call in a goroutine of its own and wait for its reply or for    *)
(* the timeout.                                                            *)
(*                                                                         *)
(* Every method of ConnPool holds the pool's lock, so each is one step.    *)
(* Dialling happens inside Fetch, under the lock.                          *)
(***************************************************************************)
EXTENDS Integers, Sequences, FiniteSets, Functions

CONSTANTS
    Callers,    \* goroutines that call through the pool
    MaxConns,   \* ConnPool.MaxConns
    MaxIdle,    \* ConnPool.MaxIdle
    MaxCnt      \* bound: connections created in one behaviour

ASSUME PoolAssumption ==
    /\ MaxConns \in Nat \ {0}
    /\ MaxIdle \in Nat
    /\ MaxCnt \in Nat
    /\ IsFiniteSet(Callers)

VARIABLES
    active,     \* ConnPool.active
    free,       \* ConnPool.free, fetched from the front
    all,        \* names in ConnPool.all
    cnt,        \* ConnPool.Cnt; connection number i is the i-th one created
    held,       \* the connection each caller has fetched, or NoConn
    result      \* what the last Call of each caller returned

poolVars == <<active, free, all, cnt, held, result>>

Conns   == 1 .. MaxCnt
NoConn  == 0
Results == {"none", "ok", "ErrCall", "ErrTimeout", "ErrMaxConn", "ErrDial"}

NewConnPool ==
    /\ active = 0
    /\ free = <<>>
    /\ all = {}
    /\ cnt = 0
    /\ held = [c \in Callers |-> NoConn]
    /\ result = [c \in Callers |-> "none"]

\* Mutant: the limit is off by one.
overMaxByOne == active > MaxConns

overMax     == active >= MaxConns
overMaxIdle == Len(free) >= MaxIdle

-----------------------------------------------------------------------------
(* Fetch, one action per way it returns.                                   *)

\* Mutant: the free list is read and not advanced.
fetchFreeKept(c) ==
    /\ held[c] = NoConn
    /\ free # <<>>
    /\ held' = [held EXCEPT ![c] = Head(free)]
    /\ UNCHANGED <<active, free, all, cnt, result>>

\* A free connection is reused, even when active has reached MaxConns.
fetchFree(c) ==
    /\ held[c] = NoConn
    /\ free # <<>>
    /\ held' = [held EXCEPT ![c] = Head(free)]
    /\ free' = Tail(free)
    /\ UNCHANGED <<active, all, cnt, result>>

\* Mutant: the limit is tested before the free list.
fetchOverMaxFirst(c) ==
    /\ held[c] = NoConn
    /\ overMax
    /\ result' = [result EXCEPT ![c] = "ErrMaxConn"]
    /\ UNCHANGED <<active, free, all, cnt, held>>

fetchOverMax(c) ==
    /\ held[c] = NoConn
    /\ free = <<>>
    /\ overMax
    /\ result' = [result EXCEPT ![c] = "ErrMaxConn"]
    /\ UNCHANGED <<active, free, all, cnt, held>>

\* newConn and increActive; the connection is never in the free list first.
newConn(c) ==
    /\ held[c] = NoConn
    /\ free = <<>>
    /\ ~ overMax
    /\ cnt < MaxCnt
    /\ cnt' = cnt + 1
    /\ all' = all \cup {cnt + 1}
    /\ active' = active + 1
    /\ held' = [held EXCEPT ![c] = cnt + 1]
    /\ UNCHANGED <<free, result>>

\* New returns an error: nothing is counted.
newConnFails(c) ==
    /\ held[c] = NoConn
    /\ free = <<>>
    /\ ~ overMax
    /\ result' = [result EXCEPT ![c] = "ErrDial"]
    /\ UNCHANGED <<active, free, all, cnt, held>>

Fetch(c) == fetchFree(c) \/ fetchOverMax(c) \/ newConn(c) \/ newConnFails(c)

-----------------------------------------------------------------------------
(* The ways a connection goes back.                                        *)

\* Mutant: decreActive is forgotten.
deleteUncounted(c) ==
    /\ all' = all \ {held[c]}
    /\ UNCHANGED <<active, free>>

\* deleteConn and decreActive
delete(c) ==
    /\ all' = all \ {held[c]}
    /\ active' = active - 1
    /\ UNCHANGED free

Release(c) ==
    IF overMaxIdle
    THEN delete(c)
    ELSE /\ free' = Append(free, held[c])
         /\ UNCHANGED <<active, all>>

ForceClose(c) == delete(c)

-----------------------------------------------------------------------------
(* The select of Call: whichever of reply and timeout is taken.  When both *)
(* are ready Go picks either one, so a call that was answered may still    *)
(* end in the timeout branch.                                              *)

CallDone(c) ==
    /\ held[c] # NoConn
    /\ Release(c)
    /\ held' = [held EXCEPT ![c] = NoConn]
    /\ result' = [result EXCEPT ![c] = "ok"]
    /\ UNCHANGED cnt

CallFailed(c, err) ==
    /\ held[c] # NoConn
    /\ ForceClose(c)
    /\ held' = [held EXCEPT ![c] = NoConn]
    /\ result' = [result EXCEPT ![c] = err]
    /\ UNCHANGED cnt

Call(c) ==
    \/ Fetch(c)
    \/ CallDone(c)
    \/ CallFailed(c, "ErrCall")
    \/ CallFailed(c, "ErrTimeout")

PoolNext == \E c \in Callers : Call(c)

PoolSpec == NewConnPool /\ [][PoolNext]_poolVars

-----------------------------------------------------------------------------
Busy    == {c \in Callers : held[c] # NoConn}
InUse   == {held[c] : c \in Busy}
Idle    == Range(free)

\* Types of the pool's fields (ConnPool) and of what its callers hold.
PoolTypeOK ==
    /\ active \in Int
    /\ free \in Seq(Conns)
    /\ all \in SUBSET Conns
    /\ cnt \in 0 .. MaxCnt
    /\ held \in [Callers -> Conns \cup {NoConn}]
    /\ result \in [Callers -> Results]

\* Whatever interleaving of fetches, releases, forced closes and dial errors
\* ran, active is the number of connections the pool knows, and those are
\* exactly the ones a caller holds and the idle ones (Fetch, Release,
\* ForceClose): a leak would shrink the pool for good.
PoolAccounting ==
    /\ active = Cardinality(all)
    /\ all = InUse \cup Idle

\* One connection never carries the calls of two callers, and an idle one is
\* neither in use nor listed twice (Release, fetchFree).
ConnExclusive ==
    /\ \A c, d \in Busy : c # d => held[c] # held[d]
    /\ InUse \cap Idle = {}
    /\ \A i, j \in 1 .. Len(free) : i # j => free[i] # free[j]

\* The limits of the configuration hold: no more than MaxConns connections
\* are open and no more than MaxIdle of them idle (overMax, overMaxIdle).
PoolBounded ==
    /\ active <= MaxConns
    /\ Len(free) <= MaxIdle

\* The pool implements the permits its callers rely on: a caller is turned
\* away with ErrMaxConn only while MaxConns callers hold a connection, however
\* many connections were created, idled and closed before (Fetch).
Permits == INSTANCE PermitPool WITH using <- Busy
ImplementsPermits == Permits!Spec
=============================================================================
