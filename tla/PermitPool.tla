----------------------------- MODULE PermitPool -----------------------------
(***************************************************************************)
(* What a caller of the connection pool may rely on, without connections:  *)
(* the pool hands out at most MaxConns permits at a time, and it turns a   *)
(* caller away with ErrMaxConn only while every permit is really in use.   *)
(* Idle connections kept for reuse must never cost a caller a permit.      *)
(***************************************************************************)
EXTENDS Integers, FiniteSets

CONSTANTS
    Callers,    \* goroutines that call through the pool
    MaxConns    \* number of permits

VARIABLES
    using,      \* the callers that hold a permit
    result      \* what the last Call of each caller returned

absVars == <<using, result>>

Init ==
    /\ using = {}
    /\ result = [c \in Callers |-> "none"]

\* A permit is granted only if one is left.
Grant(c) ==
    /\ c \notin using
    /\ Cardinality(using) < MaxConns
    /\ using' = using \cup {c}
    /\ UNCHANGED result

\* ErrMaxConn is an honest answer: all permits are out.
Refuse(c) ==
    /\ c \notin using
    /\ Cardinality(using) = MaxConns
    /\ result' = [result EXCEPT ![c] = "ErrMaxConn"]
    /\ UNCHANGED using

\* A connection could not be made although the pool had room for it.
Unreachable(c) ==
    /\ c \notin using
    /\ Cardinality(using) < MaxConns
    /\ result' = [result EXCEPT ![c] = "ErrDial"]
    /\ UNCHANGED using

\* The call ends, well or badly, and gives its permit back.
Return(c) ==
    /\ c \in using
    /\ using' = using \ {c}
    /\ \E r \in {"ok", "ErrCall", "ErrTimeout"} :
          result' = [result EXCEPT ![c] = r]

Next == \E c \in Callers : Grant(c) \/ Refuse(c) \/ Unreachable(c) \/ Return(c)

Spec == Init /\ [][Next]_absVars
=============================================================================
