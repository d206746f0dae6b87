---------------------------- MODULE MCGraphStore ----------------------------
(* Instances of GraphStore for TLC: one or two handlers of one series.     *)
EXTENDS GraphStore
CONSTANTS h1, h2
=============================================================================
