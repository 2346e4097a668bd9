-------------------------- MODULE ThrottledReplay -------------------------
(***************************************************************************)
(* What a user of Simple Replay is promised about the database sessions of *)
(* a replay (README.md, limit_concurrent_connections), whatever processes  *)
(* and threads are behind it: every extracted connection is opened at most *)
(* once, never more than Limit of them are open together, and when the     *)
(* replay is over none is open and none is opened any more.                *)
(***************************************************************************)
EXTENDS Naturals, FiniteSets

CONSTANTS Connections, Limit   \* Limit = 0: not throttled

VARIABLES phase, open, opened

vars == <<phase, open, opened>>

Init == phase = "running" /\ open = {} /\ opened = {}

OpenOne(c) ==
  /\ phase = "running"
  /\ c \notin opened
  /\ Limit = 0 \/ Cardinality(open) < Limit
  /\ open' = open \cup {c}
  /\ opened' = opened \cup {c}
  /\ UNCHANGED phase

\* A thread closes its connection, or a process dies with all of its own.
CloseSome(S) ==
  /\ phase = "running"
  /\ S \subseteq open
  /\ open' = open \ S
  /\ UNCHANGED <<phase, opened>>

Complete ==
  /\ phase = "running" /\ open = {}
  /\ phase' = "complete"
  /\ UNCHANGED <<open, opened>>

Interrupted ==
  /\ phase = "running"
  /\ phase' = "incomplete"
  /\ open' = {}
  /\ UNCHANGED opened

Next ==
  \/ \E c \in Connections : OpenOne(c)
  \/ \E S \in SUBSET Connections : CloseSome(S)
  \/ Complete \/ Interrupted

Spec == Init /\ [][Next]_vars
===========================================================================
