--------------------------- MODULE MCTaskManager ---------------------------
(* All plans of NumTasks tasks without cycles. *)
EXTENDS TaskManager

CONSTANT NumTasks

\* A graph has no cycle iff every set of tasks has one that depends on no
\* task of the set.
Acyclic(p) ==
  \A S \in SUBSET DOMAIN p : S # {} => \E t \in S : p[t] \cap S = {}

AcyclicPlans == {p \in [1 .. NumTasks -> SUBSET (1 .. NumTasks)] : Acyclic(p)}
===========================================================================
