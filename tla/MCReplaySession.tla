-------------------------- MODULE MCReplaySession --------------------------
(* Small workloads: the same user in one database or in two. *)
EXTENDS ReplaySession

Connection(name, db, transactions) ==
  [user |-> name, database |-> db, transactions |-> transactions]

\* A query of several statements is a text that sqlparse splits.
Plain == <<<<"sql">>, <<"sql", "sql">>>>
WithCopy == <<<<"sql", "copy">>, <<"unload">>>>
SelfEnding == <<<<"sql">>, <<"sql", "commit">>>>
Undone == <<<<"sql">>, <<>>, <<"rollback">>>>

Single == <<<<"sql">>>>

SessionWorkloads ==
  {<<Connection("ann", "dev", <<t, Plain>>), Connection(name, "dev", <<Single>>)>> :
     t \in {Plain, WithCopy, SelfEnding, Undone}, name \in {"ann", "bob"}}

\* One user with connections to two databases.
TwoDatabases ==
  {<<Connection("ann", "dev", <<Plain>>), Connection("ann", "prod", <<Plain>>)>>}
============================================================================
