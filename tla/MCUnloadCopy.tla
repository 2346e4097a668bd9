---------------------------- MODULE MCUnloadCopy ----------------------------
(* The utility with every configuration, or with the ones of one question. *)
EXTENDS UnloadCopy

Config(conn, dest, src, create, drop, delete) ==
  [connectionPreTest |-> conn, destinationTablePreTest |-> dest,
   sourceTablePreTest |-> src, destinationTableAutoCreate |-> create,
   destinationTableForceDropCreate |-> drop, deleteOnSuccess |-> delete]

\* destinationTableForceDropCreate is only read where tables are created.
AllConfigs ==
  {Config(conn, dest, src, create, drop, delete) :
     conn, dest, src, create, drop, delete \in BOOLEAN}
    \ {Config(conn, dest, src, FALSE, TRUE, delete) : conn, dest, src, delete \in BOOLEAN}

\* The defaults of global_config_parameters.json and the example's staging.
DefaultConfigs == {Config(TRUE, FALSE, TRUE, FALSE, FALSE, TRUE)}
=============================================================================
