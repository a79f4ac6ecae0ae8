----------------------------- MODULE MCService -----------------------------
(* A few requests at a time, on a database of either kind or of one. *)
EXTENDS Service

MCDatabases == {"file", "memory"}
MCMemory    == {"memory"}
=============================================================================
