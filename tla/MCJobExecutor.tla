--------------------------- MODULE MCJobExecutor ---------------------------
(* Requests without and with a report: two runs of one job can each write, *)
(* break or leave alone the file of the other.  The two job ids name two   *)
(* directories or one.                                                     *)
EXTENDS JobExecutor

MCRequests == {<<>>, <<"CSV">>}

MCNamings == {[j \in JobIds |-> j], [j \in JobIds |-> "a"]}
=============================================================================
