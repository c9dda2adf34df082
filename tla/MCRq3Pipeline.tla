--------------------------- MODULE MCRq3Pipeline ---------------------------
(* Two methods, three suspected findings, two hidden executions. *)
EXTENDS Rq3Pipeline

MCMethods == <<"random", "skillrace">>
MCSuspects == [m \in ToSet(MCMethods) |-> IF m = "random" THEN <<"c1", "c2">> ELSE <<"c3">>]
MCTests == <<"t1", "t2">>
=============================================================================
