------------------------ MODULE MCParallelCampaign ------------------------
(* The candidate ids, which are hashes, sort against the order of the slots. *)
EXTENDS ParallelCampaign

MCRank == [o \in Ordinal |-> MaxAttempts - o]
=============================================================================
