------------------------ MODULE MCOperationJournal ------------------------
(* Two callers; an identifier may be reused for another request. *)
EXTENDS OperationJournal

CONSTANTS c1, c2

MCCallers == {c1, c2}
MCRequests == {"request", "other"}
=============================================================================
