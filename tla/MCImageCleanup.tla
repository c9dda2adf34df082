--------------------------- MODULE MCImageCleanup ---------------------------
(* Two executed candidates, one of them with a borrowed image, and one unused. *)
EXTENDS ImageCleanup

CONSTANTS a1, a2, u1

MCAttempts == {a1, a2}
MCUnused == {u1}
MCOwned == {a1, u1}
=============================================================================
