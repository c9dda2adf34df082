------------------------- MODULE MCGreyboxGenerator -------------------------
(* Two tools; an execution without calls, and three with novelties in common. *)
EXTENDS GreyboxGenerator

CONSTANTS a, b

MCTools == {a, b}
MCRuns == {<<>>, <<a>>, <<a, a>>, <<a, b>>}
=============================================================================
