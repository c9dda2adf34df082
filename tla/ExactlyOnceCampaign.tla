------------------------ MODULE ExactlyOnceCampaign ------------------------
(***************************************************************************)
(* What a sequential campaign promises, without files or processes: agent  *)
(* runs are launched one at a time and never twice, each charged execution *)
(* takes the next of Budget places, and its feedback is settled - learned  *)
(* by the generator, or given up - before the next run is launched.        *)
(***************************************************************************)
EXTENDS Naturals, Sequences

CONSTANTS Budget, Cap

Attempt == (0 .. Budget - 1) \X (0 .. Cap - 1)

VARIABLES
  launched,   \* attempts whose agent run was started
  counted,    \* the charged attempts, in order
  settled,    \* how many of them have had their feedback handled
  learned,    \* the attempts the generator learned from, in order
  outcome     \* "running", then "completed" or "aborted"

avars == <<launched, counted, settled, learned, outcome>>

Init ==
  /\ launched = {}
  /\ counted = <<>>
  /\ settled = 0
  /\ learned = <<>>
  /\ outcome = "running"

\* An agent is launched for the next place, and only for it.
Launch(a) ==
  /\ outcome = "running"
  /\ a \notin launched
  /\ settled = Len(counted) /\ a[1] = Len(counted)
  /\ launched' = launched \cup {a}
  /\ UNCHANGED <<counted, settled, learned, outcome>>

\* An attempt for the next place is charged. It may be one whose launch is unknown.
Charge(a) ==
  /\ outcome = "running"
  /\ settled = Len(counted) /\ a[1] = Len(counted)
  /\ counted' = Append(counted, a)
  /\ UNCHANGED <<launched, settled, learned, outcome>>

\* The generator learns from the charged attempt, or its feedback is given up.
Settle ==
  /\ settled < Len(counted)
  /\ settled' = settled + 1
  /\ learned' \in {learned, Append(learned, counted[settled + 1])}
  /\ UNCHANGED <<launched, counted, outcome>>

Complete ==
  /\ outcome = "running" /\ settled = Budget
  /\ outcome' = "completed"
  /\ UNCHANGED <<launched, counted, settled, learned>>

\* No candidate could be executed for the next place.
Abort ==
  /\ outcome = "running" /\ settled = Len(counted) /\ settled < Budget
  /\ outcome' = "aborted"
  /\ UNCHANGED <<launched, counted, settled, learned>>

Next == (\E a \in Attempt : Launch(a) \/ Charge(a)) \/ Settle \/ Complete \/ Abort

Spec == Init /\ [][Next]_avars
=============================================================================
