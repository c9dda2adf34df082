--------------------------- MODULE EpochCampaign ---------------------------
(***************************************************************************)
(* What a campaign that executes in epochs promises, without files,        *)
(* workers or processes: ordinals are handed out in contiguous epochs, one *)
(* epoch at a time and never more slots than executions left in the        *)
(* budget; only a slot of the open epoch is launched, once, and only while *)
(* it is not charged; only such a slot is charged, once; and the campaign  *)
(* ends as completed exactly when it has charged its whole budget.         *)
(***************************************************************************)
EXTENDS Naturals, Sequences

CONSTANTS Budget, EpochSize, Ordinal

VARIABLES
  handed,     \* how many ordinals were handed out to epochs
  open,       \* the slots of the open epoch
  launched,   \* how often an agent was launched for an ordinal
  charged,    \* the charged ordinals, in the order of their commits
  outcome     \* "running", then "completed" or "aborted"

evars == <<handed, open, launched, charged, outcome>>

IsCharged(o) == \E i \in 1 .. Len(charged) : charged[i] = o

Init ==
  /\ handed = 0
  /\ open = {}
  /\ launched = [o \in Ordinal |-> 0]
  /\ charged = <<>>
  /\ outcome = "running"

\* The next epoch: as many slots as fit into an epoch and into what is left to charge.
Open(slots) ==
  /\ outcome = "running" /\ open = {}
  /\ slots \in 1 .. EpochSize /\ Len(charged) + slots <= Budget
  /\ open' = handed .. handed + slots - 1
  /\ handed' = handed + slots
  /\ UNCHANGED <<launched, charged, outcome>>

\* Slots are launched in any order, and while others are charged.
Launch(o) ==
  /\ outcome = "running"
  /\ o \in open /\ launched[o] = 0 /\ ~IsCharged(o)
  /\ launched' = [launched EXCEPT ![o] = 1]
  /\ UNCHANGED <<handed, open, charged, outcome>>

\* A slot is charged, perhaps for a launch nobody can tell the outcome of.
Charge(o) ==
  /\ outcome = "running"
  /\ o \in open /\ ~IsCharged(o) /\ Len(charged) < Budget
  /\ charged' = Append(charged, o)
  /\ UNCHANGED <<handed, open, launched, outcome>>

Close ==
  /\ outcome = "running" /\ open # {}
  /\ open' = {}
  /\ UNCHANGED <<handed, launched, charged, outcome>>

Complete ==
  /\ outcome = "running" /\ Len(charged) = Budget
  /\ outcome' = "completed"
  /\ UNCHANGED <<handed, open, launched, charged>>

\* Epoch after epoch no agent could be started.
Abort ==
  /\ outcome = "running" /\ open = {} /\ Len(charged) < Budget
  /\ outcome' = "aborted"
  /\ UNCHANGED <<handed, open, launched, charged>>

Next ==
  \/ \E slots \in 1 .. EpochSize : Open(slots)
  \/ \E o \in Ordinal : Launch(o) \/ Charge(o)
  \/ Close \/ Complete \/ Abort

Spec == Init /\ [][Next]_evars
=============================================================================
