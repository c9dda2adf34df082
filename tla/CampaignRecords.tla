-------------------------- MODULE CampaignRecords --------------------------
(***************************************************************************)
(* The values the campaign engines exchange with their executors and write *)
(* to disk: candidates as proposed by a generator, results of an executor, *)
(* and the reconstruction of a lost result from the lifecycle journal.     *)
(* Both the sequential engine (CampaignEngine) and the epoch engine        *)
(* (ParallelCampaign) are built from these operators.                      *)
(***************************************************************************)
EXTENDS Naturals, Sequences

\* A durable record that was never published, a value not yet computed: null in
\* the JSON files, a missing file on disk.
CONSTANT None

\* What generator.propose() leaves in proposal.json: no candidate at all, a
\* candidate whose image the campaign owns and must remove, one without such an
\* image (none, the base image, or a tag of the user).
Candidate == {"failure", "owned", "unowned"}

\* An executor's answer, reduced to what the budget depends on:
\* agent_started false, agent_started true, or agent_started null with
\* consume_budget_conservatively.
Result == {"notStarted", "started", "unknown"}

ASSUME NoneAssumption == None \notin Result

\* record["consume_budget"]: the execution is charged to the campaign.
ConsumesBudget(result) == result \in {"started", "unknown"}

\* The result a resumed process reads from the journal instead of calling the
\* executor again: the executor's own terminal record, else the terminal record
\* of the external action, else an indeterminate result that is charged, else
\* nothing: the executor never reached the external action.
Recovered(hasStarted, external, terminal) ==
  CASE terminal # None -> terminal
    [] terminal = None /\ external # None -> external
    [] terminal = None /\ external = None /\ hasStarted -> "unknown"
    [] OTHER -> None

\* The lifecycle events a receipt binds, by the hash of each record present.
JournalEvents(hasStarted, external, terminal) ==
  (IF hasStarted THEN {"started"} ELSE {})
    \cup (IF external # None THEN {"external-terminal"} ELSE {})
    \cup (IF terminal # None THEN {"executor-terminal"} ELSE {})

\* A generator whose whole state is its snapshot: the proposals drawn from it
\* and the attempts whose feedback it has folded, in the order it folded them.
FreshGenerator == [drawn |-> 0, folded |-> <<>>]

Draw(gen) == [gen EXCEPT !.drawn = @ + 1]

\* generator.fold: feedback is keyed by attempt, a second call changes nothing.
Fold(gen, attempt) ==
  IF \E i \in 1 .. Len(gen.folded) : gen.folded[i] = attempt THEN gen
  ELSE [gen EXCEPT !.folded = Append(@, attempt)]

\* For the properties: s lists elements of t, each at most once and in their order in t.
InOrderOf(s, t) ==
  \A i \in 1 .. Len(s) : \E k \in 1 .. Len(t) :
    s[i] = t[k] /\ \A j \in 1 .. i - 1 : \E l \in 1 .. k - 1 : s[j] = t[l]
=============================================================================
