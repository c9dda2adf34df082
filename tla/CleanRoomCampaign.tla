------------------------- MODULE CleanRoomCampaign -------------------------
(***************************************************************************)
(* skillrace_next: a campaign of the rebuild, one sequential process. Each *)
(* method runs an agent on one development test per slot, in a container   *)
(* that lives until the checks authored for this run have been executed in *)
(* it. Part I collects failing checks of the immutable skill S0, replays   *)
(* one representative of each group and patches a copy of S0. Part II      *)
(* patches the method's current skill, replays the failing test and all    *)
(* retained ones, accepts or rejects, and evaluates the final skills on    *)
(* held-out tests. Any exception ends the campaign, which is not resumed.  *)
(***************************************************************************)
EXTENDS Integers, SequencesExt

CONSTANTS
  Configs,   \* records of part, methods, slots and cells (held-out executions of a skill)
  Checks,    \* the checks that the verifier authors for a run
  None

ASSUME ConfigsAssumption ==
  \A c \in Configs : /\ c.part \in {"part1", "part2"}
                     /\ c.methods \in Seq({"random", "verigrey", "skillrace"}) \ {<<>>}
                     /\ c.slots \in Nat /\ c.cells \in Nat \ {0}

VARIABLES
  config,
  status,    \* of the command: running, complete or failed
  at,        \* the method, by its position
  slot,
  pc,
  dev,       \* of this method: version of its skill, memory, and the retained tests in their
             \* order, each with its last results
  job,       \* the execution under way: its purpose, the bundle of its checks
  result,    \* what the checks said
  todo,      \* Part I: the groups (by their check) to confirm
  replayed,  \* Part I: the representative; Part II: the results of the run, then what the
             \* candidate reached in the failing test and in the retained ones
  checked,   \* Part I: run -> results, and whether its method's evidence exists
  bugs,      \* Part I: confirmed groups and the decision upon their repair
  finals,    \* Part II: the final version of each method
  rows,      \* Part II: held-out evaluations
  live       \* containers that exist

development == <<config, at, slot, dev>>
outcome == <<checked, bugs, finals, rows>>
vars == <<development, status, pc, job, result, todo, replayed, outcome, live>>

\* "infra": inconclusive, with a diagnostic that names the infrastructure.
Verdict == {"pass", "fail", "inconclusive", "infra"}

Having(results, verdict) == {c \in DOMAIN results : results[c] = verdict}

\* Faulty variant of AcceptPatch: the retained tests are replayed, but not looked at.
AcceptWithoutRegressions(before, after, regressions) ==
  IF "infra" \in Range(after) \/ DOMAIN after # DOMAIN before THEN "unresolved"
  ELSE IF /\ Having(before, "pass") \subseteq Having(after, "pass")
          /\ Having(before, "fail") \cap Having(after, "pass") # {}
       THEN "accepted" ELSE "rejected"

AcceptPatch(before, after, regressions) ==
  IF \/ \E r \in {after} \cup regressions : "infra" \in Range(r)
     \/ DOMAIN after # DOMAIN before
  THEN "unresolved"
  ELSE IF /\ Having(before, "pass") \subseteq Having(after, "pass")
          /\ \A r \in regressions : Range(r) \subseteq {"pass"}
          /\ Having(before, "fail") \cap Having(after, "pass") # {}
       THEN "accepted" ELSE "rejected"

Method == config.methods[at]
Run == <<at, slot>>
FreshMemory == [observed |-> FALSE, target |-> FALSE]
FreshDev == [skill |-> 0, memory |-> FreshMemory, retained |-> <<>>]
NoJob == [purpose |-> None, bundle |-> {}]

\* The test of this slot, as a retained one.
Test(results) == [test |-> slot, results |-> results]

Init ==
  /\ config \in Configs /\ status = "running"
  /\ at = 1 /\ slot = 0 /\ pc = "select" /\ dev = FreshDev
  /\ job = NoJob /\ result = <<>> /\ todo = <<>> /\ replayed = <<>>
  /\ checked = <<>> /\ bugs = {} /\ finals = <<>> /\ rows = <<>>
  /\ live = 0

At(label) == status = "running" /\ pc = label

Raise ==
  /\ status' = "failed"
  /\ UNCHANGED <<development, pc, job, result, todo, replayed, outcome>>

\* remove_container, which docker may refuse, and then the exception goes on.
RemoveAndRaise == Raise /\ live' \in {live - 1, live}

NextSlot == slot' = slot + 1 /\ pc' = "select" /\ UNCHANGED <<config, at>>

Execute(purpose, bundle) ==
  pc' = "start" /\ job' = [purpose |-> purpose, bundle |-> bundle] /\ result' = <<>>

-----------------------------------------------------------------------------
(* The execution of an agent and of the checks of its run. *)

StartContainer ==
  /\ At("start")
  /\ live' = live + 1 /\ pc' = "agent"
  /\ UNCHANGED <<development, status, job, result, todo, replayed, outcome>>

\* docker run failed or timed out, perhaps after it had created the container.
StartFails == At("start") /\ Raise /\ live' \in {live, live + 1}

\* Completed, or stopped at its time limit; a run of its own needs checks of its own.
AgentEnds ==
  /\ At("agent")
  /\ pc' = IF job.purpose \in {"develop", "evaluate"} THEN "capture" ELSE "check"
  /\ UNCHANGED <<development, status, job, result, todo, replayed, outcome, live>>

AgentBreaks == At("agent") /\ RemoveAndRaise

CaptureEvidence ==
  /\ At("capture")
  /\ pc' = "author"
  /\ UNCHANGED <<development, status, job, result, todo, replayed, outcome, live>>

\* The agent left no trace to copy: the exception passes no clause that would remove the
\* container.
CaptureFails == At("capture") /\ Raise /\ UNCHANGED live

\* After two invalid bundles the manifest has no checks, all properties are uncovered.
Bundles == {Checks, {}}

AuthorChecks ==
  /\ At("author")
  /\ \E bundle \in Bundles : job' = [job EXCEPT !.bundle = bundle]
  /\ pc' = "check"
  /\ UNCHANGED <<development, status, result, todo, replayed, outcome, live>>

AuthorFails == At("author") /\ RemoveAndRaise

\* Faulty variant of ExecuteChecks: a container that could not be removed is forgotten.
ExecuteAndForget ==
  /\ At("check")
  /\ result' \in [job.bundle -> Verdict]
  /\ live' \in {live - 1, live} /\ pc' = "done"
  /\ UNCHANGED <<development, status, job, todo, replayed, outcome>>

\* The results are written, then the container is removed in the finally clause.
ExecuteChecks ==
  /\ At("check")
  /\ result' \in [job.bundle -> Verdict]
  /\ live' = live - 1 /\ pc' = "done"
  /\ UNCHANGED <<development, status, job, todo, replayed, outcome>>

\* An exception meanwhile is passed on, with the container removed or not; a container that
\* cannot be removed is an exception too.
ChecksFail == At("check") /\ RemoveAndRaise

-----------------------------------------------------------------------------
(* Development. *)

Aimed(m) == At("select") /\ Method = m /\ dev.memory.target

\* A test that is invalid (again, after its replacement) is a missed slot.
Propose ==
  /\ At("select") /\ slot < config.slots
  /\ \/ Execute("develop", {}) /\ UNCHANGED development
     \/ NextSlot /\ UNCHANGED <<dev, job, result>>
  /\ UNCHANGED <<status, todo, replayed, outcome, live>>

\* The random method, and what the others do until they have learned what to aim at.
ProposeSeed == ~ (Aimed("verigrey") \/ Aimed("skillrace")) /\ Propose

\* A test for the least covered transition between two tools.
ProposeTransition == Aimed("verigrey") /\ Propose

\* A test for a branch of the reasoning tree that has failed.
ProposeBranch == Aimed("skillrace") /\ Propose

\* Malformed answers (twice, of the random method), or the proposer did not complete.
ProposalFails == At("select") /\ slot < config.slots /\ Raise /\ UNCHANGED live

\* verigrey learns the tools of a run, if it has called any, and the transitions between.
SequencesLearned ==
  {new \in [observed : BOOLEAN, target : BOOLEAN] :
     /\ dev.memory.observed => new.observed
     /\ dev.memory.target => new.target
     /\ new.target => new.observed}

\* skillrace merges a run into its tree; no node is ever marked as not reached.
TreeMerged(failed) == [observed |-> TRUE, target |-> dev.memory.target \/ failed]

Memories(failed) ==
  CASE Method = "random"    -> {FreshMemory}
    [] Method = "verigrey"  -> SequencesLearned
    [] Method = "skillrace" -> {TreeMerged(failed)}

\* Part I: the run's failing checks are candidates.
CollectCandidates ==
  /\ At("done") /\ job.purpose = "develop" /\ config.part = "part1"
  /\ \E memory \in Memories(Having(result, "fail") # {}) :
       /\ dev' = [dev EXCEPT !.memory = memory]
       /\ checked' = checked @@ (Run :> [results |-> result, evidence |-> memory.observed])
  /\ NextSlot
  /\ UNCHANGED <<status, job, result, todo, replayed, bugs, finals, rows, live>>

\* Part II: a test without failing checks is retained, another leads to a patch.
JudgeRun ==
  /\ At("done") /\ job.purpose = "develop" /\ config.part = "part2"
  /\ \E memory \in Memories(Having(result, "fail") # {}) :
       IF Having(result, "fail") = {}
       THEN /\ dev' = [dev EXCEPT !.memory = memory, !.retained = Append(@, Test(result))]
            /\ NextSlot
       ELSE /\ dev' = [dev EXCEPT !.memory = memory]
            /\ pc' = "patch" /\ UNCHANGED <<config, at, slot>>
  /\ UNCHANGED <<status, job, result, todo, replayed, outcome, live>>

\* Episodes are invalid twice, or the alignment of the tree fails.
UpdateFails ==
  /\ At("done") /\ job.purpose = "develop" /\ Method = "skillrace"
  /\ Raise /\ UNCHANGED live

\* The evidence of a patch includes verigrey's last observation.
EvidenceMissing(m, observed) == m = "verigrey" /\ ~ observed

PatchSkill ==
  /\ At("patch") /\ ~ EvidenceMissing(Method, dev.memory.observed)
  /\ \/ /\ Execute("replay", DOMAIN result)
        /\ replayed' = <<result>>
        /\ UNCHANGED development
     \/ NextSlot /\ UNCHANGED <<dev, job, result, replayed>>
  /\ UNCHANGED <<status, todo, outcome, live>>

PatchFails ==
  /\ At("patch") /\ EvidenceMissing(Method, dev.memory.observed)
  /\ Raise /\ UNCHANGED live

\* The candidate meets the failing test, then each retained one, with their own checks.
ReplayDone ==
  /\ At("done") /\ job.purpose = "replay"
  /\ replayed' = Append(replayed, result)
  /\ IF Len(replayed) > Len(dev.retained) THEN pc' = "decide" /\ UNCHANGED <<job, result>>
     ELSE Execute("replay", DOMAIN dev.retained[Len(replayed)].results)
  /\ UNCHANGED <<development, status, todo, outcome, live>>

\* The retained tests with the results of the candidate.
Under(candidate) ==
  [i \in DOMAIN dev.retained |-> [test |-> dev.retained[i].test, results |-> candidate[i + 2]]]

Decide ==
  /\ At("decide")
  /\ LET regressions == {replayed[i + 2] : i \in DOMAIN dev.retained}
         decision == AcceptPatch(replayed[1], replayed[2], regressions)
     IN  dev' = IF decision = "accepted"
                THEN [dev EXCEPT !.skill = @ + 1,
                                 !.retained = Append(Under(replayed), Test(replayed[2]))]
                ELSE dev
  /\ NextSlot
  /\ replayed' = <<>> /\ result' = <<>> /\ job' = NoJob
  /\ UNCHANGED <<status, todo, outcome, live>>

Candidates == {rc \in (DOMAIN checked) \X Checks :
                 rc[2] \in DOMAIN checked[rc[1]].results /\ checked[rc[1]].results[rc[2]] = "fail"}

\* When the last method is done Part I groups its candidates, by the check that failed.
NextMethod ==
  /\ At("select") /\ slot = config.slots
  /\ slot' = 0 /\ dev' = FreshDev /\ at' = at + 1
  /\ finals' = Append(finals, dev.skill)
  /\ job' = NoJob /\ result' = <<>>
  /\ IF at < Len(config.methods) THEN pc' = "select" /\ UNCHANGED todo
     ELSE /\ pc' = IF config.part = "part1" THEN "group" ELSE "heldout"
          /\ todo' = SetToSeq({rc[2] : rc \in Candidates})
  /\ UNCHANGED <<config, status, replayed, checked, bugs, rows, live>>

-----------------------------------------------------------------------------
(* Part I: confirmation and repair. `slot` is unused now; `at` tells the run. *)

Confirm ==
  /\ At("group") /\ todo # <<>>
  /\ \E rc \in Candidates :
       /\ rc[2] = Head(todo)
       /\ replayed' = <<rc[1]>>
       /\ Execute("confirm", DOMAIN checked[rc[1]].results)
  /\ UNCHANGED <<development, status, todo, outcome, live>>

Representative == replayed[1]

NextGroup ==
  /\ pc' = "group" /\ todo' = Tail(todo) /\ replayed' = <<>> /\ result' = <<>> /\ job' = NoJob

Reproduced == result[Head(todo)] = "fail"

NotReproduced ==
  /\ At("done") /\ job.purpose = "confirm" /\ ~ Reproduced
  /\ NextGroup
  /\ UNCHANGED <<development, status, outcome, live>>

\* Each repair starts from S0 again.
Repair ==
  /\ At("done") /\ job.purpose = "confirm" /\ Reproduced
  /\ ~ EvidenceMissing(config.methods[Representative[1]], checked[Representative].evidence)
  /\ \/ /\ Execute("repair", DOMAIN checked[Representative].results)
        /\ UNCHANGED <<todo, replayed, bugs>>
     \/ /\ bugs' = bugs \cup {[check |-> Head(todo), decision |-> "rejected"]}
        /\ NextGroup
  /\ UNCHANGED <<development, status, checked, finals, rows, live>>

RepairFails ==
  /\ At("done") /\ job.purpose = "confirm" /\ Reproduced
  /\ EvidenceMissing(config.methods[Representative[1]], checked[Representative].evidence)
  /\ Raise /\ UNCHANGED live

RepairDone ==
  /\ At("done") /\ job.purpose = "repair"
  /\ bugs' = bugs \cup
       {[check |-> Head(todo),
         decision |-> AcceptPatch(checked[Representative].results, result, {})]}
  /\ NextGroup
  /\ UNCHANGED <<development, status, checked, finals, rows, live>>

ReportPart1 ==
  /\ At("group") /\ todo = <<>>
  /\ status' = "complete"
  /\ UNCHANGED <<development, pc, job, result, todo, replayed, outcome, live>>

-----------------------------------------------------------------------------
(* Part II: held-out tests, first read here. *)

Labels == Len(config.methods) + 1     \* S0 and the final skill of each method

LoadFails == At("heldout") /\ rows = <<>> /\ Raise /\ UNCHANGED live

Evaluate ==
  /\ At("heldout") /\ Len(rows) < Labels * config.cells
  /\ Execute("evaluate", {})
  /\ UNCHANGED <<development, status, todo, replayed, outcome, live>>

\* "passed" is all() over the results.
EvaluationDone ==
  /\ At("done") /\ job.purpose = "evaluate"
  /\ rows' = Append(rows, [passed |-> Range(result) \subseteq {"pass"},
                           checks |-> Cardinality(DOMAIN result)])
  /\ pc' = "heldout" /\ job' = NoJob /\ result' = <<>>
  /\ UNCHANGED <<development, status, todo, replayed, checked, bugs, finals, live>>

ReportPart2 ==
  /\ At("heldout") /\ Len(rows) = Labels * config.cells
  /\ status' = "complete"
  /\ UNCHANGED <<development, pc, job, result, todo, replayed, outcome, live>>

-----------------------------------------------------------------------------
Next ==
  \/ StartContainer \/ StartFails \/ AgentEnds \/ AgentBreaks
  \/ CaptureEvidence \/ CaptureFails \/ AuthorChecks \/ AuthorFails
  \/ ExecuteChecks \/ ChecksFail
  \/ ProposeSeed \/ ProposeTransition \/ ProposeBranch \/ ProposalFails
  \/ CollectCandidates \/ JudgeRun \/ UpdateFails
  \/ PatchSkill \/ PatchFails \/ ReplayDone \/ Decide \/ NextMethod
  \/ Confirm \/ NotReproduced \/ Repair \/ RepairFails \/ RepairDone \/ ReportPart1
  \/ LoadFails \/ Evaluate \/ EvaluationDone \/ ReportPart2

Spec == Init /\ [][Next]_vars

-----------------------------------------------------------------------------
(* What must hold. *)

Executing == pc \in {"agent", "capture", "author", "check"}

\* The campaign owns at most one container, only while an agent or its checks run: a
\* container that cannot be removed ends the campaign, and a complete one has left none
\* (execute_checks, replay, _run, _verify).
OneContainer ==
  /\ at \in 1 .. Len(config.methods) + 1 /\ slot \in 0 .. config.slots
  /\ live \in {0, 1}
  /\ live = 1 => status = "failed" \/ (status = "running" /\ Executing)

\* What is known to pass under a method's skill stays known to pass: accepting a candidate
\* repairs something, keeps every check that passed in the failing run, and loses none of
\* any retained test; nor is a retained test forgotten (run_part2, accept_patch).
KnownPassesPersist ==
  [][at' = at =>
       /\ dev'.skill \in {dev.skill, dev.skill + 1}
       /\ \A i \in DOMAIN dev.retained :
            /\ i \in DOMAIN dev'.retained
            /\ dev'.retained[i].test = dev.retained[i].test
            /\ Having(dev.retained[i].results, "pass")
                 \subseteq Having(dev'.retained[i].results, "pass")
       /\ dev'.skill # dev.skill =>
            \E i \in DOMAIN dev'.retained :
               /\ dev'.retained[i].test = slot
               /\ Having(replayed[1], "pass") \subseteq Having(dev'.retained[i].results, "pass")
               /\ Having(replayed[1], "fail") \cap Having(dev'.retained[i].results, "pass") # {}
    ]_vars

\* A held-out test counts as passed only if a check has passed: an outcome that nothing was
\* checked for is inconclusive (run_part2_campaign.evaluate, author_checks).
PassedWasChecked == \A i \in DOMAIN rows : rows[i].passed => rows[i].checks > 0
=============================================================================
