--------------------------- MODULE CampaignEngine ---------------------------
(***************************************************************************)
(* The sequential campaign engine (skillrace/campaign_engine.py with       *)
(* epoch_size = 1): one process that draws candidates from a generator,    *)
(* executes each of them once, charges the executions in which the agent   *)
(* ran (or may have run), and folds their feedback into the generator.     *)
(* Every step that writes a file is an action of its own, so the process   *)
(* may die between any two of them, and a later process resumes from the   *)
(* files alone.                                                            *)
(***************************************************************************)
EXTENDS CampaignRecords, FiniteSets

CONSTANTS
  Budget,      \* protocol.budget: executions to charge
  Cap,         \* protocol.max_generation_attempts_per_execution
  Candidates,  \* bound: the kinds of candidate the generator proposes
  MaxCrashes   \* bound: how often the process may be killed

ASSUME BudgetAssumption == Budget \in Nat \ {0}
ASSUME CapAssumption == Cap \in Nat \ {0}
ASSUME CandidatesAssumption == Candidates \subseteq Candidate
ASSUME CrashAssumption == MaxCrashes \in Nat

\* Attempt "e<ordinal>-a<number>": the number-th try to obtain execution ordinal.
Attempt == (0 .. Budget - 1) \X (0 .. Cap - 1)

VARIABLES
  (* durable: files below the campaign directory *)
  campaign,    \* campaign.json: attempts, iterations, pending_fold, ...
  proposal,    \* attempts/<id>/proposal.json: candidate and generator snapshot
  started,     \* attempts/<id> holding a "started" lifecycle record
  external,    \* the "external-terminal" lifecycle record
  terminal,    \* the "executor-terminal" lifecycle record
  receipt,     \* attempts/<id>/receipt.json: result and journal hashes
  cleaned,     \* attempts/<id> holding cleanup.json
  fold,        \* attempts/<id>/fold.json: status and generator snapshot
  (* the world outside the engine *)
  images,      \* attempts whose campaign-owned image exists in Docker
  launches,    \* how often run_agent was invoked for an attempt
  marker,      \* attempts whose runner wrote the durable agent-started marker
  (* volatile: lost with the process *)
  pc,          \* the engine's control point
  cur,         \* the attempt being processed
  gen,         \* the generator object
  out,         \* the result held in memory
  crashes

journal == <<started, external, terminal>>
records == <<proposal, journal, receipt, cleaned, fold>>
world == <<images, launches, marker>>
vars == <<campaign, records, world, pc, cur, gen, out, crashes>>

-----------------------------------------------------------------------------
(* Reading the files *)

Committed(a) == a \in campaign.attempts
Charged(a) == Committed(a) /\ ConsumesBudget(receipt[a].result)

\* Attempts a resumed process finds proposed but not in campaign.json.
Uncommitted == {a \in Attempt : proposal[a] # None /\ ~Committed(a)}

\* Faulty variant of NextOrdinal: attempts are counted instead of executions.
OrdinalOfAttempts == Cardinality(campaign.attempts)

\* The execution to obtain next: one past those already in the iterations.
NextOrdinal == Len(campaign.iterations)

\* Faulty variants of RecoveredResult: a start without a terminal record is taken
\* for no start; it is recovered as uncharged; the journal is not read at all.
RecoveredFromTerminal(a) == Recovered(FALSE, external[a], terminal[a])
RecoveredUncharged(a) ==
  LET r == Recovered(a \in started, external[a], terminal[a])
  IN IF r = "unknown" THEN "notStarted" ELSE r
RecoveredNothing(a) == None

RecoveredResult(a) == Recovered(a \in started, external[a], terminal[a])

JournalOf(a) == JournalEvents(a \in started, external[a], terminal[a])

\* The checks of _load_or_create: every committed attempt still has its records,
\* its receipt still binds the journal, and at most one proposal is uncommitted,
\* for the next execution.
AuditPasses ==
  /\ \A a \in campaign.attempts :
       /\ proposal[a] # None
       /\ receipt[a] # None /\ receipt[a].journal = JournalOf(a)
       /\ a \in cleaned
  /\ \A i \in 1 .. Len(campaign.iterations) : fold[campaign.iterations[i]] # None
  /\ \A a \in Uncommitted : a[1] = NextOrdinal
  /\ \A a, b \in Uncommitted : a = b

\* Faulty variant of RestoredOnLoad: the generator starts afresh.
RestoredNothing == gen

\* The snapshot that _load_or_create restores.
RestoredOnLoad ==
  IF campaign.pending # None
  THEN IF fold[campaign.pending] # None
       THEN fold[campaign.pending].gen
       ELSE campaign.gen
  ELSE IF Uncommitted # {}
       THEN proposal[CHOOSE a \in Uncommitted : TRUE].gen
       ELSE campaign.gen

\* The snapshot that _process_attempt restores when it finds a proposal.
RestoredForAttempt(a) ==
  IF campaign.pending = a /\ fold[a] # None THEN fold[a].gen ELSE proposal[a].gen

\* Faulty variant of ResumePoint: a receipt is enough to commit.
ResumeAtCommit(a) ==
  CASE proposal[a] = None -> "generate"
    [] proposal[a] # None /\ receipt[a] = None -> "execute"
    [] OTHER -> "commit"

\* Where _process_attempt takes an attempt up: its receipt, when there is one, is
\* read back instead of executing; the cleanup is always gone through.
ResumePoint(a) ==
  CASE proposal[a] = None -> "generate"
    [] proposal[a] # None /\ receipt[a] = None -> "execute"
    [] OTHER -> "cleanup"

\* Faulty variant of CommittedState: only charged attempts are recorded.
CommittedIfCharged(a) ==
  IF Committed(a) \/ ~ConsumesBudget(receipt[a].result) THEN campaign
  ELSE [campaign EXCEPT !.attempts = @ \cup {a}, !.gen = proposal[a].gen, !.pending = a]

\* campaign.json after _commit_attempt. An attempt committed by an earlier process
\* is returned as it is.
CommittedState(a) ==
  IF Committed(a) THEN campaign
  ELSE [campaign EXCEPT
          !.attempts = @ \cup {a},
          !.gen = proposal[a].gen,
          !.pending = IF ConsumesBudget(receipt[a].result) THEN a ELSE @]

\* Faulty variant of FinalizedState: the generator's snapshot is not taken over.
FinalizedWithoutGenerator(a) ==
  [campaign EXCEPT !.iterations = Append(@, a), !.pending = None]

\* campaign.json at the end of _finish_fold.
FinalizedState(a) ==
  [campaign EXCEPT !.iterations = Append(@, a), !.gen = fold[a].gen, !.pending = None]

-----------------------------------------------------------------------------
Init ==
  /\ campaign = [attempts |-> {}, iterations |-> <<>>, pending |-> None,
                 gen |-> FreshGenerator, status |-> "running"]
  /\ proposal = [a \in Attempt |-> None]
  /\ started = {}
  /\ external = [a \in Attempt |-> None]
  /\ terminal = [a \in Attempt |-> None]
  /\ receipt = [a \in Attempt |-> None]
  /\ cleaned = {}
  /\ fold = [a \in Attempt |-> None]
  /\ images = {}
  /\ launches = [a \in Attempt |-> 0]
  /\ marker = {}
  /\ pc = "load"
  /\ cur = <<0, 0>>
  /\ gen = FreshGenerator
  /\ out = None
  /\ crashes = 0

\* _load_or_create: audit the files, restore the generator, stop at once when the
\* campaign already ended.
Load ==
  /\ pc = "load"
  /\ gen' = RestoredOnLoad
  /\ pc' = CASE ~AuditPasses -> "refused"
             [] AuditPasses /\ campaign.status # "running" -> "done"
             [] OTHER -> "select"
  /\ UNCHANGED <<campaign, records, world, cur, out, crashes>>

\* run: take the lowest attempt number that is not a committed uncharged attempt.
\* An attempt found proposed is resumed where its records end.
SelectAttempt(n) ==
  LET a == <<NextOrdinal, n>> IN
  /\ pc = "select"
  /\ NextOrdinal < Budget
  /\ \A m \in 0 .. n - 1 : Committed(<<NextOrdinal, m>>) /\ ~Charged(<<NextOrdinal, m>>)
  /\ ~(Committed(a) /\ ~Charged(a))
  /\ cur' = a
  /\ gen' = IF proposal[a] = None THEN gen ELSE RestoredForAttempt(a)
  /\ pc' = ResumePoint(a)
  /\ UNCHANGED <<campaign, records, world, out, crashes>>

\* _create_proposal, first half: generator.propose() advances the generator and
\* may build an image. An exception is a proposal without a candidate.
Generate ==
  /\ pc = "generate"
  /\ gen' = Draw(gen)
  /\ pc' = "proposal"
  /\ UNCHANGED <<campaign, records, world, cur, out, crashes>>

\* _create_proposal, second half: publish the candidate with the generator's
\* snapshot.
PublishProposal(candidate) ==
  /\ pc = "proposal"
  /\ proposal' = [proposal EXCEPT ![cur] = [candidate |-> candidate, gen |-> gen]]
  /\ images' = IF candidate = "owned" THEN images \cup {cur} ELSE images
  /\ pc' = "execute"
  /\ UNCHANGED <<campaign, journal, receipt, cleaned, fold, launches, marker,
                 cur, gen, out, crashes>>

\* _execute_and_publish: a failed generation has its result at once; otherwise the
\* journal is consulted before the executor is called.
Recover ==
  /\ pc = "execute"
  /\ \/ /\ proposal[cur].candidate = "failure"
        /\ out' = "notStarted"
     \/ /\ proposal[cur].candidate # "failure" /\ RecoveredResult(cur) # None
        /\ out' = RecoveredResult(cur)
  /\ pc' = "receipt"
  /\ UNCHANGED <<campaign, records, world, cur, gen, crashes>>

\* RealExecutor.execute returns, or raises, before its first lifecycle event: the
\* case, the image, the sanity checks or the compiled checks were rejected.
RejectBeforeStart ==
  /\ pc = "execute"
  /\ proposal[cur].candidate # "failure" /\ RecoveredResult(cur) = None
  /\ out' = "notStarted"
  /\ pc' = "terminal"
  /\ UNCHANGED <<campaign, records, world, cur, gen, crashes>>

\* RealExecutor.execute announces the external action before it launches it.
PublishStarted ==
  /\ pc = "execute"
  /\ proposal[cur].candidate # "failure" /\ RecoveredResult(cur) = None
  /\ started' = started \cup {cur}
  /\ pc' = "launch"
  /\ UNCHANGED <<campaign, proposal, external, terminal, receipt, cleaned, fold,
                 world, cur, gen, out, crashes>>

\* run_agent, a subprocess: began says whether its runner wrote the agent-started
\* marker, manifest whether it lived to write run.json, which alone tells
\* classify_runner_result that the agent began.
RunAgent(began, manifest) ==
  /\ pc = "launch"
  /\ manifest => began
  /\ launches' = [launches EXCEPT ![cur] = @ + 1]
  /\ marker' = IF began THEN marker \cup {cur} ELSE marker
  /\ out' = IF began /\ manifest THEN "started" ELSE "notStarted"
  /\ pc' = "external"
  /\ UNCHANGED <<campaign, records, images, cur, gen, crashes>>

\* The executor raises between run_agent and its terminal event, on a cost receipt
\* it cannot bind: _execute_and_publish falls back on the journal.
RaiseAfterAgent ==
  /\ pc = "external"
  /\ out' = RecoveredResult(cur)
  /\ pc' = "terminal"
  /\ UNCHANGED <<campaign, records, world, cur, gen, crashes>>

\* The terminal record of the external action. What follows it in the executor
\* (the oracle) changes neither the result's charge nor, when it raises, more than
\* _recover_lifecycle_result restores.
PublishExternal ==
  /\ pc = "external"
  /\ external' = [external EXCEPT ![cur] = out]
  /\ pc' = "terminal"
  /\ UNCHANGED <<campaign, proposal, started, terminal, receipt, cleaned, fold,
                 world, cur, gen, out, crashes>>

PublishTerminal ==
  /\ pc = "terminal"
  /\ terminal' = [terminal EXCEPT ![cur] = out]
  /\ pc' = "receipt"
  /\ UNCHANGED <<campaign, proposal, started, external, receipt, cleaned, fold,
                 world, cur, gen, out, crashes>>

PublishReceipt ==
  /\ pc = "receipt"
  /\ receipt' = [receipt EXCEPT ![cur] = [result |-> out, journal |-> JournalOf(cur)]]
  /\ out' = None
  /\ pc' = "cleanup"
  /\ UNCHANGED <<campaign, proposal, journal, cleaned, fold, world, cur, gen, crashes>>

\* _ensure_cleanup succeeds, or finds its receipt: the owned image is gone. The
\* protocol inside cleanup_candidate_image is module ImageCleanup.
Cleanup ==
  /\ pc = "cleanup"
  /\ images' = images \ {cur}
  /\ cleaned' = cleaned \cup {cur}
  /\ pc' = "commit"
  /\ UNCHANGED <<campaign, proposal, journal, receipt, fold, launches, marker,
                 cur, gen, out, crashes>>

\* The image was not inspected or not removed: CleanupRecoveryError ends the
\* process, and a later one must try again.
CleanupError(removed) ==
  /\ pc = "cleanup"
  /\ cur \notin cleaned /\ proposal[cur].candidate = "owned"
  /\ images' = IF removed THEN images \ {cur} ELSE images
  /\ pc' = "down"
  /\ gen' = FreshGenerator
  /\ cur' = <<0, 0>>
  /\ UNCHANGED <<campaign, records, launches, marker, out, crashes>>

\* _commit_attempt: one atomic write of campaign.json.
Commit ==
  /\ pc = "commit"
  /\ campaign' = CommittedState(cur)
  /\ pc' = CASE ~ConsumesBudget(receipt[cur].result) -> "select"
             [] fold[cur] # None -> "finalize"
             [] OTHER -> "fold"
  /\ UNCHANGED <<records, world, cur, gen, out, crashes>>

\* _finish_fold: restore the snapshot of the proposal, fold the feedback, publish
\* the outcome with the generator's new snapshot. A fold that raises is recorded as
\* an error, whether or not it changed the generator first.
CallFold(status, absorbed) ==
  /\ pc = "fold"
  /\ status = "folded" => absorbed
  /\ gen' = IF absorbed THEN Fold(proposal[cur].gen, cur) ELSE proposal[cur].gen
  /\ out' = status
  /\ pc' = "foldReceipt"
  /\ UNCHANGED <<campaign, records, world, cur, crashes>>

PublishFold ==
  /\ pc = "foldReceipt"
  /\ fold' = [fold EXCEPT ![cur] = [status |-> out, gen |-> gen]]
  /\ out' = None
  /\ pc' = "finalize"
  /\ UNCHANGED <<campaign, proposal, journal, receipt, cleaned, world, cur, gen, crashes>>

\* The end of _finish_fold: one atomic write of campaign.json.
Finalize ==
  /\ pc = "finalize"
  /\ gen' = fold[cur].gen
  /\ campaign' = FinalizedState(cur)
  /\ pc' = "select"
  /\ UNCHANGED <<records, world, cur, out, crashes>>

\* run: the budget is spent, or the cap of uncharged attempts is reached.
Finish ==
  /\ pc = "select"
  /\ \/ /\ NextOrdinal = Budget
        /\ campaign' = [campaign EXCEPT !.status = "completed"]
     \/ /\ NextOrdinal < Budget
        /\ \A n \in 0 .. Cap - 1 :
             Committed(<<NextOrdinal, n>>) /\ ~Charged(<<NextOrdinal, n>>)
        /\ campaign' = [campaign EXCEPT !.status = "aborted"]
  /\ pc' = "done"
  /\ UNCHANGED <<records, world, cur, gen, out, crashes>>

-----------------------------------------------------------------------------
(* The process dies between two durable writes, and is started again. *)

Crash ==
  /\ pc \notin {"down", "done", "refused"}
  /\ crashes < MaxCrashes
  /\ crashes' = crashes + 1
  /\ pc' = "down"
  /\ gen' = FreshGenerator
  /\ cur' = <<0, 0>>
  /\ out' = None
  /\ UNCHANGED <<campaign, records, world>>

Restart ==
  /\ pc = "down"
  /\ pc' = "load"
  /\ UNCHANGED <<campaign, records, world, cur, gen, out, crashes>>

\* A process that returned, or refused to resume, takes no further step.
Terminated == pc \in {"done", "refused"} /\ UNCHANGED vars

Step ==
  \/ Load
  \/ \E n \in 0 .. Cap - 1 : SelectAttempt(n)
  \/ Generate
  \/ \E candidate \in Candidates : PublishProposal(candidate)
  \/ Recover \/ RejectBeforeStart \/ PublishStarted
  \/ \E began, manifest \in BOOLEAN : RunAgent(began, manifest)
  \/ RaiseAfterAgent \/ PublishExternal \/ PublishTerminal \/ PublishReceipt
  \/ Cleanup
  \/ \E removed \in BOOLEAN : CleanupError(removed)
  \/ Commit
  \/ \E status \in {"folded", "error"}, absorbed \in BOOLEAN : CallFold(status, absorbed)
  \/ PublishFold \/ Finalize \/ Finish

Next == Step \/ Crash \/ Restart \/ Terminated

\* The process runs while it can and is restarted when it died (the experiment
\* driver resumes unfinished cells); an image that can be removed is not refused
\* removal forever.
Fairness == WF_vars(Step) /\ WF_vars(Restart) /\ SF_vars(Cleanup)

Spec == Init /\ [][Next]_vars
FairSpec == Spec /\ Fairness

-----------------------------------------------------------------------------
(* Properties *)

Generator == [drawn : Nat, folded : Seq(Attempt)]
CampaignState == [attempts : SUBSET Attempt, iterations : Seq(Attempt),
                  pending : Attempt \cup {None}, gen : Generator,
                  status : {"running", "completed", "aborted"}]
ProposalRecord == [candidate : Candidate, gen : Generator]
ReceiptRecord ==
  [result : Result, journal : SUBSET {"started", "external-terminal", "executor-terminal"}]
FoldRecord == [status : {"folded", "error"}, gen : Generator]

ASSUME NoRecordAssumption ==
  None \notin Attempt \cup ProposalRecord \cup ReceiptRecord \cup FoldRecord

ControlPoint == {"load", "select", "generate", "proposal", "execute", "launch", "external",
                 "terminal", "receipt", "cleanup", "commit", "fold", "foldReceipt",
                 "finalize", "down", "done", "refused"}

\* The type invariant: every file, when it exists, holds a record of its schema.
TypeOK ==
  /\ campaign \in CampaignState
  /\ proposal \in [Attempt -> ProposalRecord \cup {None}]
  /\ started \in SUBSET Attempt
  /\ external \in [Attempt -> Result \cup {None}]
  /\ terminal \in [Attempt -> Result \cup {None}]
  /\ receipt \in [Attempt -> ReceiptRecord \cup {None}]
  /\ cleaned \in SUBSET Attempt
  /\ fold \in [Attempt -> FoldRecord \cup {None}]
  /\ images \in SUBSET Attempt
  /\ launches \in [Attempt -> Nat]
  /\ marker \in SUBSET Attempt
  /\ pc \in ControlPoint
  /\ cur \in Attempt
  /\ gen \in Generator
  /\ out \in Result \cup {None, "folded", "error"}
  /\ crashes \in 0 .. MaxCrashes

\* A paid agent run is never repeated: whatever the process had written when it
\* died, no attempt reaches run_agent twice.
AtMostOneLaunch == \A a \in Attempt : launches[a] <= 1

\* An execution is charged exactly when it was announced and the journal does not
\* say that the agent never began: a launch whose outcome was lost in a crash is
\* charged, a candidate rejected before the announcement never is.
ChargeFollowsJournal ==
  \A a \in campaign.attempts : Charged(a) <=> a \in started /\ external[a] # "notStarted"

\* The iterations are one charged execution per ordinal, and with the one awaiting its
\* fold they are all the charged attempts. The feedback the durable generator state holds
\* is that of the iterations, each folded once and in order, except folds recorded as
\* failed; and every committed proposal was drawn from it exactly once. No crash loses or
\* repeats any of these, and the files it leaves pass the checks of the next start.
GeneratorMatchesHistory ==
  LET Absorbed(a) == \E i \in 1 .. Len(campaign.gen.folded) : campaign.gen.folded[i] = a
  IN /\ pc # "refused"
     /\ \A i \in 1 .. Len(campaign.iterations) : campaign.iterations[i][1] = i - 1
     /\ {a \in Attempt : Charged(a)}
          = {campaign.iterations[i] : i \in 1 .. Len(campaign.iterations)}
              \cup ({campaign.pending} \ {None})
     /\ InOrderOf(campaign.gen.folded, campaign.iterations)
     /\ \A i \in 1 .. Len(campaign.iterations) :
          fold[campaign.iterations[i]].status = "folded" => Absorbed(campaign.iterations[i])
     /\ campaign.gen.drawn = Cardinality(campaign.attempts)

\* A candidate is proposed only by a generator that already has the feedback of
\* every earlier execution: the snapshot in proposal.json continues the fold
\* receipt of the execution before it.
ProposalsSeeAllFeedback ==
  \A a \in Attempt : proposal[a] # None =>
    IF a[1] = 0 THEN proposal[a].gen.folded = <<>>
    ELSE /\ a[1] <= Len(campaign.iterations)
         /\ proposal[a].gen.folded = fold[campaign.iterations[a[1]]].gen.folded

\* No step that publishes a record ever finds one: _publish_immutable never has to
\* refuse a conflicting replay, because a resumed process never redoes a step whose
\* record is on disk.
PublishedOnce ==
  /\ pc = "proposal" => proposal[cur] = None
  /\ pc = "launch" => external[cur] = None /\ terminal[cur] = None
  /\ pc \in {"launch", "external", "terminal", "receipt"} => receipt[cur] = None
  /\ pc = "external" => external[cur] = None
  /\ pc = "terminal" => terminal[cur] = None
  /\ pc \in {"fold", "foldReceipt"} => fold[cur] = None

\* A campaign-owned image exists until the execution that needs it has its receipt,
\* and is gone before the attempt is committed.
ImageLifetime ==
  \A a \in Attempt :
    /\ proposal[a] # None /\ proposal[a].candidate = "owned" /\ receipt[a] = None
         => a \in images
    /\ Committed(a) => a \notin images

\* Claimed of the code, and false of it: an execution whose agent began is charged
\* once it is committed ("A method cannot erase a bad started execution").
StartedAgentsCharged == \A a \in marker : Committed(a) => Charged(a)

\* Under a fair scheduler every campaign ends: completed, or at the cap.
Termination == <>(pc = "done" /\ campaign.status # "running")

\* The campaign implements the abstract one: files and control points are forgotten.
Abstract == INSTANCE ExactlyOnceCampaign
              WITH launched <- {a \in Attempt : launches[a] > 0},
                   counted <- campaign.iterations
                     \o (IF campaign.pending = None THEN <<>> ELSE <<campaign.pending>>),
                   settled <- Len(campaign.iterations),
                   learned <- campaign.gen.folded,
                   outcome <- campaign.status

ImplementsExactlyOnce == Abstract!Spec
=============================================================================
