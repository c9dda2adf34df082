-------------------------- MODULE ParallelCampaign --------------------------
(***************************************************************************)
(* The campaign engine with epoch_size > 1 (_run_parallel), together with  *)
(* parallel_campaign.py: an epoch of candidates is drawn from one frozen   *)
(* generator state, executed by concurrent workers, each with a lifecycle  *)
(* journal and a receipt of its own, and reduced by one thread, in the     *)
(* order of the candidate ids, into campaign.json and the generator.       *)
(* The process may die between any two durable writes.                     *)
(***************************************************************************)
EXTENDS CampaignRecords, FiniteSets

CONSTANTS
  Budget,       \* protocol.budget: executions to charge
  Bootstrap,    \* protocol.bootstrap_for(method): how many of them bootstrap
  Cap,          \* protocol.max_generation_attempts_per_execution
  EpochSize,    \* min(epoch_size, resource_pool.agent_capacity)
  Rank,         \* the order of the reserved candidate ids
  Candidates,   \* bound: the kinds of candidate the generator proposes
  MaxAttempts,  \* bound: execution ordinals that exist
  MaxCrashes    \* bound: how often the process may be killed

\* Attempt "e<ordinal>-a00": a parallel campaign never retries an ordinal, it takes
\* the next one.
Ordinal == 0 .. MaxAttempts - 1
Epoch == 0 .. MaxAttempts

ASSUME BudgetAssumption == Budget \in Nat \ {0} /\ Bootstrap \in 0 .. Budget
ASSUME CapAssumption == Cap \in Nat \ {0} /\ EpochSize \in Nat \ {0}
ASSUME BoundAssumption == MaxAttempts \in Nat \ {0} /\ MaxCrashes \in Nat
ASSUME CandidatesAssumption == Candidates \subseteq Candidate
ASSUME RankAssumption ==
  Rank \in [Ordinal -> Nat] /\ \A o, p \in Ordinal : Rank[o] = Rank[p] => o = p

VARIABLES
  (* durable *)
  campaign,        \* campaign.json
  batch,           \* epochs/<e>/generation: the generator's durable transition
  proposal,        \* attempts/<o>/proposal.json
  started,         \* workers/<o>/started.json
  external,        \* workers/<o>/external-terminal.json
  terminal,        \* workers/<o>/executor-terminal.json
  workerReceipt,   \* workers/<o>/receipt.json
  litter,          \* workers/<o> holding a temporary file of a write that was killed
  receipt,         \* attempts/<o>/receipt.json
  cleaned,         \* attempts/<o>/cleanup.json
  fold,            \* attempts/<o>/fold.json
  progress,        \* fold-progress/<o>.json
  (* the world outside *)
  launches,        \* how often run_agent was invoked for an ordinal
  (* volatile *)
  pc, cur, gen, out,   \* the main thread; the generator object; a fold's status
  before,              \* counted_executions when the epoch was (re)entered
  wpc, wout,           \* the workers' control points and results
  crashes

plans == <<batch, proposal>>
journal == <<started, external, terminal, workerReceipt>>
workerFiles == <<journal, litter>>
reduceFiles == <<receipt, cleaned, fold, progress>>
main == <<pc, cur, gen, out, before>>
workers == <<wpc, wout>>
vars == <<campaign, plans, workerFiles, reduceFiles, launches, main, workers, crashes>>

-----------------------------------------------------------------------------
(* Reading the files *)

Counted == Len(campaign.iterations)
Committed(o) == o \in campaign.attempts
Charged(o) == Committed(o) /\ ConsumesBudget(receipt[o])
Folded(o) == \E i \in 1 .. Counted : campaign.iterations[i] = o
Uncommitted == {o \in Ordinal : proposal[o] # None /\ ~Committed(o)}

Phase == IF Counted < Bootstrap THEN "bootstrap" ELSE "explore"

AtMost(m, n) == IF m <= n THEN m ELSE n

\* Faulty variant of Capacity: the end of the bootstrap is ignored.
CapacityOfBudget == AtMost(EpochSize, Budget - Counted)

\* Slots of the next epoch: within the budget, and within the phase.
Capacity ==
  AtMost(EpochSize, IF Phase = "bootstrap" THEN Bootstrap - Counted ELSE Budget - Counted)

Slots == campaign.nextOrdinal .. campaign.nextOrdinal + Capacity - 1

\* The workers' jobs: the epoch's proposals that have a candidate.
Jobs == {o \in campaign.active.slots : proposal[o].candidate # "failure"}
Failures == campaign.active.slots \ Jobs

\* The snapshot that _load_or_create restores: of the pending fold, else of the last
\* uncommitted proposal, else that of campaign.json.
RestoredOnLoad ==
  IF campaign.pending # None
  THEN IF fold[campaign.pending] # None THEN fold[campaign.pending].gen ELSE campaign.gen
  ELSE IF Uncommitted # {}
       THEN proposal[CHOOSE o \in Uncommitted : \A p \in Uncommitted : p <= o].gen
       ELSE campaign.gen

AuditPasses ==
  /\ \A o \in campaign.attempts : proposal[o] # None /\ receipt[o] # None /\ o \in cleaned
  /\ \A i \in 1 .. Counted : fold[campaign.iterations[i]] # None

\* Faulty variant of RecoveredOutcome: an announced launch that left no terminal record is
\* taken for none.
OutcomeFromTerminal(o) == Recovered(FALSE, external[o], terminal[o])

\* _recover_worker_outcome
RecoveredOutcome(o) == Recovered(o \in started, external[o], terminal[o])

\* Faulty variant of CommittedState: only charged attempts are recorded.
CommittedIfCharged(o) ==
  IF Committed(o) \/ ~ConsumesBudget(receipt[o]) THEN campaign
  ELSE [campaign EXCEPT !.attempts = @ \cup {o}, !.gen = proposal[o].gen, !.pending = o]

\* campaign.json after _commit_attempt, which saves the snapshot of the proposal.
CommittedState(o) ==
  IF Committed(o) THEN campaign
  ELSE [campaign EXCEPT
          !.attempts = @ \cup {o},
          !.gen = proposal[o].gen,
          !.pending = IF ConsumesBudget(receipt[o]) THEN o ELSE @]

\* Faulty variant of NextResult: results are reduced in the order of the slots.
FirstSlot(set) == CHOOSE o \in set : \A p \in set : o <= p

\* ParallelReducer.reduce takes the results sorted by candidate id.
NextResult(set) == CHOOSE o \in set : \A p \in set : Rank[o] <= Rank[p]

\* Faulty variant of AfterCommit: what an earlier process committed is taken for done.
AfterFreshCommit(o) ==
  IF proposal[o].candidate = "failure" THEN "failures"
  ELSE IF Committed(o) THEN "progress"
  ELSE IF ConsumesBudget(receipt[o]) THEN "fold" ELSE "save"

\* What follows _commit_attempt: the next generation failure, the fold, or the save
\* of an uncharged result.
AfterCommit(o) ==
  IF proposal[o].candidate = "failure" THEN "failures"
  ELSE IF ~ConsumesBudget(receipt[o]) THEN "save"
  ELSE IF Folded(o) THEN "progress"
  ELSE IF fold[o] # None THEN "finalize" ELSE "fold"

\* Faulty variant of FoldOnto: the fold starts from the proposal's snapshot, as it
\* does in the sequential engine.
FoldOntoProposal(o) == proposal[o].gen

\* The state a fold is applied to: the generator as it is (restore_proposal_state is
\* false), so that the results of one epoch accumulate.
FoldOnto(o) == gen

\* consecutive_parallel_pre_agent_failures at the end of the epoch.
FailuresAfter(gained) ==
  IF gained > 0 THEN 0 ELSE campaign.failures + Cardinality(campaign.active.slots)

-----------------------------------------------------------------------------
Init ==
  /\ campaign = [attempts |-> {}, iterations |-> <<>>, pending |-> None,
                 gen |-> FreshGenerator, active |-> None, nextEpoch |-> 0,
                 nextOrdinal |-> 0, failures |-> 0, status |-> "running"]
  /\ batch = [e \in Epoch |-> None]
  /\ proposal = [o \in Ordinal |-> None]
  /\ started = {}
  /\ external = [o \in Ordinal |-> None]
  /\ terminal = [o \in Ordinal |-> None]
  /\ workerReceipt = [o \in Ordinal |-> None]
  /\ litter = {}
  /\ receipt = [o \in Ordinal |-> None]
  /\ cleaned = {}
  /\ fold = [o \in Ordinal |-> None]
  /\ progress = {}
  /\ launches = [o \in Ordinal |-> 0]
  /\ pc = "load" /\ cur = None /\ gen = FreshGenerator /\ out = None /\ before = 0
  /\ wpc = [o \in Ordinal |-> "idle"]
  /\ wout = [o \in Ordinal |-> None]
  /\ crashes = 0

Load ==
  /\ pc = "load"
  /\ gen' = RestoredOnLoad
  /\ pc' = CASE ~AuditPasses -> "refused"
             [] AuditPasses /\ campaign.status # "running" -> "done"
             [] OTHER -> "loop"
  /\ UNCHANGED <<campaign, plans, workerFiles, reduceFiles, launches, cur, out, before,
                 workers, crashes>>

\* _run_parallel takes up the epoch that is active in campaign.json.
ResumeEpoch ==
  /\ pc = "loop" /\ Counted < Budget /\ campaign.active # None
  /\ pc' = "failures"
  /\ UNCHANGED <<campaign, plans, workerFiles, reduceFiles, launches, cur, gen, out,
                 before, workers, crashes>>

\* What _plan_parallel_epoch demands of the proposals it finds for its slots.
PlanMatches ==
  \A o \in Slots :
    proposal[o] # None => proposal[o].epoch = campaign.nextEpoch /\ proposal[o].phase = Phase

\* propose_epoch: the batch is reserved and realized once and for all; on resume its
\* durable transition is applied to the side of it the generator is found on. A
\* generator on neither side is an error, which fails every slot not yet proposed.
\* (reservation.json and completion.json are one step: nothing reads what is between.)
ProposeEpoch(results) ==
  LET e == campaign.nextEpoch IN
  /\ pc = "loop" /\ Counted < Budget /\ campaign.active = None
  /\ campaign.nextOrdinal + Capacity <= MaxAttempts
  /\ IF ~PlanMatches
     THEN pc' = "refused" /\ UNCHANGED <<batch, gen, out, cur>>
     ELSE /\ pc' = "slots" /\ cur' = campaign.nextOrdinal
          /\ IF batch[e] = None
             THEN /\ batch' = [batch EXCEPT ![e] =
                                 [pre |-> gen, post |-> Draw(gen), results |-> results]]
                  /\ gen' = Draw(gen)
                  /\ out' = results
             ELSE /\ UNCHANGED batch
                  /\ gen' = IF gen = batch[e].pre THEN batch[e].post ELSE gen
                  /\ out' = IF gen \in {batch[e].pre, batch[e].post} THEN batch[e].results
                            ELSE [o \in Slots |-> "failure"]
  /\ UNCHANGED <<campaign, proposal, workerFiles, reduceFiles, launches, before,
                 workers, crashes>>

\* propose_epoch raises, or returns the wrong number of results: every slot not yet
\* proposed fails, the batch stays as it is (absent, in a first call) and so does the
\* generator. A later process that finds the epoch not yet active calls propose_epoch again.
\* (An I/O error between reservation and completion is not modelled.)
ProposeFails ==
  /\ pc = "loop" /\ Counted < Budget /\ campaign.active = None
  /\ campaign.nextOrdinal + Capacity <= MaxAttempts
  /\ PlanMatches
  /\ pc' = "slots" /\ cur' = campaign.nextOrdinal
  /\ out' = [o \in Slots |-> "failure"]
  /\ UNCHANGED <<campaign, plans, workerFiles, reduceFiles, launches, gen, before,
                 workers, crashes>>

\* Faulty variant of SlotSnapshot: a proposal that is found is not restored.
SnapshotAsDrawn(o) == gen

\* The snapshot after a slot: that of the proposal an earlier process published for it.
SlotSnapshot(o) == IF proposal[o] = None THEN gen ELSE proposal[o].gen

\* One slot after the other: publish its proposal, with the snapshot that the slots before
\* it left, or restore the one that was published.
PublishProposal ==
  /\ pc = "slots" /\ cur \in Slots
  /\ proposal' = IF proposal[cur] # None THEN proposal
                 ELSE [proposal EXCEPT ![cur] =
                         [candidate |-> out[cur], phase |-> Phase,
                          epoch |-> campaign.nextEpoch, gen |-> gen]]
  /\ gen' = SlotSnapshot(cur)
  /\ cur' = cur + 1
  /\ UNCHANGED <<campaign, batch, workerFiles, reduceFiles, launches, pc, out, before,
                 workers, crashes>>

\* Faulty variant of PlannedState: the ordinals are not reserved.
PlannedWithoutOrdinals ==
  [campaign EXCEPT !.gen = gen,
                   !.active = [epoch |-> campaign.nextEpoch, slots |-> Slots]]

PlannedState ==
  [campaign EXCEPT !.gen = gen,
                   !.active = [epoch |-> campaign.nextEpoch, slots |-> Slots],
                   !.nextOrdinal = @ + Capacity]

\* The end of _plan_parallel_epoch: one atomic write makes the epoch active.
SaveEpoch ==
  /\ pc = "slots" /\ cur \notin Slots
  /\ campaign' = PlannedState
  /\ cur' = None /\ out' = None
  /\ pc' = "failures"
  /\ UNCHANGED <<plans, workerFiles, reduceFiles, launches, gen, before, workers, crashes>>

\* Generation failures first: each gets its receipt, its cleanup and its commit. One
\* that an earlier process committed is read back without effect.
TakeFailure ==
  LET left == {o \in Failures : ~Committed(o)} IN
  /\ pc = "failures" /\ left # {}
  /\ cur' = FirstSlot(left)
  /\ pc' = "receipt"
  /\ UNCHANGED <<campaign, plans, workerFiles, reduceFiles, launches, gen, out, before,
                 workers, crashes>>

\* run_epoch: the workers are submitted together.
StartWorkers ==
  /\ pc = "failures" /\ \A o \in Failures : Committed(o)
  /\ before' = Counted
  /\ pc' = "workers"
  /\ wpc' = [o \in Ordinal |-> IF o \in Jobs THEN "ready" ELSE "idle"]
  /\ UNCHANGED <<campaign, plans, workerFiles, reduceFiles, launches, cur, gen, out,
                 wout, crashes>>

-----------------------------------------------------------------------------
(* run_worker, concurrently for every job *)

\* The executor is to be called: no receipt, nothing in the journal, and no file in
\* the directory that run_worker does not know.
MayExecute(o) ==
  /\ wpc[o] = "ready"
  /\ workerReceipt[o] = None /\ o \notin litter /\ RecoveredOutcome(o) = None

\* The receipt is there already, or the journal tells the outcome, or the executor
\* is called and is turned down before its first lifecycle event.
WorkerBegin(o) ==
  /\ \/ /\ wpc[o] = "ready" /\ workerReceipt[o] # None
        /\ wpc' = [wpc EXCEPT ![o] = "done"] /\ UNCHANGED wout
     \/ /\ wpc[o] = "ready" /\ workerReceipt[o] = None /\ o \notin litter
        /\ RecoveredOutcome(o) # None
        /\ wpc' = [wpc EXCEPT ![o] = "receipt"]
        /\ wout' = [wout EXCEPT ![o] = RecoveredOutcome(o)]
     \/ /\ MayExecute(o)
        /\ wpc' = [wpc EXCEPT ![o] = "terminal"]
        /\ wout' = [wout EXCEPT ![o] = "notStarted"]
  /\ UNCHANGED <<campaign, plans, workerFiles, reduceFiles, launches, main, crashes>>

\* An unknown file: run_worker raises, and run_epoch with it when the other workers
\* are done.
WorkerRefuse(o) ==
  /\ wpc[o] = "ready" /\ workerReceipt[o] = None /\ o \in litter
  /\ wpc' = [wpc EXCEPT ![o] = "done"]
  /\ pc' = "refused"
  /\ UNCHANGED <<campaign, plans, workerFiles, reduceFiles, launches, cur, gen, out, before,
                 wout, crashes>>

\* The executor announces the external action.
PublishStarted(o) ==
  /\ MayExecute(o)
  /\ started' = started \cup {o}
  /\ wpc' = [wpc EXCEPT ![o] = "launch"]
  /\ UNCHANGED <<campaign, plans, external, terminal, workerReceipt, litter, reduceFiles,
                 launches, main, wout, crashes>>

RunAgent(o, began) ==
  /\ wpc[o] = "launch"
  /\ launches' = [launches EXCEPT ![o] = @ + 1]
  /\ wout' = [wout EXCEPT ![o] = IF began THEN "started" ELSE "notStarted"]
  /\ wpc' = [wpc EXCEPT ![o] = "external"]
  /\ UNCHANGED <<campaign, plans, workerFiles, reduceFiles, main, crashes>>

\* The executor raises after the agent run: the worker falls back on the journal.
RaiseAfterAgent(o) ==
  /\ wpc[o] = "external"
  /\ wout' = [wout EXCEPT ![o] = RecoveredOutcome(o)]
  /\ wpc' = [wpc EXCEPT ![o] = "terminal"]
  /\ UNCHANGED <<campaign, plans, workerFiles, reduceFiles, launches, main, crashes>>

PublishExternal(o) ==
  /\ wpc[o] = "external"
  /\ external' = [external EXCEPT ![o] = wout[o]]
  /\ wpc' = [wpc EXCEPT ![o] = "terminal"]
  /\ UNCHANGED <<campaign, plans, started, terminal, workerReceipt, litter, reduceFiles,
                 launches, main, wout, crashes>>

PublishTerminal(o) ==
  /\ wpc[o] = "terminal"
  /\ terminal' = [terminal EXCEPT ![o] = wout[o]]
  /\ wpc' = [wpc EXCEPT ![o] = "receipt"]
  /\ UNCHANGED <<campaign, plans, started, external, workerReceipt, litter, reduceFiles,
                 launches, main, wout, crashes>>

PublishWorkerReceipt(o) ==
  /\ wpc[o] = "receipt"
  /\ workerReceipt' = [workerReceipt EXCEPT ![o] = wout[o]]
  /\ wpc' = [wpc EXCEPT ![o] = "done"]
  /\ wout' = [wout EXCEPT ![o] = None]
  /\ UNCHANGED <<campaign, plans, started, external, terminal, litter, reduceFiles, launches,
                 main, crashes>>

-----------------------------------------------------------------------------
(* ParallelReducer.reduce, after every worker is done *)

TakeResult ==
  LET left == Jobs \ progress IN
  /\ pc = "workers" /\ \A o \in Jobs : wpc[o] = "done"
  /\ left # {}
  /\ cur' = NextResult(left)
  /\ pc' = "receipt"
  /\ UNCHANGED <<campaign, plans, workerFiles, reduceFiles, launches, gen, out, before,
                 workers, crashes>>

\* _publish_parallel_receipt copies the worker's outcome; a generation failure has
\* its own (_execute_and_publish). A receipt found is kept.
PublishReceipt ==
  /\ pc = "receipt"
  /\ receipt' = IF receipt[cur] # None THEN receipt
                ELSE [receipt EXCEPT ![cur] = IF cur \in Jobs THEN workerReceipt[cur]
                                              ELSE "notStarted"]
  /\ pc' = "cleanup"
  /\ UNCHANGED <<campaign, plans, workerFiles, cleaned, fold, progress, launches,
                 cur, gen, out, before, workers, crashes>>

Cleanup ==
  /\ pc = "cleanup"
  /\ cleaned' = cleaned \cup {cur}
  /\ pc' = "commit"
  /\ UNCHANGED <<campaign, plans, workerFiles, receipt, fold, progress, launches,
                 cur, gen, out, before, workers, crashes>>

Commit ==
  /\ pc = "commit"
  /\ campaign' = CommittedState(cur)
  /\ pc' = AfterCommit(cur)
  /\ UNCHANGED <<plans, workerFiles, reduceFiles, launches, cur, gen, out, before,
                 workers, crashes>>

\* _reduce_parallel_result, uncharged: the generator is saved once more.
SaveUncharged ==
  /\ pc = "save"
  /\ campaign' = [campaign EXCEPT !.gen = gen]
  /\ pc' = "progress"
  /\ UNCHANGED <<plans, workerFiles, reduceFiles, launches, cur, gen, out, before,
                 workers, crashes>>

CallFold(status, absorbed) ==
  /\ pc = "fold"
  /\ status = "folded" => absorbed
  /\ gen' = IF absorbed THEN Fold(FoldOnto(cur), cur) ELSE FoldOnto(cur)
  /\ out' = status
  /\ pc' = "foldReceipt"
  /\ UNCHANGED <<campaign, plans, workerFiles, reduceFiles, launches, cur, before,
                 workers, crashes>>

PublishFold ==
  /\ pc = "foldReceipt"
  /\ fold' = [fold EXCEPT ![cur] = [status |-> out, gen |-> gen]]
  /\ out' = None
  /\ pc' = "finalize"
  /\ UNCHANGED <<campaign, plans, workerFiles, receipt, cleaned, progress, launches,
                 cur, gen, before, workers, crashes>>

Finalize ==
  /\ pc = "finalize"
  /\ gen' = fold[cur].gen
  /\ campaign' = [campaign EXCEPT !.iterations = Append(@, cur), !.gen = fold[cur].gen,
                                  !.pending = None]
  /\ pc' = "progress"
  /\ UNCHANGED <<plans, workerFiles, reduceFiles, launches, cur, out, before, workers,
                 crashes>>

PublishProgress ==
  /\ pc = "progress"
  /\ progress' = progress \cup {cur}
  /\ cur' = None
  /\ pc' = "workers"
  /\ UNCHANGED <<campaign, plans, workerFiles, receipt, cleaned, fold, launches, gen,
                 out, before, workers, crashes>>

\* The end of _run_active_parallel_epoch, and the check that follows it.
EndEpoch ==
  LET failures == FailuresAfter(Counted - before) IN
  /\ pc = "workers" /\ Jobs \subseteq progress /\ \A o \in Jobs : wpc[o] = "done"
  /\ campaign' = [campaign EXCEPT !.failures = failures, !.active = None,
                                  !.nextEpoch = campaign.active.epoch + 1]
  /\ pc' = IF failures >= Cap THEN "abort" ELSE "loop"
  /\ wpc' = [o \in Ordinal |-> "idle"]
  /\ UNCHANGED <<plans, workerFiles, reduceFiles, launches, cur, gen, out, before, wout,
                 crashes>>

\* _finish_campaign, after the budget is spent or the cap was reached.
Finish ==
  /\ \/ pc = "loop" /\ Counted >= Budget /\ campaign' = [campaign EXCEPT !.status = "completed"]
     \/ pc = "abort" /\ campaign' = [campaign EXCEPT !.status = "aborted"]
  /\ pc' = "done"
  /\ UNCHANGED <<plans, workerFiles, reduceFiles, launches, cur, gen, out, before,
                 workers, crashes>>

-----------------------------------------------------------------------------
\* Workers in the middle of, or just before, the publication of a file.
Writing(o) ==
  \/ wpc[o] \in {"external", "terminal", "receipt"}
  \/ MayExecute(o)

\* The process and what it held in memory are gone.
Forget ==
  /\ pc' = "down" /\ cur' = None /\ gen' = FreshGenerator /\ out' = None /\ before' = 0
  /\ wpc' = [o \in Ordinal |-> "idle"] /\ wout' = [o \in Ordinal |-> None]
  /\ UNCHANGED <<campaign, plans, journal, reduceFiles, launches>>

\* A kill between mkstemp and os.replace leaves the temporary file of the write. (Only
\* in the directory of a worker does anything look at such files.)
Crash ==
  /\ pc \notin {"down", "done", "refused"}
  /\ crashes < MaxCrashes
  /\ crashes' = crashes + 1
  /\ litter' \in {litter \cup torn : torn \in SUBSET {o \in Ordinal : Writing(o)}}
  /\ Forget

\* The image of an executed candidate could not be removed: the process ends.
CleanupError ==
  /\ pc = "cleanup" /\ cur \notin cleaned /\ proposal[cur].candidate = "owned"
  /\ crashes < MaxCrashes
  /\ crashes' = crashes + 1
  /\ UNCHANGED litter
  /\ Forget

Restart ==
  /\ pc = "down"
  /\ pc' = "load"
  /\ UNCHANGED <<campaign, plans, workerFiles, reduceFiles, launches, cur, gen, out,
                 before, workers, crashes>>

Terminated == pc \in {"done", "refused"} /\ UNCHANGED vars

MainStep ==
  \/ Load \/ ResumeEpoch
  \/ \E results \in [Slots -> Candidates] : ProposeEpoch(results)
  \/ ProposeFails \/ PublishProposal \/ SaveEpoch \/ TakeFailure \/ StartWorkers
  \/ TakeResult \/ PublishReceipt \/ Cleanup \/ Commit \/ SaveUncharged
  \/ \E status \in {"folded", "error"}, absorbed \in BOOLEAN : CallFold(status, absorbed)
  \/ PublishFold \/ Finalize \/ PublishProgress \/ EndEpoch \/ Finish

WorkerStep(o) ==
  \/ WorkerBegin(o) \/ WorkerRefuse(o) \/ PublishStarted(o)
  \/ \E began \in BOOLEAN : RunAgent(o, began)
  \/ RaiseAfterAgent(o) \/ PublishExternal(o) \/ PublishTerminal(o)
  \/ PublishWorkerReceipt(o)

Next ==
  \/ MainStep \/ (\E o \in Ordinal : WorkerStep(o))
  \/ Crash \/ CleanupError \/ Restart \/ Terminated

\* As long as the main thread or a worker can take a step, one of them does (no thread has
\* steps without end that could keep the others waiting); a dead process is restarted.
Proceed == MainStep \/ (\E o \in Ordinal : WorkerStep(o)) \/ Restart
Fairness == WF_vars(Proceed)

Spec == Init /\ [][Next]_vars
FairSpec == Spec /\ Fairness

-----------------------------------------------------------------------------
(* Properties *)

Generator == [drawn : Nat, folded : Seq(Ordinal)]
EpochRecord == [epoch : Nat, slots : SUBSET Ordinal]
CampaignState == [attempts : SUBSET Ordinal, iterations : Seq(Ordinal),
                  pending : Ordinal \cup {None}, gen : Generator,
                  active : EpochRecord \cup {None},
                  nextEpoch : Nat, nextOrdinal : Nat, failures : Nat,
                  status : {"running", "completed", "aborted"}]
ProposalRecord == [candidate : Candidate, phase : {"bootstrap", "explore"},
                   epoch : Nat, gen : Generator]
FoldRecord == [status : {"folded", "error"}, gen : Generator]
BatchRecord == [pre : Generator, post : Generator,
                results : UNION {[slots -> Candidates] : slots \in SUBSET Ordinal}]

ASSUME NoRecordAssumption ==
  None \notin Ordinal \cup EpochRecord \cup ProposalRecord \cup FoldRecord \cup BatchRecord

\* The type invariant: every file, when it exists, holds a record of its schema.
TypeOK ==
  /\ campaign \in CampaignState
  /\ \A e \in Epoch : batch[e] # None =>
       batch[e].pre \in Generator /\ batch[e].post \in Generator
  /\ proposal \in [Ordinal -> ProposalRecord \cup {None}]
  /\ started \subseteq Ordinal /\ cleaned \subseteq Ordinal /\ progress \subseteq Ordinal
  /\ litter \subseteq Ordinal
  /\ {external, terminal, workerReceipt, receipt} \subseteq [Ordinal -> Result \cup {None}]
  /\ fold \in [Ordinal -> FoldRecord \cup {None}]
  /\ gen \in Generator /\ before \in Nat
  /\ wout \in [Ordinal -> Result \cup {None}]
  /\ crashes \in 0 .. MaxCrashes

\* A paid agent run is never repeated, by whichever worker of whichever process.
AtMostOneLaunch == \A o \in Ordinal : launches[o] <= 1

\* However many workers succeed at once, the campaign never charges more than its
\* budget, and exactly its first Bootstrap charges are bootstrap executions.
BudgetRespected ==
  LET bootstrapped == {o \in Ordinal : Charged(o) /\ proposal[o].phase = "bootstrap"} IN
  /\ Cardinality({o \in Ordinal : Charged(o)}) <= Budget
  /\ Cardinality(bootstrapped) <= Bootstrap
  /\ \A i \in 1 .. Counted : (campaign.iterations[i] \in bootstrapped) <=> i <= Bootstrap

\* Whatever the crash, the next process can continue, but for temporary files in the
\* workers' directories: the records pass its checks, the proposals it finds belong to
\* the epoch it plans, and the generator it restores is on one side of the epoch's
\* durable transition.
Resumable ==
  /\ pc = "refused" => litter # {}
  /\ pc = "loop" /\ campaign.active = None /\ batch[campaign.nextEpoch] # None
       => gen \in {batch[campaign.nextEpoch].pre, batch[campaign.nextEpoch].post}

\* An epoch is a barrier, for resumed processes too: when the next one is planned, every
\* attempt of those before is committed and every charged one is in the iterations, once;
\* no agent runs for a slot of any other epoch.
EpochBarrier ==
  /\ TypeOK /\ Resumable
  /\ \A o \in Ordinal :
       o < campaign.nextOrdinal /\ (campaign.active = None \/ o \notin campaign.active.slots)
         => Committed(o) /\ (Charged(o) => Folded(o))
  /\ \A i, j \in 1 .. Counted : campaign.iterations[i] = campaign.iterations[j] => i = j
  /\ \A o \in Ordinal : wpc[o] # "idle" => campaign.active # None /\ o \in campaign.active.slots

\* The order of the iterations does not depend on which worker finished first, nor on
\* where the process died: epoch after epoch, by candidate id within an epoch.
FoldsInCandidateOrder ==
  \A i, j \in 1 .. Counted :
    LET o == campaign.iterations[i]
        p == campaign.iterations[j]
    IN i < j => \/ proposal[o].epoch < proposal[p].epoch
                \/ proposal[o].epoch = proposal[p].epoch /\ Rank[o] < Rank[p]

FoldedBy(g, o) == \E i \in 1 .. Len(g.folded) : g.folded[i] = o

\* Claimed for resumed campaigns too ("exactly-once resume after interruption"), and false
\* of them: between two epochs the generator has learned from every iteration whose fold
\* succeeded, in their order.
FeedbackComplete ==
  pc = "loop" /\ campaign.active = None =>
    /\ \A i \in 1 .. Counted :
         fold[campaign.iterations[i]].status = "folded" => FoldedBy(gen, campaign.iterations[i])
    /\ InOrderOf(gen.folded, campaign.iterations)

\* It holds as long as no process dies in the middle of an epoch.
FeedbackCompleteUninterrupted == crashes = 0 => FeedbackComplete

\* The candidates of an epoch are drawn blindly with respect to each other, wherever the
\* planning of it failed or was killed: its proposals carry one and the same snapshot, which
\* has learned from attempts of earlier epochs only, and those that have a candidate have it
\* from the epoch's one batch, which was reserved from a generator that had learned just that.
\* (Whether the snapshot counts that batch as drawn depends on where a first call failed.)
EpochIsBlind ==
  \A o \in Ordinal : proposal[o] # None =>
    LET e == proposal[o].epoch
        seen == proposal[o].gen.folded IN
    /\ \A p \in Ordinal :
         proposal[p] # None /\ proposal[p].epoch = e => proposal[p].gen = proposal[o].gen
    /\ \A i \in 1 .. Len(seen) : proposal[seen[i]] # None /\ proposal[seen[i]].epoch < e
    /\ proposal[o].candidate # "failure" =>
         /\ batch[e] # None /\ proposal[o].candidate = batch[e].results[o]
         /\ batch[e].pre.folded = proposal[o].gen.folded

\* Claimed of the code ("five pre-agent attempts per execution coordinate"), and false of
\* it: a campaign is given up only after Cap attempts in a row left it without a charge.
AbortedAtCap ==
  campaign.status = "aborted" =>
    \A o \in Ordinal :
      o < campaign.nextOrdinal /\ o + Cap >= campaign.nextOrdinal => Committed(o) /\ ~Charged(o)

\* Claimed of the code ("Crash-safe sequential and frozen-epoch parallel campaign
\* execution"), and false of it: a resumed process never refuses its own files.
NeverRefused == pc # "refused"

\* Every campaign ends, unless a temporary file keeps it from being resumed.
Termination == <>((pc = "done" /\ campaign.status # "running") \/ litter # {})

\* The campaign implements the abstract one: whatever its workers do at once and wherever it
\* is killed, slots are launched and charged once, within their epoch and the budget.
Abstract == INSTANCE EpochCampaign
              WITH handed <- campaign.nextOrdinal,
                   open <- IF campaign.active = None THEN {} ELSE campaign.active.slots,
                   launched <- launches,
                   charged <- campaign.iterations
                     \o (IF campaign.pending = None THEN <<>> ELSE <<campaign.pending>>),
                   outcome <- campaign.status

ImplementsEpochs == Abstract!Spec
=============================================================================
