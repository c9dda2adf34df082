# SkillRACE campaigns: TLA+ models, model checking and proofs

SkillRACE searches for behaviours of an agent's *skill* that violate stated
properties. A **campaign** spends a fixed budget of paid agent executions: a
generator proposes a candidate task, an executor runs the agent on it in a
container, a checker judges the run, and the generator learns from the feedback.
Agent runs and model calls cost money and the results are evidence in a study, so
the code's central promise is *exactly once*: wherever a process dies, no paid run
is repeated, none is forgotten, no feedback is lost or learned twice, and the same
inputs lead to the same record. This directory specifies that promise for the parts
that carry it, checks it with TLC on small instances, and proves parts of it with
TLAPS for every budget, cap and number of crashes.

Source paths are relative to the repository; `CE` is
`src/skillrace/campaign_engine.py`, `PC` `src/skillrace/parallel_campaign.py`, `RP`
`src/skillrace/resource_pool.py`, `CA` `src/skillrace/closeai.py`, `GB`
`src/skillrace/greybox.py`, `LP` `src/skillrace/loop.py`, `RQ3`
`src/skillrace/rq3.py`.

## 1. Inventory of the system

The repository holds two implementations: `src/skillrace` (the documented one, 49
modules) and `src/skillrace_next` (a clean-room rebuild, 26 modules). Scenarios,
runs, papers, images and the website are data.

| Component | State it keeps | Operations | Makes it correct |
|---|---|---|---|
| **Campaign engine, sequential** (CE) | `campaign.json`; per attempt `proposal.json`, three lifecycle records, `receipt.json`, `cleanup.json`, `fold.json` | `run`, `_load_or_create`, `_process_attempt`, `_execute_and_publish`, `_commit_attempt`, `_finish_fold`, `_finish_campaign` | no agent launched twice; charged iff announced and not reported as unbegun; feedback learned once, in order, before the next proposal; every crash can be resumed |
| **Image cleanup** (`cleanup_candidate_image`, CE 215) | `cleanup.intent.json`, `cleanup.attempts/v*.json`, `cleanup.json`; the images in Docker | publish intent, inspect, remove, record, publish receipt; drain of a generator's buffer | an image is removed at most once; receipts tell the truth; nothing is left behind |
| **Campaign engine, parallel epochs** (CE 1420-1769, PC) | the above; the epoch in `campaign.json`; a journal and receipt per worker; `fold-progress` | plan and freeze an epoch, `run_worker` concurrently, `ParallelReducer.reduce`, resume | an epoch is blind and a barrier; fold order independent of timing; budget never exceeded |
| **Resource pool** (RP) | three semaphores, statistics, per-thread held list | `slots` (nested, with timeout or cancel event) | no lost slot, no deadlock, truthful statistics |
| **Executor** (`RealCampaignExecutor`, `loop.py`) | none; announces lifecycle events | `execute` | announces before it launches |
| **Generators**: random, greybox, SkillRACE (`generator.py`, `greybox.py`, `loop.py`) | seeds, energies, buffer, reservations and completions, reasoning tree | `propose`, `propose_epoch`, `fold`, `snapshot`, `restore`, `drain_buffer` | `restore(snapshot)` continues identically; fold idempotent per attempt; reservations realized once |
| **Adaptive artifacts** (`adaptive_artifacts.py`, `loop.py` 1376-1509) | versioned tree files, staging and completion markers | stage, complete, recover | tree and fold receipt move together |
| **Reasoning tree, guards, target selection** (`tree.py`, `guards.py`) | tree nodes, branches, guard verdicts | fold a run, list unexplored feasible branches | stable identities, no branch lost |
| **Model operations** (CA) | immutable receipts: intent and terminal per attempt, call_terminal per operation; a ledger derived from them | `chat` with bounded retries | a paid request is made once per attempt; an unknown outcome is never retried; one identifier, one request |
| **Atomic publication** (`io_utils.py`) | temporary files | write, fsync, rename | old file or new file, nothing else |
| **Experiment driver** (`experiment_driver.py`) | schedule file, lock | run cells concurrently, record how each ended | each cell once |
| **RQ3 pipeline** (`rq3_pipeline.py`, `rq3*.py`, `revise_skill.py`) | phase records, barrier, confirmation and hidden-test receipts | campaign, confirmation, revision, hidden evaluation | hidden tests opened only after every public phase is sealed; nothing rerun |
| **Feedback envelopes** (`feedback.py`) | none | byte-bounded admission of evidence | within the bound, fair, deterministic |
| **Runner, checker, segmenter, skill evaluation** | files of one case | one pass each | outcomes only, seen from here |
| **Scenario contracts, audits, analysis** | static files | validation, statistics | no behaviour over time |
| **Clean-room pipeline, methods, runtime** (`skillrace_next`) | the methods' memory, versions of each skill, retained tests; one container | propose, run, verify, patch, replay, accept, evaluate on held-out tests | no container left behind; a patch is accepted only if it loses nothing known to pass; an exception ends the campaign, nothing is resumed |

How they interact: the *experiment driver* starts one *engine* per cell. The engine
calls its *generator* (`propose`, `fold`, `snapshot`, `restore`) and its *executor*
(`execute`), which calls back with lifecycle events that the engine turns into
journal files before it lets the executor go on. In a parallel epoch the executors
run in threads that share the *resource pool* and write only below their own worker
directory; one reducer thread turns their receipts into the campaign's. Every file
is published by *atomic publication*, once: `_publish_immutable` accepts a second
write only of identical content. A later process reads the files back, checks that
they agree (`_audit_committed_artifacts`), restores the generator from one of five
places, and goes on. *Image cleanup* stands between an execution and its commit.
The *SkillRACE generator* keeps its tree, guards and judgments in three files that every
epoch shares; `load` of the engine puts them back to what its records say. The *RQ3
pipeline* runs one campaign per method in a child process, and then never trusts memory
again: each later phase reads the files of the one before. The *clean-room* campaign
(`skillrace_next`) shares no code with the rest.

Hard behaviours: a crash between any two writes; several workers dying at different
points at once; a removal that times out after it took effect; recovering the right
generator state; workers finishing in any order; nested and cancelled waits for
slots; callers of one model operation that decide upon receipts already outdated; a generation
repeated by a process that finds part of its files; a study phase whose inputs changed after it was
sealed; an exception on top of another while a container must be removed.
`PROJECT.json` lists them as hazards, each at its line with the properties
that would catch it.

## 2. The modules

| Module | Models | |
|---|---|---|
| `CampaignRecords` | candidates, results, the charge, journal recovery, the generator as the engines see it | shared by both engines |
| `CampaignEngine` | the sequential engine (`epoch_size = 1`) with crashes | detailed specification |
| `ExactlyOnceCampaign` | what a sequential campaign promises, without files or processes | abstract; `CampaignEngine` implements it |
| `ParallelCampaign` | planning, workers, reducer and resumption of parallel epochs | detailed specification |
| `EpochCampaign` | what a campaign of epochs promises, without files, workers or processes | abstract; `ParallelCampaign` implements it |
| `ImageCleanup` | the cleanup protocol and its two callers | refines the one-step `Cleanup` of the engines |
| `ResourcePool` | semaphores, statistics, nested requests | |
| `OperationJournal` | `closeai.chat` and its receipts, for one operation and any number of callers | |
| `GreyboxGenerator` | the coverage-guided generator and its durable batches | what `ParallelCampaign` sees as `batch` |
| `SkillRaceSearch` | the SkillRACE generator's files and epochs: tree, guards, plans, folds, restoration | what `ParallelCampaign` sees as `gen`, from the inside |
| `Rq3Pipeline` | one scenario of the study from its campaigns to the hidden exam, over many processes | each campaign is one call |
| `CleanRoomCampaign` | both campaigns of `skillrace_next` | independent of the others |
| `CampaignEngineProofs`, `ParallelCampaignProofs`, `GreyboxGeneratorProofs`, `SkillRaceSearchProofs`, `OperationJournalProofs`, `Rq3PipelineProofs`, `CleanRoomCampaignProofs` | theorems about the module named | |
| `SharedHostProofs` | theorems about `ResourcePool` and `ImageCleanup`, what the campaigns of one host share | |
| `MC*` | instances for TLC | |

### CampaignEngine

The variables down to `fold` are files, `images`, `launches` and `marker` the world
outside (Docker, how often `run_agent` was really invoked, the runner's durable
*agent-started* marker), the rest is what the process holds in memory. One action
per durable write: `pc` names the write that comes next, so `Crash` can fall before
and after each of them.

* `Load` is `_load_or_create`: audit, choice of the snapshot to restore, early exit
  of a finished campaign.
* `SelectAttempt` is the loop of `run` with the skipping of uncharged attempts and
  the head of `_process_attempt`: where a resumed attempt continues (`ResumePoint`)
  and which snapshot is restored.
* `Generate`/`PublishProposal` split `_create_proposal` at the only point a crash
  distinguishes: after `propose()` changed the generator, before anything is on disk.
* `Recover`, `RejectBeforeStart`, `PublishStarted`, `RunAgent`, `RaiseAfterAgent`,
  `PublishExternal`, `PublishTerminal`, `PublishReceipt` are `_execute_and_publish`
  with the executor inside it. `RunAgent(began, manifest)` is the subprocess:
  `began` when its runner wrote the marker, `manifest` when it lived to write a
  `run.json`, from which `classify_runner_result` decides.
* `Cleanup`/`CleanupError`, `Commit`, `CallFold`, `PublishFold`, `Finalize`,
  `Finish` are the rest of an attempt. A fold may raise before or after it changed
  the generator.

The generator is its snapshot: how many proposals it drew and which attempts' feedback
it has, in order. That is the contract of the generators whose whole state is in the
snapshot (random, greybox). The main and the bootstrap generator are one value: the
engine handles both alike.

### ParallelCampaign

`campaign` gains the active epoch, its number, the next ordinal and the count of
consecutive failures. `batch` is the generator's durable transition
(reservation and completion, published together here since nothing reads what is
between; an I/O error between the two is left out). `ProposeEpoch` is a `propose_epoch` that returns,
`ProposeFails` one that raises or returns the wrong number of results, in a first call or in any
later one (CE 1506-1520): every slot not yet proposed fails, and neither the batch nor the
generator moves. A later process that finds some of those failures restores their snapshot
(`SlotSnapshot`), so that what it draws itself does not mix with them. Workers (`wpc`, `wout`) run `run_worker` concurrently; the reducer takes
over when all are done. `Rank` is the order of candidate ids, hashes that have
nothing to do with the order of slots: the instance reverses it. `EpochSize` is
`min(epoch_size, resource_pool.agent_capacity)`, which is how CE 1435 uses both.
Generation failures pass through the same receipt, cleanup and commit steps as
results. `litter` records temporary files that a kill leaves in a worker's
directory: `run_worker` refuses files it does not know, so unlike anywhere else
they matter. A plan that fails (`PlanMatches`) or records that do not pass the
audit end in `pc = "refused"`.

`EpochCampaign` is the promise behind it: ordinals are handed out in contiguous epochs (`Open`), at
most as many as executions are left; slots of the open epoch are launched once (`Launch`), and not
after they were charged; they are charged once and within the budget (`Charge`); `Complete` needs
the whole budget charged, `Abort` executions left and no epoch open. The mapping is at the end
of `ParallelCampaign`: `charged` is the iterations followed by the pending fold, so that a charge is the
step `_commit_attempt`, and its fold changes nothing.

### ImageCleanup

`exists` is Docker, `intent`, `history` and `receipt` are the three files per image.
`Begin` is a call of `cleanup_candidate_image`, from `_ensure_cleanup` for the images
of attempts and from `_drain_unused_images` for the others; `ReturnToAttempt` and
`ReturnToDrain` are what each caller does with the report. `RemoveError(effect)` is a
remover that raises with or without having removed. Both engines use the protocol as
one step (`Cleanup`, or `CleanupError`). (Names as `CleanupSpec` and `RemoveImage` keep the module apart
from `ResourcePool` where both are extended.)

### ResourcePool

`frames` is the stack of open `with` blocks of a thread, `held` the thread-local
list, `mode` what it does in the innermost block. The semaphore and the statistics
are separate steps, in the code's order. A wait with a timeout or a cancel event can
be given up whenever the thread waits; the polling interval is abstracted to that.
The requests of the instance are a single API slot, a single Docker slot, and all
three as `_call_parallel_executor` asks for them.

### OperationJournal

`journal` is the directory of receipts; `sent` and `answered` are the provider, `delivered` the
contents returned; the rest is one call per caller. A call first lists the receipts (`Invoke`,
`List`): `_operation_records` takes no lock, so the listing may hold any of the receipts that
appear while it is made. Everything down to `Continue` is decided upon that listing: `RejectKnown`
(another request or policy, or the operation is over), `ReportFinal` (an attempt is final, the
operation is not), `Refuse` and `Expire` (an intent without outcome, fresh or stale), `Continue`
(with the attempt after the last error, or, when none is left, with the report). Then one action per
receipt or request: `PublishIntent`, `Send`, `PublishTerminal`, and `Settle` or `Deliver` for the
operation's own record. The lock makes the creation of one receipt atomic: it exists or is
created, and a different record under the same identifier raises. `Crash` also stands for a
`JournalError`, after which the receipt may be on disk or not.

Ages of receipts and the waits between attempts are left open: an intent may be found fresh or
stale at any time, so that a call may be declared of unknown outcome while it is alive. Only
production mode is modelled; development mode may lose the journal by design. The JSONL
ledger is rewritten from the receipts and is never read by `chat`.

### GreyboxGenerator

Part 1 is the generator's state, one record with the fields of its snapshot, and its methods as
operators on it. An execution is seen as the sequence of its tool calls (`schematize`), a member of
`Runs`. `Energy` is one unit each for a new tool, a new transition and a new sequence;
`_choose_seed` is `Chosen`: spend the pending seed, else refill an empty queue (`Recycled`), sort it
(`ByEnergy`), take its head. `OnlyIn` is the one selection all of them use. Objects shared between corpus, queue and pending seed become positions in
the corpus, as in the snapshot's entry ids.

Part 2 drives it through bootstrap, planning and folding. `Propose` is the sequential engine's call.
In a batch, `Reserve` pays for all slots on a copy and publishes the transition (`reservation.json`)
before it applies it; `Complete` publishes the second (`completion.json`) when all slots were
realized; `Resume` is a later process that finds one or both (`apply_state_transition` does
nothing, applies, or raises); `Checkpoint` is the publication of the proposals with the campaign's
state. `Crash` falls between any two of them and returns to the state saved. Deaths between folds are
the subject of `ParallelCampaign`. Cost, statistics and the text of candidates are left out;
`failure_state` is `failed`. Recorded folds by attempt id are covered by `CampaignRecords`.

### SkillRaceSearch

`art` is the set of adaptive files (`tree.json`, `tree.cache.json`, `tree.guards.json`), `version` and
`complete` the fold versions beside them, `intent`, `plan` and `receipt` the files of an epoch's
generation, `proposal`, `fold` and `campaign` the engine's, `mem` the generator object.
Each of `intent`, `plan` and `receipt` is defined where its file exists; `guards.written` tells whether the
guard file does. A process
that starts first restores (`Load`): exactly to a snapshot (`RestoreExact`), or around a pending fold
(`RestorePending`: forward when its version was staged, back otherwise), file by file
(`RestoreFile`), so that a crash may fall between two of them. An epoch is `ProposeBootstrap`, or
`PublishIntent`/`ResumeIntent`, `ExtractGuards` for the new branches, `WritePlan`/`ReplayPlan`,
`Synthesize` or `SynthesisFails` for each slot in any order, `Settle`, `MarkTried` per target, and
the publication of the proposals; a planning call that fails (`PlanningFails`) makes every slot without
a proposal a failure. A fold is `FoldAgain` (known already), `FoldNothing` (no segment), `FoldFails`, or
`StageVersion`, `WriteCache`, `WriteTree`, `CompleteVersion`, then `PublishFold` and `Finalize`.

Abstractions: a run is a line of one episode, so the tree branches at its root only; all candidates are
executed and charged (their fate is `ParallelCampaign`'s subject), those of one epoch in slot order;
fallback and seed slots always yield a case; each model call costs one unit; purposes and mutations
are told apart by equality only (hence the symmetry of the instance); an absent tree or cache is the
empty one, an absent guard file is not.

### Rq3Pipeline

Every process walks the whole `Plan` of `run_rq3_scenario` from its first step and passes over what is
on disk: three public inputs; for each method its campaign with derived costs, the reruns that confirm
its suspected findings, and their ledger; the feedback envelopes; the blind revisions; the barrier; the
exam and its hidden tests; summary and verification. `at` is the step, `sub` how far the process is in
it. A paid job is `BeginJob` (start record), `CarryOut` (`Rerun`, `Revise`, `RunHiddenTest`),
`RecordResult`, `WriteReceipt`, and for hidden tests `WriteRow`; a start record without a result is
`Uncertain` and refused (`RefuseJob`). `Refuse` is any exception: files stay, memory goes, an operator
starts again. `PublicRecord` is what the barrier links by hashes; `Plausible`, `LedgerHolds`,
`InputsHold`, `SameExam`, `HiddenHolds`, `PublicHolds` are what the validators recompute.

Outcomes are only told apart by what later steps refuse. A rerun may leave no launch record
(`unlaunched`), a hidden test no raw evidence (`bare`). A campaign begins in its child
(`CampaignBegins`) and ends (`CampaignEnds`) in one of `Ends`: `complete`, `uncosted` (a charged
execution without a cost, which `derive_campaign_cost_record` refuses), `unmanifested` (a counted
execution without the raw run it names, refused by the validation: `Plausible`), or `unreplayable` (a
counted violation from which no rerun can be made, so that `_suspected_clusters` raises: `Replayable`).
A child that stops in between leaves it `partial`. `JobFails` is the exception that leaves a paid job with its
start record only: a revision's provider fails, or an answer cannot be normalised. `leaked` is the audit's
subject: hidden material in any public artifact, be it the scenario's own files (in the initial
state), the traces of a campaign or of a rerun, or the package of a revision. The code searches all of
them together at the barrier, when the exam opens and at the end, and so do `Audit`, `OpenExam` and
`PublicHolds`.

### CleanRoomCampaign

One sequential process; `config` is chosen in the initial state (Part I or Part II). `pc` is where
the current slot or group is; each call that may raise has an action that raises there (`StartFails`,
`AgentBreaks`, `CaptureFails`, `AuthorFails`, `ChecksFail`, `ProposalFails`, `UpdateFails`,
`PatchFails`, `RepairFails`, `LoadFails`), and `live` counts containers: which of these clauses remove
the container is the point. `AcceptPatch` is `accept_patch` on verdicts; the retained tests are in the order of their retention, each
with the last results known of it. The methods' memory is what
decides anything later: whether `verigrey` has seen a tool call and has a transition to aim at, whether
`skillrace` has a failed branch.

### Assumptions common to the models

* `atomic_write_json` either happened or did not (write, fsync, rename), apart from
  the temporary file above; its own steps are planned as a module.
* A hash identifies its content: frozen-state hashes, receipts' bindings and
  immutable republication are equality of values. The immutable inputs
  (`persist_epoch_plan`, protocol, scenario) never differ between processes.
* `campaign.json` exists from the start: creating it is the first write, and a crash
  before it leaves nothing to resume.
* An image that `propose()` built is lost to every record when the process dies
  before `proposal.json` is written. The models create the image with that record;
  the gap is listed as a hazard without a property.
* One process per campaign and per RQ3 scenario: nothing in the engine or in the pipeline keeps two
  of them apart, and two at once are not modelled.

## 3. What TLC checks

All properties are stated in the module they are about, with the promise in words
above each. Every property of a passing run has a mutant in `PROJECT.json`: a
plausible bug in one mapped definition (written beside it as "faulty variant") that
the run then finds.

| Run | Instance | Shows |
|---|---|---|
| `engine` | Budget 2, Cap 2, 2 crashes; 568k states | `AtMostOneLaunch`, `ChargeFollowsJournal`, `GeneratorMatchesHistory` (no resumed process refuses its own records, and the generator is what they say), `ProposalsSeeAllFeedback`, `PublishedOnce`, `ImageLifetime`, that the engine implements `ExactlyOnceCampaign`, and `Termination` |
| `cleanup` | two attempts, one with a borrowed image, one buffered image, 4 faults | `RecordsTellTruth`, `EventuallyComplete` |
| `cleanup_orphans` | the same, 1 fault | *violated*: `NoOrphanedImages` (finding 1) |
| `parallel` | Budget 3 of which 2 bootstrap, epochs of 2, Cap 1, 1 crash; 843k states | that the engine implements `EpochCampaign` (`ImplementsEpochs`), `BudgetRespected`, `EpochBarrier`, `FoldsInCandidateOrder`, `EpochIsBlind`, `FeedbackCompleteUninterrupted`, `Termination` |
| `parallel_resume` | Budget 2, 1 crash | *violated*: `FeedbackComplete` (finding 2) |
| `journal` | 2 callers, 2 attempts, 2 possible requests, 2 calls cut short; 124k states | `OneRequestPerAttempt`, `RetriedOnlyAfterError`, `CallTerminalAgrees`, `AnswerDeliveredOnce`, `OneRequestIdentity`, `EventuallySettled` |
| `greybox` | 2 tools, 4 kinds of execution, bootstrap 2, batches of 2, 1 crash; 109k states | `NoSeedLost`, `CorpusCoversNovelty`, `BatchAppliedOnce`, `EverySeedMutated` |
| `pool` | 3 threads (one impatient), limits 1/2/1, nesting 2 | `SlotsConserved`, `NoCircularWait`, `EventuallyServed` |
| `skillrace` | a bootstrap and two explore epochs of 2 slots, 3 purposes, 2 mutations, 1 failing call, 1 crash; 589k states | `JudgedOnce`, `EachMutationOnce`, `ReplayAccepted`, `ArtifactsAgree` |
| `rq3` | two methods with two findings and one, 2 hidden tests, 2 faults; 153k states | `HiddenAfterSeal`, `CarriedOutOnce`, `EvidenceAgrees`, `VerifiedUnlessHopeless` |
| `cleanroom` | Part I with verigrey and Part II with skillrace and verigrey, 2 slots, 2 checks; 552k states | `OneContainer`, `KnownPassesPersist` |
| `cleanroom_unchecked` | the same | *violated*: `PassedWasChecked` (finding 3) |

Where a module's type invariant is not checked by itself it is the first conjunct of an invariant
(`RecordsTellTruth`, `SlotsConserved`, `NoSeedLost`, `EpochBarrier`, `EvidenceAgrees`), or a theorem
(`TypeCorrect` of the engine, `JournalTypeCorrect`).

**Bounds.** Two executions are enough for everything that passes from one execution to
the next (feedback, ordinal, pending fold), two attempts each for a retry that follows
an uncharged one and for the cap. Two crashes allow a crash in the recovery from a
crash. The parallel instance has one crash: the epochs multiply the states, and the
crash falls anywhere in a bootstrap epoch of two and an exploration epoch of one, with
every combination of worker positions. `MaxAttempts` never binds: TLC would report the
deadlock of a plan that finds no ordinal left. Two callers and two attempts
of an operation give each of the two races there are: for an intent, and of a late answer with the
expiry of its intent (with three attempts and one crash the same properties hold, in four times the
time, and the theorems cover every number). The four executions of `greybox` (no call, one call, the
same twice, another after it) include each combination of novelties: nothing but a sequence, a
sequence and a transition, all three; two executions of a batch exhaust a seed and
recycle the queue within one reservation. Three threads are the fewest that contend for a
resource with two slots; one request nested in another is the first depth at which the
global order can be inverted, and the theorem below covers every depth.
In `skillrace` three purposes make a branch and then another one, so that the third epoch plans from
guards, tried marks and a frontier that the second has left; the one crash falls between any two
writes, also of a generation that failed before. In `rq3` a crash may meet the recovery from a
crash; two methods show that what one of them seals does not depend on the other, and a method
with two findings that a ledger closes over all of them. In `cleanroom` the second slot is the first
that has a retained test to lose, and two checks the fewest with which one is repaired and the other lost.

**Fairness.** A process that can take a step takes it, and a dead process is restarted (`WF`): the
experiment driver resumes unfinished cells. Of main thread and workers it is only assumed that as long as one of
them can go on, one does (`Proceed` in `ParallelCampaign`): none has steps without end. `CampaignEngine` assumes strong fairness of `Cleanup`: Docker may refuse a
removal any number of times, not forever. In `ImageCleanup` and `ParallelCampaign` the number of
faults is bounded, so weak fairness is enough. In `OperationJournal` a call goes on, each request
is asked for again (the campaign is resumed), and an intent without outcome is at some call older
than `stale_intent_seconds`: strong fairness of `Invoke` and `Expire`. In
`GreyboxGenerator` the campaign goes on; what executions show is left open. In `Rq3Pipeline` an
operator starts again a pipeline that has not been verified, and agents and providers answer or time
out: weak fairness of `Proceed`, which includes `Start`. `SkillRaceSearch` and `CleanRoomCampaign`
state safety only; their runs may stop (epochs used up, a refused restoration, a failed campaign), so
deadlock is not checked there. `ResourcePool` assumes that bodies end, and that a
thread waiting at a semaphore is not overtaken forever. Python's semaphore wakes waiters of its
condition in arrival order; a newcomer may still overtake, hence *strong* fairness of `Take`,
which is an assumption about the scheduler and not a guarantee of the code.

## 4. What is proved

`CampaignEngineProofs`, for every `Budget`, `Cap`, set of candidates and number of
crashes, under the named assumptions of `CampaignRecords` and `CampaignEngine`:

| Theorem | Property | Argument |
|---|---|---|
| `TypeCorrect` | `TypeOK` | `TypeInv` adds to the types what each control point guarantees about `cur` and `out` (`ControlOK`): a record is only published where its content is known to exist |
| `LaunchAtMostOnce` | `AtMostOneLaunch` | `LaunchInv`: an attempt that was launched is in `started`, and at `pc = "launch"` it has not been launched yet. `Recover` guards `PublishStarted` by the journal, which is why the announcement must come first |
| `ChargeJustified` | `ChargeFollowsJournal` | `JournalInv`: the receipt of an attempt, and the result held in memory on its way there, agree with the three journal files at every control point; the charge is a function of the receipt, and a receipt is never rewritten |
| `RecordsPublishedOnce` | `PublishedOnce` | the part of `JournalInv` that says which records exist at each control point |
| `ImageKeptThenRemoved` | `ImageLifetime` | `ImageInv` on top of `JournalInv`: an image goes only in the cleanup, behind the receipt and before the commit, and comes back only with a proposal, which a committed attempt has |
| `HistoryExactlyOnce` | `GeneratorMatchesHistory` | `HistoryInv`: the iterations are the charged attempts in the order of their ordinals, all tries of an ordinal before the one in hand are uncharged (`OrderInv`), the process works at the end of that order (`ProgressInv`), and the audit of `_load_or_create` finds nothing to refuse (`AuditInv`). Then `SnapshotInv` below |
| `FeedbackBeforeProposal` | `ProposalsSeeAllFeedback` | `SnapshotInv`: the snapshots in campaign.json, in the proposals, in the fold receipts and in memory each continue the history of folds up to their position (`Continues`), so that whichever of them a resumed process restores, it restores the whole history |
| `CampaignAdvances` | (stated there) | `Work`, below: it is a natural number, and every step that is not an interruption reduces it; `BudgetKept` comes with it, since the iterations have the ordinals 0, 1, .. below the budget |
| `CampaignRefinesExactlyOnce` | `ImplementsExactlyOnce` | the safety refinement: under the mapping of `CampaignEngine`, `Init` implies the initial states of `ExactlyOnceCampaign`, and with `HistoryInv` and `SnapshotInv` every step of the engine is one of its steps or a stutter |

`PublishedOnce` is not inductive alone: that no record exists where one is about to be
published depends on where `SelectAttempt` and `Recover` resume an attempt, thus on the
records that must exist *together* (a receipt follows a proposal, a commit follows a cleanup).

`CampaignAdvances` is what remains of `Termination` without fairness: the engine cannot go round in
circles. A commit and a fold are never undone and there are finitely many (`Pending`), and between two of
them the process goes through its control points in one direction: 13 * `Pending` plus the steps to
the end of the attempt (`StepsFrom`) falls with each step. The exceptions are at most `MaxCrashes` kills, and
`CleanupError`, whose number nothing bounds: there `Termination` needs the fairness of `Cleanup`.

`ParallelCampaignProofs`, for any budget, epoch size, order of candidates and number of crashes:

| Theorem | Property | Argument |
|---|---|---|
| `EpochsAreBarriers` | `EpochBarrier` | `PlanInv`: proposals exist for the ordinals handed out and perhaps for the epoch being planned (`ProposalsPlanned`), a closed epoch is committed (`ClosedCommitted`), the charges are the iterations and the pending fold (`ChargesListed`), executed candidates are committed in the order of their ids (`ReducedInOrder`); `GeneratorInv` shows that a restored generator is on one side of the epoch's transition |
| `EpochsAreBlind` | `EpochIsBlind` | `GeneratorInv`: a batch is drawn from feedback of earlier epochs (`BatchesBlind`), a candidate is a result of its epoch's batch and its proposal has learned what the batch was reserved with (`CandidatesFromBatch`), and slots are proposed in order (`ProposedInOrder`), each with the snapshot the slots before it left (`MemoryInSlots`), so that they share one (`OneSnapshot`), on either side of the batch, depending on where a call of `propose_epoch` failed; that needs what each saved snapshot and the memory may have learned, wherever the process dies |
| `BudgetIsRespected` | `BudgetRespected` | `BudgetInv`: the slots of the open epoch that are not yet iterations fit into what is left of its phase (`BudgetLeft`), and an iteration's phase follows from its position (`PhaseByPosition`); with at most one pending charge this bounds the charges by cardinality (`ListedAtMost`) |
| `FoldsFollowCandidates` | `FoldsInCandidateOrder` | inductive with `ReducedInOrder`: what is finalized last comes last (`FinalizedLast`) |
| `UninterruptedFeedback` | `FeedbackCompleteUninterrupted` | `FeedbackInv`, for runs without a crash: the first process finds nothing to restore (`FirstStart`), what is committed is settled at once (`SettledAtOnce`), hence no snapshot of a proposal replaces the generator, and it has learned the iterations in their order (`LearnedInOrder`) |
| `CampaignRefinesEpochs` | `ImplementsEpochs` | the safety refinement: every step is one of `EpochCampaign` or a stutter. Besides `Inv` and `LaunchInv` it takes `EpochInv`: an ended campaign is not worked on (`StatusRunning`), an epoch is entered and a campaign given up only below the budget (`RoomLeft`), and a result is only taken of a worker that has delivered it and cannot launch any more (`ReceiptsDelivered`) |
| `ParallelAdvances` | (stated there) | `Work`: per ordinal the steps its slot has left (`Left`: plan, worker, result), summed over the ordinals, and the steps of the main thread to the next of them; each step of whichever worker or of the reducer reduces it, or is one of at most `MaxCrashes` kills |
| `WorkersLaunchOnce` | (`AtMostOneLaunch`) | `LaunchInv`: what was launched is in `started`; a worker about to launch has announced what nobody launched (`ReadyToLaunch`). A worker announces only where `MayExecute` holds, and `AnnouncedIsRecovered` shows that an announced attempt always has an outcome to recover instead |

All but the last rest on one inductive invariant, `Inv`, the conjunction of `TypeInv`, `PlanInv`,
`MainInv`, `WorkersInv`, `GeneratorInv`, `BudgetInv` and the order of the folds: none of its parts is
inductive alone, since a resumed process is told apart from a fresh one only by its files.
`UninterruptedFeedback` adds `FeedbackInv` to it; that the same fails after a crash is finding 2.
`AtMostOneLaunch` is not checked by itself: the abstract `Launch` requires it.

`SharedHostProofs` about `ImageCleanup`, for any images, attempts and number of crashes and Docker failures:

| Theorem | Property | Argument |
|---|---|---|
| `CleanupTellsTruth` | `RecordsTellTruth` | `FilesInv`: an image that is gone was removed behind an intent, and with an intent Docker is asked first; a record `clean` is of an image that is gone, and no failed one follows it. `ControlInv` says what holds between inspection, removal, record and receipt, where the files alone say too little |
| `CleanupAdvances` | (stated there) | every step, of whatever image and process, reduces what is left to do, or is one of the `MaxFaults` faults; a completed campaign takes none. The measure counts the attempts not committed and the unused images not drained (`Pending`), and the steps of the process to the next of them; an error that ends the process counts for the restart it brings |

`GreyboxGeneratorProofs`, for any tools, executions, bootstrap, batch size and number of crashes:

| Theorem | Property | Argument |
|---|---|---|
| `NoSeedIsLost` | `NoSeedLost` | `SchedulerOK`, of one snapshot: the seeds with energy are those in the queue, each once, and the one being spent. Every method keeps it; for `Chosen` that needs what recycling and sorting return, with which members and how often (`OnlyInKeeps`) |
| `NoveltyIsCoveredOnce` | `CorpusCoversNovelty` | `CoverageOK`, of one snapshot: what was observed is what the seeds with earned energy show, each sequence by exactly one; the energy paid is at most the number of novelties, by counting the rewards (`Rewards`) as a set |
| `BatchesApplyOnce` | `BatchAppliedOnce` | `BatchOK`: the files of a batch lead from the saved snapshot to the one in memory, the reservation by exactly `EpochSize` payments, the completion by none |
| `SeedsLast` | `SeedsNeverRunOut` (stated there) | the first execution earned energy, recycling gives it back, so each payment of a batch finds a seed: the error path `no-schedulable-energy` of `reserve_mutations` and `propose` is not reached after the bootstrap |

The two recursive functions, the payments of a batch (`Spendings`) and the selections of the scheduler (`OnlyIn`), are
dealt with by the least counterexample (`SpendingsKeep`, `OnlyInKeeps`): a set of naturals has a
least member, and at that one the recursion is unfolded once.

`SkillRaceSearchProofs`, for any purposes, mutations, epoch sizes, epochs, failed calls and crashes:

| Theorem | Property | Argument |
|---|---|---|
| `RunsJudgedOnce` | `JudgedOnce` | `JudgeInv`: campaign.json names at most one open fold, the least that its epoch still owes (`PendingOK`); versions, completions and fold receipts exist for charged attempts only (`RecordsOK`), so that a newly opened fold has none; as soon as the open fold has a version, the files are those of the version, except in the steps that write them (`FoldingOK`); a restoration agrees with its target in the files it has written (`RestoringOK`); and a snapshot remembers recorded folds only, so that `FoldAgain` finds the run in the tree and not just in memory |
| `FilesAndCampaignAgree` | `ArtifactsAgree` | `StoryInv`, below: `AgreeInv` says at each place where the main thread decides what to do which snapshot memory and files are. What these hold in relation to the recorded folds is `KeptInv`: folds are recorded in the order of their slots (`OrderInv`); no snapshot holds a run without its receipt, and one taken before an epoch's folds holds none of that epoch's runs (`StoredInv`); and so does the process, which of the open epoch holds the folds recorded since its last restoration (`LiveInv`) |
| `ReplaysAreAccepted` | `ReplayAccepted` | `StoryInv` again: until its epoch is saved, an intent, a plan and a proposal stand on the snapshot in campaign.json (`FrozenInv`); the plan was made for what the epoch goes on from, or that has carried it out already (`PlanInv`); and at every place of the planning cost and statistics are those of a first generation or of a settled one (`CostInv`) |
| `MutationsAreSpentOnce` | `EachMutationOnce` | `TriedInv`: a target is marked before the proposals that stand for it are published (`MarkedInv`); the guard file does not change while an epoch is reduced (`GuardsInv`); what campaign.json has tried is tried in every file and snapshot a process may put back, and no target of the epoch in hand is among it (`SearchInv`) |

`StoryInv` is the conjunction of `RecordsInv` (campaign.json and the proposals, intents and plans) and
`StepsInv` (the process). It is not inductive by itself: that a restoration ends with the files of its
target is `JudgeInv`'s; `TriedInv` and `KeptInv` need both. Its difficulty is the crash between two files of
a restoration; therefore a restoration counts for what it leads to (`Place`, `Heading`), and a crash or a restart
moves to a place that another history has as well. `Bases` are the snapshots the epoch goes on
from: that of its proposals, or of campaign.json as long as there are none.

Two facts come with `RunsJudgedOnce`: `Finalize` never has to put files back, and what `FoldAgain` finds staged is
what is on disk. `FirstIsLeast` and `LastIsGreatest` justify the two CHOOSEs the argument needs.

`SharedHostProofs` about `ResourcePool`, for any threads, limits, requests and depth:

| Theorem | Property | Argument |
|---|---|---|
| `HeldInOrder` | `NoCircularWait` | `OrderInv`, stated of one thread at a time: the held list is strictly increasing; while a request acquires, it misses something, and everything held is below everything it misses. `NoCircularWait` compares with the *next* resource only; that the order survives each acquisition needs all those missing, and that the next one is their least (a nonempty set of naturals has one) |
| `SlotsAreConserved` | `SlotsConserved` | `SlotInv`, on top of `OrderInv`: of every resource the free slots and those in use make up the limit, and the statistics count the threads whose shared list has it; per thread, `SlotsOK` says which of its frames own which part of the list at each control point, so that a release of the last one acquired is a release of what that frame took |

`OperationJournalProofs`, for any callers, requests, retries and number of crashes, all from one
invariant, `JournalInv`:

| Theorem | Property | Argument |
|---|---|---|
| `JournalTypeCorrect` | `TypeOK` | the attempt after the last error is one of 1 .. Retries + 1 (a bounded set of numbers has a maximum), and `Exhausted` cuts off the last |
| `RequestedOncePerAttempt` | `OneRequestPerAttempt` | a caller that may send wrote the intent, nothing has been sent for its ordinal, and nobody else owns that attempt (`Exclusive`) |
| `NoBlindRetry` | `RetriedOnlyAfterError` | every intent stands on recorded errors of *all* earlier attempts; identifiers are unique, so an attempt with an error has no other outcome |
| `OperationRecordAgrees` | `CallTerminalAgrees` | the operation's record stands on an outcome, an outcome on its intent, and that intent on errors; an intent beyond it would need an error where the outcome is another |
| `ContentDeliveredOnce` | `AnswerDeliveredOnce` | two successes of different attempts contradict the same chain; of the same attempt there is one owner |
| `IdentifierHasOneRequest` | `OneRequestIdentity` | an intent of the first attempt is only created in an empty journal; later ones and outcomes follow receipts whose request was compared |

The invariant is needed because each property concerns the journal now, while a call acts on what it
found before: `CallerOK` says what of that stays true (receipts are never removed), and `StepKeeps`
proves once that a step of one call leaves the others' part intact.

`Rq3PipelineProofs`, for any methods, findings, hidden tests and number of faults:

| Theorem | Property | Argument |
|---|---|---|
| `PaidActionsOnce` | `CarriedOutOnce` | `Announced`: whatever was carried out has a start record; `ReadyToRun`: the process between a start record and the action found no start record before. A job whose result is missing is refused *because* it has one (`Uncertain`), one whose result exists is passed over, so `BeginJob` only meets jobs that were never begun. Nothing is used of the plan |
| `ExamBehindTheSeal` | `HiddenAfterSeal` | `Rest`, below: a process that begins a hidden test has passed the barrier and the opening of the exam, and no step of any process undoes what those left; a public artifact without hidden material then stays so, since the jobs that could bring it in are `Done` |
| `RecordsAgree` | `EvidenceAgrees` | `Rest` again: its `Durable` part is about the files alone (each record stands on those it was made from), and a verified process has passed every step (`VerifiedIsWhole`) |
| `SealedForGood` | `SealIsFinal` (an action, stated there) | only `SealPublicPhase` writes the barrier, and where one exists it writes what is there or refuses |

`Rest` says of the process at step `at` that each earlier step is `Done`, in terms of what is on disk;
whence what the step at hand `Needs`. It rests on the order of the plan for *any* lists of methods,
findings and tests (`PlanIsOrdered`), and this on the meaning of `FlattenSeq`, a recursive function of
the library: `FlattenFollows` shows by the least counterexample that each piece follows the one before.
What makes it inductive is that nothing `Done` is ever undone, though steps publish, refuse and
crash in between; `Recorded`, `Ledgered`, `Enveloped`, `Sealed`, `Opened` and `Examined` are the
parts of `Durable`, each disturbed by few actions.
The assumptions are that the lists are lists (`MethodsAssumption`, `SuspectsAssumption`,
`TestsAssumption`), that no two methods share a cluster, and that `None` is no record (`NoRecordAssumption`).

`CleanRoomCampaignProofs`, for any methods, slots, checks and held-out tests:

| Theorem | Property | Argument |
|---|---|---|
| `AtMostOneContainer` | `OneContainer` | `ContainerInv`: a running campaign has one container exactly while an agent or its checks run; only then a step adds one or takes it. `SlotInv` says which steps belong to a slot of a method, so that the position stays within the configuration |
| `PassesPersist` | `KnownPassesPersist` | `KnownInv`: what a candidate has reached so far was asked with the checks of the test it replays (`ReplayedOK`), a run's own checks are among `Checks` (`ResultInv`); so a retained test in which nothing but passes came back has lost none |

Only model-checked: the liveness properties (`Termination` of both engines, `EventuallyComplete`,
`EventuallyServed`, `EventuallySettled`, `EverySeedMutated`, `VerifiedUnlessHopeless`), because the prover
handles neither fairness nor `ENABLED`. For the engines and the cleanup the part that does not need
fairness is proved (`CampaignAdvances`, `ParallelAdvances`, `CleanupAdvances`): nobody goes on
forever, but for failing removals in the sequential engine. That a process which is not at its end can always take one is what TLC's
deadlock check and the liveness runs show. Every safety and action property of a passing run is proved.

`GeneratorMatchesHistory` and
`FeedbackComplete` say that a generator learned in the order of the iterations with `InOrderOf` of
`CampaignRecords`, which quantifies over positions: a recursive definition would need an induction.

## 5. Findings

Shown by a run that expects the violation:

1. **Orphaned images** (`cleanup_orphans`). `_drain_unused_images` drops the report of a
   failed removal; the campaign is then complete, and never entered again.
2. **A resumed epoch forgets folds** (`parallel_resume`). After a crash between two folds
   of one epoch, the snapshot restored is that of a proposal (or the one
   `_commit_attempt` stored), which has none of the epoch's folds. They stay in the
   iterations, and the generator never learns them.
3. **Nothing checked, yet passed** (`cleanroom_unchecked`). After two invalid check bundles a
   held-out run has no results, and `all()` of nothing is true (`campaigns.py:547`); the design
   (`docs/superpowers/specs/2026-07-17-skillrace-clean-room-pipeline-design.md:414-415`) calls such
   properties inconclusive.

Stated as a definition of the module, and refuted by TLC when it is made the one invariant of an
instance of `parallel_resume`'s size (`engine` with Budget 1 and no crash for the first):

4. **A begun agent may be free** (`StartedAgentsCharged`). `classify_runner_result` (LP:194) decides
   by `run.json` whether the agent began. A runner that wrote its durable marker and died
   before `run.json` is reported as not begun, committed uncharged and retried;
   `docs/implementation-status.md:84-85` says every outcome after the marker consumes the slot.
5. **A resumed epoch counts successes as failures** (`AbortedAtCap`, with Budget 3). `before` (CE:1729)
   is taken when the epoch is re-entered; a process that resumes behind the last fold gains nothing and
   adds the whole epoch to the consecutive failures, which may abort the campaign.
   `docs/evaluation-reviewer-guide.md:86` allows five pre-agent attempts per coordinate.
6. **A torn write blocks a worker** (`NeverRefused`). A kill during a worker's atomic
   write leaves `.started.json.*.tmp`; `run_worker` (PC:428) then raises on an unknown file, in this and
   every later process.

Seen while modelling, in the behaviour of the modules and without a property of its own:

7. *SkillRACE, same cause as 2.* A crash after a fold in the middle of an epoch makes
   `restore(proposal.gen)` refuse, or undo the fold when the guard file has not changed since.
   Files that do not match the records end in `pc = "refused"`. `ArtifactsAgree` states exactly
   what such a crash takes away: the folds recorded so far of the epoch it falls into, nothing else.
8. *SkillRACE, failed generation.* When a process dies after it published only some of the failure
   proposals of an epoch, the next one plans and pays for the other slots; restoring the first failure's
   snapshot then forgets those tried marks and costs, or refuses. When all were published, results paid
   before the failure are discarded. `EachMutationOnce` therefore excludes epochs with failed slots.
9. *SkillRACE, costs.* A segmentation that is recovered forward reports no cost; guards extracted
   between `targets.json` and the proposals are rolled back with the intent and paid for again; the
   sequential path (`epoch_size = 1`) has no intent, so a crash in `propose` leaves files that
   `restore` refuses.
10. *RQ3, launch records.* A rerun whose executor failed before it wrote its launch record is a
    terminal `error` in the ledger, but `_confirmation_boundary_link` needs that record: the public
    phase can then never be sealed (`unlaunched` in `Hopeless`).
11. *RQ3, lost outcomes.* A completed campaign with a lost outcome is charged for it, and refused by
    the costs or by the validation (`uncosted`, `unmanifested`); one that counted a violation without
    failure signature, identity or provenance makes `_suspected_clusters` raise in every process
    (`rq3_confirmation.py:147-173`, `unreplayable`); one that was cut short is never resumed,
    since its `campaign.json` exists (`partial`); hidden results without raw artifacts are refused
    (RQ3:1226), although `docs/rq3-artifact-guide.md:37-40` counts them as non-pass (`bare`).
12. *RQ3, the hidden-material audit.* It reads every file of the public phase
    (`rq3_pipeline.py:716-726`) for needles one of which is `tests/t` (`rq3.py:210`): an ordinary trace
    of an agent that looked at `tests/test_x.py` refuses the pipeline for good, after every campaign,
    rerun and revision was paid for, since none of them is ever made again (`leaked` in `Hopeless`).
13. *Clean room.* A run without a trace leaves its container behind, because `_verify` copies the trace
    before its `try` (`CaptureFails`); the container outlives a failed campaign, which is the exception
    in `OneContainer`. A retained test with a check that keeps failing or stays inconclusive blocks
    every later patch (`AcceptPatch`). The patch evidence of `verigrey` is that of an earlier run, or
    missing, after a run without tool calls (`PatchFails`, `RepairFails`). `skillrace` aims at the last
    node of its tree, and no node is ever marked unreached.

## 6. Plan

Done: the engines, image cleanup, the pool, the operation journal, the greybox generator, the SkillRACE
generator with its adaptive artifacts, the RQ3 pipeline, the clean-room campaigns. Next:

1. `RandomGenerator`: the buffer of built candidates, whose images no record names before the proposal.
2. `FeedbackAdmission`: the byte-bounded round-robin choice of evidence as a function, checked
   against a reference definition over small inputs.
3. A tree of several levels, for `tree.py`'s variants and children, with guards of inner branches.
4. A configuration that changes between processes (a smaller agent capacity).

Theorems to come: a measure like `Work` for `OperationJournal`, whose number of calls nothing bounds, and for
`Rq3Pipeline`, where a process walks the whole plan again after each refusal.

## 7. Not modelled, and why

Prompt construction, parsing of model answers, segmentation, property checking and
the agent itself are seen through their outcomes, chosen nondeterministically. RQ3
isolation is operating-system policy. The experiment driver's cells share nothing but the resource pool
and a schedule file that is rewritten whole under one lock. Contracts and audits validate static files;
analysis computes statistics over finished campaigns. The choice of evidence within an envelope and the
scores that order targets are left open. JSON schemas, hashes, paths and
logging are abstracted as described in section 2. The `peak` statistic of the pool is left
out.
