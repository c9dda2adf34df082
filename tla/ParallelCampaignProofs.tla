----------------------- MODULE ParallelCampaignProofs -----------------------
(***************************************************************************)
(* The safety of a campaign of parallel epochs, for any budget, epoch size *)
(* and order of candidates, any number of crashes and whichever workers of *)
(* whichever processes run.                                                *)
(*                                                                         *)
(* That no agent is launched twice follows from the worker's journal       *)
(* alone: an agent is launched only behind a start record that the same    *)
(* worker has just written, and a worker that finds the start record of    *)
(* another one recovers an outcome instead of calling the executor.        *)
(*                                                                         *)
(* Everything else follows from one inductive invariant, Inv: what the     *)
(* files say of each other whenever the process may die (PlanInv), what    *)
(* the main thread and the workers know besides (MainInv, WorkersInv), on  *)
(* which side of the epoch's transition every snapshot is (GeneratorInv),  *)
(* and how many charges the open epoch may still bring (BudgetInv).        *)
(* Epochs are barriers, blind and within the budget, and their results     *)
(* are folded in the order of the candidates. A further invariant, of the  *)
(* runs without a crash, shows that nothing folded is forgotten.           *)
(*                                                                         *)
(* Two results are about steps: each one but a kill brings the campaign    *)
(* nearer to its end, and each one is a step of EpochCampaign or leaves    *)
(* its state alone.                                                        *)
(***************************************************************************)
EXTENDS ParallelCampaign, FiniteSetTheorems, TLAPS

\* What has been launched was announced.
LaunchesAnnounced ==
  /\ launches \in [Ordinal -> {0, 1}]
  /\ \A o \in Ordinal : launches[o] = 1 => o \in started

\* A worker about to launch has announced what nobody has launched.
ReadyToLaunch ==
  /\ DOMAIN wpc = Ordinal
  /\ \A o \in Ordinal : wpc[o] = "launch" => o \in started /\ launches[o] = 0

LaunchInv == LaunchesAnnounced /\ ReadyToLaunch

\* The journal of an announced launch always yields an outcome (_recover_worker_outcome).
LEMMA AnnouncedIsRecovered ==
  ASSUME NEW o \in Ordinal, MayExecute(o)
  PROVE  o \notin started
<1> SUFFICES ASSUME o \in started PROVE FALSE
  OBVIOUS
<1>1. Recovered(TRUE, external[o], terminal[o]) = None
  BY DEF MayExecute, RecoveredOutcome
<1>2. terminal[o] = None /\ external[o] = None
  BY <1>1 DEF Recovered
<1>3. Recovered(TRUE, external[o], terminal[o]) = "unknown"
  BY <1>2 DEF Recovered
<1> QED BY <1>1, <1>3, NoneAssumption DEF Result

LEMMA InitLaunch == Init => LaunchInv
  BY DEF Init, LaunchInv, LaunchesAnnounced, ReadyToLaunch

\* A step that announces and launches nothing, and brings no worker before a launch.
LEMMA OthersKeep ==
  ASSUME LaunchInv, UNCHANGED <<started, launches>>, DOMAIN wpc' = Ordinal,
         \A o \in Ordinal : wpc'[o] = "launch" => wpc[o] = "launch"
  PROVE  LaunchInv'
  BY DEF LaunchInv, LaunchesAnnounced, ReadyToLaunch

LEMMA WorkerKeeps ==
  ASSUME LaunchInv, NEW o \in Ordinal, WorkerStep(o)
  PROVE  LaunchInv'
<1> USE DEF LaunchInv, LaunchesAnnounced, ReadyToLaunch
<1>1. CASE PublishStarted(o)
  <2>1. launches[o] = 0
    BY <1>1, AnnouncedIsRecovered DEF PublishStarted
  <2>2. started' = started \cup {o} /\ wpc' = [wpc EXCEPT ![o] = "launch"] /\ launches' = launches
    BY <1>1 DEF PublishStarted
  <2> QED BY <2>1, <2>2
<1>2. ASSUME NEW began \in BOOLEAN, RunAgent(o, began) PROVE LaunchInv'
  <2>1. /\ o \in started /\ launches[o] = 0 /\ started' = started
        /\ launches' = [launches EXCEPT ![o] = @ + 1] /\ wpc' = [wpc EXCEPT ![o] = "external"]
    BY <1>2 DEF RunAgent, workerFiles, journal
  <2>2. launches' = [launches EXCEPT ![o] = 1]
    BY <2>1
  <2> QED BY <2>1, <2>2
<1>3. CASE WorkerBegin(o) \/ WorkerRefuse(o)
  BY <1>3, OthersKeep DEF WorkerBegin, WorkerRefuse, workerFiles, journal
<1>4. CASE RaiseAfterAgent(o) \/ PublishExternal(o)
  BY <1>4, OthersKeep DEF RaiseAfterAgent, PublishExternal, workerFiles, journal
<1>5. CASE PublishTerminal(o) \/ PublishWorkerReceipt(o)
  BY <1>5, OthersKeep DEF PublishTerminal, PublishWorkerReceipt
<1> QED BY <1>1, <1>2, <1>3, <1>4, <1>5 DEF WorkerStep

LEMMA MainKeeps ==
  ASSUME LaunchInv, MainStep
  PROVE  LaunchInv'
<1> USE DEF workerFiles, journal, workers
<1>0. DOMAIN wpc = Ordinal
  BY DEF LaunchInv, ReadyToLaunch
<1>1. CASE StartWorkers \/ EndEpoch
  BY <1>1, OthersKeep DEF StartWorkers, EndEpoch
<1>2. CASE Load \/ ResumeEpoch \/ ProposeFails \/ PublishProposal \/ SaveEpoch \/ TakeFailure
  BY <1>0, <1>2, OthersKeep
     DEF Load, ResumeEpoch, ProposeFails, PublishProposal, SaveEpoch, TakeFailure
<1>3. ASSUME NEW results \in [Slots -> Candidates], ProposeEpoch(results) PROVE LaunchInv'
  BY <1>0, <1>3, OthersKeep DEF ProposeEpoch
<1>4. CASE TakeResult \/ PublishReceipt \/ Cleanup \/ Commit \/ SaveUncharged
  BY <1>0, <1>4, OthersKeep DEF TakeResult, PublishReceipt, Cleanup, Commit, SaveUncharged
<1>5. ASSUME NEW status \in {"folded", "error"}, NEW absorbed \in BOOLEAN,
             CallFold(status, absorbed)
      PROVE  LaunchInv'
  BY <1>0, <1>5, OthersKeep DEF CallFold
<1>6. CASE PublishFold \/ Finalize \/ PublishProgress \/ Finish
  BY <1>0, <1>6, OthersKeep DEF PublishFold, Finalize, PublishProgress, Finish
<1> QED BY <1>1, <1>2, <1>3, <1>4, <1>5, <1>6 DEF MainStep

LEMMA StepLaunch == LaunchInv /\ [Next]_vars => LaunchInv'
<1> SUFFICES ASSUME LaunchInv, [Next]_vars PROVE LaunchInv'
  OBVIOUS
<1>0. DOMAIN wpc = Ordinal
  BY DEF LaunchInv, ReadyToLaunch
<1>1. CASE MainStep
  BY <1>1, MainKeeps
<1>2. CASE \E o \in Ordinal : WorkerStep(o)
  BY <1>2, WorkerKeeps
<1>3. CASE Crash \/ CleanupError
  BY <1>3, OthersKeep DEF Crash, CleanupError, Forget, journal
<1>4. CASE Restart \/ Terminated \/ UNCHANGED vars
  BY <1>0, <1>4, OthersKeep DEF Restart, Terminated, vars, workerFiles, journal, workers
<1> QED BY <1>1, <1>2, <1>3, <1>4 DEF Next

\* A paid agent run is never repeated, by whichever worker of whichever process
\* (run_worker, _recover_worker_outcome).
THEOREM WorkersLaunchOnce == Spec => []AtMostOneLaunch
<1>1. LaunchInv => AtMostOneLaunch
  BY DEF LaunchInv, LaunchesAnnounced, AtMostOneLaunch
<1> QED BY InitLaunch, StepLaunch, <1>1, PTL DEF Spec

-----------------------------------------------------------------------------
(* The invariant of a campaign: what the files say of each other at any moment a    *)
(* process may be killed, and what the process that runs knows besides.             *)

MainControl ==
  {"load", "loop", "slots", "failures", "workers", "receipt", "cleanup", "commit", "save",
   "fold", "foldReceipt", "finalize", "progress", "abort", "done", "down", "refused"}
WorkerControl == {"idle", "ready", "launch", "external", "terminal", "receipt", "done"}

\* Where the process has a generator, where it reduces the result of the candidate cur,
\* and where that is an executed candidate already committed.
Running == MainControl \ {"load", "done", "down", "refused"}
Reducing == {"receipt", "cleanup", "commit", "save", "fold", "foldReceipt", "finalize",
             "progress"}
Settling == {"save", "fold", "foldReceipt", "finalize", "progress"}

\* The iterations and the charges as sets; the slots of the open epoch, and its jobs.
Iterated == {campaign.iterations[i] : i \in 1 .. Counted}
Charges == {o \in campaign.attempts : ConsumesBudget(receipt[o])}
Pending == {campaign.pending} \ {None}
OpenSlots == IF campaign.active = None THEN {} ELSE campaign.active.slots
Failed == {o \in Ordinal : proposal[o] # None /\ proposal[o].candidate = "failure"}
OpenJobs == OpenSlots \ Failed
OpenFailures == OpenSlots \cap Failed

TypeInv ==
  /\ campaign \in CampaignState
  /\ batch \in [Epoch -> BatchRecord \cup {None}]
  /\ proposal \in [Ordinal -> ProposalRecord \cup {None}]
  /\ started \subseteq Ordinal /\ cleaned \subseteq Ordinal /\ progress \subseteq Ordinal
  /\ litter \subseteq Ordinal
  /\ external \in [Ordinal -> Result \cup {None}]
  /\ terminal \in [Ordinal -> Result \cup {None}]
  /\ workerReceipt \in [Ordinal -> Result \cup {None}]
  /\ receipt \in [Ordinal -> Result \cup {None}]
  /\ fold \in [Ordinal -> FoldRecord \cup {None}]
  /\ gen \in Generator /\ before \in Nat
  /\ wout \in [Ordinal -> Result \cup {None}]
  /\ crashes \in 0 .. MaxCrashes
  /\ pc \in MainControl /\ wpc \in [Ordinal -> WorkerControl]
  /\ pc \in Reducing => cur \in OpenSlots
  /\ pc = "foldReceipt" => out \in {"folded", "error"}

(* What is on disk *)

\* Ordinals and epochs are handed out in order; the open epoch is the newest.
EpochsInOrder ==
  /\ campaign.nextOrdinal <= MaxAttempts
  /\ campaign.nextEpoch <= campaign.nextOrdinal
  /\ campaign.active # None =>
       /\ campaign.active.epoch = campaign.nextEpoch
       /\ campaign.nextEpoch < campaign.nextOrdinal
       /\ \A o \in OpenSlots : o < campaign.nextOrdinal

\* Proposals exist for the ordinals handed out, and perhaps for slots of the epoch that
\* is being planned.
ProposalsPlanned ==
  \A o \in Ordinal :
    /\ o < campaign.nextOrdinal =>
         /\ proposal[o] # None
         /\ IF o \in OpenSlots THEN proposal[o].epoch = campaign.nextEpoch
            ELSE proposal[o].epoch < campaign.nextEpoch
    /\ proposal[o] # None /\ ~(o < campaign.nextOrdinal) =>
         /\ campaign.active = None /\ o \in Slots
         /\ proposal[o].epoch = campaign.nextEpoch /\ proposal[o].phase = Phase

\* An epoch is closed when all its attempts are committed; commits are recorded.
ClosedCommitted ==
  \A o \in Ordinal \ OpenSlots : o < campaign.nextOrdinal => o \in campaign.attempts
CommitsRecorded ==
  /\ \A o \in campaign.attempts : receipt[o] # None /\ o \in cleaned
  /\ \A o \in Ordinal : receipt[o] # None => o < campaign.nextOrdinal

\* The charged attempts are those in the iterations, once each, and the pending one.
ChargesListed == Charges = Iterated \cup Pending
IterationsOnce ==
  \A i, j \in 1 .. Counted : campaign.iterations[i] = campaign.iterations[j] => i = j
PendingOpen == Pending \subseteq OpenJobs \ (Iterated \cup progress)

FailuresUncharged == \A o \in Failed : receipt[o] \in {None, "notStarted"}
ProgressCommitted == progress \subseteq campaign.attempts
FoldsOfCharges ==
  \A o \in Ordinal :
    (o \in Iterated => fold[o] # None) /\ (fold[o] # None => o \in Charges)

\* Executed candidates are committed in the order of their ids, after all failures.
ReducedInOrder ==
  \A o \in OpenJobs \cap campaign.attempts :
    /\ OpenFailures \subseteq campaign.attempts
    /\ \A p \in OpenJobs : Rank[p] < Rank[o] => p \in progress

PlanInv ==
  /\ EpochsInOrder /\ ProposalsPlanned /\ ClosedCommitted /\ CommitsRecorded
  /\ ChargesListed /\ IterationsOnce /\ PendingOpen
  /\ FailuresUncharged /\ ProgressCommitted /\ FoldsOfCharges /\ ReducedInOrder

(* The main thread *)

\* While an epoch is planned, the slots below cur are proposed.
Planning ==
  pc = "slots" =>
    /\ campaign.active = None /\ Counted < Budget
    /\ campaign.nextOrdinal + Capacity <= MaxAttempts
    /\ cur \in Nat /\ campaign.nextOrdinal <= cur
    /\ \A o \in Slots : (o < cur => proposal[o] # None) /\ out[o] \in Candidate

EpochOpen ==
  /\ pc \in {"failures", "workers"} => campaign.active # None
  /\ pc = "abort" => campaign.active = None
  /\ pc = "workers" => OpenFailures \subseteq campaign.attempts

\* What is reduced is a failure not yet committed, or the first job without progress.
Current ==
  /\ pc \in Reducing /\ cur \in Failed => pc \notin Settling /\ cur \notin campaign.attempts
  /\ pc \in Reducing /\ cur \notin Failed =>
       /\ cur \notin progress /\ OpenFailures \subseteq campaign.attempts
       /\ \A o \in OpenJobs : wpc[o] = "done" /\ (Rank[o] < Rank[cur] => o \in progress)

\* How far the current candidate has come.
CurrentStage ==
  /\ pc \in {"cleanup", "commit"} => receipt[cur] # None
  /\ pc = "commit" => cur \in cleaned
  /\ pc \in Settling => cur \in campaign.attempts
  /\ pc = "save" => cur \notin Charges
  /\ pc \in {"fold", "foldReceipt", "finalize"} => campaign.pending = cur
  /\ pc = "finalize" => fold[cur] # None
  /\ pc = "progress" => campaign.pending # cur

MainInv == Planning /\ EpochOpen /\ Current /\ CurrentStage

(* The workers *)

WorkersInEpoch ==
  \A o \in Ordinal :
    /\ wpc[o] # "idle" => o \in OpenJobs /\ pc \in {"workers", "refused"} \cup Reducing
    /\ wpc[o] # "idle" => OpenFailures \subseteq campaign.attempts
    /\ wpc[o] \notin {"idle", "done"} => pc \in {"workers", "refused"}
WorkersDeliver ==
  \A o \in Ordinal :
    /\ wpc[o] = "done" /\ pc # "refused" => workerReceipt[o] # None
    /\ wpc[o] \in {"external", "terminal", "receipt"} => wout[o] # None
    /\ wpc[o] \in {"launch", "external"} => o \in started
RefusedByLitter == pc = "refused" => litter # {}

WorkersInv == WorkersInEpoch /\ WorkersDeliver /\ RefusedByLitter

(* The generator *)

Learned(g) == {g.folded[i] : i \in 1 .. Len(g.folded)}
NoJobCommitted == OpenJobs \cap campaign.attempts = {}
AllCommitted == OpenSlots \subseteq campaign.attempts
ThisBatch == batch[campaign.nextEpoch]

\* g is the snapshot that the proposals of the open epoch carry.
OfOpenEpoch(g) == \A o \in OpenSlots : proposal[o].gen = g

\* g is one of the two sides of the current epoch's durable transition, if it has one.
OnOneSide(g) == g = campaign.gen \/ (ThisBatch # None /\ g = ThisBatch.post)

\* Slots are proposed in their order. A batch is drawn from feedback of earlier epochs.
ProposedInOrder ==
  \A o, p \in Ordinal : proposal[o] # None /\ p < o => proposal[p] # None
BatchesInOrder == \A e \in Epoch : batch[e] # None => e <= campaign.nextEpoch
BatchesBlind ==
  \A e \in Epoch : batch[e] # None =>
    /\ batch[e].post = Draw(batch[e].pre)
    /\ \A p \in Learned(batch[e].pre) : proposal[p] # None /\ proposal[p].epoch < e

\* The proposals of an epoch carry one snapshot, with feedback of earlier epochs; what
\* they have for candidates are results of its batch.
OneSnapshot ==
  \A o, p \in Ordinal :
    proposal[o] # None /\ proposal[p] # None /\ proposal[o].epoch = proposal[p].epoch
      => proposal[o].gen = proposal[p].gen
ProposalsBlind ==
  \A o \in Ordinal : proposal[o] # None =>
    /\ proposal[o].epoch \in Epoch
    /\ \A p \in Learned(proposal[o].gen) :
         proposal[p] # None /\ proposal[p].epoch < proposal[o].epoch
CandidatesFromBatch ==
  \A o \in Ordinal : proposal[o] # None /\ proposal[o].candidate # "failure" =>
    LET b == batch[proposal[o].epoch] IN
    /\ b # None /\ proposal[o].candidate = b.results[o]
    /\ proposal[o].gen.folded = b.pre.folded

\* The snapshot of campaign.json, and those of the folds. An epoch is planned from that of
\* campaign.json, and a proposal carries it, or what its batch made of it.
SavedBetweenEpochs ==
  campaign.active = None =>
    /\ ThisBatch # None =>
         campaign.gen = ThisBatch.pre /\ ThisBatch.results \in [Slots -> Candidates]
    /\ \A o \in Ordinal : proposal[o] # None /\ proposal[o].epoch = campaign.nextEpoch =>
         OnOneSide(proposal[o].gen)
SavedInEpoch == campaign.active # None /\ NoJobCommitted => OfOpenEpoch(campaign.gen)
SavedCommitted ==
  /\ Learned(campaign.gen) \subseteq campaign.attempts
  /\ \A o \in Ordinal : fold[o] # None => Learned(fold[o].gen) \subseteq campaign.attempts

\* The generator in memory. While the slots are gone through, it is that of the slots below
\* cur, and what comes next are failures or results of the batch.
MemoryBetweenEpochs ==
  pc \in Running /\ campaign.active = None => OnOneSide(gen)
MemoryInSlots ==
  pc = "slots" =>
    /\ \A o \in Slots : o < cur => proposal[o].gen = gen
    /\ \A o \in Slots : out[o] # "failure" => ThisBatch # None /\ out[o] = ThisBatch.results[o]
MemoryInEpoch ==
  pc \in Running /\ campaign.active # None =>
    /\ Learned(gen) \subseteq campaign.attempts
    /\ NoJobCommitted => OfOpenEpoch(gen)
    /\ pc # "save" /\ AllCommitted /\ campaign.pending = None => gen = campaign.gen

PlansInv ==
  /\ ProposedInOrder /\ BatchesInOrder /\ BatchesBlind
  /\ OneSnapshot /\ ProposalsBlind /\ CandidatesFromBatch
GeneratorInv ==
  /\ PlansInv /\ SavedBetweenEpochs /\ SavedInEpoch /\ SavedCommitted
  /\ MemoryBetweenEpochs /\ MemoryInSlots /\ MemoryInEpoch

(* The budget *)

PhaseByPosition ==
  \A i \in 1 .. Counted :
    proposal[campaign.iterations[i]].phase = "bootstrap" <=> i <= Bootstrap
\* The slots of the open epoch fit into its phase, whatever becomes of them.
BudgetLeft ==
  LET unfolded == Cardinality(OpenSlots \ Iterated) IN
  /\ Counted <= Budget
  /\ campaign.active # None =>
       \/ /\ \A o \in OpenSlots : proposal[o].phase = "bootstrap"
          /\ Counted + unfolded <= Bootstrap
       \/ /\ \A o \in OpenSlots : proposal[o].phase = "explore"
          /\ Bootstrap <= Counted /\ Counted + unfolded <= Budget

BudgetInv == PhaseByPosition /\ BudgetLeft

Inv ==
  TypeInv /\ PlanInv /\ MainInv /\ WorkersInv /\ GeneratorInv /\ BudgetInv
    /\ FoldsInCandidateOrder

-----------------------------------------------------------------------------
(* Least and greatest members, and the types *)

\* Of the members of a set there is one with the least measure.
LEMMA LeastMeasure ==
  ASSUME NEW S, S # {}, NEW f \in [S -> Nat]
  PROVE  \E m \in S : \A s \in S : f[m] <= f[s]
<1> DEFINE values == {f[s] : s \in S}
<1>1. values \in SUBSET Nat /\ values # {}
  OBVIOUS
<1> HIDE DEF values
<1>2. \E v \in values : \A w \in values : ~ (<<w, v>> \in OpToRel(<, Nat))
  BY <1>1, NatLessThanWellFounded, WFMin, Zenon
<1>3. \A w, v \in Nat : w < v => <<w, v>> \in OpToRel(<, Nat)
  BY DEF OpToRel
<1>4. \E v \in values : \A w \in values : ~ (w < v)
  BY <1>1, <1>2, <1>3, Zenon
<1>5. PICK m \in S : \A w \in values : ~ (w < f[m])
  BY <1>4 DEF values
<1>6. \A s \in S : f[s] \in values /\ f[s] \in Nat
  BY DEF values
<1>7. \A s \in S : f[m] <= f[s]
  BY <1>5, <1>6
<1> QED
  BY <1>7

LEMMA LastUncommitted ==
  ASSUME Uncommitted # {}
  PROVE  \E o \in Uncommitted : \A p \in Uncommitted : p <= o
<1> DEFINE f == [o \in Uncommitted |-> MaxAttempts - 1 - o]
<1>1. \A o \in Uncommitted : o \in Nat /\ MaxAttempts - 1 - o \in Nat
  BY BoundAssumption DEF Uncommitted, Ordinal
<1>2. f \in [Uncommitted -> Nat]
  BY <1>1
<1> HIDE DEF f
<1>3. PICK m \in Uncommitted : \A s \in Uncommitted : f[m] <= f[s]
  BY <1>2, LeastMeasure
<1>4. \A p \in Uncommitted : p <= m
  BY <1>1, <1>3, BoundAssumption DEF f
<1> QED
  BY <1>4

LEMMA FirstSlotIsMember ==
  ASSUME NEW S \in SUBSET Ordinal, S # {}
  PROVE  FirstSlot(S) \in S
<1> DEFINE f == [o \in S |-> o]
<1>1. f \in [S -> Nat]
  BY DEF Ordinal
<1> HIDE DEF f
<1>2. PICK m \in S : \A s \in S : f[m] <= f[s]
  BY <1>1, LeastMeasure
<1>3. \E m0 \in S : \A s \in S : m0 <= s
  BY <1>2 DEF f
<1> QED
  BY <1>3, Zenon DEF FirstSlot

LEMMA NextResultIsFirst ==
  ASSUME NEW S \in SUBSET Ordinal, S # {}
  PROVE  NextResult(S) \in S /\ \A p \in S : Rank[NextResult(S)] <= Rank[p]
<1> DEFINE f == [o \in S |-> Rank[o]]
<1>1. f \in [S -> Nat]
  BY RankAssumption
<1> HIDE DEF f
<1>2. PICK m \in S : \A s \in S : f[m] <= f[s]
  BY <1>1, LeastMeasure
<1>3. \E m0 \in S : \A s \in S : Rank[m0] <= Rank[s]
  BY <1>2 DEF f
<1> QED
  BY <1>3, Zenon DEF NextResult

\* The fields of campaign.json, and the sets read from it.
LEMMA CampaignParts ==
  ASSUME TypeInv
  PROVE  /\ campaign.attempts \subseteq Ordinal /\ campaign.iterations \in Seq(Ordinal)
         /\ campaign.pending \in Ordinal \cup {None} /\ campaign.gen \in Generator
         /\ campaign.active \in EpochRecord \cup {None}
         /\ campaign.nextEpoch \in Nat /\ campaign.nextOrdinal \in Nat
         /\ campaign.failures \in Nat /\ Counted \in Nat
         /\ OpenSlots \subseteq Ordinal /\ OpenJobs \subseteq OpenSlots
         /\ Iterated \subseteq Ordinal /\ Pending \subseteq Ordinal /\ Failed \subseteq Ordinal
         /\ Charges \subseteq campaign.attempts
<1>1. campaign \in CampaignState
  BY DEF TypeInv
<1>2. /\ campaign.attempts \subseteq Ordinal /\ campaign.iterations \in Seq(Ordinal)
      /\ campaign.pending \in Ordinal \cup {None} /\ campaign.gen \in Generator
      /\ campaign.active \in EpochRecord \cup {None}
      /\ campaign.nextEpoch \in Nat /\ campaign.nextOrdinal \in Nat
      /\ campaign.failures \in Nat
  BY <1>1 DEF CampaignState
<1>3. Counted \in Nat /\ \A i \in 1 .. Counted : campaign.iterations[i] \in Ordinal
  BY <1>2 DEF Counted
<1>4. OpenSlots \subseteq Ordinal
  BY <1>2 DEF OpenSlots, EpochRecord
<1> QED
  BY <1>2, <1>3, <1>4 DEF OpenJobs, Iterated, Pending, Failed, Charges

\* Ordinals and the records are not None.
LEMMA NotNone ==
  /\ \A o \in Ordinal : o # None
  /\ \A r \in EpochRecord \cup ProposalRecord \cup FoldRecord \cup BatchRecord : r # None
  BY NoRecordAssumption

\* What the process finds in memory after _load_or_create.
LEMMA RestoredCases ==
  \/ /\ campaign.pending # None /\ fold[campaign.pending] # None
     /\ RestoredOnLoad = fold[campaign.pending].gen
  \/ /\ campaign.pending # None /\ RestoredOnLoad = campaign.gen
  \/ /\ campaign.pending = None
     /\ \E o \in Uncommitted : RestoredOnLoad = proposal[o].gen
  \/ campaign.pending = None /\ Uncommitted = {} /\ RestoredOnLoad = campaign.gen
<1>1. CASE campaign.pending # None
  BY <1>1 DEF RestoredOnLoad
<1>2. CASE campaign.pending = None /\ Uncommitted # {}
  <2> DEFINE last == CHOOSE o \in Uncommitted : \A p \in Uncommitted : p <= o
  <2>1. last \in Uncommitted
    BY <1>2, LastUncommitted, Zenon
  <2>2. RestoredOnLoad = proposal[last].gen
    BY <1>2 DEF RestoredOnLoad
  <2> QED
    BY <1>2, <2>1, <2>2
<1>3. CASE campaign.pending = None /\ Uncommitted = {}
  BY <1>3 DEF RestoredOnLoad
<1> QED
  BY <1>1, <1>2, <1>3

-----------------------------------------------------------------------------
(* What the steps that write campaign.json change in it *)

LEMMA SameViews ==
  ASSUME campaign'.iterations = campaign.iterations, campaign'.active = campaign.active,
         proposal' = proposal
  PROVE  /\ Counted' = Counted /\ Iterated' = Iterated
         /\ OpenSlots' = OpenSlots /\ Failed' = Failed
         /\ OpenJobs' = OpenJobs /\ OpenFailures' = OpenFailures
<1>1. Counted' = Counted /\ Iterated' = Iterated
  BY DEF Counted, Iterated
<1>2. OpenSlots' = OpenSlots /\ Failed' = Failed
  BY DEF OpenSlots, Failed
<1> QED
  BY <1>1, <1>2 DEF OpenJobs, OpenFailures

LEMMA SameCharges ==
  ASSUME campaign'.attempts = campaign.attempts, campaign'.pending = campaign.pending,
         receipt' = receipt
  PROVE  Charges' = Charges /\ Pending' = Pending
BY DEF Charges, Pending

LEMMA SameSlots ==
  ASSUME campaign'.iterations = campaign.iterations,
         campaign'.nextOrdinal = campaign.nextOrdinal
  PROVE  Slots' = Slots /\ Phase' = Phase /\ Capacity' = Capacity
BY DEF Slots, Capacity, Phase, Counted, AtMost

\* A step that leaves campaign.json alone but for the generator and the status.
LEMMA SavedEffect ==
  ASSUME TypeInv, SaveUncharged \/ Finish
  PROVE  /\ campaign'.attempts = campaign.attempts
         /\ campaign'.iterations = campaign.iterations
         /\ campaign'.pending = campaign.pending /\ campaign'.active = campaign.active
         /\ campaign'.nextEpoch = campaign.nextEpoch
         /\ campaign'.nextOrdinal = campaign.nextOrdinal
         /\ campaign'.gen = IF pc = "save" THEN gen ELSE campaign.gen
         /\ proposal' = proposal /\ receipt' = receipt /\ fold' = fold
         /\ cleaned' = cleaned /\ progress' = progress /\ batch' = batch /\ gen' = gen
BY DEF TypeInv, CampaignState, SaveUncharged, Finish, plans, reduceFiles

LEMMA CommitEffect ==
  ASSUME TypeInv, Commit
  PROVE  /\ campaign'.attempts = campaign.attempts \cup {cur}
         /\ campaign'.iterations = campaign.iterations
         /\ campaign'.pending =
              IF cur \notin campaign.attempts /\ ConsumesBudget(receipt[cur]) THEN cur
              ELSE campaign.pending
         /\ campaign'.gen = IF cur \in campaign.attempts THEN campaign.gen
                            ELSE proposal[cur].gen
         /\ campaign'.active = campaign.active
         /\ campaign'.nextEpoch = campaign.nextEpoch
         /\ campaign'.nextOrdinal = campaign.nextOrdinal
         /\ cur \in campaign.attempts => campaign' = campaign
         /\ proposal' = proposal /\ receipt' = receipt /\ fold' = fold
         /\ cleaned' = cleaned /\ progress' = progress /\ batch' = batch /\ gen' = gen
         /\ cur' = cur /\ wpc' = wpc /\ pc' = AfterCommit(cur)
<1>1. campaign \in CampaignState /\ campaign' = CommittedState(cur)
  BY DEF TypeInv, Commit
<1>2. CASE cur \in campaign.attempts
  BY <1>1, <1>2 DEF CommittedState, Committed, Commit, plans, reduceFiles, workers
<1>3. CASE cur \notin campaign.attempts
  <2>1. campaign' = [campaign EXCEPT !.attempts = campaign.attempts \cup {cur},
                       !.gen = proposal[cur].gen,
                       !.pending = IF ConsumesBudget(receipt[cur]) THEN cur
                                   ELSE campaign.pending]
    BY <1>1, <1>3 DEF CommittedState, Committed
  <2> QED
    BY <1>1, <1>3, <2>1 DEF CampaignState, Commit, plans, reduceFiles, workers
<1> QED
  BY <1>2, <1>3

LEMMA SaveEpochEffect ==
  ASSUME TypeInv, SaveEpoch
  PROVE  /\ campaign'.attempts = campaign.attempts
         /\ campaign'.iterations = campaign.iterations
         /\ campaign'.pending = campaign.pending /\ campaign'.gen = gen
         /\ campaign'.active = [epoch |-> campaign.nextEpoch, slots |-> Slots]
         /\ campaign'.nextEpoch = campaign.nextEpoch
         /\ campaign'.nextOrdinal = campaign.nextOrdinal + Capacity
         /\ proposal' = proposal /\ receipt' = receipt /\ fold' = fold
         /\ cleaned' = cleaned /\ progress' = progress /\ batch' = batch /\ gen' = gen
         /\ wpc' = wpc
BY DEF TypeInv, CampaignState, SaveEpoch, PlannedState, plans, reduceFiles, workers

LEMMA FinalizeEffect ==
  ASSUME TypeInv, Finalize
  PROVE  /\ campaign'.attempts = campaign.attempts
         /\ campaign'.iterations = Append(campaign.iterations, cur)
         /\ campaign'.pending = None
         /\ campaign'.gen = fold[cur].gen /\ gen' = fold[cur].gen
         /\ campaign'.active = campaign.active
         /\ campaign'.nextEpoch = campaign.nextEpoch
         /\ campaign'.nextOrdinal = campaign.nextOrdinal
         /\ proposal' = proposal /\ receipt' = receipt /\ fold' = fold
         /\ cleaned' = cleaned /\ progress' = progress /\ batch' = batch
         /\ cur' = cur /\ wpc' = wpc
BY DEF TypeInv, CampaignState, Finalize, plans, reduceFiles, workers

LEMMA EndEpochEffect ==
  ASSUME TypeInv, EndEpoch
  PROVE  /\ campaign'.attempts = campaign.attempts
         /\ campaign'.iterations = campaign.iterations
         /\ campaign'.pending = campaign.pending /\ campaign'.gen = campaign.gen
         /\ campaign'.active = None
         /\ campaign'.nextEpoch = campaign.active.epoch + 1
         /\ campaign'.nextOrdinal = campaign.nextOrdinal
         /\ proposal' = proposal /\ receipt' = receipt /\ fold' = fold
         /\ cleaned' = cleaned /\ progress' = progress /\ batch' = batch /\ gen' = gen
         /\ pc' \in {"abort", "loop"}
BY DEF TypeInv, CampaignState, EndEpoch, plans, reduceFiles

-----------------------------------------------------------------------------
(* Types *)

LEMMA FoldType ==
  ASSUME NEW g \in Generator, NEW o \in Ordinal
  PROVE  Fold(g, o) \in Generator
BY DEF Fold, Generator

LEMMA DrawType ==
  ASSUME NEW g \in Generator
  PROVE  Draw(g) \in Generator
BY DEF Draw, Generator

LEMMA RestoredType ==
  ASSUME TypeInv
  PROVE  RestoredOnLoad \in Generator
<1>1. /\ \A o \in Ordinal : fold[o] # None => fold[o].gen \in Generator
      /\ \A o \in Ordinal : proposal[o] # None => proposal[o].gen \in Generator
  BY DEF TypeInv, FoldRecord, ProposalRecord
<1>2. campaign.gen \in Generator /\ campaign.pending \in Ordinal \cup {None}
  BY CampaignParts
<1>3. \A o \in Uncommitted : o \in Ordinal /\ proposal[o] # None
  BY DEF Uncommitted
<1> QED
  BY <1>1, <1>2, <1>3, RestoredCases

\* The recovered outcome of an announced launch is a result.
LEMMA RecoveredType ==
  ASSUME TypeInv, NEW o \in Ordinal
  PROVE  /\ RecoveredOutcome(o) \in Result \cup {None}
         /\ o \in started => RecoveredOutcome(o) # None
<1>1. external[o] \in Result \cup {None} /\ terminal[o] \in Result \cup {None}
  BY DEF TypeInv
<1>2. "unknown" \in Result /\ "unknown" # None
  BY NoneAssumption DEF Result
<1> QED
  BY <1>1, <1>2 DEF RecoveredOutcome, Recovered

LEMMA TypeInit == Init => TypeInv
<1> SUFFICES ASSUME Init PROVE TypeInv
  OBVIOUS
<1>1. FreshGenerator \in Generator
  BY DEF FreshGenerator, Generator
<1>2. campaign \in CampaignState
  BY <1>1 DEF Init, CampaignState
<1>3. /\ batch \in [Epoch -> BatchRecord \cup {None}]
      /\ \A e \in Epoch : batch[e] = None
  BY DEF Init
<1>4. pc \in MainControl /\ pc \notin Reducing /\ pc # "foldReceipt"
  BY DEF Init, MainControl, Reducing
<1>5. wpc \in [Ordinal -> WorkerControl] /\ wout \in [Ordinal -> Result \cup {None}]
  BY DEF Init, WorkerControl
<1>6. /\ proposal \in [Ordinal -> ProposalRecord \cup {None}]
      /\ fold \in [Ordinal -> FoldRecord \cup {None}]
      /\ external \in [Ordinal -> Result \cup {None}]
      /\ terminal \in [Ordinal -> Result \cup {None}]
      /\ workerReceipt \in [Ordinal -> Result \cup {None}]
      /\ receipt \in [Ordinal -> Result \cup {None}]
  BY DEF Init
<1>7. /\ started = {} /\ cleaned = {} /\ progress = {} /\ litter = {}
      /\ gen \in Generator /\ before \in Nat /\ crashes \in 0 .. MaxCrashes
  BY <1>1, BoundAssumption DEF Init
<1> QED
  BY <1>2, <1>3, <1>4, <1>5, <1>6, <1>7 DEF TypeInv

LEMMA TypesHold == TypeInv => TypeOK
<1> SUFFICES ASSUME TypeInv PROVE TypeOK
  OBVIOUS
<1>1. \A e \in Epoch : batch[e] # None => batch[e].pre \in Generator /\ batch[e].post \in Generator
  BY DEF TypeInv, BatchRecord
<1> QED
  BY <1>1 DEF TypeInv, TypeOK

\* The slots of the epoch that may be planned.
LEMMA SlotFacts ==
  ASSUME TypeInv
  PROVE  /\ Capacity \in Int /\ Phase \in {"bootstrap", "explore"}
         /\ Counted < Budget =>
              /\ Capacity \in Nat \ {0} /\ Capacity <= Budget - Counted
              /\ IF Phase = "bootstrap" THEN Capacity <= Bootstrap - Counted
                 ELSE Bootstrap <= Counted
         /\ \A o \in Slots : o \in Nat
         /\ \A o \in Nat : o \in Slots <=>
              campaign.nextOrdinal <= o /\ o < campaign.nextOrdinal + Capacity
         /\ campaign.nextOrdinal + Capacity <= MaxAttempts => Slots \subseteq Ordinal
<1>1. /\ Counted \in Nat /\ campaign.nextOrdinal \in Nat
      /\ Budget \in Nat /\ EpochSize \in Nat \ {0}
      /\ Bootstrap \in Nat /\ Bootstrap <= Budget /\ MaxAttempts \in Nat
  BY CampaignParts, BudgetAssumption, CapAssumption, BoundAssumption
<1>2. /\ Capacity \in Int /\ Phase \in {"bootstrap", "explore"}
      /\ Counted < Budget =>
           /\ Capacity \in Nat \ {0} /\ Capacity <= Budget - Counted
           /\ IF Phase = "bootstrap" THEN Capacity <= Bootstrap - Counted
              ELSE Bootstrap <= Counted
  BY <1>1 DEF Capacity, Phase, AtMost
<1>3. /\ \A o \in Slots : o \in Nat
      /\ \A o \in Nat : o \in Slots <=>
           campaign.nextOrdinal <= o /\ o < campaign.nextOrdinal + Capacity
      /\ campaign.nextOrdinal + Capacity <= MaxAttempts => Slots \subseteq Ordinal
  BY <1>1, <1>2 DEF Slots, Ordinal
<1> QED
  BY <1>2, <1>3

\* The slots of the open epoch have proposals; its jobs are those with a candidate.
LEMMA OpenEpoch ==
  ASSUME TypeInv, PlanInv
  PROVE  /\ \A o \in OpenSlots :
              o \in Ordinal /\ o < campaign.nextOrdinal /\ proposal[o] # None
                /\ proposal[o].epoch = campaign.nextEpoch
         /\ campaign.active # None =>
              /\ campaign.active.slots = OpenSlots
              /\ Jobs = OpenJobs /\ Failures = OpenFailures
         /\ campaign.nextEpoch \in Epoch
         /\ campaign.nextEpoch <= campaign.nextOrdinal
<1>1. \A o \in OpenSlots : o \in Ordinal /\ o < campaign.nextOrdinal
  BY CampaignParts DEF PlanInv, EpochsInOrder, OpenSlots
<1>2. \A o \in OpenSlots : proposal[o] # None /\ proposal[o].epoch = campaign.nextEpoch
  BY <1>1 DEF PlanInv, ProposalsPlanned
<1>3. campaign.active # None => campaign.active.slots = OpenSlots
  BY DEF OpenSlots
<1>4. campaign.active # None => Jobs = OpenJobs /\ Failures = OpenFailures
  BY <1>1, <1>2, <1>3 DEF Jobs, Failures, OpenJobs, OpenFailures, Failed
<1>5. campaign.nextEpoch \in Epoch /\ campaign.nextEpoch <= campaign.nextOrdinal
  BY CampaignParts, BoundAssumption DEF PlanInv, EpochsInOrder, Epoch
<1> QED
  BY <1>1, <1>2, <1>3, <1>4, <1>5

\* A worker writes nothing but the files in its directory.
LEMMA WorkerFrame ==
  ASSUME NEW o \in Ordinal, WorkerStep(o)
  PROVE  /\ UNCHANGED <<campaign, batch, proposal, cleaned, progress, litter, receipt, fold,
                        gen, before, crashes, cur, out>>
         /\ pc' = pc \/ pc' = "refused"
<1> USE DEF plans, journal, workerFiles, reduceFiles, main, workers
<1>1. CASE WorkerBegin(o) \/ WorkerRefuse(o) \/ PublishStarted(o)
  BY <1>1 DEF WorkerBegin, WorkerRefuse, PublishStarted
<1>2. CASE (\E began \in BOOLEAN : RunAgent(o, began)) \/ RaiseAfterAgent(o) \/ PublishExternal(o)
  BY <1>2 DEF RunAgent, RaiseAfterAgent, PublishExternal
<1>3. CASE PublishTerminal(o) \/ PublishWorkerReceipt(o)
  BY <1>3 DEF PublishTerminal, PublishWorkerReceipt
<1> QED
  BY <1>1, <1>2, <1>3 DEF WorkerStep

LEMMA WorkerTypes ==
  ASSUME TypeInv, NEW o \in Ordinal, WorkerStep(o)
  PROVE  TypeInv'
<1> USE DEF plans, journal, workerFiles, reduceFiles, main, workers
<1>0. "notStarted" \in Result /\ "started" \in Result
  BY DEF Result
<1>1. RecoveredOutcome(o) \in Result \cup {None}
  BY RecoveredType
<1>2. UNCHANGED <<campaign, batch, proposal, cleaned, progress, litter, receipt, fold, gen,
                  before, crashes, cur, out>> /\ (pc' = pc \/ pc' = "refused")
  BY WorkerFrame
<1>3. OpenSlots' = OpenSlots
  BY <1>2 DEF OpenSlots
<1>4. /\ pc' \in MainControl /\ (pc' \in Reducing => pc \in Reducing)
      /\ (pc' = "foldReceipt" => pc' = pc)
  BY <1>2 DEF TypeInv, MainControl, Reducing
<1>5. /\ started' \subseteq Ordinal
      /\ external' \in [Ordinal -> Result \cup {None}]
      /\ terminal' \in [Ordinal -> Result \cup {None}]
      /\ workerReceipt' \in [Ordinal -> Result \cup {None}]
      /\ wout' \in [Ordinal -> Result \cup {None}]
      /\ wpc' \in [Ordinal -> WorkerControl]
  <2>0. /\ started \subseteq Ordinal
        /\ external \in [Ordinal -> Result \cup {None}]
        /\ terminal \in [Ordinal -> Result \cup {None}]
        /\ workerReceipt \in [Ordinal -> Result \cup {None}]
        /\ wout \in [Ordinal -> Result \cup {None}]
        /\ wpc \in [Ordinal -> WorkerControl]
    BY DEF TypeInv
  <2>1. CASE WorkerBegin(o) \/ WorkerRefuse(o)
    BY <1>0, <1>1, <2>0, <2>1 DEF WorkerBegin, WorkerRefuse, WorkerControl
  <2>2. CASE PublishStarted(o)
    BY <2>0, <2>2 DEF PublishStarted, WorkerControl
  <2>3. ASSUME NEW began \in BOOLEAN, RunAgent(o, began)
        PROVE  /\ started' = started /\ external' = external /\ terminal' = terminal
               /\ workerReceipt' = workerReceipt
               /\ wout' \in [Ordinal -> Result \cup {None}]
               /\ wpc' \in [Ordinal -> WorkerControl]
    BY <1>0, <2>0, <2>3 DEF RunAgent, WorkerControl
  <2>4. CASE RaiseAfterAgent(o) \/ PublishExternal(o)
    BY <1>1, <2>0, <2>4 DEF RaiseAfterAgent, PublishExternal, WorkerControl
  <2>5. CASE PublishTerminal(o) \/ PublishWorkerReceipt(o)
    BY <2>0, <2>5 DEF PublishTerminal, PublishWorkerReceipt, WorkerControl
  <2> QED BY <2>0, <2>1, <2>2, <2>3, <2>4, <2>5 DEF WorkerStep
<1> QED
  BY <1>2, <1>3, <1>4, <1>5 DEF TypeInv

\* What the main thread changes in campaign.json keeps its schema.
LEMMA CampaignTypes ==
  ASSUME TypeInv, PlanInv, MainInv,
         SaveEpoch \/ Commit \/ SaveUncharged \/ Finalize \/ EndEpoch \/ Finish
  PROVE  campaign' \in CampaignState
<1>0. campaign \in CampaignState /\ gen \in Generator
  BY DEF TypeInv
<1>1. CASE SaveEpoch
  <2>1. Slots \subseteq Ordinal /\ Capacity \in Nat
    BY <1>1, SlotFacts DEF MainInv, Planning, SaveEpoch
  <2>2. [epoch |-> campaign.nextEpoch, slots |-> Slots] \in EpochRecord
    BY <2>1, CampaignParts DEF EpochRecord
  <2>3. campaign.nextOrdinal + Capacity \in Nat
    BY <2>1, CampaignParts
  <2> QED
    BY <1>0, <1>1, <2>2, <2>3 DEF SaveEpoch, PlannedState, CampaignState
<1>2. CASE Commit
  <2>1. cur \in OpenSlots
    BY <1>2 DEF TypeInv, Commit, Reducing
  <2>2. cur \in Ordinal /\ proposal[cur] # None
    BY <2>1, OpenEpoch
  <2>3. proposal[cur].gen \in Generator
    BY <2>2 DEF TypeInv, ProposalRecord
  <2>4. campaign' = campaign \/
        campaign' = [campaign EXCEPT !.attempts = campaign.attempts \cup {cur},
                       !.gen = proposal[cur].gen,
                       !.pending = IF ConsumesBudget(receipt[cur]) THEN cur
                                   ELSE campaign.pending]
    BY <1>2 DEF Commit, CommittedState
  <2>5. /\ campaign.attempts \cup {cur} \in SUBSET Ordinal
        /\ (IF ConsumesBudget(receipt[cur]) THEN cur ELSE campaign.pending)
             \in Ordinal \cup {None}
    BY <2>2, CampaignParts
  <2> QED
    BY <1>0, <2>3, <2>4, <2>5 DEF CampaignState
<1>3. CASE SaveUncharged \/ Finish
  BY <1>0, <1>3 DEF SaveUncharged, Finish, CampaignState
<1>4. CASE Finalize
  <2>1. cur \in Ordinal /\ fold[cur] # None
    BY <1>4, CampaignParts DEF TypeInv, Finalize, Reducing, MainInv, CurrentStage
  <2>2. fold[cur].gen \in Generator
    BY <2>1 DEF TypeInv, FoldRecord
  <2>3. Append(campaign.iterations, cur) \in Seq(Ordinal)
    BY <2>1, CampaignParts
  <2>4. campaign' = [campaign EXCEPT !.iterations = Append(campaign.iterations, cur),
                       !.gen = fold[cur].gen, !.pending = None]
    BY <1>4 DEF Finalize
  <2> QED
    BY <1>0, <2>2, <2>3, <2>4 DEF CampaignState
<1>5. CASE EndEpoch
  <2>1. campaign.active # None
    BY <1>5 DEF EndEpoch, MainInv, EpochOpen
  <2>2. campaign.active \in EpochRecord
    BY <2>1, CampaignParts
  <2>3. Cardinality(campaign.active.slots) \in Nat
    <3>1. IsFiniteSet(Ordinal)
      BY FS_Interval, BoundAssumption DEF Ordinal
    <3>2. campaign.active.slots \subseteq Ordinal
      BY <2>2 DEF EpochRecord
    <3> QED
      BY <3>1, <3>2, FS_Subset, FS_CardinalityType
  <2>4. FailuresAfter(Counted - before) \in Nat
    BY <2>3, CampaignParts DEF FailuresAfter
  <2>5. campaign.active.epoch + 1 \in Nat
    BY <2>2 DEF EpochRecord
  <2>6. campaign' = [campaign EXCEPT !.failures = FailuresAfter(Counted - before),
                       !.active = None, !.nextEpoch = campaign.active.epoch + 1]
    BY <1>5 DEF EndEpoch
  <2> QED
    BY <1>0, <2>4, <2>5, <2>6 DEF CampaignState
<1> QED
  BY <1>1, <1>2, <1>3, <1>4, <1>5

LEMMA MainTypes ==
  ASSUME TypeInv, PlanInv, MainInv, MainStep
  PROVE  TypeInv'
<1> USE DEF plans, journal, workerFiles, reduceFiles, main, workers
<1>0. SaveEpoch \/ Commit \/ SaveUncharged \/ Finalize \/ EndEpoch \/ Finish
        => campaign' \in CampaignState
  BY CampaignTypes
<1>1. CASE Load
  <2>1. gen' \in Generator /\ pc' \in {"refused", "done", "loop"}
    BY <1>1, RestoredType DEF Load
  <2> QED
    BY <1>1, <2>1 DEF Load, TypeInv, MainControl, Reducing
<1>2. CASE ResumeEpoch
  BY <1>2 DEF ResumeEpoch, TypeInv, MainControl, Reducing
<1>3. ASSUME NEW results \in [Slots -> Candidates], ProposeEpoch(results) PROVE TypeInv'
  <2>1. Slots \subseteq Ordinal /\ campaign.nextEpoch \in Epoch
    BY <1>3, SlotFacts, OpenEpoch DEF ProposeEpoch
  <2>2. gen \in Generator /\ Draw(gen) \in Generator
    BY DrawType DEF TypeInv
  <2>3. [pre |-> gen, post |-> Draw(gen), results |-> results] \in BatchRecord
    BY <2>1, <2>2 DEF BatchRecord
  <2>4. batch' \in [Epoch -> BatchRecord \cup {None}]
    <3>1. \/ batch' = batch
          \/ batch' = [batch EXCEPT ![campaign.nextEpoch] =
                         [pre |-> gen, post |-> Draw(gen), results |-> results]]
      BY <1>3 DEF ProposeEpoch
    <3> QED
      BY <2>1, <2>3, <3>1 DEF TypeInv
  <2>5. gen' \in Generator
    <3>1. ThisBatch # None => ThisBatch.post \in Generator
      BY <2>1 DEF TypeInv, BatchRecord, ThisBatch
    <3>2. gen' = gen \/ gen' = Draw(gen) \/ (ThisBatch # None /\ gen' = ThisBatch.post)
      BY <1>3 DEF ProposeEpoch, ThisBatch
    <3> QED
      BY <2>2, <3>1, <3>2
  <2>6. pc' \in {"refused", "slots"}
    BY <1>3 DEF ProposeEpoch
  <2>7. UNCHANGED <<campaign, proposal, workerFiles, reduceFiles, before, workers, crashes>>
    BY <1>3 DEF ProposeEpoch
  <2> QED
    BY <2>4, <2>5, <2>6, <2>7 DEF TypeInv, MainControl, Reducing
<1>4. CASE PublishProposal
  <2>1. /\ cur \in Slots /\ Slots \subseteq Ordinal /\ out[cur] \in Candidate
    BY <1>4, SlotFacts DEF PublishProposal, MainInv, Planning
  <2>2. [candidate |-> out[cur], phase |-> Phase, epoch |-> campaign.nextEpoch, gen |-> gen]
          \in ProposalRecord
    BY <2>1, SlotFacts, CampaignParts DEF ProposalRecord, TypeInv
  <2>3. proposal' \in [Ordinal -> ProposalRecord \cup {None}] /\ gen' \in Generator
    <3>1. CASE proposal[cur] = None
      BY <1>4, <2>2, <3>1 DEF PublishProposal, SlotSnapshot, TypeInv
    <3>2. CASE proposal[cur] # None
      <4>1. proposal[cur].gen \in Generator
        BY <2>1, <3>2 DEF TypeInv, ProposalRecord
      <4> QED
        BY <1>4, <3>2, <4>1 DEF PublishProposal, SlotSnapshot, TypeInv
    <3> QED BY <3>1, <3>2
  <2>4. UNCHANGED <<campaign, batch, workerFiles, reduceFiles, pc, before, workers, crashes>>
    BY <1>4 DEF PublishProposal
  <2>5. pc = "slots"
    BY <1>4 DEF PublishProposal
  <2> QED
    BY <2>3, <2>4, <2>5 DEF TypeInv, Reducing
<1>5. CASE SaveEpoch
  BY <1>0, <1>5 DEF SaveEpoch, TypeInv, MainControl, Reducing
<1>6. CASE TakeFailure
  <2>1. cur' \in OpenSlots
    <3> DEFINE left == {o \in Failures : ~Committed(o)}
    <3>1. left \subseteq OpenSlots /\ left # {}
      BY <1>6, OpenEpoch DEF TakeFailure, MainInv, EpochOpen, OpenFailures
    <3>2. cur' = FirstSlot(left)
      BY <1>6 DEF TakeFailure
    <3> HIDE DEF left
    <3>3. left \in SUBSET Ordinal
      BY <3>1, CampaignParts
    <3> QED
      BY <3>1, <3>2, <3>3, FirstSlotIsMember
  <2>2. OpenSlots' = OpenSlots
    BY <1>6 DEF TakeFailure, OpenSlots
  <2> QED
    BY <1>6, <2>1, <2>2 DEF TakeFailure, TypeInv, MainControl
<1>7. CASE StartWorkers
  <2>1. Counted \in Nat
    BY CampaignParts
  <2>2. wpc' \in [Ordinal -> WorkerControl]
    BY <1>7 DEF StartWorkers, WorkerControl
  <2> QED
    BY <1>7, <2>1, <2>2 DEF StartWorkers, TypeInv, MainControl, Reducing
<1>8. CASE TakeResult
  <2>1. cur' \in OpenSlots
    <3>1. Jobs \ progress \subseteq OpenSlots /\ Jobs \ progress # {}
      BY <1>8, OpenEpoch DEF TakeResult, MainInv, EpochOpen, OpenJobs
    <3>2. cur' = NextResult(Jobs \ progress)
      BY <1>8 DEF TakeResult
    <3>3. Jobs \ progress \in SUBSET Ordinal
      BY <3>1, CampaignParts
    <3> QED
      BY <3>1, <3>2, <3>3, NextResultIsFirst
  <2>2. OpenSlots' = OpenSlots
    BY <1>8 DEF TakeResult, OpenSlots
  <2> QED
    BY <1>8, <2>1, <2>2 DEF TakeResult, TypeInv, MainControl
<1>9. CASE PublishReceipt
  <2>1. OpenSlots' = OpenSlots /\ "notStarted" \in Result
    BY <1>9 DEF PublishReceipt, OpenSlots, Result
  <2>2. receipt' \in [Ordinal -> Result \cup {None}]
    <3>1. cur \in Ordinal
      BY <1>9, CampaignParts DEF PublishReceipt, TypeInv, Reducing
    <3>2. workerReceipt[cur] \in Result \cup {None}
      BY <3>1 DEF TypeInv
    <3> QED
      BY <1>9, <2>1, <3>2 DEF PublishReceipt, TypeInv
  <2> QED
    BY <1>9, <2>1, <2>2 DEF PublishReceipt, TypeInv, MainControl, Reducing
<1>10. CASE Cleanup
  <2>1. OpenSlots' = OpenSlots
    BY <1>10 DEF Cleanup, OpenSlots
  <2>2. cur \in Ordinal
    BY <1>10, CampaignParts DEF Cleanup, TypeInv, Reducing
  <2> QED
    BY <1>10, <2>1, <2>2 DEF Cleanup, TypeInv, MainControl, Reducing
<1>11. CASE Commit
  <2>1. AfterCommit(cur) \in {"failures", "save", "progress", "finalize", "fold"}
    BY DEF AfterCommit
  <2>2. OpenSlots' = OpenSlots
    BY <1>11, CommitEffect DEF OpenSlots
  <2> QED
    BY <1>0, <1>11, <2>1, <2>2 DEF Commit, TypeInv, MainControl, Reducing
<1>12. CASE SaveUncharged
  <2>1. OpenSlots' = OpenSlots
    BY <1>12, SavedEffect DEF OpenSlots
  <2> QED
    BY <1>0, <1>12, <2>1 DEF SaveUncharged, TypeInv, MainControl, Reducing
<1>13. ASSUME NEW status \in {"folded", "error"}, NEW absorbed \in BOOLEAN,
              CallFold(status, absorbed)
       PROVE  TypeInv'
  <2>1. OpenSlots' = OpenSlots
    BY <1>13 DEF CallFold, OpenSlots
  <2>2. cur \in Ordinal
    BY <1>13, CampaignParts DEF CallFold, TypeInv, Reducing
  <2>3. gen' \in Generator
    BY <1>13, <2>2, FoldType DEF CallFold, FoldOnto, TypeInv
  <2> QED
    BY <1>13, <2>1, <2>3 DEF CallFold, TypeInv, MainControl, Reducing
<1>14. CASE PublishFold
  <2>1. OpenSlots' = OpenSlots
    BY <1>14 DEF PublishFold, OpenSlots
  <2>2. [status |-> out, gen |-> gen] \in FoldRecord
    BY <1>14 DEF PublishFold, TypeInv, FoldRecord
  <2> QED
    BY <1>14, <2>1, <2>2 DEF PublishFold, TypeInv, MainControl, Reducing
<1>15. CASE Finalize
  <2>1. OpenSlots' = OpenSlots
    BY <1>15, FinalizeEffect DEF OpenSlots
  <2>2. cur \in Ordinal /\ fold[cur] # None
    BY <1>15, CampaignParts DEF Finalize, TypeInv, Reducing, MainInv, CurrentStage
  <2>3. fold[cur].gen \in Generator
    BY <2>2 DEF TypeInv, FoldRecord
  <2> QED
    BY <1>0, <1>15, <2>1, <2>3 DEF Finalize, TypeInv, MainControl, Reducing
<1>16. CASE PublishProgress
  <2>1. cur \in Ordinal
    BY <1>16, CampaignParts DEF PublishProgress, TypeInv, Reducing
  <2> QED
    BY <1>16, <2>1 DEF PublishProgress, TypeInv, MainControl, Reducing
<1>17. CASE EndEpoch
  <2>1. wpc' \in [Ordinal -> WorkerControl] /\ pc' \in {"abort", "loop"}
    BY <1>17 DEF EndEpoch, WorkerControl
  <2> QED
    BY <1>0, <1>17, <2>1 DEF EndEpoch, TypeInv, MainControl, Reducing
<1>18. CASE Finish
  BY <1>0, <1>18 DEF Finish, TypeInv, MainControl, Reducing
<1>19. CASE ProposeFails
  BY <1>19 DEF ProposeFails, TypeInv, MainControl, Reducing
<1> QED
  BY <1>1, <1>2, <1>3, <1>4, <1>5, <1>6, <1>7, <1>8, <1>9, <1>10, <1>11, <1>12, <1>13,
     <1>14, <1>15, <1>16, <1>17, <1>18, <1>19 DEF MainStep

LEMMA TypeStep ==
  ASSUME TypeInv, PlanInv, MainInv, [Next]_vars
  PROVE  TypeInv'
<1> USE DEF plans, journal, workerFiles, reduceFiles, main, workers
<1>1. CASE \E o \in Ordinal : WorkerStep(o)
  BY <1>1, WorkerTypes
<1>2. CASE MainStep
  BY <1>2, MainTypes
<1>3. CASE Crash \/ CleanupError
  <2>1. /\ crashes' \in 0 .. MaxCrashes /\ litter' \subseteq Ordinal
    BY <1>3, BoundAssumption DEF Crash, CleanupError, TypeInv
  <2>2. Forget
    BY <1>3 DEF Crash, CleanupError
  <2>3. /\ gen' \in Generator /\ wpc' \in [Ordinal -> WorkerControl]
        /\ wout' \in [Ordinal -> Result \cup {None}] /\ pc' = "down" /\ before' \in Nat
    BY <2>2 DEF Forget, FreshGenerator, Generator, WorkerControl
  <2>4. UNCHANGED <<campaign, plans, journal, reduceFiles>>
    BY <2>2 DEF Forget
  <2> QED
    BY <2>1, <2>3, <2>4 DEF TypeInv, MainControl, Reducing
<1>4. CASE Restart
  BY <1>4 DEF Restart, TypeInv, MainControl, Reducing
<1>5. CASE Terminated \/ UNCHANGED vars
  <2>1. UNCHANGED vars
    BY <1>5 DEF Terminated
  <2>2. OpenSlots' = OpenSlots
    BY <2>1 DEF vars, OpenSlots
  <2> QED
    BY <2>1, <2>2 DEF vars, TypeInv
<1> QED
  BY <1>1, <1>2, <1>3, <1>4, <1>5 DEF Next

-----------------------------------------------------------------------------
(* What is on disk *)

LEMMA PlanInit == Init => PlanInv
<1> SUFFICES ASSUME Init PROVE PlanInv
  OBVIOUS
<1>1. /\ campaign.attempts = {} /\ campaign.iterations = <<>> /\ campaign.pending = None
      /\ campaign.active = None /\ campaign.nextEpoch = 0 /\ campaign.nextOrdinal = 0
      /\ progress = {}
      /\ \A o \in Ordinal : proposal[o] = None /\ receipt[o] = None /\ fold[o] = None
  BY DEF Init
<1>2. /\ Counted = 0 /\ Iterated = {} /\ Charges = {} /\ Pending = {} /\ OpenSlots = {}
      /\ Failed = {} /\ OpenJobs = {}
  BY <1>1 DEF Counted, Iterated, Charges, Pending, OpenSlots, Failed, OpenJobs
<1>3. EpochsInOrder /\ ProposalsPlanned /\ ClosedCommitted /\ CommitsRecorded
  BY <1>1, <1>2, BoundAssumption
     DEF EpochsInOrder, ProposalsPlanned, ClosedCommitted, CommitsRecorded, Ordinal
<1>4. ChargesListed /\ IterationsOnce /\ PendingOpen
  BY <1>1, <1>2 DEF ChargesListed, IterationsOnce, PendingOpen
<1>5. FailuresUncharged /\ ProgressCommitted /\ FoldsOfCharges /\ ReducedInOrder
  BY <1>1, <1>2 DEF FailuresUncharged, ProgressCommitted, FoldsOfCharges, ReducedInOrder
<1> QED
  BY <1>3, <1>4, <1>5 DEF PlanInv

\* A step after which all these files are as before.
LEMMA PlanKept ==
  ASSUME PlanInv, UNCHANGED <<campaign, proposal, receipt, cleaned, fold, progress>>
  PROVE  PlanInv'
<1>1. /\ Counted' = Counted /\ Iterated' = Iterated /\ OpenSlots' = OpenSlots
      /\ Failed' = Failed /\ OpenJobs' = OpenJobs /\ OpenFailures' = OpenFailures
      /\ Charges' = Charges /\ Pending' = Pending
      /\ Slots' = Slots /\ Phase' = Phase
  BY SameViews, SameCharges, SameSlots
<1>2. EpochsInOrder' /\ ProposalsPlanned' /\ ClosedCommitted' /\ CommitsRecorded'
  BY <1>1 DEF PlanInv, EpochsInOrder, ProposalsPlanned, ClosedCommitted, CommitsRecorded
<1>3. ChargesListed' /\ IterationsOnce' /\ PendingOpen'
  BY <1>1 DEF PlanInv, ChargesListed, IterationsOnce, PendingOpen
<1>4. FailuresUncharged' /\ ProgressCommitted' /\ FoldsOfCharges' /\ ReducedInOrder'
  BY <1>1 DEF PlanInv, FailuresUncharged, ProgressCommitted, FoldsOfCharges, ReducedInOrder
<1> QED
  BY <1>2, <1>3, <1>4 DEF PlanInv

LEMMA PublishProposalPlan ==
  ASSUME TypeInv, PlanInv, MainInv, PublishProposal
  PROVE  PlanInv'
<1>1. CASE proposal[cur] # None
  BY <1>1, PlanKept DEF PublishProposal, reduceFiles
<1>2. CASE proposal[cur] = None
  <2>1. /\ UNCHANGED <<campaign, receipt, cleaned, fold, progress>>
        /\ proposal' = [proposal EXCEPT ![cur] =
                          [candidate |-> out[cur], phase |-> Phase,
                           epoch |-> campaign.nextEpoch, gen |-> gen]]
    BY <1>2 DEF PublishProposal, reduceFiles
  <2>2. /\ campaign.active = None /\ cur \in Slots /\ Slots \subseteq Ordinal
        /\ ~(cur < campaign.nextOrdinal)
    <3>1. /\ campaign.active = None /\ cur \in Slots /\ Slots \subseteq Ordinal
          /\ cur \in Nat
      BY SlotFacts DEF PublishProposal, MainInv, Planning
    <3> QED
      BY <3>1, SlotFacts, CampaignParts
  <2>3. OpenSlots = {} /\ OpenSlots' = {} /\ OpenJobs' = {} /\ OpenJobs = {}
    BY <2>1, <2>2 DEF OpenSlots, OpenJobs
  <2>4. /\ Counted' = Counted /\ Iterated' = Iterated
        /\ Charges' = Charges /\ Pending' = Pending /\ Slots' = Slots /\ Phase' = Phase
    BY <2>1, SameCharges, SameSlots DEF Counted, Iterated
  <2>5. \A o \in Ordinal : o # cur => proposal'[o] = proposal[o]
    BY <2>1 DEF TypeInv
  <2>6. /\ proposal'[cur] # None /\ proposal'[cur].epoch = campaign.nextEpoch
        /\ proposal'[cur].phase = Phase
    <3>1. [candidate |-> out[cur], phase |-> Phase, epoch |-> campaign.nextEpoch, gen |-> gen]
            \in ProposalRecord
      BY <2>2, SlotFacts, CampaignParts, CandidatesAssumption
         DEF ProposalRecord, TypeInv, MainInv, Planning, PublishProposal
    <3> QED
      BY <2>1, <2>2, <3>1, NotNone DEF TypeInv
  <2>7. ProposalsPlanned'
    BY <2>1, <2>2, <2>3, <2>4, <2>5, <2>6 DEF PlanInv, ProposalsPlanned
  <2>8. FailuresUncharged'
    <3>1. receipt[cur] = None
      BY <2>2 DEF PlanInv, CommitsRecorded
    <3>2. \A o \in Failed' : o \in Failed \/ o = cur
      BY <2>5 DEF Failed
    <3> QED
      BY <2>1, <3>1, <3>2 DEF PlanInv, FailuresUncharged
  <2>9. EpochsInOrder' /\ ClosedCommitted' /\ CommitsRecorded'
    BY <2>1, <2>3 DEF PlanInv, EpochsInOrder, ClosedCommitted, CommitsRecorded
  <2>10. ChargesListed' /\ IterationsOnce' /\ PendingOpen'
    BY <2>1, <2>3, <2>4 DEF PlanInv, ChargesListed, IterationsOnce, PendingOpen
  <2>11. ProgressCommitted' /\ FoldsOfCharges' /\ ReducedInOrder'
    BY <2>1, <2>3, <2>4 DEF PlanInv, ProgressCommitted, FoldsOfCharges, ReducedInOrder
  <2> QED
    BY <2>7, <2>8, <2>9, <2>10, <2>11 DEF PlanInv
<1> QED
  BY <1>1, <1>2

LEMMA SaveEpochPlan ==
  ASSUME TypeInv, PlanInv, MainInv, SaveEpoch
  PROVE  PlanInv'
<1>1. /\ campaign.active = None /\ Capacity \in Nat \ {0}
      /\ campaign.nextOrdinal + Capacity <= MaxAttempts
      /\ Slots \subseteq Ordinal /\ \A o \in Slots : proposal[o] # None
  <2>1. /\ campaign.active = None /\ Capacity \in Nat \ {0}
        /\ campaign.nextOrdinal + Capacity <= MaxAttempts /\ Slots \subseteq Ordinal
    BY SlotFacts DEF SaveEpoch, MainInv, Planning
  <2>2. cur \in Nat /\ campaign.nextOrdinal <= cur /\ cur \notin Slots
    BY DEF SaveEpoch, MainInv, Planning
  <2>3. ASSUME NEW o \in Slots PROVE o < cur
    <3>1. /\ o \in Nat /\ o < campaign.nextOrdinal + Capacity
          /\ ~(cur < campaign.nextOrdinal + Capacity)
      BY <2>2, SlotFacts
    <3> QED
      BY <2>1, <2>2, <3>1, CampaignParts
  <2> QED
    BY <2>1, <2>3 DEF SaveEpoch, MainInv, Planning
<1>2. /\ campaign'.attempts = campaign.attempts
      /\ campaign'.iterations = campaign.iterations
      /\ campaign'.pending = campaign.pending
      /\ campaign'.active = [epoch |-> campaign.nextEpoch, slots |-> Slots]
      /\ campaign'.nextEpoch = campaign.nextEpoch
      /\ campaign'.nextOrdinal = campaign.nextOrdinal + Capacity
      /\ UNCHANGED <<proposal, receipt, cleaned, fold, progress>>
  BY SaveEpochEffect
<1>3. campaign'.active # None
  <2>1. [epoch |-> campaign.nextEpoch, slots |-> Slots] \in EpochRecord
    BY <1>1, CampaignParts DEF EpochRecord
  <2> QED
    BY <1>2, <2>1, NotNone
<1>4. OpenSlots = {} /\ OpenSlots' = Slots /\ Failed' = Failed
  BY <1>1, <1>2, <1>3 DEF OpenSlots, Failed
<1>5. Counted' = Counted /\ Iterated' = Iterated /\ Charges' = Charges /\ Pending' = Pending
  BY <1>2, SameCharges DEF Counted, Iterated
<1>6. /\ campaign.nextOrdinal \in Nat /\ campaign.nextEpoch \in Nat
      /\ \A o \in Ordinal : o \in Nat
  BY CampaignParts DEF Ordinal
<1>7. \A o \in Ordinal : o \in Slots <=>
        campaign.nextOrdinal <= o /\ o < campaign'.nextOrdinal
  BY <1>2, <1>6, SlotFacts
<1>8. \A o \in campaign.attempts : o < campaign.nextOrdinal
  BY CampaignParts DEF PlanInv, CommitsRecorded
<1>9. EpochsInOrder'
  BY <1>1, <1>2, <1>3, <1>4, <1>6, <1>7 DEF PlanInv, EpochsInOrder
<1>10. ProposalsPlanned'
  <2> SUFFICES ASSUME NEW o \in Ordinal
               PROVE  /\ o < campaign'.nextOrdinal =>
                           /\ proposal[o] # None
                           /\ IF o \in Slots THEN proposal[o].epoch = campaign.nextEpoch
                              ELSE proposal[o].epoch < campaign.nextEpoch
                      /\ proposal[o] # None => o < campaign'.nextOrdinal
    BY <1>2, <1>4 DEF ProposalsPlanned
  <2>1. CASE o < campaign.nextOrdinal
    <3>1. o \notin Slots /\ o < campaign'.nextOrdinal
      BY <1>1, <1>2, <1>6, <1>7, <2>1
    <3> QED
      BY <1>4, <2>1, <3>1 DEF PlanInv, ProposalsPlanned
  <2>2. CASE ~(o < campaign.nextOrdinal)
    <3>1. o \in Slots <=> o < campaign'.nextOrdinal
      BY <1>6, <1>7, <2>2
    <3> QED
      BY <1>1, <2>2, <3>1 DEF PlanInv, ProposalsPlanned
  <2> QED
    BY <2>1, <2>2
<1>11. ClosedCommitted' /\ CommitsRecorded'
  <2>1. \A o \in Ordinal : o < campaign.nextOrdinal => o < campaign'.nextOrdinal
    BY <1>1, <1>2, <1>6
  <2>2. \A o \in Ordinal \ Slots : o < campaign'.nextOrdinal => o < campaign.nextOrdinal
    BY <1>6, <1>7
  <2> QED
    BY <1>2, <1>4, <2>1, <2>2 DEF PlanInv, ClosedCommitted, CommitsRecorded
<1>12. PendingOpen'
  <2>1. Pending = {}
    BY <1>4 DEF PlanInv, PendingOpen, OpenJobs
  <2> QED
    BY <1>5, <2>1 DEF PendingOpen
<1>13. ReducedInOrder'
  <2>1. OpenJobs' \cap campaign'.attempts = {}
    BY <1>2, <1>4, <1>6, <1>7, <1>8, CampaignParts DEF OpenJobs
  <2> QED
    BY <2>1 DEF ReducedInOrder
<1>14. /\ ChargesListed' /\ IterationsOnce' /\ FailuresUncharged' /\ ProgressCommitted'
       /\ FoldsOfCharges'
  BY <1>2, <1>4, <1>5
     DEF PlanInv, ChargesListed, IterationsOnce, FailuresUncharged, ProgressCommitted,
         FoldsOfCharges
<1> QED
  BY <1>9, <1>10, <1>11, <1>12, <1>13, <1>14 DEF PlanInv

LEMMA EndEpochPlan ==
  ASSUME TypeInv, PlanInv, MainInv, EndEpoch
  PROVE  PlanInv'
<1>1. /\ campaign.active # None /\ campaign.active.epoch = campaign.nextEpoch
      /\ campaign.nextEpoch < campaign.nextOrdinal
      /\ \A o \in OpenSlots : o < campaign.nextOrdinal
  BY DEF EndEpoch, MainInv, EpochOpen, PlanInv, EpochsInOrder
<1>2. OpenJobs \subseteq progress /\ OpenSlots \subseteq campaign.attempts
  <2>1. OpenJobs \subseteq progress
    BY <1>1, OpenEpoch DEF EndEpoch
  <2>2. OpenJobs \subseteq campaign.attempts
    BY <2>1 DEF PlanInv, ProgressCommitted
  <2>3. OpenFailures \subseteq campaign.attempts
    BY DEF EndEpoch, MainInv, EpochOpen
  <2> QED
    BY <2>1, <2>2, <2>3 DEF OpenJobs, OpenFailures
<1>3. Pending = {}
  BY <1>2 DEF PlanInv, PendingOpen
<1>4. /\ campaign'.attempts = campaign.attempts
      /\ campaign'.iterations = campaign.iterations
      /\ campaign'.pending = campaign.pending
      /\ campaign'.active = None
      /\ campaign'.nextEpoch = campaign.nextEpoch + 1
      /\ campaign'.nextOrdinal = campaign.nextOrdinal
      /\ UNCHANGED <<proposal, receipt, cleaned, fold, progress>>
  BY <1>1, EndEpochEffect
<1>5. OpenSlots' = {} /\ OpenJobs' = {} /\ Failed' = Failed
  BY <1>4 DEF OpenSlots, OpenJobs, Failed
<1>6. Counted' = Counted /\ Iterated' = Iterated /\ Charges' = Charges /\ Pending' = Pending
  BY <1>4, SameCharges DEF Counted, Iterated
<1>7. /\ campaign.nextOrdinal \in Nat /\ campaign.nextEpoch \in Nat
      /\ \A o \in Ordinal : o \in Nat
  BY CampaignParts DEF Ordinal
<1>8. EpochsInOrder'
  BY <1>1, <1>4, <1>7 DEF PlanInv, EpochsInOrder
<1>9. ProposalsPlanned'
  <2> SUFFICES ASSUME NEW o \in Ordinal
               PROVE  /\ o < campaign.nextOrdinal =>
                           proposal[o] # None /\ proposal[o].epoch < campaign.nextEpoch + 1
                      /\ proposal[o] # None => o < campaign.nextOrdinal
    BY <1>4, <1>5 DEF ProposalsPlanned
  <2>1. proposal[o] # None => proposal[o].epoch \in Nat
    BY DEF TypeInv, ProposalRecord
  <2>2. ASSUME o < campaign.nextOrdinal
        PROVE  /\ proposal[o] # None
               /\ \/ proposal[o].epoch = campaign.nextEpoch
                  \/ proposal[o].epoch < campaign.nextEpoch
    BY <2>2 DEF PlanInv, ProposalsPlanned
  <2>3. proposal[o] # None => o < campaign.nextOrdinal
    BY <1>1 DEF PlanInv, ProposalsPlanned
  <2> QED
    BY <1>7, <2>1, <2>2, <2>3
<1>10. ClosedCommitted' /\ CommitsRecorded'
  BY <1>2, <1>4, <1>5 DEF PlanInv, ClosedCommitted, CommitsRecorded
<1>11. PendingOpen' /\ ReducedInOrder'
  BY <1>3, <1>5, <1>6 DEF PendingOpen, ReducedInOrder
<1>12. /\ ChargesListed' /\ IterationsOnce' /\ FailuresUncharged' /\ ProgressCommitted'
       /\ FoldsOfCharges'
  BY <1>4, <1>5, <1>6
     DEF PlanInv, ChargesListed, IterationsOnce, FailuresUncharged, ProgressCommitted,
         FoldsOfCharges
<1> QED
  BY <1>8, <1>9, <1>10, <1>11, <1>12 DEF PlanInv

LEMMA PublishReceiptPlan ==
  ASSUME TypeInv, PlanInv, MainInv, PublishReceipt
  PROVE  PlanInv'
<1>1. UNCHANGED <<campaign, proposal, cleaned, fold, progress>>
  BY DEF PublishReceipt, plans
<1>2. CASE receipt[cur] # None
  BY <1>1, <1>2, PlanKept DEF PublishReceipt
<1>3. CASE receipt[cur] = None
  <2>1. cur \in OpenSlots /\ cur \in Ordinal /\ cur < campaign.nextOrdinal
    BY OpenEpoch DEF PublishReceipt, TypeInv, Reducing
  <2>2. receipt' = [receipt EXCEPT ![cur] = IF cur \in Jobs THEN workerReceipt[cur]
                                            ELSE "notStarted"]
    BY <1>3 DEF PublishReceipt
  <2>3. \A o \in Ordinal : o # cur => receipt'[o] = receipt[o]
    BY <2>2 DEF TypeInv
  <2>4. cur \in Failed => receipt'[cur] = "notStarted"
    <3>1. campaign.active # None
      BY <2>1 DEF OpenSlots
    <3>2. cur \in Failed => cur \notin Jobs
      BY <3>1, OpenEpoch DEF OpenJobs
    <3> QED
      BY <2>1, <2>2, <3>2 DEF TypeInv
  <2>5. cur \notin campaign.attempts
    BY <1>3 DEF PlanInv, CommitsRecorded
  <2>6. /\ Counted' = Counted /\ Iterated' = Iterated /\ OpenSlots' = OpenSlots
        /\ Failed' = Failed /\ OpenJobs' = OpenJobs /\ OpenFailures' = OpenFailures
        /\ Pending' = Pending /\ Slots' = Slots /\ Phase' = Phase
    BY <1>1, SameViews, SameSlots DEF Pending
  <2>7. Charges' = Charges
    <3>1. \A o \in campaign.attempts : receipt'[o] = receipt[o]
      BY <2>3, <2>5, CampaignParts
    <3> QED
      BY <1>1, <3>1 DEF Charges
  <2>8. CommitsRecorded'
    BY <1>1, <2>1, <2>3, <2>5, CampaignParts DEF PlanInv, CommitsRecorded
  <2>9. FailuresUncharged'
    BY <2>3, <2>4, <2>6, CampaignParts DEF PlanInv, FailuresUncharged
  <2>10. EpochsInOrder' /\ ProposalsPlanned' /\ ClosedCommitted'
    BY <1>1, <2>6 DEF PlanInv, EpochsInOrder, ProposalsPlanned, ClosedCommitted
  <2>11. ChargesListed' /\ IterationsOnce' /\ PendingOpen'
    BY <1>1, <2>6, <2>7 DEF PlanInv, ChargesListed, IterationsOnce, PendingOpen
  <2>12. ProgressCommitted' /\ FoldsOfCharges' /\ ReducedInOrder'
    BY <1>1, <2>6, <2>7 DEF PlanInv, ProgressCommitted, FoldsOfCharges, ReducedInOrder
  <2> QED
    BY <2>8, <2>9, <2>10, <2>11, <2>12 DEF PlanInv
<1> QED
  BY <1>2, <1>3

LEMMA CleanupPlan ==
  ASSUME TypeInv, PlanInv, MainInv, Cleanup
  PROVE  PlanInv'
<1>1. UNCHANGED <<campaign, proposal, receipt, fold, progress>> /\ cleaned \subseteq cleaned'
  BY DEF Cleanup, plans
<1>2. /\ Counted' = Counted /\ Iterated' = Iterated /\ OpenSlots' = OpenSlots
      /\ Failed' = Failed /\ OpenJobs' = OpenJobs /\ OpenFailures' = OpenFailures
      /\ Charges' = Charges /\ Pending' = Pending /\ Slots' = Slots /\ Phase' = Phase
  BY <1>1, SameViews, SameCharges, SameSlots
<1>3. EpochsInOrder' /\ ProposalsPlanned' /\ ClosedCommitted' /\ CommitsRecorded'
  BY <1>1, <1>2 DEF PlanInv, EpochsInOrder, ProposalsPlanned, ClosedCommitted, CommitsRecorded
<1>4. ChargesListed' /\ IterationsOnce' /\ PendingOpen'
  BY <1>1, <1>2 DEF PlanInv, ChargesListed, IterationsOnce, PendingOpen
<1>5. FailuresUncharged' /\ ProgressCommitted' /\ FoldsOfCharges' /\ ReducedInOrder'
  BY <1>1, <1>2 DEF PlanInv, FailuresUncharged, ProgressCommitted, FoldsOfCharges, ReducedInOrder
<1> QED
  BY <1>3, <1>4, <1>5 DEF PlanInv

\* When an executed candidate is committed for the first time, no other is pending.
LEMMA NonePending ==
  ASSUME TypeInv, PlanInv, MainInv, pc \in Reducing, cur \notin campaign.attempts
  PROVE  Pending = {}
<1> SUFFICES ASSUME NEW q \in Pending PROVE FALSE
  OBVIOUS
<1>1. q \in OpenJobs /\ q \notin progress /\ q \in campaign.attempts
  BY CampaignParts DEF PlanInv, PendingOpen, ChargesListed
<1>2. /\ OpenFailures \subseteq campaign.attempts
      /\ \A p \in OpenJobs : Rank[p] < Rank[q] => p \in progress
  BY <1>1 DEF PlanInv, ReducedInOrder
<1>3. cur \in OpenSlots /\ cur \in Ordinal /\ q \in Ordinal
  BY <1>1, CampaignParts DEF TypeInv
<1>4. cur \notin Failed
  BY <1>2, <1>3 DEF OpenFailures
<1>5. cur \in OpenJobs
  BY <1>3, <1>4 DEF OpenJobs
<1>6. ~(Rank[q] < Rank[cur])
  BY <1>1, <1>4 DEF MainInv, Current
<1>7. ~(Rank[cur] < Rank[q])
  <2>1. cur \notin progress
    BY DEF PlanInv, ProgressCommitted
  <2> QED
    BY <1>2, <1>5, <2>1
<1>8. Rank[q] = Rank[cur]
  BY <1>3, <1>6, <1>7, RankAssumption
<1> QED
  BY <1>1, <1>3, <1>8, RankAssumption

LEMMA CommitPlan ==
  ASSUME TypeInv, PlanInv, MainInv, Commit
  PROVE  PlanInv'
<1>1. UNCHANGED <<proposal, receipt, cleaned, fold, progress>>
  BY CommitEffect
<1>2. CASE cur \in campaign.attempts
  BY <1>1, <1>2, CommitEffect, PlanKept
<1>3. CASE cur \notin campaign.attempts
  <2> DEFINE c == ConsumesBudget(receipt[cur])
  <2>1. /\ campaign'.attempts = campaign.attempts \cup {cur}
        /\ campaign'.iterations = campaign.iterations
        /\ campaign'.pending = IF c THEN cur ELSE campaign.pending
        /\ campaign'.active = campaign.active
        /\ campaign'.nextEpoch = campaign.nextEpoch
        /\ campaign'.nextOrdinal = campaign.nextOrdinal
    BY <1>3, CommitEffect
  <2>2. cur \in OpenSlots /\ cur \in Ordinal /\ cur < campaign.nextOrdinal
    BY OpenEpoch DEF Commit, TypeInv, Reducing
  <2>3. receipt[cur] # None /\ cur \in cleaned
    BY DEF Commit, MainInv, CurrentStage
  <2>4. /\ Counted' = Counted /\ Iterated' = Iterated /\ OpenSlots' = OpenSlots
        /\ Failed' = Failed /\ OpenJobs' = OpenJobs /\ OpenFailures' = OpenFailures
        /\ Slots' = Slots /\ Phase' = Phase
    BY <1>1, <2>1, SameViews, SameSlots
  <2>5. Pending = {}
    BY <1>3, NonePending DEF Commit, Reducing
  <2>6. Charges' = Charges \cup (IF c THEN {cur} ELSE {})
    BY <1>1, <2>1 DEF Charges
  <2>7. Pending' = (IF c THEN {cur} ELSE {})
    <3>1. cur # None
      BY <2>2, NotNone
    <3> QED
      BY <2>1, <2>5, <3>1 DEF Pending
  <2>8. c => cur \notin Failed
    <3>1. cur \in Failed => receipt[cur] = "notStarted"
      BY <2>3 DEF PlanInv, FailuresUncharged
    <3> QED
      BY <3>1 DEF ConsumesBudget
  <2>9. cur \notin Iterated /\ cur \notin progress
    BY <1>3, CampaignParts DEF PlanInv, ChargesListed, ProgressCommitted
  <2>10. cur \notin Failed =>
           /\ OpenFailures \subseteq campaign.attempts
           /\ \A p \in OpenJobs : Rank[p] < Rank[cur] => p \in progress
    BY DEF MainInv, Current, Commit, Reducing
  <2> HIDE DEF c
  <2>11. ChargesListed' /\ IterationsOnce'
    BY <2>1, <2>4, <2>5, <2>6, <2>7 DEF PlanInv, ChargesListed, IterationsOnce
  <2>12. PendingOpen'
    BY <1>1, <2>2, <2>4, <2>7, <2>8, <2>9 DEF PendingOpen, OpenJobs
  <2>13. ReducedInOrder'
    BY <1>1, <2>1, <2>4, <2>10 DEF PlanInv, ReducedInOrder, OpenJobs
  <2>14. EpochsInOrder' /\ ProposalsPlanned' /\ ClosedCommitted' /\ CommitsRecorded'
    BY <1>1, <2>1, <2>2, <2>3, <2>4
       DEF PlanInv, EpochsInOrder, ProposalsPlanned, ClosedCommitted, CommitsRecorded
  <2>15. FailuresUncharged' /\ ProgressCommitted' /\ FoldsOfCharges'
    BY <1>1, <2>1, <2>4, <2>6 DEF PlanInv, FailuresUncharged, ProgressCommitted, FoldsOfCharges
  <2> QED
    BY <2>11, <2>12, <2>13, <2>14, <2>15 DEF PlanInv
<1> QED
  BY <1>2, <1>3

LEMMA SavedPlan ==
  ASSUME TypeInv, PlanInv, SaveUncharged \/ Finish
  PROVE  PlanInv'
<1>1. /\ campaign'.attempts = campaign.attempts /\ campaign'.iterations = campaign.iterations
      /\ campaign'.pending = campaign.pending /\ campaign'.active = campaign.active
      /\ campaign'.nextEpoch = campaign.nextEpoch
      /\ campaign'.nextOrdinal = campaign.nextOrdinal
      /\ UNCHANGED <<proposal, receipt, cleaned, fold, progress>>
  BY SavedEffect
<1>2. /\ Counted' = Counted /\ Iterated' = Iterated /\ OpenSlots' = OpenSlots
      /\ Failed' = Failed /\ OpenJobs' = OpenJobs /\ OpenFailures' = OpenFailures
      /\ Charges' = Charges /\ Pending' = Pending /\ Slots' = Slots /\ Phase' = Phase
  BY <1>1, SameViews, SameCharges, SameSlots
<1>3. EpochsInOrder' /\ ProposalsPlanned' /\ ClosedCommitted' /\ CommitsRecorded'
  BY <1>1, <1>2 DEF PlanInv, EpochsInOrder, ProposalsPlanned, ClosedCommitted, CommitsRecorded
<1>4. ChargesListed' /\ IterationsOnce' /\ PendingOpen'
  BY <1>1, <1>2 DEF PlanInv, ChargesListed, IterationsOnce, PendingOpen
<1>5. FailuresUncharged' /\ ProgressCommitted' /\ FoldsOfCharges' /\ ReducedInOrder'
  BY <1>1, <1>2 DEF PlanInv, FailuresUncharged, ProgressCommitted, FoldsOfCharges, ReducedInOrder
<1> QED
  BY <1>3, <1>4, <1>5 DEF PlanInv

LEMMA PublishFoldPlan ==
  ASSUME TypeInv, PlanInv, MainInv, PublishFold
  PROVE  PlanInv'
<1>1. UNCHANGED <<campaign, proposal, receipt, cleaned, progress>>
  BY DEF PublishFold, plans
<1>2. /\ Counted' = Counted /\ Iterated' = Iterated /\ OpenSlots' = OpenSlots
      /\ Failed' = Failed /\ OpenJobs' = OpenJobs /\ OpenFailures' = OpenFailures
      /\ Charges' = Charges /\ Pending' = Pending /\ Slots' = Slots /\ Phase' = Phase
  BY <1>1, SameViews, SameCharges, SameSlots
<1>3. cur \in Ordinal /\ cur \in Charges
  <2>1. cur \in Ordinal /\ campaign.pending = cur
    BY CampaignParts DEF PublishFold, TypeInv, Reducing, MainInv, CurrentStage
  <2>2. cur \in Pending
    BY <2>1, NotNone DEF Pending
  <2> QED
    BY <2>1, <2>2 DEF PlanInv, ChargesListed
<1>4. fold'[cur] # None /\ \A o \in Ordinal : o # cur => fold'[o] = fold[o]
  <2>1. [status |-> out, gen |-> gen] \in FoldRecord
    BY DEF PublishFold, TypeInv, FoldRecord
  <2> QED
    BY <1>3, <2>1, NotNone DEF PublishFold, TypeInv
<1>5. FoldsOfCharges'
  BY <1>2, <1>3, <1>4 DEF PlanInv, FoldsOfCharges
<1>6. EpochsInOrder' /\ ProposalsPlanned' /\ ClosedCommitted' /\ CommitsRecorded'
  BY <1>1, <1>2 DEF PlanInv, EpochsInOrder, ProposalsPlanned, ClosedCommitted, CommitsRecorded
<1>7. ChargesListed' /\ IterationsOnce' /\ PendingOpen'
  BY <1>1, <1>2 DEF PlanInv, ChargesListed, IterationsOnce, PendingOpen
<1>8. FailuresUncharged' /\ ProgressCommitted' /\ ReducedInOrder'
  BY <1>1, <1>2 DEF PlanInv, FailuresUncharged, ProgressCommitted, ReducedInOrder
<1> QED
  BY <1>5, <1>6, <1>7, <1>8 DEF PlanInv

\* The iterations with one more at the end.
LEMMA IterationsGrow ==
  ASSUME TypeInv, MainInv, PlanInv, Finalize
  PROVE  /\ cur \in Pending /\ Pending = {cur} /\ fold[cur] # None
         /\ cur \in Ordinal /\ cur \in OpenJobs /\ cur \notin Iterated
         /\ Counted' = Counted + 1 /\ Counted \in Nat
         /\ \A i \in 1 .. Counted : campaign'.iterations[i] = campaign.iterations[i]
         /\ \A i \in 1 .. Counted : campaign.iterations[i] \in Iterated
         /\ campaign'.iterations[Counted + 1] = cur
         /\ Iterated' = Iterated \cup {cur} /\ Pending' = {}
<1>1. campaign.iterations \in Seq(Ordinal) /\ cur \in Ordinal
  BY CampaignParts DEF Finalize, TypeInv, Reducing
<1>2. campaign.pending = cur /\ fold[cur] # None
  BY DEF Finalize, MainInv, CurrentStage
<1>3. cur \in Pending /\ Pending = {cur}
  BY <1>1, <1>2, NotNone DEF Pending
<1>4. cur \in OpenJobs /\ cur \notin Iterated
  BY <1>3 DEF PlanInv, PendingOpen
<1>5. campaign'.iterations = Append(campaign.iterations, cur) /\ campaign'.pending = None
  BY FinalizeEffect
<1>6. /\ Counted' = Counted + 1 /\ Counted \in Nat
      /\ \A i \in 1 .. Counted : campaign'.iterations[i] = campaign.iterations[i]
      /\ campaign'.iterations[Counted + 1] = cur
  BY <1>1, <1>5 DEF Counted
<1>7. \A i \in 1 .. Counted : campaign.iterations[i] \in Iterated
  BY DEF Iterated
<1>8. Iterated' = Iterated \cup {cur}
  <2>1. Iterated' = {campaign'.iterations[i] : i \in 1 .. Counted'}
    BY DEF Iterated
  <2>2. \A i : i \in 1 .. Counted' <=> i \in 1 .. Counted \/ i = Counted + 1
    BY <1>6
  <2> QED
    BY <1>6, <2>1, <2>2 DEF Iterated
<1>9. Pending' = {}
  BY <1>5 DEF Pending
<1> QED
  BY <1>1, <1>2, <1>3, <1>4, <1>6, <1>7, <1>8, <1>9

LEMMA FinalizePlan ==
  ASSUME TypeInv, PlanInv, MainInv, Finalize
  PROVE  PlanInv'
<1>1. /\ campaign'.attempts = campaign.attempts
      /\ campaign'.active = campaign.active
      /\ campaign'.nextEpoch = campaign.nextEpoch
      /\ campaign'.nextOrdinal = campaign.nextOrdinal
      /\ UNCHANGED <<proposal, receipt, cleaned, fold, progress>>
  BY FinalizeEffect
<1>2. /\ OpenSlots' = OpenSlots /\ Failed' = Failed /\ Charges' = Charges
  BY <1>1 DEF OpenSlots, Failed, Charges
<1>3. OpenJobs' = OpenJobs /\ OpenFailures' = OpenFailures
  BY <1>2 DEF OpenJobs, OpenFailures
<1>4. ChargesListed' /\ PendingOpen'
  BY <1>2, IterationsGrow DEF PlanInv, ChargesListed, PendingOpen
<1>5. IterationsOnce'
  <2> SUFFICES ASSUME NEW i \in 1 .. Counted', NEW j \in 1 .. Counted',
                      campaign'.iterations[i] = campaign'.iterations[j]
               PROVE  i = j
    BY DEF IterationsOnce
  <2>1. (i \in 1 .. Counted \/ i = Counted + 1) /\ (j \in 1 .. Counted \/ j = Counted + 1)
    BY IterationsGrow
  <2>2. CASE i \in 1 .. Counted /\ j \in 1 .. Counted
    BY <2>2, IterationsGrow DEF PlanInv, IterationsOnce
  <2>3. CASE i = Counted + 1 /\ j \in 1 .. Counted
    BY <2>3, IterationsGrow
  <2>4. CASE i \in 1 .. Counted /\ j = Counted + 1
    BY <2>4, IterationsGrow
  <2> QED
    BY <2>1, <2>2, <2>3, <2>4
<1>6. FoldsOfCharges'
  BY <1>1, <1>2, IterationsGrow DEF PlanInv, FoldsOfCharges
<1>7. ProposalsPlanned'
  <2> SUFFICES ASSUME NEW o \in Ordinal
               PROVE  proposal[o] # None => o < campaign.nextOrdinal
    BY <1>1, <1>2 DEF PlanInv, ProposalsPlanned
  <2>1. campaign.active # None
    BY IterationsGrow DEF OpenJobs, OpenSlots
  <2> QED
    BY <2>1 DEF PlanInv, ProposalsPlanned
<1>8. EpochsInOrder' /\ ClosedCommitted' /\ CommitsRecorded'
  BY <1>1, <1>2 DEF PlanInv, EpochsInOrder, ClosedCommitted, CommitsRecorded
<1>9. FailuresUncharged' /\ ProgressCommitted' /\ ReducedInOrder'
  BY <1>1, <1>2, <1>3 DEF PlanInv, FailuresUncharged, ProgressCommitted, ReducedInOrder
<1> QED
  BY <1>4, <1>5, <1>6, <1>7, <1>8, <1>9 DEF PlanInv

LEMMA PublishProgressPlan ==
  ASSUME TypeInv, PlanInv, MainInv, PublishProgress
  PROVE  PlanInv'
<1>1. /\ UNCHANGED <<campaign, proposal, receipt, cleaned, fold>>
      /\ progress' = progress \cup {cur}
  BY DEF PublishProgress, plans
<1>2. /\ Counted' = Counted /\ Iterated' = Iterated /\ OpenSlots' = OpenSlots
      /\ Failed' = Failed /\ OpenJobs' = OpenJobs /\ OpenFailures' = OpenFailures
      /\ Charges' = Charges /\ Pending' = Pending /\ Slots' = Slots /\ Phase' = Phase
  BY <1>1, SameViews, SameCharges, SameSlots
<1>3. cur \in campaign.attempts /\ cur \notin Pending
  BY DEF PublishProgress, MainInv, CurrentStage, Settling, Pending
<1>4. PendingOpen' /\ ProgressCommitted' /\ ReducedInOrder'
  BY <1>1, <1>2, <1>3 DEF PlanInv, PendingOpen, ProgressCommitted, ReducedInOrder
<1>5. EpochsInOrder' /\ ProposalsPlanned' /\ ClosedCommitted' /\ CommitsRecorded'
  BY <1>1, <1>2 DEF PlanInv, EpochsInOrder, ProposalsPlanned, ClosedCommitted, CommitsRecorded
<1>6. ChargesListed' /\ IterationsOnce' /\ FailuresUncharged' /\ FoldsOfCharges'
  BY <1>1, <1>2 DEF PlanInv, ChargesListed, IterationsOnce, FailuresUncharged, FoldsOfCharges
<1> QED
  BY <1>4, <1>5, <1>6 DEF PlanInv

LEMMA PlanStep ==
  ASSUME TypeInv, PlanInv, MainInv, [Next]_vars
  PROVE  PlanInv'
<1> USE DEF plans, reduceFiles
<1>1. CASE \E o \in Ordinal : WorkerStep(o)
  BY <1>1, WorkerFrame, PlanKept
<1>2. CASE Load \/ ResumeEpoch \/ ProposeFails \/ TakeFailure \/ StartWorkers \/ TakeResult
  BY <1>2, PlanKept DEF Load, ResumeEpoch, ProposeFails, TakeFailure, StartWorkers, TakeResult
<1>3. CASE \E results \in [Slots -> Candidates] : ProposeEpoch(results)
  BY <1>3, PlanKept DEF ProposeEpoch
<1>4. CASE \E status \in {"folded", "error"}, absorbed \in BOOLEAN : CallFold(status, absorbed)
  BY <1>4, PlanKept DEF CallFold
<1>5. CASE PublishProposal \/ SaveEpoch \/ PublishReceipt \/ Cleanup \/ Commit \/ SaveUncharged
  BY <1>5, PublishProposalPlan, SaveEpochPlan, PublishReceiptPlan, CleanupPlan, CommitPlan,
     SavedPlan
<1>6. CASE PublishFold \/ Finalize \/ PublishProgress \/ EndEpoch \/ Finish
  BY <1>6, PublishFoldPlan, FinalizePlan, PublishProgressPlan, EndEpochPlan, SavedPlan
<1>7. CASE Crash \/ CleanupError \/ Restart
  BY <1>7, PlanKept DEF Crash, CleanupError, Forget, Restart
<1>8. CASE Terminated \/ UNCHANGED vars
  BY <1>8, PlanKept DEF Terminated, vars
<1> QED
  BY <1>1, <1>2, <1>3, <1>4, <1>5, <1>6, <1>7, <1>8 DEF Next, MainStep

-----------------------------------------------------------------------------
(* The workers *)

LEMMA WorkersInit == Init => WorkersInv
  BY DEF Init, WorkersInv, WorkersInEpoch, WorkersDeliver, RefusedByLitter

\* What a step of a worker does to that worker.
LEMMA WorkerEffect ==
  ASSUME TypeInv, WorkersInv, NEW o \in Ordinal, WorkerStep(o)
  PROVE  /\ wpc[o] \notin {"idle", "done"} /\ wpc'[o] \notin {"idle", "ready"}
         /\ \A p \in Ordinal : p # o =>
              wpc'[p] = wpc[p] /\ wout'[p] = wout[p] /\ workerReceipt'[p] = workerReceipt[p]
         /\ started \subseteq started'
         /\ wpc'[o] = "done" /\ pc' # "refused" => workerReceipt'[o] # None
         /\ wpc'[o] \in {"external", "terminal", "receipt"} => wout'[o] # None
         /\ wpc'[o] \in {"launch", "external"} => o \in started'
         /\ pc' = "refused" => pc = "refused" \/ litter # {}
<1> USE DEF journal, workerFiles, main, workers
<1>0. /\ workerReceipt \in [Ordinal -> Result \cup {None}]
      /\ wout \in [Ordinal -> Result \cup {None}] /\ wpc \in [Ordinal -> WorkerControl]
      /\ "notStarted" # None /\ "started" # None
  BY NoneAssumption DEF TypeInv, Result
<1>1. CASE WorkerBegin(o)
  BY <1>0, <1>1 DEF WorkerBegin, MayExecute
<1>2. CASE WorkerRefuse(o)
  BY <1>0, <1>2 DEF WorkerRefuse
<1>3. CASE PublishStarted(o)
  BY <1>0, <1>3 DEF PublishStarted, MayExecute
<1>4. ASSUME NEW began \in BOOLEAN, RunAgent(o, began)
      PROVE  /\ wpc[o] = "launch" /\ wpc' = [wpc EXCEPT ![o] = "external"]
             /\ wout' = [wout EXCEPT ![o] = IF began THEN "started" ELSE "notStarted"]
             /\ pc' = pc /\ workerReceipt' = workerReceipt /\ started' = started
             /\ o \in started
  BY <1>4 DEF RunAgent, WorkersInv, WorkersDeliver
<1>5. CASE \E began \in BOOLEAN : RunAgent(o, began)
  BY <1>0, <1>4, <1>5
<1>6. CASE RaiseAfterAgent(o)
  <2>1. o \in started /\ RecoveredOutcome(o) # None
    BY <1>6, RecoveredType DEF RaiseAfterAgent, WorkersInv, WorkersDeliver
  <2> QED
    BY <1>0, <1>6, <2>1 DEF RaiseAfterAgent
<1>7. CASE PublishExternal(o)
  BY <1>0, <1>7 DEF PublishExternal, WorkersInv, WorkersDeliver
<1>8. CASE PublishTerminal(o)
  BY <1>0, <1>8 DEF PublishTerminal, WorkersInv, WorkersDeliver
<1>9. CASE PublishWorkerReceipt(o)
  BY <1>0, <1>9 DEF PublishWorkerReceipt, WorkersInv, WorkersDeliver
<1> QED
  BY <1>1, <1>2, <1>3, <1>5, <1>6, <1>7, <1>8, <1>9 DEF WorkerStep

LEMMA WorkerKeepsWorkers ==
  ASSUME TypeInv, WorkersInv, NEW o \in Ordinal, WorkerStep(o)
  PROVE  WorkersInv'
<1>1. /\ UNCHANGED <<campaign, proposal, litter>> /\ (pc' = pc \/ pc' = "refused")
  BY WorkerFrame
<1>2. OpenJobs' = OpenJobs /\ OpenFailures' = OpenFailures
  BY <1>1, SameViews
<1>3. /\ wpc[o] \notin {"idle", "done"} /\ wpc'[o] \notin {"idle", "ready"}
      /\ \A p \in Ordinal : p # o =>
           wpc'[p] = wpc[p] /\ wout'[p] = wout[p] /\ workerReceipt'[p] = workerReceipt[p]
      /\ started \subseteq started'
      /\ wpc'[o] = "done" /\ pc' # "refused" => workerReceipt'[o] # None
      /\ wpc'[o] \in {"external", "terminal", "receipt"} => wout'[o] # None
      /\ wpc'[o] \in {"launch", "external"} => o \in started'
      /\ pc' = "refused" => pc = "refused" \/ litter # {}
  BY WorkerEffect
<1>4. WorkersInEpoch'
  BY <1>1, <1>2, <1>3 DEF WorkersInv, WorkersInEpoch
<1>5. WorkersDeliver'
  BY <1>1, <1>3 DEF WorkersInv, WorkersDeliver
<1>6. RefusedByLitter'
  BY <1>1, <1>3 DEF WorkersInv, RefusedByLitter
<1> QED
  BY <1>4, <1>5, <1>6 DEF WorkersInv

\* A step that leaves the workers alone, and the slots of the epoch.
LEMMA WorkersKept ==
  ASSUME WorkersInv, UNCHANGED <<workers, journal>>, litter \subseteq litter',
         OpenJobs' = OpenJobs, OpenFailures' = OpenFailures,
         campaign.attempts \subseteq campaign'.attempts,
         pc \in {"workers", "refused"} \cup Reducing =>
           pc' \in {"workers", "refused"} \cup Reducing \/ \A o \in Ordinal : wpc[o] = "idle",
         pc \in {"workers", "refused"} =>
           pc' \in {"workers", "refused"} \/ \A o \in Ordinal : wpc[o] \in {"idle", "done"},
         pc' = "refused" <=> pc = "refused"
  PROVE  WorkersInv'
<1> USE DEF workers, journal
<1>1. WorkersInEpoch'
  BY DEF WorkersInv, WorkersInEpoch
<1>2. WorkersDeliver'
  BY DEF WorkersInv, WorkersDeliver, WorkersInEpoch
<1>3. RefusedByLitter'
  BY DEF WorkersInv, RefusedByLitter
<1> QED
  BY <1>1, <1>2, <1>3 DEF WorkersInv

\* A step after which no worker runs.
LEMMA WorkersIdle ==
  ASSUME \A o \in Ordinal : wpc'[o] = "idle", pc' = "refused" => litter' # {}
  PROVE  WorkersInv'
BY DEF WorkersInv, WorkersInEpoch, WorkersDeliver, RefusedByLitter

\* The records a process finds pass its checks, and so do the proposals of the epoch it
\* is about to plan.
LEMMA ChecksPass ==
  ASSUME TypeInv, PlanInv
  PROVE  /\ AuditPasses
         /\ campaign.active = None /\ campaign.nextOrdinal + Capacity <= MaxAttempts
              => PlanMatches
<1>1. AuditPasses
  <2>1. ASSUME NEW o \in campaign.attempts
        PROVE  proposal[o] # None /\ receipt[o] # None /\ o \in cleaned
    BY CampaignParts DEF PlanInv, CommitsRecorded, ProposalsPlanned
  <2>2. ASSUME NEW i \in 1 .. Counted PROVE fold[campaign.iterations[i]] # None
    <3>1. campaign.iterations[i] \in Iterated
      BY DEF Iterated
    <3> QED
      BY <3>1, CampaignParts DEF PlanInv, FoldsOfCharges
  <2> QED
    BY <2>1, <2>2 DEF AuditPasses
<1>2. ASSUME campaign.active = None, campaign.nextOrdinal + Capacity <= MaxAttempts,
             NEW o \in Slots, proposal[o] # None
      PROVE  proposal[o].epoch = campaign.nextEpoch /\ proposal[o].phase = Phase
  <2>1. o \in Ordinal /\ o \in Nat /\ campaign.nextOrdinal <= o
    BY <1>2, SlotFacts
  <2>2. ~(o < campaign.nextOrdinal)
    BY <2>1, CampaignParts
  <2> QED
    BY <1>2, <2>1, <2>2 DEF PlanInv, ProposalsPlanned
<1> QED
  BY <1>1, <1>2 DEF PlanMatches

LEMMA MainKeepsWorkers ==
  ASSUME TypeInv, PlanInv, MainInv, WorkersInv, MainStep
  PROVE  WorkersInv'
<1> USE DEF plans, workerFiles, reduceFiles, workers
<1>0. pc \in {"load", "loop", "slots", "failures", "abort"} => \A o \in Ordinal : wpc[o] = "idle"
  BY DEF WorkersInv, WorkersInEpoch, Reducing
<1>1. CASE Load
  BY <1>0, <1>1, ChecksPass, WorkersIdle DEF Load
<1>2. CASE ResumeEpoch \/ ProposeFails \/ PublishProposal \/ SaveEpoch \/ TakeFailure \/ Finish
  BY <1>0, <1>2, WorkersIdle
     DEF ResumeEpoch, ProposeFails, PublishProposal, SaveEpoch, TakeFailure, Finish
<1>3. ASSUME NEW results \in [Slots -> Candidates], ProposeEpoch(results) PROVE WorkersInv'
  <2>1. PlanMatches
    BY <1>3, ChecksPass DEF ProposeEpoch
  <2> QED
    BY <1>0, <1>3, <2>1, WorkersIdle DEF ProposeEpoch
<1>4. CASE StartWorkers
  <2>1. campaign.active # None /\ Jobs = OpenJobs /\ Failures = OpenFailures
    BY <1>4, OpenEpoch DEF StartWorkers, MainInv, EpochOpen
  <2>2. /\ \A o \in Ordinal : wpc'[o] = IF o \in OpenJobs THEN "ready" ELSE "idle"
        /\ pc' = "workers" /\ UNCHANGED <<campaign, proposal>>
        /\ OpenFailures \subseteq campaign.attempts
    BY <1>4, <2>1 DEF StartWorkers, Committed
  <2>3. OpenJobs' = OpenJobs /\ OpenFailures' = OpenFailures
    BY <2>2, SameViews
  <2> QED
    BY <2>2, <2>3 DEF WorkersInv, WorkersInEpoch, WorkersDeliver, RefusedByLitter
<1>5. CASE EndEpoch
  BY <1>5, WorkersIdle DEF EndEpoch
<1>6. CASE TakeResult \/ PublishReceipt \/ Cleanup \/ Commit \/ SaveUncharged
  <2>1. /\ UNCHANGED <<workers, journal, litter>>
        /\ pc \in Reducing \/ pc = "workers"
        /\ UNCHANGED <<proposal, campaign>> \/ Commit \/ SaveUncharged
    BY <1>6 DEF TakeResult, PublishReceipt, Cleanup, Commit, SaveUncharged, Reducing
  <2>2. OpenJobs' = OpenJobs /\ OpenFailures' = OpenFailures
    BY <2>1, SameViews, CommitEffect, SavedEffect
  <2>3. campaign.attempts \subseteq campaign'.attempts
    BY <2>1, CommitEffect, SavedEffect
  <2>4. pc' \in Reducing \/ (pc' = "failures" /\ Commit /\ proposal[cur].candidate = "failure")
    BY <1>6 DEF TakeResult, PublishReceipt, Cleanup, Commit, AfterCommit, SaveUncharged, Reducing
  <2>5. pc' = "failures" => \A o \in Ordinal : wpc[o] = "idle"
    <3> SUFFICES ASSUME Commit, proposal[cur].candidate = "failure",
                        NEW o \in Ordinal, wpc[o] # "idle"
                 PROVE  FALSE
      BY <2>4 DEF Reducing
    <3>1. cur \in OpenSlots /\ pc \in Reducing
      BY DEF Commit, TypeInv, Reducing
    <3>2. cur \in Failed /\ cur \in OpenFailures
      BY <3>1, OpenEpoch DEF Failed, OpenFailures
    <3>3. cur \notin campaign.attempts
      BY <3>1, <3>2 DEF MainInv, Current
    <3> QED
      BY <3>2, <3>3 DEF WorkersInv, WorkersInEpoch
  <2>6. pc = "workers" => \A o \in Ordinal : wpc[o] \in {"idle", "done"}
    <3> SUFFICES ASSUME TakeResult, NEW o \in Ordinal, wpc[o] # "idle" PROVE wpc[o] = "done"
      BY <1>6 DEF PublishReceipt, Cleanup, Commit, SaveUncharged
    <3>1. o \in OpenJobs
      BY DEF WorkersInv, WorkersInEpoch
    <3> QED
      BY <3>1, OpenEpoch DEF TakeResult, MainInv, EpochOpen
  <2>7. pc # "refused" /\ pc' # "refused"
    BY <2>1, <2>4 DEF Reducing
  <2> QED
    BY <2>1, <2>2, <2>3, <2>4, <2>5, <2>6, <2>7, WorkersKept DEF Reducing
<1>7. CASE (\E status \in {"folded", "error"}, absorbed \in BOOLEAN : CallFold(status, absorbed))
           \/ PublishFold \/ Finalize \/ PublishProgress
  <2>1. /\ UNCHANGED <<workers, journal, litter>> /\ pc \in Reducing
        /\ UNCHANGED <<proposal, campaign>> \/ Finalize
        /\ pc' \in Reducing \/ pc' = "workers"
        /\ pc' # "refused"
    BY <1>7 DEF CallFold, PublishFold, Finalize, PublishProgress, Reducing
  <2>2. campaign.attempts \subseteq campaign'.attempts
    BY <2>1, FinalizeEffect
  <2>3. OpenJobs' = OpenJobs /\ OpenFailures' = OpenFailures
    <3>1. OpenSlots' = OpenSlots /\ Failed' = Failed
      BY <2>1, FinalizeEffect DEF OpenSlots, Failed
    <3> QED
      BY <3>1 DEF OpenJobs, OpenFailures
  <2>4. pc # "refused" /\ pc # "workers"
    BY <2>1 DEF Reducing
  <2> QED
    BY <2>1, <2>2, <2>3, <2>4, WorkersKept
<1> QED
  BY <1>1, <1>2, <1>3, <1>4, <1>5, <1>6, <1>7 DEF MainStep

LEMMA WorkersStep ==
  ASSUME TypeInv, PlanInv, MainInv, WorkersInv, [Next]_vars
  PROVE  WorkersInv'
<1> USE DEF plans, workerFiles, reduceFiles, workers, main
<1>1. CASE \E o \in Ordinal : WorkerStep(o)
  BY <1>1, WorkerKeepsWorkers
<1>2. CASE MainStep
  BY <1>2, MainKeepsWorkers
<1>3. CASE Crash \/ CleanupError
  BY <1>3, WorkersIdle DEF Crash, CleanupError, Forget
<1>4. CASE Restart
  BY <1>4, WorkersIdle DEF Restart, WorkersInv, WorkersInEpoch, Reducing
<1>5. CASE Terminated \/ UNCHANGED vars
  <2>1. UNCHANGED vars
    BY <1>5 DEF Terminated
  <2>2. OpenJobs' = OpenJobs /\ OpenFailures' = OpenFailures
    BY <2>1, SameViews DEF vars
  <2> QED
    BY <2>1, <2>2, WorkersKept DEF vars
<1> QED
  BY <1>1, <1>2, <1>3, <1>4, <1>5 DEF Next

-----------------------------------------------------------------------------
(* The main thread *)

LEMMA MainInit == Init => MainInv
  BY DEF Init, MainInv, Planning, EpochOpen, Current, CurrentStage, Reducing, Settling

\* A step to where the process neither plans nor works on an epoch.
LEMMA MainElsewhere ==
  ASSUME pc' \notin Reducing, pc' \notin {"slots", "failures", "workers", "abort"}
  PROVE  MainInv'
BY DEF MainInv, Planning, EpochOpen, Current, CurrentStage, Reducing, Settling

\* A step to where it works on an epoch, and reduces nothing.
LEMMA MainInEpoch ==
  ASSUME pc' \in {"failures", "workers"}, campaign'.active # None,
         pc' = "workers" => OpenFailures' \subseteq campaign'.attempts
  PROVE  MainInv'
BY DEF MainInv, Planning, EpochOpen, Current, CurrentStage, Reducing, Settling

\* A step in the reduction of a candidate.
LEMMA MainReduces ==
  ASSUME MainInv, pc \in Reducing, pc' \in Reducing, cur' = cur, wpc' = wpc, progress' = progress,
         campaign.attempts \subseteq campaign'.attempts,
         OpenJobs' = OpenJobs, OpenFailures' = OpenFailures, Failed' = Failed,
         cur \in Failed => pc' \notin Settling /\ cur \notin campaign'.attempts,
         CurrentStage'
  PROVE  MainInv'
<1>1. Current'
  BY DEF MainInv, Current
<1> QED
  BY <1>1 DEF MainInv, Planning, EpochOpen, Reducing

LEMMA WorkerKeepsMain ==
  ASSUME TypeInv, PlanInv, MainInv, WorkersInv, NEW o \in Ordinal, WorkerStep(o)
  PROVE  MainInv'
<1>1. /\ UNCHANGED <<campaign, proposal, cur, out>> /\ (pc' = pc \/ pc' = "refused")
  BY WorkerFrame
<1>2. pc \in {"workers", "refused"}
  BY WorkerEffect DEF WorkersInv, WorkersInEpoch
<1>3. CASE pc' = "refused"
  BY <1>3, MainElsewhere DEF Reducing
<1>4. CASE pc' = "workers"
  <2>1. campaign'.active # None /\ OpenFailures' \subseteq campaign'.attempts
    <3>1. pc = "workers" /\ OpenFailures' = OpenFailures
      BY <1>1, <1>4, SameViews
    <3> QED
      BY <1>1, <3>1 DEF MainInv, EpochOpen
  <2> QED
    BY <1>4, <2>1, MainInEpoch
<1> QED
  BY <1>1, <1>2, <1>3, <1>4

LEMMA ProposeEpochMain ==
  ASSUME TypeInv, PlanInv, MainInv, GeneratorInv,
         NEW results \in [Slots -> Candidates], ProposeEpoch(results)
  PROVE  MainInv'
<1>1. /\ pc = "loop" /\ Counted < Budget /\ campaign.active = None
      /\ campaign.nextOrdinal + Capacity <= MaxAttempts
      /\ UNCHANGED <<campaign, proposal>>
  BY DEF ProposeEpoch
<1>2. pc' = "slots" /\ cur' = campaign.nextOrdinal
  BY <1>1, ChecksPass DEF ProposeEpoch
<1>3. Slots' = Slots /\ Capacity' = Capacity /\ Counted' = Counted
  BY <1>1, SameSlots, SameViews
<1>4. \A o \in Slots : out'[o] \in Candidate
  <2>1. CASE ThisBatch = None
    <3>1. out' = results
      BY <1>1, <2>1, ChecksPass DEF ProposeEpoch, ThisBatch
    <3> QED
      BY <3>1, CandidatesAssumption
  <2>2. CASE ThisBatch # None
    <3>1. gen \in {ThisBatch.pre, ThisBatch.post} /\ ThisBatch.results \in [Slots -> Candidates]
      BY <1>1, <2>2
         DEF GeneratorInv, MemoryBetweenEpochs, SavedBetweenEpochs, OnOneSide, Running, MainControl
    <3>2. out' = ThisBatch.results
      BY <1>1, <2>2, <3>1, ChecksPass DEF ProposeEpoch, ThisBatch
    <3> QED
      BY <3>1, <3>2, CandidatesAssumption
  <2> QED
    BY <2>1, <2>2
<1>5. Planning'
  <2>1. campaign.nextOrdinal \in Nat /\ \A o \in Slots : ~(o < campaign.nextOrdinal)
    BY SlotFacts, CampaignParts
  <2> QED
    BY <1>1, <1>2, <1>3, <1>4, <2>1 DEF Planning
<1> QED
  BY <1>2, <1>5 DEF MainInv, EpochOpen, Current, CurrentStage, Reducing, Settling

LEMMA ProposeFailsMain ==
  ASSUME TypeInv, PlanInv, MainInv, ProposeFails
  PROVE  MainInv'
<1>1. /\ Counted < Budget /\ campaign.active = None
      /\ campaign.nextOrdinal + Capacity <= MaxAttempts
      /\ pc' = "slots" /\ cur' = campaign.nextOrdinal
      /\ out' = [o \in Slots |-> "failure"]
      /\ UNCHANGED <<campaign, proposal>>
  BY DEF ProposeFails, plans
<1>2. Slots' = Slots /\ Capacity' = Capacity /\ Counted' = Counted
  BY <1>1, SameSlots, SameViews
<1>3. \A o \in Slots : out'[o] \in Candidate
  BY <1>1 DEF Candidate
<1>4. Planning'
  <2>1. campaign.nextOrdinal \in Nat /\ \A o \in Slots : ~(o < campaign.nextOrdinal)
    BY SlotFacts, CampaignParts
  <2> QED
    BY <1>1, <1>2, <1>3, <2>1 DEF Planning
<1> QED
  BY <1>1, <1>4 DEF MainInv, EpochOpen, Current, CurrentStage, Reducing, Settling

LEMMA PublishProposalMain ==
  ASSUME TypeInv, PlanInv, MainInv, PublishProposal
  PROVE  MainInv'
<1>1. /\ campaign.active = None /\ Counted < Budget
      /\ campaign.nextOrdinal + Capacity <= MaxAttempts
      /\ cur \in Nat /\ campaign.nextOrdinal <= cur
      /\ \A o \in Slots : (o < cur => proposal[o] # None) /\ out[o] \in Candidate
      /\ cur \in Slots /\ cur \in Ordinal /\ Slots \subseteq Ordinal
  BY SlotFacts DEF PublishProposal, MainInv, Planning
<1>2. pc' = "slots" /\ cur' = cur + 1 /\ UNCHANGED <<campaign, out>>
  BY DEF PublishProposal
<1>3. Slots' = Slots /\ Capacity' = Capacity /\ Counted' = Counted
  BY <1>2, SameSlots DEF Counted
<1>4. proposal'[cur] # None /\ \A o \in Ordinal : o # cur => proposal'[o] = proposal[o]
  <2>1. [candidate |-> out[cur], phase |-> Phase, epoch |-> campaign.nextEpoch, gen |-> gen]
          \in ProposalRecord
    BY <1>1, SlotFacts, CampaignParts, CandidatesAssumption DEF ProposalRecord, TypeInv
  <2> QED
    BY <1>1, <2>1, NotNone DEF PublishProposal, TypeInv
<1>5. \A o \in Slots : o < cur + 1 => proposal'[o] # None
  <2>1. \A o \in Slots : o \in Nat /\ (o < cur + 1 => o < cur \/ o = cur)
    BY <1>1, SlotFacts
  <2> QED
    BY <1>1, <1>4, <2>1
<1>6. Planning'
  <2>1. cur + 1 \in Nat /\ campaign.nextOrdinal <= cur + 1
    BY <1>1, CampaignParts
  <2> QED
    BY <1>1, <1>2, <1>3, <1>5, <2>1 DEF Planning
<1> QED
  BY <1>2, <1>6 DEF MainInv, EpochOpen, Current, CurrentStage, Reducing, Settling

LEMMA TakeFailureMain ==
  ASSUME TypeInv, PlanInv, MainInv, TakeFailure
  PROVE  MainInv'
<1> DEFINE left == {o \in Failures : ~Committed(o)}
<1>1. left \in SUBSET Ordinal /\ left # {} /\ left = OpenFailures \ campaign.attempts
  BY OpenEpoch, CampaignParts
     DEF TakeFailure, MainInv, EpochOpen, OpenFailures, Committed
<1>2. cur' = FirstSlot(left) /\ pc' = "receipt" /\ UNCHANGED <<campaign, proposal>>
  BY DEF TakeFailure, plans
<1> HIDE DEF left
<1>3. cur' \in left
  BY <1>1, <1>2, FirstSlotIsMember
<1>4. cur' \in Failed /\ cur' \notin campaign.attempts
  BY <1>1, <1>3 DEF OpenFailures
<1>5. Failed' = Failed
  BY <1>2, SameViews
<1> QED
  BY <1>2, <1>4, <1>5 DEF MainInv, Planning, EpochOpen, Current, CurrentStage, Settling

LEMMA TakeResultMain ==
  ASSUME TypeInv, PlanInv, MainInv, TakeResult
  PROVE  MainInv'
<1>1. /\ campaign.active # None /\ Jobs = OpenJobs /\ OpenFailures \subseteq campaign.attempts
  BY OpenEpoch DEF TakeResult, MainInv, EpochOpen
<1> DEFINE left == OpenJobs \ progress
<1>2. /\ cur' = NextResult(left) /\ left # {} /\ \A o \in OpenJobs : wpc[o] = "done"
      /\ pc' = "receipt" /\ UNCHANGED <<campaign, proposal, progress, wpc>>
  BY <1>1 DEF TakeResult, plans, reduceFiles, workers
<1>3. left \in SUBSET Ordinal
  BY CampaignParts
<1>4. /\ cur' \in OpenJobs /\ cur' \notin progress
      /\ \A p \in OpenJobs : p \notin progress => Rank[cur'] <= Rank[p]
  <2>1. \A p \in OpenJobs : p \notin progress => p \in left
    OBVIOUS
  <2>2. cur' \in left => cur' \in OpenJobs /\ cur' \notin progress
    OBVIOUS
  <2> HIDE DEF left
  <2> QED
    BY <1>2, <1>3, <2>1, <2>2, NextResultIsFirst
<1>5. \A p \in OpenJobs : Rank[p] < Rank[cur'] => p \in progress
  <2>1. \A p \in OpenJobs : Rank[p] \in Nat /\ Rank[cur'] \in Nat
    BY <1>4, CampaignParts, RankAssumption
  <2> QED
    BY <1>4, <2>1
<1>6. cur' \notin Failed
  BY <1>4 DEF OpenJobs
<1>7. /\ Failed' = Failed /\ OpenJobs' = OpenJobs /\ OpenFailures' = OpenFailures
  BY <1>2, SameViews
<1>8. Current'
  BY <1>1, <1>2, <1>4, <1>5, <1>6, <1>7 DEF Current
<1> QED
  BY <1>2, <1>8 DEF MainInv, Planning, EpochOpen, CurrentStage, Settling

LEMMA PublishReceiptMain ==
  ASSUME TypeInv, PlanInv, MainInv, WorkersInv, PublishReceipt
  PROVE  MainInv'
<1>1. /\ pc = "receipt" /\ pc' = "cleanup" /\ cur' = cur /\ wpc' = wpc /\ progress' = progress
      /\ UNCHANGED <<campaign, proposal>>
      /\ receipt' = IF receipt[cur] # None THEN receipt
                    ELSE [receipt EXCEPT ![cur] = IF cur \in Jobs THEN workerReceipt[cur]
                                                  ELSE "notStarted"]
  BY DEF PublishReceipt, plans, workers
<1>2. cur \in OpenSlots /\ cur \in Ordinal /\ campaign.active # None
  BY <1>1, OpenEpoch DEF TypeInv, Reducing, OpenSlots
<1>3. cur \in Jobs => workerReceipt[cur] # None
  <2>1. cur \in Jobs => cur \in OpenJobs /\ cur \notin Failed
    BY <1>2, OpenEpoch DEF OpenJobs
  <2> QED
    BY <1>1, <1>2, <2>1 DEF MainInv, Current, Reducing, WorkersInv, WorkersDeliver
<1>4. receipt'[cur] # None
  BY <1>1, <1>2, <1>3, NoneAssumption DEF TypeInv, Result
<1>5. CurrentStage'
  BY <1>1, <1>4 DEF CurrentStage, Settling
<1>6. /\ OpenJobs' = OpenJobs /\ OpenFailures' = OpenFailures /\ Failed' = Failed
  BY <1>1, SameViews
<1>7. cur \in Failed => cur \notin campaign'.attempts
  BY <1>1 DEF MainInv, Current, Reducing
<1> QED
  BY <1>1, <1>5, <1>6, <1>7, MainReduces DEF Reducing, Settling

LEMMA CleanupMain ==
  ASSUME TypeInv, PlanInv, MainInv, Cleanup
  PROVE  MainInv'
<1>1. /\ pc = "cleanup" /\ pc' = "commit" /\ cur' = cur /\ wpc' = wpc /\ progress' = progress
      /\ UNCHANGED <<campaign, proposal, receipt>> /\ cur \in cleaned'
  BY DEF Cleanup, plans, workers
<1>2. CurrentStage'
  BY <1>1 DEF MainInv, CurrentStage, Settling
<1>3. /\ OpenJobs' = OpenJobs /\ OpenFailures' = OpenFailures /\ Failed' = Failed
  BY <1>1, SameViews
<1>4. cur \in Failed => cur \notin campaign'.attempts
  BY <1>1 DEF MainInv, Current, Reducing
<1> QED
  BY <1>1, <1>2, <1>3, <1>4, MainReduces DEF Reducing, Settling

\* What a candidate just committed is, by what follows.
LEMMA CommitStage ==
  ASSUME TypeInv, PlanInv, MainInv, Commit
  PROVE  /\ cur \in Failed => pc' = "failures"
         /\ cur \notin Failed =>
              \/ pc' = "save" /\ cur \notin Charges'
              \/ pc' = "progress" /\ campaign'.pending # cur
              \/ pc' = "finalize" /\ campaign'.pending = cur /\ fold'[cur] # None
              \/ pc' = "fold" /\ campaign'.pending = cur
<1>1. cur \in OpenSlots /\ cur \in Ordinal /\ proposal[cur] # None
  BY OpenEpoch DEF Commit, TypeInv, Reducing
<1>2. cur \in Failed <=> proposal[cur].candidate = "failure"
  BY <1>1 DEF Failed
<1>3. pc' = AfterCommit(cur) /\ receipt' = receipt /\ fold' = fold
  BY CommitEffect
<1>4. Folded(cur) <=> cur \in Iterated
  BY DEF Folded, Iterated
<1>5. ASSUME cur \notin Failed, ~ConsumesBudget(receipt[cur])
      PROVE  pc' = "save" /\ cur \notin Charges'
  BY <1>2, <1>3, <1>5 DEF AfterCommit, Charges
<1>6. ASSUME cur \notin Failed, ConsumesBudget(receipt[cur]), cur \in Iterated
      PROVE  pc' = "progress" /\ campaign'.pending # cur
  <2>1. pc' = "progress"
    BY <1>2, <1>3, <1>4, <1>6 DEF AfterCommit
  <2>2. cur \in campaign.attempts
    BY <1>6, CampaignParts DEF PlanInv, ChargesListed
  <2>3. campaign.pending # cur
    <3>1. cur \notin Pending
      BY <1>6 DEF PlanInv, PendingOpen
    <3> QED
      BY <1>1, <3>1, NotNone DEF Pending
  <2> QED
    BY <2>1, <2>2, <2>3, CommitEffect
<1>7. ASSUME cur \notin Failed, ConsumesBudget(receipt[cur]), cur \notin Iterated
      PROVE  /\ campaign'.pending = cur
             /\ (pc' = "finalize" /\ fold'[cur] # None) \/ pc' = "fold"
  <2>1. pc' = IF fold[cur] # None THEN "finalize" ELSE "fold"
    BY <1>2, <1>3, <1>4, <1>7 DEF AfterCommit
  <2>2. campaign'.pending = cur
    <3>1. CASE cur \notin campaign.attempts
      BY <1>7, <3>1, CommitEffect
    <3>2. CASE cur \in campaign.attempts
      <4>1. cur \in Charges
        BY <1>7, <3>2 DEF Charges
      <4>2. cur \in Pending
        BY <1>7, <4>1 DEF PlanInv, ChargesListed
      <4> QED
        BY <3>2, <4>2, CommitEffect DEF Pending
    <3> QED BY <3>1, <3>2
  <2> QED
    BY <1>3, <2>1, <2>2
<1>8. cur \in Failed => pc' = "failures"
  BY <1>2, <1>3 DEF AfterCommit
<1> QED
  BY <1>5, <1>6, <1>7, <1>8

LEMMA CommitMain ==
  ASSUME TypeInv, PlanInv, MainInv, Commit
  PROVE  MainInv'
<1>1. cur \in OpenSlots /\ cur \in Ordinal /\ campaign.active # None /\ pc \in Reducing
  BY OpenEpoch DEF Commit, TypeInv, Reducing, OpenSlots
<1>2. /\ cur' = cur /\ wpc' = wpc /\ progress' = progress /\ proposal' = proposal
      /\ campaign'.attempts = campaign.attempts \cup {cur}
      /\ campaign'.iterations = campaign.iterations /\ campaign'.active = campaign.active
  BY CommitEffect
<1>3. /\ OpenJobs' = OpenJobs /\ OpenFailures' = OpenFailures /\ Failed' = Failed
  BY <1>2, SameViews
<1>4. CASE cur \in Failed
  <2>1. pc' = "failures"
    BY <1>4, CommitStage
  <2> QED
    BY <1>1, <1>2, <2>1, MainInEpoch
<1>5. CASE cur \notin Failed
  <2>1. \/ pc' = "save" /\ cur \notin Charges'
        \/ pc' = "progress" /\ campaign'.pending # cur
        \/ pc' = "finalize" /\ campaign'.pending = cur /\ fold'[cur] # None
        \/ pc' = "fold" /\ campaign'.pending = cur
    BY <1>5, CommitStage
  <2>2. CurrentStage'
    BY <1>2, <2>1 DEF CurrentStage, Settling
  <2>3. pc' \in Reducing
    BY <2>1 DEF Reducing
  <2> QED
    BY <1>1, <1>2, <1>3, <1>5, <2>2, <2>3, MainReduces
<1> QED
  BY <1>4, <1>5

\* The rest of the reduction of a charged or uncharged candidate.
LEMMA SettlingMain ==
  ASSUME TypeInv, PlanInv, MainInv,
         SaveUncharged \/ PublishFold \/ Finalize
           \/ \E status \in {"folded", "error"}, absorbed \in BOOLEAN : CallFold(status, absorbed)
  PROVE  MainInv'
<1>1. /\ pc \in Settling /\ pc' \in Settling /\ cur' = cur /\ wpc' = wpc
      /\ progress' = progress
  BY DEF SaveUncharged, PublishFold, Finalize, CallFold, Settling, reduceFiles, workers
<1>2. cur \in campaign.attempts /\ cur \notin Failed /\ cur \in Ordinal
  BY <1>1, CampaignParts DEF MainInv, CurrentStage, Current, Settling, Reducing
<1>3. /\ campaign'.attempts = campaign.attempts /\ campaign'.active = campaign.active
      /\ proposal' = proposal
  <2>1. CASE SaveUncharged
    BY <2>1, SavedEffect
  <2>2. CASE Finalize
    BY <2>2, FinalizeEffect
  <2>3. CASE PublishFold
    BY <2>3 DEF PublishFold, plans
  <2>4. CASE \E status \in {"folded", "error"}, absorbed \in BOOLEAN : CallFold(status, absorbed)
    BY <2>4 DEF CallFold, plans
  <2> QED BY <2>1, <2>2, <2>3, <2>4
<1>4. /\ OpenJobs' = OpenJobs /\ OpenFailures' = OpenFailures /\ Failed' = Failed
  BY <1>3 DEF OpenSlots, OpenJobs, OpenFailures, Failed
<1>5. CurrentStage'
  <2>1. CASE SaveUncharged
    <3>1. campaign.pending # cur
      <4>1. cur \notin Pending
        BY <2>1 DEF SaveUncharged, MainInv, CurrentStage, PlanInv, ChargesListed
      <4> QED
        BY <1>2, <4>1, NotNone DEF Pending
    <3>2. pc' = "progress" /\ campaign'.pending = campaign.pending
      BY <2>1, SavedEffect DEF SaveUncharged
    <3> QED
      BY <1>1, <1>2, <1>3, <3>1, <3>2 DEF CurrentStage
  <2>2. CASE Finalize
    <3>1. pc' = "progress" /\ campaign'.pending # cur
      BY <1>2, <2>2, FinalizeEffect, NotNone DEF Finalize
    <3> QED
      BY <1>1, <1>2, <1>3, <3>1 DEF CurrentStage
  <2>3. CASE PublishFold
    <3>1. fold'[cur] # None
      <4>1. [status |-> out, gen |-> gen] \in FoldRecord
        BY <2>3 DEF PublishFold, TypeInv, FoldRecord
      <4> QED
        BY <1>2, <2>3, <4>1, NotNone DEF PublishFold, TypeInv
    <3>2. pc = "foldReceipt" /\ pc' = "finalize" /\ campaign' = campaign
      BY <2>3 DEF PublishFold
    <3> QED
      BY <1>1, <1>2, <3>1, <3>2 DEF MainInv, CurrentStage
  <2>4. CASE \E status \in {"folded", "error"}, absorbed \in BOOLEAN : CallFold(status, absorbed)
    <3>1. pc = "fold" /\ pc' = "foldReceipt" /\ campaign' = campaign
      BY <2>4 DEF CallFold
    <3> QED
      BY <1>1, <1>2, <3>1 DEF MainInv, CurrentStage
  <2> QED BY <2>1, <2>2, <2>3, <2>4
<1> QED
  BY <1>1, <1>2, <1>3, <1>4, <1>5, MainReduces DEF Settling, Reducing

LEMMA PublishProgressMain ==
  ASSUME TypeInv, PlanInv, MainInv, PublishProgress
  PROVE  MainInv'
<1>1. cur \in OpenSlots /\ campaign.active # None /\ cur \notin Failed
  BY DEF PublishProgress, TypeInv, Reducing, OpenSlots, MainInv, Current, Settling
<1>2. OpenFailures \subseteq campaign.attempts
  BY <1>1 DEF PublishProgress, MainInv, Current, Reducing
<1>3. pc' = "workers" /\ UNCHANGED <<campaign, proposal>>
  BY DEF PublishProgress, plans
<1>4. OpenFailures' = OpenFailures
  BY <1>3, SameViews
<1> QED
  BY <1>1, <1>2, <1>3, <1>4, MainInEpoch

LEMMA MainStepMain ==
  ASSUME TypeInv, PlanInv, MainInv, WorkersInv, GeneratorInv, MainStep
  PROVE  MainInv'
<1>1. CASE Load \/ Finish
  BY <1>1, MainElsewhere DEF Load, Finish, Reducing
<1>2. CASE ResumeEpoch
  BY <1>2, MainInEpoch DEF ResumeEpoch
<1>3. CASE ProposeFails \/ \E results \in [Slots -> Candidates] : ProposeEpoch(results)
  BY <1>3, ProposeEpochMain, ProposeFailsMain
<1>4. CASE PublishProposal \/ TakeFailure \/ TakeResult
  BY <1>4, PublishProposalMain, TakeFailureMain, TakeResultMain
<1>5. CASE SaveEpoch
  <2>1. Slots \subseteq Ordinal
    BY <1>5, SlotFacts DEF SaveEpoch, MainInv, Planning
  <2>2. [epoch |-> campaign.nextEpoch, slots |-> Slots] \in EpochRecord
    BY <2>1, CampaignParts DEF EpochRecord
  <2>3. campaign'.active # None
    BY <1>5, <2>2, SaveEpochEffect, NotNone
  <2> QED
    BY <1>5, <2>3, MainInEpoch DEF SaveEpoch
<1>6. CASE StartWorkers
  <2>1. campaign.active # None /\ OpenFailures \subseteq campaign.attempts
    BY <1>6, OpenEpoch DEF StartWorkers, MainInv, EpochOpen, Committed
  <2>2. pc' = "workers" /\ UNCHANGED <<campaign, proposal>>
    BY <1>6 DEF StartWorkers, plans
  <2>3. OpenFailures' = OpenFailures
    BY <2>2, SameViews
  <2> QED
    BY <2>1, <2>2, <2>3, MainInEpoch
<1>7. CASE PublishReceipt \/ Cleanup \/ Commit \/ PublishProgress
  BY <1>7, PublishReceiptMain, CleanupMain, CommitMain, PublishProgressMain
<1>8. CASE SaveUncharged \/ PublishFold \/ Finalize
  BY <1>8, SettlingMain
<1>9. CASE \E status \in {"folded", "error"}, absorbed \in BOOLEAN : CallFold(status, absorbed)
  BY <1>9, SettlingMain
<1>10. CASE EndEpoch
  BY <1>10, EndEpochEffect
     DEF MainInv, Planning, EpochOpen, Current, CurrentStage, Reducing, Settling
<1> QED
  BY <1>1, <1>2, <1>3, <1>4, <1>5, <1>6, <1>7, <1>8, <1>9, <1>10 DEF MainStep

LEMMA MainInvStep ==
  ASSUME TypeInv, PlanInv, MainInv, WorkersInv, GeneratorInv, [Next]_vars
  PROVE  MainInv'
<1>1. CASE \E o \in Ordinal : WorkerStep(o)
  BY <1>1, WorkerKeepsMain
<1>2. CASE MainStep
  BY <1>2, MainStepMain
<1>3. CASE Crash \/ CleanupError \/ Restart
  BY <1>3, MainElsewhere DEF Crash, CleanupError, Forget, Restart, Reducing
<1>4. CASE Terminated \/ UNCHANGED vars
  <2>1. UNCHANGED vars
    BY <1>4 DEF Terminated
  <2>2. /\ UNCHANGED <<campaign, proposal, receipt, cleaned, fold, progress, pc, cur, out, wpc>>
    BY <2>1 DEF vars, plans, reduceFiles, main, workers
  <2>3. /\ Counted' = Counted /\ Failed' = Failed /\ OpenJobs' = OpenJobs
        /\ OpenFailures' = OpenFailures /\ Slots' = Slots /\ Capacity' = Capacity
        /\ Charges' = Charges
    BY <2>2, SameViews, SameSlots, SameCharges
  <2>4. Planning' /\ EpochOpen'
    BY <2>2, <2>3 DEF MainInv, Planning, EpochOpen
  <2>5. Current' /\ CurrentStage'
    BY <2>2, <2>3 DEF MainInv, Current, CurrentStage
  <2> QED
    BY <2>4, <2>5 DEF MainInv
<1> QED
  BY <1>1, <1>2, <1>3, <1>4 DEF Next

-----------------------------------------------------------------------------
(* The generator *)

LEMMA GeneratorInit == Init => GeneratorInv
<1> SUFFICES ASSUME Init PROVE GeneratorInv
  OBVIOUS
<1>1. /\ campaign.active = None /\ campaign.nextEpoch = 0 /\ campaign.gen = FreshGenerator
      /\ campaign.attempts = {} /\ pc = "load"
      /\ \A e \in Epoch : batch[e] = None
      /\ \A o \in Ordinal : proposal[o] = None /\ fold[o] = None
  BY DEF Init
<1>2. 0 \in Epoch
  BY BoundAssumption DEF Epoch
<1>3. Learned(FreshGenerator) = {}
  BY DEF FreshGenerator, Learned
<1>4. PlansInv
  BY <1>1 DEF PlansInv, ProposedInOrder, BatchesInOrder, BatchesBlind, OneSnapshot,
              ProposalsBlind, CandidatesFromBatch
<1>5. SavedBetweenEpochs /\ SavedInEpoch /\ SavedCommitted
  BY <1>1, <1>2, <1>3 DEF SavedBetweenEpochs, SavedInEpoch, SavedCommitted, ThisBatch
<1>6. MemoryBetweenEpochs /\ MemoryInSlots /\ MemoryInEpoch
  BY <1>1 DEF MemoryBetweenEpochs, MemoryInSlots, MemoryInEpoch, Running
<1> QED
  BY <1>4, <1>5, <1>6 DEF GeneratorInv

\* Folding the result of an attempt teaches at most that attempt; drawing teaches nothing.
LEMMA FoldEffect ==
  ASSUME NEW g \in Generator, NEW o \in Ordinal
  PROVE  Learned(Fold(g, o)) \subseteq Learned(g) \cup {o}
<1>1. g.folded \in Seq(Ordinal)
  BY DEF Generator
<1>2. CASE Fold(g, o) = g
  BY <1>2
<1>3. CASE Fold(g, o) # g
  <2>1. Fold(g, o) = [g EXCEPT !.folded = Append(g.folded, o)]
    BY <1>3 DEF Fold
  <2>2. Fold(g, o).folded = Append(g.folded, o)
    BY <2>1 DEF Generator
  <2>3. ASSUME NEW x \in Learned(Fold(g, o)) PROVE x \in Learned(g) \cup {o}
    <3>1. PICK i \in 1 .. Len(Append(g.folded, o)) : x = Append(g.folded, o)[i]
      BY <2>2 DEF Learned
    <3>2. (i \in 1 .. Len(g.folded) /\ x = g.folded[i]) \/ x = o
      BY <1>1, <3>1
    <3> QED
      BY <3>2 DEF Learned
  <2> QED
    BY <2>3
<1> QED
  BY <1>2, <1>3

LEMMA DrawEffect ==
  ASSUME NEW g \in Generator
  PROVE  Draw(g).folded = g.folded /\ Learned(Draw(g)) = Learned(g)
BY DEF Draw, Generator, Learned

\* What was proposed in an earlier epoch is committed.
LEMMA EarlierCommitted ==
  ASSUME TypeInv, PlanInv, NEW p \in Ordinal,
         proposal[p] # None, proposal[p].epoch < campaign.nextEpoch
  PROVE  p \in campaign.attempts
<1>1. proposal[p].epoch # campaign.nextEpoch
  <2>1. proposal[p].epoch \in Nat /\ campaign.nextEpoch \in Nat
    BY CampaignParts DEF TypeInv, ProposalRecord
  <2> QED
    BY <2>1
<1>2. p < campaign.nextOrdinal
  BY <1>1 DEF PlanInv, ProposalsPlanned
<1>3. p \notin OpenSlots
  BY <1>1, OpenEpoch
<1> QED
  BY <1>2, <1>3 DEF PlanInv, ClosedCommitted

\* Either side of the current epoch's transition has learned from committed attempts alone.
LEMMA SnapshotFacts ==
  ASSUME TypeInv, PlanInv, GeneratorInv, NEW g, OnOneSide(g)
  PROVE  g \in Generator /\ Learned(g) \subseteq campaign.attempts
<1>1. CASE g = campaign.gen
  BY <1>1, CampaignParts DEF GeneratorInv, SavedCommitted
<1>2. CASE ThisBatch # None /\ g = ThisBatch.post
  <2>1. campaign.nextEpoch \in Epoch
    BY OpenEpoch
  <2>2. ThisBatch.pre \in Generator /\ ThisBatch.post \in Generator
    BY <1>2, <2>1 DEF TypeInv, ThisBatch, BatchRecord
  <2>3. /\ ThisBatch.post = Draw(ThisBatch.pre)
        /\ \A p \in Learned(ThisBatch.pre) :
             proposal[p] # None /\ proposal[p].epoch < campaign.nextEpoch
    BY <1>2, <2>1 DEF GeneratorInv, PlansInv, BatchesBlind, ThisBatch
  <2>4. Learned(g) = Learned(ThisBatch.pre) /\ Learned(g) \subseteq Ordinal
    <3>1. Learned(g) = Learned(ThisBatch.pre)
      BY <1>2, <2>2, <2>3, DrawEffect
    <3>2. Learned(ThisBatch.pre) \subseteq Ordinal
      BY <2>2 DEF Learned, Generator
    <3> QED
      BY <3>1, <3>2
  <2> QED
    BY <1>2, <2>2, <2>3, <2>4, EarlierCommitted
<1> QED
  BY <1>1, <1>2 DEF OnOneSide

\* Between two epochs both sides have learned the same.
LEMMA SidesFolded ==
  ASSUME TypeInv, PlanInv, GeneratorInv, campaign.active = None, NEW g, OnOneSide(g)
  PROVE  g.folded = campaign.gen.folded
<1>1. CASE g = campaign.gen
  BY <1>1
<1>2. CASE ThisBatch # None /\ g = ThisBatch.post
  <2>1. ThisBatch.post = Draw(ThisBatch.pre) /\ campaign.gen = ThisBatch.pre
    BY <1>2, OpenEpoch
       DEF GeneratorInv, PlansInv, BatchesBlind, SavedBetweenEpochs, ThisBatch
  <2> QED
    BY <1>2, <2>1, CampaignParts, DrawEffect
<1> QED
  BY <1>1, <1>2 DEF OnOneSide

\* A proposal not yet committed belongs to the current epoch, and carries its snapshot.
LEMMA UncommittedProposal ==
  ASSUME TypeInv, PlanInv, GeneratorInv, NEW o \in Ordinal, proposal[o] # None,
         o \in OpenSlots \/ o \notin campaign.attempts
  PROVE  /\ proposal[o].epoch = campaign.nextEpoch
         /\ proposal[o].gen \in Generator
         /\ Learned(proposal[o].gen) \subseteq campaign.attempts
         /\ campaign.active # None => o \in OpenSlots /\ OfOpenEpoch(proposal[o].gen)
         /\ campaign.active = None => OnOneSide(proposal[o].gen)
<1>1. proposal[o].epoch = campaign.nextEpoch /\ (campaign.active # None => o \in OpenSlots)
  <2>1. CASE o \in OpenSlots
    BY <2>1, OpenEpoch
  <2>2. CASE o \notin OpenSlots
    <3>1. ~(o < campaign.nextOrdinal)
      BY <2>2 DEF PlanInv, ClosedCommitted
    <3> QED
      BY <3>1 DEF PlanInv, ProposalsPlanned
  <2> QED
    BY <2>1, <2>2
<1>2. proposal[o].gen \in Generator
  BY DEF TypeInv, ProposalRecord
<1>3. Learned(proposal[o].gen) \subseteq campaign.attempts
  <2>1. \A p \in Learned(proposal[o].gen) :
          proposal[p] # None /\ proposal[p].epoch < campaign.nextEpoch
    BY <1>1 DEF GeneratorInv, PlansInv, ProposalsBlind
  <2>2. Learned(proposal[o].gen) \subseteq Ordinal
    BY <1>2 DEF Learned, Generator
  <2> QED
    BY <2>1, <2>2, EarlierCommitted
<1>4. OfOpenEpoch(proposal[o].gen)
  <2> SUFFICES ASSUME NEW p \in OpenSlots PROVE proposal[p].gen = proposal[o].gen
    BY DEF OfOpenEpoch
  <2>1. p \in Ordinal /\ proposal[p] # None /\ proposal[p].epoch = campaign.nextEpoch
    BY OpenEpoch
  <2> QED
    BY <1>1, <2>1 DEF GeneratorInv, PlansInv, OneSnapshot
<1>5. campaign.active = None => OnOneSide(proposal[o].gen)
  BY <1>1 DEF GeneratorInv, SavedBetweenEpochs
<1> QED
  BY <1>1, <1>2, <1>3, <1>4, <1>5

LEMMA PlansKept ==
  ASSUME GeneratorInv, UNCHANGED <<batch, proposal>>,
         campaign'.nextEpoch = campaign.nextEpoch
  PROVE  PlansInv'
BY DEF GeneratorInv, PlansInv, ProposedInOrder, BatchesInOrder, BatchesBlind, OneSnapshot,
       ProposalsBlind, CandidatesFromBatch

\* A step that changes nothing of this but the control, within or outside an epoch.
LEMMA GeneratorKept ==
  ASSUME GeneratorInv,
         UNCHANGED <<batch, proposal, fold, gen>>,
         campaign'.attempts = campaign.attempts, campaign'.active = campaign.active,
         campaign'.nextEpoch = campaign.nextEpoch, campaign'.gen = campaign.gen,
         campaign'.pending = campaign.pending, Slots' = Slots,
         pc' \in Running => pc \in Running \ {"save"},
         pc' = "slots" => pc = "slots" /\ UNCHANGED <<cur, out>>
  PROVE  GeneratorInv'
<1>1. /\ ThisBatch' = ThisBatch /\ OpenSlots' = OpenSlots /\ OpenJobs' = OpenJobs
      /\ NoJobCommitted' = NoJobCommitted /\ AllCommitted' = AllCommitted
  <2>1. OpenSlots' = OpenSlots /\ Failed' = Failed
    BY DEF OpenSlots, Failed
  <2> QED
    BY <2>1 DEF ThisBatch, OpenJobs, NoJobCommitted, AllCommitted
<1>2. PlansInv'
  BY PlansKept
<1>3. SavedBetweenEpochs' /\ SavedInEpoch' /\ SavedCommitted'
  BY <1>1 DEF GeneratorInv, SavedBetweenEpochs, SavedInEpoch, SavedCommitted, OnOneSide,
              OfOpenEpoch
<1>4. MemoryBetweenEpochs'
  BY <1>1 DEF GeneratorInv, MemoryBetweenEpochs, OnOneSide
<1>5. MemoryInEpoch' /\ MemoryInSlots'
  BY <1>1 DEF GeneratorInv, MemoryInEpoch, MemoryInSlots, OfOpenEpoch
<1> QED
  BY <1>2, <1>3, <1>4, <1>5 DEF GeneratorInv

LEMMA LoadGenerator ==
  ASSUME TypeInv, PlanInv, GeneratorInv, Load
  PROVE  GeneratorInv'
<1>1. /\ gen' = RestoredOnLoad /\ pc' \notin {"slots", "abort", "save"}
      /\ UNCHANGED <<campaign, batch, proposal, fold>>
  BY DEF Load, plans, reduceFiles
<1>2. /\ ThisBatch' = ThisBatch /\ OpenSlots' = OpenSlots /\ OpenJobs' = OpenJobs
      /\ NoJobCommitted' = NoJobCommitted /\ AllCommitted' = AllCommitted /\ Slots' = Slots
  BY <1>1, SameViews, SameSlots DEF ThisBatch, NoJobCommitted, AllCommitted
<1>3. PlansInv'
  BY <1>1, PlansKept
<1>4. SavedBetweenEpochs' /\ SavedInEpoch' /\ SavedCommitted'
  BY <1>1, <1>2 DEF GeneratorInv, SavedBetweenEpochs, SavedInEpoch, SavedCommitted, OnOneSide,
                    OfOpenEpoch
<1>5. campaign.pending # None =>
        /\ campaign.pending \in OpenJobs /\ campaign.pending \in campaign.attempts
        /\ campaign.active # None /\ ~NoJobCommitted
  <2>1. campaign.pending # None => campaign.pending \in Pending
    BY DEF Pending
  <2>2. campaign.pending # None =>
          campaign.pending \in OpenJobs /\ campaign.pending \in campaign.attempts
    BY <2>1, CampaignParts DEF PlanInv, PendingOpen, ChargesListed
  <2> QED
    BY <2>2 DEF NoJobCommitted, OpenJobs, OpenSlots
<1>6. \A o \in Uncommitted :
        /\ o \in Ordinal /\ Learned(proposal[o].gen) \subseteq campaign.attempts
        /\ campaign.active = None => OnOneSide(proposal[o].gen)
        /\ campaign.active # None =>
             o \in OpenSlots /\ ~AllCommitted /\ OfOpenEpoch(proposal[o].gen)
  BY UncommittedProposal DEF Uncommitted, Committed, AllCommitted
<1>7. MemoryBetweenEpochs'
  <2> SUFFICES ASSUME campaign.active = None
               PROVE  gen' = campaign.gen \/ (ThisBatch # None /\ gen' = ThisBatch.post)
    BY <1>1, <1>2 DEF MemoryBetweenEpochs, OnOneSide
  <2>1. \A o \in Uncommitted :
          proposal[o].gen = campaign.gen
            \/ (ThisBatch # None /\ proposal[o].gen = ThisBatch.post)
    BY <1>6 DEF OnOneSide
  <2> QED
    BY <1>1, <1>5, <2>1, RestoredCases
<1>8. MemoryInEpoch'
  <2> SUFFICES ASSUME campaign.active # None
               PROVE  /\ Learned(gen') \subseteq campaign.attempts
                      /\ NoJobCommitted => \A o \in OpenSlots : proposal[o].gen = gen'
                      /\ AllCommitted /\ campaign.pending = None => gen' = campaign.gen
    BY <1>1, <1>2 DEF MemoryInEpoch, OfOpenEpoch
  <2>1. ASSUME gen' = campaign.gen, campaign.pending # None \/ Uncommitted = {}
        PROVE  /\ Learned(gen') \subseteq campaign.attempts
               /\ NoJobCommitted => \A o \in OpenSlots : proposal[o].gen = gen'
    BY <2>1 DEF GeneratorInv, SavedInEpoch, SavedCommitted, OfOpenEpoch
  <2>2. ASSUME campaign.pending # None, fold[campaign.pending] # None,
               gen' = fold[campaign.pending].gen
        PROVE  Learned(gen') \subseteq campaign.attempts
    BY <1>5, <2>2, CampaignParts DEF GeneratorInv, SavedCommitted
  <2>3. ASSUME NEW o \in Uncommitted, gen' = proposal[o].gen
        PROVE  /\ Learned(gen') \subseteq campaign.attempts
               /\ (\A p \in OpenSlots : proposal[p].gen = gen') /\ ~AllCommitted
    BY <1>6, <2>3 DEF OfOpenEpoch
  <2> QED
    BY <1>1, <1>5, <2>1, <2>2, <2>3, RestoredCases
<1>9. MemoryInSlots'
  BY <1>1 DEF MemoryInSlots
<1> QED
  BY <1>3, <1>4, <1>7, <1>8, <1>9 DEF GeneratorInv

LEMMA ProposeEpochGenerator ==
  ASSUME TypeInv, PlanInv, GeneratorInv,
         NEW results \in [Slots -> Candidates], ProposeEpoch(results)
  PROVE  GeneratorInv'
<1>1. /\ pc = "loop" /\ campaign.active = None /\ PlanMatches
      /\ pc' = "slots" /\ cur' = campaign.nextOrdinal
      /\ UNCHANGED <<campaign, proposal, fold>>
  BY ChecksPass DEF ProposeEpoch, reduceFiles
<1>2. campaign.nextEpoch \in Epoch
  BY OpenEpoch
<1>3. /\ OpenSlots = {} /\ OpenSlots' = {} /\ Slots' = Slots
      /\ \A o \in Slots : ~(o < campaign.nextOrdinal)
  BY <1>1, SameSlots, SlotFacts, CampaignParts DEF OpenSlots
<1>4. OnOneSide(gen)
  BY <1>1 DEF GeneratorInv, MemoryBetweenEpochs, Running, MainControl
<1>5. CASE ThisBatch # None
  <2>1. gen \in {ThisBatch.pre, ThisBatch.post}
    BY <1>1, <1>4, <1>5 DEF GeneratorInv, SavedBetweenEpochs, OnOneSide
  <2>2. batch' = batch /\ gen' = ThisBatch.post /\ out' = ThisBatch.results
    BY <1>1, <1>5, <2>1 DEF ProposeEpoch, ThisBatch
  <2>3. ThisBatch' = ThisBatch
    BY <1>1, <2>2 DEF ThisBatch
  <2>4. PlansInv'
    BY <1>1, <2>2, PlansKept
  <2>5. SavedBetweenEpochs' /\ SavedInEpoch' /\ SavedCommitted'
    BY <1>1, <1>3, <2>3
       DEF GeneratorInv, SavedBetweenEpochs, SavedInEpoch, SavedCommitted, OnOneSide
  <2>6. MemoryBetweenEpochs' /\ MemoryInSlots' /\ MemoryInEpoch'
    BY <1>1, <1>3, <1>5, <2>2, <2>3
       DEF MemoryBetweenEpochs, MemoryInSlots, MemoryInEpoch, OnOneSide
  <2> QED
    BY <2>4, <2>5, <2>6 DEF GeneratorInv
<1>6. CASE ThisBatch = None
  <2> DEFINE b == [pre |-> gen, post |-> Draw(gen), results |-> results]
  <2>1. /\ batch' = [batch EXCEPT ![campaign.nextEpoch] = b]
        /\ gen' = Draw(gen) /\ out' = results
    BY <1>1, <1>6 DEF ProposeEpoch, ThisBatch
  <2>2. gen = campaign.gen /\ gen \in Generator
    BY <1>4, <1>6 DEF TypeInv, OnOneSide
  <2>3. b # None /\ b.pre = gen /\ b.post = Draw(gen) /\ b.results = results
    <3>1. b \in BatchRecord
      <4>1. Slots \subseteq Ordinal
        BY SlotFacts DEF ProposeEpoch
      <4> QED
        BY <2>2, <4>1, DrawType DEF BatchRecord
    <3> QED
      BY <3>1, NotNone
  <2> HIDE DEF b
  <2>4. ThisBatch' = b /\ \A e \in Epoch : e # campaign.nextEpoch => batch'[e] = batch[e]
    BY <1>1, <1>2, <2>1 DEF ThisBatch, TypeInv
  <2>5. \A p \in Learned(gen) : proposal[p] # None /\ proposal[p].epoch < campaign.nextEpoch
    <3>1. Learned(gen) \subseteq campaign.attempts
      BY <1>1, <2>2 DEF GeneratorInv, SavedCommitted
    <3>2. ASSUME NEW p \in campaign.attempts
          PROVE  proposal[p] # None /\ proposal[p].epoch < campaign.nextEpoch
      <4>1. p \in Ordinal /\ p < campaign.nextOrdinal /\ p \notin OpenSlots
        BY <1>3, CampaignParts DEF PlanInv, CommitsRecorded
      <4> QED
        BY <4>1 DEF PlanInv, ProposalsPlanned
    <3> QED
      BY <3>1, <3>2
  <2>6. PlansInv'
    <3>1. ProposedInOrder' /\ OneSnapshot' /\ ProposalsBlind'
      BY <1>1 DEF GeneratorInv, PlansInv, ProposedInOrder, OneSnapshot, ProposalsBlind
    <3>2. BatchesInOrder'
      <4>1. campaign.nextEpoch <= campaign.nextEpoch
        BY CampaignParts
      <4> QED
        BY <1>1, <2>4, <4>1 DEF GeneratorInv, PlansInv, BatchesInOrder
    <3>3. BatchesBlind'
      <4> SUFFICES ASSUME NEW e \in Epoch, batch'[e] # None
                   PROVE  /\ batch'[e].post = Draw(batch'[e].pre)
                          /\ \A p \in Learned(batch'[e].pre) :
                               proposal[p] # None /\ proposal[p].epoch < e
        BY <1>1 DEF BatchesBlind
      <4>1. CASE e = campaign.nextEpoch
        <5>1. batch'[e] = b
          BY <1>1, <2>4, <4>1 DEF ThisBatch
        <5> QED
          BY <2>3, <2>5, <4>1, <5>1
      <4>2. CASE e # campaign.nextEpoch
        BY <2>4, <4>2 DEF GeneratorInv, PlansInv, BatchesBlind
      <4> QED
        BY <4>1, <4>2
    <3>4. CandidatesFromBatch'
      <4> SUFFICES ASSUME NEW o \in Ordinal, proposal[o] # None,
                          proposal[o].candidate # "failure"
                   PROVE  /\ batch'[proposal[o].epoch] # None
                          /\ proposal[o].candidate = batch'[proposal[o].epoch].results[o]
                          /\ proposal[o].gen.folded = batch'[proposal[o].epoch].pre.folded
        BY <1>1 DEF CandidatesFromBatch
      <4>1. /\ proposal[o].epoch \in Epoch /\ batch[proposal[o].epoch] # None
            /\ proposal[o].candidate = batch[proposal[o].epoch].results[o]
            /\ proposal[o].gen.folded = batch[proposal[o].epoch].pre.folded
        BY DEF GeneratorInv, PlansInv, ProposalsBlind, CandidatesFromBatch
      <4>2. proposal[o].epoch # campaign.nextEpoch
        BY <1>6, <4>1 DEF ThisBatch
      <4> QED
        BY <2>4, <4>1, <4>2
    <3> QED
      BY <3>1, <3>2, <3>3, <3>4 DEF PlansInv
  <2>7. SavedBetweenEpochs' /\ SavedInEpoch' /\ SavedCommitted'
    <3>1. \A o \in Ordinal : proposal[o] # None /\ proposal[o].epoch = campaign.nextEpoch =>
            proposal[o].gen = campaign.gen
      BY <1>1, <1>6 DEF GeneratorInv, SavedBetweenEpochs, OnOneSide
    <3> QED
      BY <1>1, <1>3, <2>2, <2>3, <2>4, <3>1
         DEF GeneratorInv, SavedBetweenEpochs, SavedInEpoch, SavedCommitted, OnOneSide
  <2>8. MemoryBetweenEpochs' /\ MemoryInSlots' /\ MemoryInEpoch'
    BY <1>1, <1>3, <2>1, <2>3, <2>4
       DEF MemoryBetweenEpochs, MemoryInSlots, MemoryInEpoch, OnOneSide
  <2> QED
    BY <2>6, <2>7, <2>8 DEF GeneratorInv
<1> QED
  BY <1>5, <1>6

LEMMA ProposeFailsGenerator ==
  ASSUME TypeInv, PlanInv, GeneratorInv, ProposeFails
  PROVE  GeneratorInv'
<1>1. /\ pc = "loop" /\ campaign.active = None /\ pc' = "slots"
      /\ cur' = campaign.nextOrdinal /\ out' = [o \in Slots |-> "failure"]
      /\ UNCHANGED <<campaign, batch, proposal, fold, gen>>
  BY DEF ProposeFails, plans, reduceFiles
<1>2. /\ ThisBatch' = ThisBatch /\ OpenSlots = {} /\ OpenSlots' = {} /\ Slots' = Slots
      /\ \A o \in Slots : ~(o < campaign.nextOrdinal)
  BY <1>1, SameSlots, SlotFacts, CampaignParts DEF OpenSlots, ThisBatch
<1>3. OnOneSide(gen)
  BY <1>1 DEF GeneratorInv, MemoryBetweenEpochs, Running, MainControl
<1>4. PlansInv'
  BY <1>1, PlansKept
<1>5. SavedBetweenEpochs' /\ SavedInEpoch' /\ SavedCommitted'
  BY <1>1, <1>2 DEF GeneratorInv, SavedBetweenEpochs, SavedInEpoch, SavedCommitted, OnOneSide
<1>6. MemoryBetweenEpochs' /\ MemoryInSlots' /\ MemoryInEpoch'
  BY <1>1, <1>2, <1>3 DEF MemoryBetweenEpochs, MemoryInSlots, MemoryInEpoch, OnOneSide
<1> QED
  BY <1>4, <1>5, <1>6 DEF GeneratorInv

LEMMA PublishProposalGenerator ==
  ASSUME TypeInv, PlanInv, MainInv, GeneratorInv, PublishProposal
  PROVE  GeneratorInv'
<1>1. /\ campaign.active = None /\ cur \in Slots /\ cur \in Ordinal /\ cur \in Nat
      /\ Slots \subseteq Ordinal /\ ~(cur < campaign.nextOrdinal)
      /\ \A o \in Slots : o < cur => proposal[o] # None
      /\ UNCHANGED <<campaign, batch, fold, pc, out>> /\ pc = "slots" /\ cur' = cur + 1
  BY SlotFacts, CampaignParts DEF PublishProposal, MainInv, Planning, reduceFiles
<1>2. OnOneSide(gen) /\ \A o \in Slots : o < cur => proposal[o].gen = gen
  BY <1>1 DEF GeneratorInv, MemoryBetweenEpochs, MemoryInSlots, Running, MainControl
<1>3. campaign.nextEpoch \in Epoch
  BY OpenEpoch
<1>4. ThisBatch' = ThisBatch /\ Slots' = Slots /\ OpenSlots' = {} /\ OpenSlots = {}
  BY <1>1, SameSlots DEF ThisBatch, OpenSlots
<1>5. \A o \in Slots : o < cur + 1 => o < cur \/ o = cur
  BY <1>1, SlotFacts
<1>6. CASE proposal[cur] # None
  <2>1. proposal' = proposal /\ gen' = proposal[cur].gen
    BY <1>6 DEF PublishProposal, SlotSnapshot
  <2>2. proposal[cur].epoch = campaign.nextEpoch /\ OnOneSide(proposal[cur].gen)
    BY <1>1, <1>6 DEF PlanInv, ProposalsPlanned, GeneratorInv, SavedBetweenEpochs
  <2>3. \A o \in Slots : o < cur => proposal[o].gen = proposal[cur].gen
    <3>1. \A o \in Slots : o < cur => proposal[o].epoch = campaign.nextEpoch
      BY <1>1, SlotFacts, CampaignParts DEF PlanInv, ProposalsPlanned
    <3> QED
      BY <1>1, <1>6, <2>2, <3>1 DEF GeneratorInv, PlansInv, OneSnapshot
  <2>4. PlansInv'
    BY <1>1, <2>1, PlansKept
  <2>5. SavedBetweenEpochs' /\ SavedInEpoch' /\ SavedCommitted'
    BY <1>1, <1>4, <2>1
       DEF GeneratorInv, SavedBetweenEpochs, SavedInEpoch, SavedCommitted, OnOneSide
  <2>6. MemoryInSlots'
    BY <1>1, <1>4, <1>5, <2>1, <2>3 DEF GeneratorInv, MemoryInSlots
  <2>7. MemoryBetweenEpochs' /\ MemoryInEpoch'
    BY <1>1, <1>4, <2>1, <2>2 DEF MemoryBetweenEpochs, MemoryInEpoch, OnOneSide
  <2> QED
    BY <2>4, <2>5, <2>6, <2>7 DEF GeneratorInv
<1>7. CASE proposal[cur] = None
  <2> DEFINE r == [candidate |-> out[cur], phase |-> Phase,
                   epoch |-> campaign.nextEpoch, gen |-> gen]
  <2>1. proposal' = [proposal EXCEPT ![cur] = r] /\ gen' = gen
    BY <1>7 DEF PublishProposal, SlotSnapshot
  <2>2. /\ r # None /\ r.epoch = campaign.nextEpoch /\ r.gen = gen /\ r.candidate = out[cur]
    <3>1. r \in ProposalRecord
      BY <1>1, SlotFacts, CampaignParts DEF ProposalRecord, TypeInv, MainInv, Planning
    <3> QED
      BY <3>1, NotNone
  <2> HIDE DEF r
  <2>3. proposal'[cur] = r /\ \A o \in Ordinal : o # cur => proposal'[o] = proposal[o]
    BY <1>1, <2>1 DEF TypeInv
  <2>4. gen \in Generator /\ Learned(gen) \subseteq campaign.attempts
    BY <1>2, SnapshotFacts
  <2>5. \A p \in campaign.attempts :
          p \in Ordinal /\ proposal[p] # None /\ proposal[p].epoch < campaign.nextEpoch
    <3>1. \A p \in campaign.attempts :
            p \in Ordinal /\ p < campaign.nextOrdinal /\ p \notin OpenSlots
      BY <1>4, CampaignParts DEF PlanInv, CommitsRecorded
    <3> QED
      BY <3>1 DEF PlanInv, ProposalsPlanned
  <2>6. ASSUME NEW o \in Ordinal, proposal[o] # None, proposal[o].epoch = campaign.nextEpoch
        PROVE  proposal[o].gen = gen
    <3>1. ~(o < campaign.nextOrdinal)
      <4>1. ~(campaign.nextEpoch < campaign.nextEpoch)
        BY CampaignParts
      <4> QED
        BY <1>4, <2>6, <4>1 DEF PlanInv, ProposalsPlanned
    <3>2. o \in Slots
      BY <2>6, <3>1 DEF PlanInv, ProposalsPlanned
    <3>3. ~(cur < o) /\ o # cur
      BY <1>1, <1>7, <2>6 DEF GeneratorInv, PlansInv, ProposedInOrder
    <3>4. o < cur
      BY <1>1, <3>2, <3>3, SlotFacts
    <3> QED
      BY <1>2, <3>2, <3>4
  <2>7. out[cur] # "failure" =>
          /\ ThisBatch # None /\ out[cur] = ThisBatch.results[cur]
          /\ gen.folded = ThisBatch.pre.folded
    <3> SUFFICES ASSUME out[cur] # "failure"
                 PROVE  /\ ThisBatch # None /\ out[cur] = ThisBatch.results[cur]
                        /\ gen.folded = ThisBatch.pre.folded
      OBVIOUS
    <3>1. ThisBatch # None /\ out[cur] = ThisBatch.results[cur]
      BY <1>1 DEF GeneratorInv, MemoryInSlots
    <3>2. campaign.gen = ThisBatch.pre /\ ThisBatch.post = Draw(ThisBatch.pre)
      BY <1>1, <1>3, <3>1
         DEF GeneratorInv, SavedBetweenEpochs, PlansInv, BatchesBlind, ThisBatch
    <3>3. ThisBatch.pre \in Generator
      BY <3>2, CampaignParts
    <3> QED
      BY <1>2, <3>1, <3>2, <3>3, DrawEffect DEF OnOneSide
  <2>8. PlansInv'
    <3>1. ProposedInOrder'
      <4> SUFFICES ASSUME NEW o \in Ordinal, NEW p \in Ordinal, proposal'[o] # None, p < o
                   PROVE  proposal'[p] # None
        BY DEF ProposedInOrder
      <4>1. CASE p = cur
        BY <2>2, <2>3, <4>1
      <4>2. CASE p # cur /\ o # cur
        BY <2>3, <4>2 DEF GeneratorInv, PlansInv, ProposedInOrder
      <4>3. CASE p # cur /\ o = cur
        <5>1. p < campaign.nextOrdinal \/ p \in Slots
          <6>1. p \in Nat /\ p < cur
            BY <4>3 DEF Ordinal
          <6> QED
            BY <1>1, <6>1, SlotFacts, CampaignParts
        <5>2. proposal[p] # None
          BY <1>1, <4>3, <5>1 DEF PlanInv, ProposalsPlanned
        <5> QED
          BY <2>3, <4>3, <5>2
      <4> QED
        BY <4>1, <4>2, <4>3
    <3>2. BatchesInOrder'
      BY <1>1 DEF GeneratorInv, PlansInv, BatchesInOrder
    <3>3. BatchesBlind'
      <4>1. \A e \in Epoch : batch[e] # None => Learned(batch[e].pre) \subseteq Ordinal
        BY DEF TypeInv, BatchRecord, Learned, Generator
      <4> QED
        BY <1>1, <1>7, <2>3, <4>1 DEF GeneratorInv, PlansInv, BatchesBlind
    <3>4. OneSnapshot'
      BY <1>7, <2>2, <2>3, <2>6 DEF GeneratorInv, PlansInv, OneSnapshot
    <3>5. ProposalsBlind'
      <4> SUFFICES ASSUME NEW o \in Ordinal, proposal'[o] # None
                   PROVE  /\ proposal'[o].epoch \in Epoch
                          /\ \A p \in Learned(proposal'[o].gen) :
                               proposal'[p] # None /\ proposal'[p].epoch < proposal'[o].epoch
        BY DEF ProposalsBlind
      <4>1. CASE o = cur
        <5>1. \A p \in Learned(gen) : p \in Ordinal /\ p # cur
                /\ proposal[p] # None /\ proposal[p].epoch < campaign.nextEpoch
          BY <1>7, <2>4, <2>5
        <5> QED
          BY <1>3, <2>2, <2>3, <4>1, <5>1
      <4>2. CASE o # cur
        <5>1. proposal'[o] = proposal[o]
          BY <2>3, <4>2
        <5>2. /\ proposal[o].epoch \in Epoch
              /\ \A p \in Learned(proposal[o].gen) :
                   proposal[p] # None /\ proposal[p].epoch < proposal[o].epoch
          BY <5>1 DEF GeneratorInv, PlansInv, ProposalsBlind
        <5>3. Learned(proposal[o].gen) \subseteq Ordinal
          BY <5>1 DEF TypeInv, ProposalRecord, Learned, Generator
        <5>4. \A p \in Learned(proposal[o].gen) : proposal'[p] = proposal[p]
          BY <1>7, <2>3, <5>2, <5>3
        <5> QED
          BY <5>1, <5>2, <5>4
      <4> QED
        BY <4>1, <4>2
    <3>6. CandidatesFromBatch'
      <4> SUFFICES ASSUME NEW o \in Ordinal, proposal'[o] # None,
                          proposal'[o].candidate # "failure"
                   PROVE  /\ batch[proposal'[o].epoch] # None
                          /\ proposal'[o].candidate = batch[proposal'[o].epoch].results[o]
                          /\ proposal'[o].gen.folded = batch[proposal'[o].epoch].pre.folded
        BY <1>1 DEF CandidatesFromBatch
      <4>1. CASE o = cur
        BY <2>2, <2>3, <2>7, <4>1 DEF ThisBatch
      <4>2. CASE o # cur
        BY <2>3, <4>2 DEF GeneratorInv, PlansInv, CandidatesFromBatch
      <4> QED
        BY <4>1, <4>2
    <3> QED
      BY <3>1, <3>2, <3>3, <3>4, <3>5, <3>6 DEF PlansInv
  <2>9. SavedBetweenEpochs'
    <3> SUFFICES ASSUME NEW o \in Ordinal, proposal'[o] # None,
                        proposal'[o].epoch = campaign.nextEpoch
                 PROVE  OnOneSide(proposal'[o].gen)
      BY <1>1, <1>4 DEF GeneratorInv, SavedBetweenEpochs, OnOneSide
    <3>1. CASE o = cur
      BY <1>2, <2>2, <2>3, <3>1
    <3>2. CASE o # cur
      BY <1>1, <2>3, <3>2 DEF GeneratorInv, SavedBetweenEpochs
    <3> QED
      BY <3>1, <3>2
  <2>10. SavedInEpoch' /\ SavedCommitted'
    BY <1>1 DEF GeneratorInv, SavedInEpoch, SavedCommitted
  <2>11. MemoryInSlots'
    <3>1. \A o \in Slots : o < cur + 1 => proposal'[o].gen = gen
      BY <1>1, <1>2, <1>5, <2>2, <2>3
    <3> QED
      BY <1>1, <1>4, <2>1, <3>1 DEF GeneratorInv, MemoryInSlots
  <2>12. MemoryBetweenEpochs' /\ MemoryInEpoch'
    BY <1>1, <1>2, <1>4, <2>1 DEF MemoryBetweenEpochs, MemoryInEpoch, OnOneSide
  <2> QED
    BY <2>8, <2>9, <2>10, <2>11, <2>12 DEF GeneratorInv
<1> QED
  BY <1>6, <1>7

LEMMA SaveEpochGenerator ==
  ASSUME TypeInv, PlanInv, MainInv, GeneratorInv, SaveEpoch
  PROVE  GeneratorInv'
<1>1. /\ campaign.active = None /\ pc = "slots" /\ pc' = "failures" /\ Slots \subseteq Ordinal
  BY SlotFacts DEF SaveEpoch, MainInv, Planning
<1>2. OnOneSide(gen)
  BY <1>1 DEF GeneratorInv, MemoryBetweenEpochs, Running, MainControl
<1>3. /\ campaign'.attempts = campaign.attempts
      /\ campaign'.gen = gen /\ gen' = gen
      /\ campaign'.active = [epoch |-> campaign.nextEpoch, slots |-> Slots]
      /\ campaign'.nextEpoch = campaign.nextEpoch
      /\ UNCHANGED <<proposal, fold, batch>>
  BY SaveEpochEffect
<1>4. campaign'.active # None
  <2>1. [epoch |-> campaign.nextEpoch, slots |-> Slots] \in EpochRecord
    BY <1>1, CampaignParts DEF EpochRecord
  <2> QED
    BY <1>3, <2>1, NotNone
<1>5. ThisBatch' = ThisBatch /\ OpenSlots' = Slots
  BY <1>3, <1>4 DEF ThisBatch, OpenSlots
<1>6. Learned(gen) \subseteq campaign.attempts
  BY <1>2, SnapshotFacts
<1>7. \A o \in Slots : proposal[o].gen = gen
  <2>1. cur \in Nat /\ campaign.nextOrdinal <= cur /\ cur \notin Slots
    BY DEF SaveEpoch, MainInv, Planning
  <2>2. \A o \in Slots : o < cur
    BY <2>1, SlotFacts, CampaignParts
  <2> QED
    BY <1>1, <2>2 DEF GeneratorInv, MemoryInSlots
<1>8. PlansInv'
  BY <1>3, PlansKept
<1>9. SavedBetweenEpochs' /\ SavedInEpoch' /\ SavedCommitted'
  BY <1>3, <1>4, <1>5, <1>6, <1>7
     DEF GeneratorInv, SavedBetweenEpochs, SavedInEpoch, SavedCommitted, OfOpenEpoch
<1>10. MemoryBetweenEpochs' /\ MemoryInSlots' /\ MemoryInEpoch'
  BY <1>1, <1>3, <1>4, <1>5, <1>6, <1>7
     DEF MemoryBetweenEpochs, MemoryInSlots, MemoryInEpoch, OfOpenEpoch
<1> QED
  BY <1>8, <1>9, <1>10 DEF GeneratorInv

LEMMA CommitGenerator ==
  ASSUME TypeInv, PlanInv, MainInv, GeneratorInv, Commit
  PROVE  GeneratorInv'
<1>1. /\ campaign'.attempts = campaign.attempts \cup {cur}
      /\ campaign'.iterations = campaign.iterations
      /\ campaign'.gen = IF cur \in campaign.attempts THEN campaign.gen ELSE proposal[cur].gen
      /\ campaign'.active = campaign.active /\ campaign'.nextEpoch = campaign.nextEpoch
      /\ cur \in campaign.attempts => campaign' = campaign
      /\ UNCHANGED <<proposal, fold, batch, gen>>
      /\ campaign'.pending =
           IF cur \notin campaign.attempts /\ ConsumesBudget(receipt[cur]) THEN cur
           ELSE campaign.pending
  BY CommitEffect
<1>2. /\ cur \in OpenSlots /\ cur \in Ordinal /\ campaign.active # None
      /\ pc = "commit" /\ proposal[cur] # None
  BY OpenEpoch DEF Commit, TypeInv, Reducing, OpenSlots
<1>3. /\ OfOpenEpoch(proposal[cur].gen)
      /\ Learned(proposal[cur].gen) \subseteq campaign.attempts
  BY <1>2, UncommittedProposal
<1>4. pc' # "slots"
  BY DEF Commit, AfterCommit
<1>5. ThisBatch' = ThisBatch /\ OpenSlots' = OpenSlots /\ OpenJobs' = OpenJobs
      /\ OpenFailures' = OpenFailures
  BY <1>1, SameViews DEF ThisBatch
<1>6. NoJobCommitted' => NoJobCommitted /\ cur \in Failed
  BY <1>1, <1>2, <1>5 DEF NoJobCommitted, OpenJobs
<1>7. /\ Learned(gen) \subseteq campaign.attempts
      /\ NoJobCommitted => OfOpenEpoch(gen)
      /\ AllCommitted /\ campaign.pending = None => gen = campaign.gen
  BY <1>2 DEF GeneratorInv, MemoryInEpoch, Running, MainControl
<1>8. PlansInv'
  BY <1>1, PlansKept
<1>9. SavedBetweenEpochs' /\ SavedInEpoch'
  BY <1>1, <1>2, <1>3, <1>5, <1>6
     DEF GeneratorInv, SavedBetweenEpochs, SavedInEpoch, OfOpenEpoch
<1>10. SavedCommitted'
  BY <1>1, <1>3 DEF GeneratorInv, SavedCommitted
<1>11. pc' # "save" /\ AllCommitted' /\ campaign'.pending = None => gen = campaign'.gen
  <2>1. CASE cur \in campaign.attempts
    <3>1. AllCommitted' => AllCommitted
      BY <1>1, <1>5, <2>1 DEF AllCommitted
    <3> QED
      BY <1>1, <1>7, <2>1, <3>1
  <2>2. CASE cur \notin campaign.attempts /\ cur \notin Failed
    <3>1. pc' # "save" => ConsumesBudget(receipt[cur])
      BY <1>1, <1>2, <2>2 DEF Commit, AfterCommit, Failed
    <3> QED
      BY <1>1, <1>2, <2>2, <3>1, NotNone
  <2>3. CASE cur \notin campaign.attempts /\ cur \in Failed
    <3>1. cur \in OpenFailures
      BY <1>2, <2>3 DEF OpenFailures
    <3>2. NoJobCommitted
      BY <2>3, <3>1 DEF PlanInv, ReducedInOrder, NoJobCommitted
    <3> QED
      BY <1>1, <1>2, <1>7, <2>3, <3>2 DEF OfOpenEpoch
  <2> QED
    BY <2>1, <2>2, <2>3
<1>12. MemoryBetweenEpochs' /\ MemoryInSlots' /\ MemoryInEpoch'
  BY <1>1, <1>2, <1>4, <1>5, <1>6, <1>7, <1>11
     DEF MemoryBetweenEpochs, MemoryInSlots, MemoryInEpoch, OfOpenEpoch
<1> QED
  BY <1>8, <1>9, <1>10, <1>12 DEF GeneratorInv

\* While an executed candidate is settled, its epoch has learned what is committed.
LEMMA SettlingMemory ==
  ASSUME TypeInv, PlanInv, MainInv, GeneratorInv, pc \in Settling
  PROVE  /\ cur \in OpenSlots /\ cur \in OpenJobs /\ cur \in Ordinal
         /\ cur \in campaign.attempts /\ campaign.active # None /\ ~NoJobCommitted
         /\ gen \in Generator /\ Learned(gen) \subseteq campaign.attempts
<1>1. pc \in Reducing /\ pc \in Running
  BY DEF Settling, Reducing, Running, MainControl
<1>2. /\ cur \in OpenSlots /\ cur \in Ordinal /\ cur \in campaign.attempts /\ cur \notin Failed
  BY <1>1, OpenEpoch DEF TypeInv, MainInv, Current, CurrentStage
<1>3. cur \in OpenJobs /\ campaign.active # None /\ ~NoJobCommitted
  BY <1>2 DEF OpenJobs, OpenSlots, NoJobCommitted
<1> QED
  BY <1>1, <1>2, <1>3 DEF TypeInv, GeneratorInv, MemoryInEpoch

LEMMA SaveUnchargedGenerator ==
  ASSUME TypeInv, PlanInv, MainInv, GeneratorInv, SaveUncharged
  PROVE  GeneratorInv'
<1>1. /\ campaign'.attempts = campaign.attempts /\ campaign'.gen = gen
      /\ campaign'.iterations = campaign.iterations
      /\ campaign'.active = campaign.active /\ campaign'.nextEpoch = campaign.nextEpoch
      /\ UNCHANGED <<proposal, fold, batch, gen>> /\ pc' # "slots"
  BY SavedEffect DEF SaveUncharged
<1>2. /\ cur \in OpenSlots /\ cur \in OpenJobs /\ cur \in Ordinal
      /\ cur \in campaign.attempts /\ campaign.active # None /\ ~NoJobCommitted
      /\ gen \in Generator /\ Learned(gen) \subseteq campaign.attempts
  BY SettlingMemory DEF SaveUncharged, Settling
<1>3. /\ ThisBatch' = ThisBatch /\ OpenSlots' = OpenSlots /\ OpenJobs' = OpenJobs
      /\ NoJobCommitted' = NoJobCommitted
  BY <1>1, SameViews DEF ThisBatch, NoJobCommitted
<1>4. PlansInv'
  BY <1>1, PlansKept
<1>5. SavedBetweenEpochs' /\ SavedInEpoch' /\ SavedCommitted'
  BY <1>1, <1>2, <1>3 DEF GeneratorInv, SavedBetweenEpochs, SavedInEpoch, SavedCommitted
<1>6. MemoryBetweenEpochs' /\ MemoryInSlots' /\ MemoryInEpoch'
  BY <1>1, <1>2, <1>3 DEF MemoryBetweenEpochs, MemoryInSlots, MemoryInEpoch
<1> QED
  BY <1>4, <1>5, <1>6 DEF GeneratorInv

LEMMA CallFoldGenerator ==
  ASSUME TypeInv, PlanInv, MainInv, GeneratorInv,
         NEW status \in {"folded", "error"}, NEW absorbed \in BOOLEAN,
         CallFold(status, absorbed)
  PROVE  GeneratorInv'
<1>1. /\ pc = "fold" /\ pc' # "slots" /\ UNCHANGED <<campaign, batch, proposal, fold>>
      /\ gen' = IF absorbed THEN Fold(gen, cur) ELSE gen
  BY DEF CallFold, FoldOnto, plans, reduceFiles
<1>2. /\ cur \in OpenSlots /\ cur \in OpenJobs /\ cur \in Ordinal
      /\ cur \in campaign.attempts /\ campaign.active # None /\ ~NoJobCommitted
      /\ gen \in Generator /\ Learned(gen) \subseteq campaign.attempts
  BY <1>1, SettlingMemory DEF Settling
<1>3. campaign.pending # None
  BY <1>1, <1>2, NotNone DEF MainInv, CurrentStage
<1>4. Learned(gen') \subseteq campaign.attempts
  BY <1>1, <1>2, FoldEffect
<1>5. /\ ThisBatch' = ThisBatch /\ OpenSlots' = OpenSlots /\ OpenJobs' = OpenJobs
      /\ NoJobCommitted' = NoJobCommitted /\ Slots' = Slots
  BY <1>1, SameViews, SameSlots DEF ThisBatch, NoJobCommitted
<1>6. PlansInv'
  BY <1>1, PlansKept
<1>7. SavedBetweenEpochs' /\ SavedInEpoch' /\ SavedCommitted'
  BY <1>1, <1>2, <1>5 DEF GeneratorInv, SavedBetweenEpochs, SavedInEpoch, SavedCommitted
<1>8. MemoryBetweenEpochs' /\ MemoryInSlots' /\ MemoryInEpoch'
  BY <1>1, <1>2, <1>3, <1>4, <1>5 DEF MemoryBetweenEpochs, MemoryInSlots, MemoryInEpoch
<1> QED
  BY <1>6, <1>7, <1>8 DEF GeneratorInv

LEMMA PublishFoldGenerator ==
  ASSUME TypeInv, PlanInv, MainInv, GeneratorInv, PublishFold
  PROVE  GeneratorInv'
<1>1. /\ pc = "foldReceipt" /\ pc' # "slots" /\ UNCHANGED <<campaign, batch, proposal, gen>>
      /\ fold' = [fold EXCEPT ![cur] = [status |-> out, gen |-> gen]]
  BY DEF PublishFold, plans
<1>2. /\ cur \in OpenSlots /\ cur \in OpenJobs /\ cur \in Ordinal
      /\ cur \in campaign.attempts /\ campaign.active # None /\ ~NoJobCommitted
      /\ gen \in Generator /\ Learned(gen) \subseteq campaign.attempts
  BY <1>1, SettlingMemory DEF Settling
<1>3. campaign.pending # None
  BY <1>1, <1>2, NotNone DEF MainInv, CurrentStage
<1>4. \A o \in Ordinal : fold'[o] # None =>
        (o = cur /\ fold'[o].gen = gen) \/ (fold[o] # None /\ fold'[o] = fold[o])
  BY <1>1, <1>2 DEF TypeInv
<1>5. /\ ThisBatch' = ThisBatch /\ OpenSlots' = OpenSlots /\ OpenJobs' = OpenJobs
      /\ NoJobCommitted' = NoJobCommitted
  BY <1>1, SameViews DEF ThisBatch, NoJobCommitted
<1>6. PlansInv'
  BY <1>1, PlansKept
<1>7. SavedBetweenEpochs' /\ SavedInEpoch'
  BY <1>1, <1>2, <1>4, <1>5, CampaignParts DEF GeneratorInv, SavedBetweenEpochs, SavedInEpoch
<1>8. SavedCommitted'
  BY <1>1, <1>2, <1>4 DEF GeneratorInv, SavedCommitted
<1>9. MemoryBetweenEpochs' /\ MemoryInSlots' /\ MemoryInEpoch'
  BY <1>1, <1>2, <1>3, <1>5 DEF MemoryBetweenEpochs, MemoryInSlots, MemoryInEpoch
<1> QED
  BY <1>6, <1>7, <1>8, <1>9 DEF GeneratorInv

LEMMA FinalizeGenerator ==
  ASSUME TypeInv, PlanInv, MainInv, GeneratorInv, Finalize
  PROVE  GeneratorInv'
<1>1. /\ campaign'.attempts = campaign.attempts
      /\ campaign'.gen = fold[cur].gen /\ gen' = fold[cur].gen
      /\ campaign'.active = campaign.active /\ campaign'.nextEpoch = campaign.nextEpoch
      /\ UNCHANGED <<proposal, fold, batch>> /\ pc' # "slots"
  BY FinalizeEffect DEF Finalize
<1>2. /\ cur \in OpenSlots /\ cur \in OpenJobs /\ cur \in Ordinal
      /\ cur \in campaign.attempts /\ campaign.active # None /\ ~NoJobCommitted
      /\ gen \in Generator /\ Learned(gen) \subseteq campaign.attempts
  BY SettlingMemory DEF Finalize, Settling
<1>3. fold[cur] # None
  BY DEF Finalize, MainInv, CurrentStage
<1>4. Learned(fold[cur].gen) \subseteq campaign.attempts
  BY <1>2, <1>3 DEF GeneratorInv, SavedInEpoch, SavedCommitted
<1>5. /\ ThisBatch' = ThisBatch /\ OpenSlots' = OpenSlots /\ OpenJobs' = OpenJobs
      /\ NoJobCommitted' = NoJobCommitted
  <2>1. ThisBatch' = ThisBatch /\ OpenSlots' = OpenSlots /\ Failed' = Failed
    BY <1>1 DEF ThisBatch, OpenSlots, Failed
  <2> QED
    BY <1>1, <2>1 DEF OpenJobs, NoJobCommitted
<1>6. PlansInv'
  BY <1>1, PlansKept
<1>7. SavedBetweenEpochs' /\ SavedInEpoch' /\ SavedCommitted'
  BY <1>1, <1>2, <1>4, <1>5 DEF GeneratorInv, SavedBetweenEpochs, SavedInEpoch, SavedCommitted
<1>8. MemoryBetweenEpochs' /\ MemoryInSlots' /\ MemoryInEpoch'
  BY <1>1, <1>2, <1>4, <1>5 DEF MemoryBetweenEpochs, MemoryInSlots, MemoryInEpoch
<1> QED
  BY <1>6, <1>7, <1>8 DEF GeneratorInv

LEMMA EndEpochGenerator ==
  ASSUME TypeInv, PlanInv, MainInv, GeneratorInv, EndEpoch
  PROVE  GeneratorInv'
<1>1. /\ campaign.active # None /\ campaign.active.epoch = campaign.nextEpoch
      /\ campaign.nextEpoch < campaign.nextOrdinal /\ campaign.nextOrdinal <= MaxAttempts
      /\ pc = "workers"
  BY DEF EndEpoch, MainInv, EpochOpen, PlanInv, EpochsInOrder
<1>2. OpenSlots \subseteq campaign.attempts /\ OpenJobs \subseteq progress
  <2>1. OpenJobs \subseteq progress
    BY <1>1, OpenEpoch DEF EndEpoch
  <2>2. OpenJobs \subseteq campaign.attempts
    BY <2>1 DEF PlanInv, ProgressCommitted
  <2>3. OpenFailures \subseteq campaign.attempts
    BY DEF EndEpoch, MainInv, EpochOpen
  <2> QED
    BY <2>1, <2>2, <2>3 DEF OpenJobs, OpenFailures
<1>3. campaign.pending = None
  BY <1>2 DEF PlanInv, PendingOpen, Pending
<1>4. /\ campaign'.attempts = campaign.attempts /\ campaign'.gen = campaign.gen
      /\ campaign'.active = None /\ campaign'.nextEpoch = campaign.nextEpoch + 1
      /\ UNCHANGED <<proposal, fold, batch, gen>> /\ pc' \in {"abort", "loop"}
  BY <1>1, EndEpochEffect
<1>5. campaign.nextEpoch \in Nat /\ campaign.nextEpoch + 1 \in Epoch
  BY <1>1, CampaignParts, BoundAssumption DEF Epoch
<1>6. \A e \in Epoch : batch[e] # None => e <= campaign.nextEpoch
  BY DEF GeneratorInv, PlansInv, BatchesInOrder
<1>7. ThisBatch' = None
  <2>1. ~(campaign.nextEpoch + 1 <= campaign.nextEpoch)
    BY <1>5
  <2>2. batch[campaign.nextEpoch + 1] = None
    BY <1>5, <1>6, <2>1
  <2> QED
    BY <1>4, <2>2 DEF ThisBatch
<1>8. gen = campaign.gen
  BY <1>1, <1>2, <1>3 DEF GeneratorInv, MemoryInEpoch, AllCommitted, Running, MainControl
<1>9. PlansInv'
  <2>1. \A e \in Epoch : e <= campaign.nextEpoch => e <= campaign.nextEpoch + 1
    BY <1>5, BoundAssumption DEF Epoch
  <2>2. BatchesInOrder'
    BY <1>4, <1>6, <2>1 DEF BatchesInOrder
  <2> QED
    BY <1>4, <2>2 DEF GeneratorInv, PlansInv, ProposedInOrder, BatchesBlind, OneSnapshot,
                      ProposalsBlind, CandidatesFromBatch
<1>10. ASSUME NEW o \in Ordinal, proposal[o] # None PROVE proposal[o].epoch # campaign'.nextEpoch
  <2>1. o < campaign.nextOrdinal
    BY <1>1, <1>10 DEF PlanInv, ProposalsPlanned
  <2>2. /\ proposal[o].epoch = campaign.nextEpoch \/ proposal[o].epoch < campaign.nextEpoch
        /\ proposal[o].epoch \in Nat
    BY <1>10, <2>1 DEF PlanInv, ProposalsPlanned, TypeInv, ProposalRecord
  <2> QED
    BY <1>4, <1>5, <2>2
<1>11. SavedBetweenEpochs' /\ SavedInEpoch' /\ SavedCommitted'
  BY <1>1, <1>4, <1>7, <1>10
     DEF GeneratorInv, SavedBetweenEpochs, SavedInEpoch, SavedCommitted
<1>12. MemoryBetweenEpochs' /\ MemoryInSlots' /\ MemoryInEpoch'
  BY <1>4, <1>8 DEF MemoryBetweenEpochs, MemoryInSlots, MemoryInEpoch, OnOneSide
<1> QED
  BY <1>9, <1>11, <1>12 DEF GeneratorInv

LEMMA GeneratorStep ==
  ASSUME TypeInv, PlanInv, MainInv, WorkersInv, GeneratorInv, [Next]_vars
  PROVE  GeneratorInv'
<1> USE DEF plans, reduceFiles, main
<1>1. CASE \E o \in Ordinal : WorkerStep(o)
  <2>1. PICK o \in Ordinal : WorkerStep(o)
    BY <1>1
  <2>2. UNCHANGED <<campaign, batch, proposal, fold, gen>> /\ (pc' = pc \/ pc' = "refused")
    BY <2>1, WorkerFrame
  <2>3. pc # "save" /\ pc' # "slots" /\ "refused" \notin Running
    <3>1. pc \in {"workers", "refused"}
      BY <2>1, WorkerEffect DEF WorkersInv, WorkersInEpoch
    <3> QED
      BY <2>2, <3>1 DEF Running
  <2> QED
    BY <2>2, <2>3, SameSlots, GeneratorKept
<1>2. CASE Load \/ (\E results \in [Slots -> Candidates] : ProposeEpoch(results))
           \/ ProposeFails
  BY <1>2, LoadGenerator, ProposeEpochGenerator, ProposeFailsGenerator
<1>3. CASE ResumeEpoch \/ TakeFailure \/ StartWorkers \/ TakeResult
  <2>1. /\ UNCHANGED <<campaign, batch, proposal, fold, gen>>
        /\ pc \in {"loop", "failures", "workers"} /\ campaign.active # None /\ pc' # "slots"
    BY <1>3 DEF ResumeEpoch, TakeFailure, StartWorkers, TakeResult, MainInv, EpochOpen
  <2> QED
    BY <2>1, SameSlots, GeneratorKept DEF Running, MainControl
<1>4. CASE PublishReceipt \/ Cleanup \/ PublishProgress
  <2>1. /\ UNCHANGED <<campaign, batch, proposal, fold, gen>>
        /\ pc \in {"receipt", "cleanup", "progress"} /\ pc' # "slots"
    BY <1>4 DEF PublishReceipt, Cleanup, PublishProgress
  <2>2. campaign.active # None
    BY <2>1 DEF TypeInv, Reducing, OpenSlots
  <2> QED
    BY <2>1, <2>2, SameSlots, GeneratorKept DEF Running, MainControl
<1>5. CASE PublishProposal \/ SaveEpoch \/ Commit \/ SaveUncharged
  BY <1>5, PublishProposalGenerator, SaveEpochGenerator, CommitGenerator,
     SaveUnchargedGenerator
<1>6. CASE (\E status \in {"folded", "error"}, absorbed \in BOOLEAN : CallFold(status, absorbed))
           \/ PublishFold \/ Finalize \/ EndEpoch
  BY <1>6, CallFoldGenerator, PublishFoldGenerator, FinalizeGenerator, EndEpochGenerator
<1>7. CASE Finish
  <2>1. /\ campaign'.attempts = campaign.attempts /\ campaign'.active = campaign.active
        /\ campaign'.iterations = campaign.iterations
        /\ campaign'.nextEpoch = campaign.nextEpoch /\ campaign'.gen = campaign.gen
        /\ campaign'.nextOrdinal = campaign.nextOrdinal
        /\ campaign'.pending = campaign.pending
        /\ UNCHANGED <<batch, proposal, fold, gen>> /\ pc' = "done"
    BY <1>7, SavedEffect DEF Finish
  <2> QED
    BY <2>1, SameSlots, GeneratorKept DEF Running
<1>8. CASE Crash \/ CleanupError \/ Restart
  <2>1. /\ UNCHANGED <<campaign, batch, proposal, fold>> /\ pc' \in {"down", "load"}
    BY <1>8 DEF Crash, CleanupError, Forget, Restart
  <2>2. /\ ThisBatch' = ThisBatch /\ OpenSlots' = OpenSlots /\ OpenJobs' = OpenJobs
        /\ NoJobCommitted' = NoJobCommitted /\ Slots' = Slots
    BY <2>1, SameViews, SameSlots DEF ThisBatch, NoJobCommitted
  <2>3. PlansInv'
    BY <2>1, PlansKept
  <2>4. SavedBetweenEpochs' /\ SavedInEpoch' /\ SavedCommitted'
    BY <2>1, <2>2 DEF GeneratorInv, SavedBetweenEpochs, SavedInEpoch, SavedCommitted, OnOneSide,
                      OfOpenEpoch
  <2>5. MemoryBetweenEpochs' /\ MemoryInSlots' /\ MemoryInEpoch'
    BY <2>1 DEF MemoryBetweenEpochs, MemoryInSlots, MemoryInEpoch, Running
  <2> QED
    BY <2>3, <2>4, <2>5 DEF GeneratorInv
<1>9. CASE Terminated \/ UNCHANGED vars
  <2>1. UNCHANGED <<campaign, batch, proposal, fold, gen, pc, cur, out>>
    BY <1>9 DEF Terminated, vars
  <2>2. /\ ThisBatch' = ThisBatch /\ OpenSlots' = OpenSlots /\ OpenJobs' = OpenJobs
        /\ NoJobCommitted' = NoJobCommitted /\ AllCommitted' = AllCommitted /\ Slots' = Slots
    BY <2>1, SameViews, SameSlots DEF ThisBatch, NoJobCommitted, AllCommitted
  <2>3. PlansInv'
    BY <2>1, PlansKept
  <2>4. SavedBetweenEpochs' /\ SavedInEpoch' /\ SavedCommitted'
    BY <2>1, <2>2 DEF GeneratorInv, SavedBetweenEpochs, SavedInEpoch, SavedCommitted, OnOneSide,
                      OfOpenEpoch
  <2>5. MemoryBetweenEpochs' /\ MemoryInSlots' /\ MemoryInEpoch'
    BY <2>1, <2>2 DEF GeneratorInv, MemoryBetweenEpochs, MemoryInSlots, MemoryInEpoch,
                      OnOneSide, OfOpenEpoch
  <2> QED
    BY <2>3, <2>4, <2>5 DEF GeneratorInv
<1> QED
  BY <1>1, <1>2, <1>3, <1>4, <1>5, <1>6, <1>7, <1>8, <1>9 DEF Next, MainStep

-----------------------------------------------------------------------------
(* The budget, and the order of the iterations *)

LEMMA BudgetInit == Init => BudgetInv /\ FoldsInCandidateOrder
<1> SUFFICES ASSUME Init PROVE BudgetInv /\ FoldsInCandidateOrder
  OBVIOUS
<1>1. Counted = 0 /\ campaign.active = None
  BY DEF Init, Counted
<1>2. 1 .. Counted = {} /\ Counted <= Budget
  BY <1>1, BudgetAssumption
<1> QED
  BY <1>1, <1>2 DEF BudgetInv, PhaseByPosition, BudgetLeft, FoldsInCandidateOrder

LEMMA SlotsAreFinite ==
  ASSUME TypeInv
  PROVE  /\ IsFiniteSet(Ordinal) /\ IsFiniteSet(OpenSlots \ Iterated)
         /\ Cardinality(OpenSlots \ Iterated) \in Nat
<1>1. IsFiniteSet(Ordinal)
  BY FS_Interval, BoundAssumption DEF Ordinal
<1>2. OpenSlots \ Iterated \in SUBSET Ordinal
  BY CampaignParts
<1> QED
  BY <1>1, <1>2, FS_Subset, FS_CardinalityType

\* A step that leaves the iterations and the epoch alone, and what was proposed.
LEMMA BudgetKept ==
  ASSUME TypeInv, PlanInv, BudgetInv, FoldsInCandidateOrder,
         campaign'.iterations = campaign.iterations,
         OpenSlots' = OpenSlots, campaign'.active # None => campaign.active # None,
         \A o \in Ordinal : proposal[o] # None => proposal'[o] = proposal[o]
  PROVE  BudgetInv' /\ FoldsInCandidateOrder'
<1>1. Counted' = Counted /\ Iterated' = Iterated
  BY DEF Counted, Iterated
<1>2. ASSUME NEW i \in 1 .. Counted
      PROVE  proposal'[campaign.iterations[i]] = proposal[campaign.iterations[i]]
  <2>1. campaign.iterations[i] \in Iterated
    BY DEF Iterated
  <2>2. campaign.iterations[i] \in Ordinal /\ campaign.iterations[i] < campaign.nextOrdinal
    BY <2>1, CampaignParts DEF PlanInv, ChargesListed, CommitsRecorded
  <2> QED
    BY <2>2 DEF PlanInv, ProposalsPlanned
<1>3. \A o \in OpenSlots : proposal'[o] = proposal[o]
  BY OpenEpoch
<1>4. PhaseByPosition' /\ FoldsInCandidateOrder'
  BY <1>1, <1>2 DEF BudgetInv, PhaseByPosition, FoldsInCandidateOrder
<1>5. BudgetLeft'
  BY <1>1, <1>3 DEF BudgetInv, BudgetLeft
<1> QED
  BY <1>4, <1>5 DEF BudgetInv

LEMMA SaveEpochBudget ==
  ASSUME TypeInv, PlanInv, MainInv, BudgetInv, FoldsInCandidateOrder, SaveEpoch
  PROVE  BudgetInv' /\ FoldsInCandidateOrder'
<1>1. /\ campaign.active = None /\ Counted < Budget /\ Counted \in Nat
      /\ Capacity \in Nat \ {0} /\ Capacity <= Budget - Counted
      /\ IF Phase = "bootstrap" THEN Capacity <= Bootstrap - Counted ELSE Bootstrap <= Counted
      /\ Phase \in {"bootstrap", "explore"}
      /\ Slots \subseteq Ordinal
      /\ \A o \in Slots : o \in Nat /\ campaign.nextOrdinal <= o
  BY SlotFacts, CampaignParts DEF SaveEpoch, MainInv, Planning
<1>2. /\ campaign'.iterations = campaign.iterations
      /\ campaign'.active = [epoch |-> campaign.nextEpoch, slots |-> Slots]
      /\ proposal' = proposal
  BY SaveEpochEffect
<1>3. campaign'.active # None
  <2>1. [epoch |-> campaign.nextEpoch, slots |-> Slots] \in EpochRecord
    BY <1>1, CampaignParts DEF EpochRecord
  <2> QED
    BY <1>2, <2>1, NotNone
<1>4. Counted' = Counted /\ Iterated' = Iterated /\ OpenSlots' = Slots
  BY <1>2, <1>3 DEF Counted, Iterated, OpenSlots
<1>5. \A o \in Slots : ~(o < campaign.nextOrdinal) /\ o \notin Iterated
  <2>1. \A o \in Slots : ~(o < campaign.nextOrdinal)
    BY <1>1, CampaignParts
  <2>2. \A o \in Iterated : o \in Ordinal /\ o < campaign.nextOrdinal
    BY CampaignParts DEF PlanInv, ChargesListed, CommitsRecorded
  <2> QED
    BY <2>1, <2>2
<1>6. \A o \in Slots : proposal[o].phase = Phase
  <2>1. cur \in Nat /\ campaign.nextOrdinal <= cur /\ cur \notin Slots
    BY DEF SaveEpoch, MainInv, Planning
  <2>2. ASSUME NEW o \in Slots PROVE o < cur
    <3>1. /\ o \in Nat /\ o < campaign.nextOrdinal + Capacity
          /\ ~(cur < campaign.nextOrdinal + Capacity)
      BY <2>1, SlotFacts
    <3> QED
      BY <1>1, <2>1, <3>1, CampaignParts
  <2>3. \A o \in Slots : proposal[o] # None
    BY <2>2 DEF SaveEpoch, MainInv, Planning
  <2> QED
    BY <1>1, <1>5, <2>3 DEF PlanInv, ProposalsPlanned
<1>7. Cardinality(Slots) = Capacity
  <2> DEFINE a == campaign.nextOrdinal
             b == campaign.nextOrdinal + Capacity - 1
  <2>1. a \in Nat /\ b \in Int /\ ~(a > b) /\ b - a + 1 = Capacity /\ Slots = a .. b
    BY <1>1, CampaignParts DEF Slots
  <2> HIDE DEF a, b
  <2>2. Cardinality(a .. b) = IF a > b THEN 0 ELSE b - a + 1
    BY <2>1, FS_Interval
  <2> QED
    BY <2>1, <2>2
<1>8. Cardinality(OpenSlots' \ Iterated') = Capacity
  <2>1. Slots \ Iterated = Slots
    BY <1>5
  <2> QED
    BY <1>4, <1>7, <2>1
<1>9. PhaseByPosition' /\ FoldsInCandidateOrder'
  BY <1>2, <1>4 DEF BudgetInv, PhaseByPosition, FoldsInCandidateOrder
<1>10. BudgetLeft'
  <2>1. /\ Counted + Capacity <= Budget /\ Counted <= Budget
        /\ Phase = "bootstrap" => Counted + Capacity <= Bootstrap
    BY <1>1, BudgetAssumption
  <2>2. CASE Phase = "bootstrap"
    BY <1>2, <1>4, <1>6, <1>8, <2>1, <2>2 DEF BudgetLeft
  <2>3. CASE Phase = "explore"
    BY <1>1, <1>2, <1>4, <1>6, <1>8, <2>1, <2>3 DEF BudgetLeft
  <2> QED
    BY <1>1, <2>2, <2>3
<1> QED
  BY <1>9, <1>10 DEF BudgetInv

\* The candidate that is finalized comes after all that were: they belong to earlier
\* epochs, or were reduced before it in its own.
LEMMA FinalizedLast ==
  ASSUME TypeInv, PlanInv, MainInv, Finalize, NEW o \in Iterated
  PROVE  \/ proposal[o].epoch < proposal[cur].epoch
         \/ proposal[o].epoch = proposal[cur].epoch /\ Rank[o] < Rank[cur]
<1>1. /\ cur \in Ordinal /\ cur \in OpenJobs /\ cur \notin Iterated
  BY IterationsGrow
<1>2. proposal[cur].epoch = campaign.nextEpoch
  BY <1>1, OpenEpoch DEF OpenJobs
<1>3. o \in Charges /\ o \in campaign.attempts /\ o \in Ordinal
  BY CampaignParts DEF PlanInv, ChargesListed
<1>4. o < campaign.nextOrdinal
  BY <1>3 DEF PlanInv, CommitsRecorded
<1>5. CASE o \notin OpenSlots
  BY <1>2, <1>3, <1>4, <1>5 DEF PlanInv, ProposalsPlanned
<1>6. CASE o \in OpenSlots
  <2>1. proposal[o].epoch = campaign.nextEpoch
    BY <1>6, OpenEpoch
  <2>2. o \notin Failed
    <3>1. ~ConsumesBudget("notStarted") /\ ~ConsumesBudget(None)
      BY NoneAssumption DEF ConsumesBudget, Result
    <3> QED
      BY <1>3, <3>1 DEF PlanInv, FailuresUncharged, Charges
  <2>3. o \in OpenJobs /\ \A p \in OpenJobs : Rank[p] < Rank[o] => p \in progress
    BY <1>3, <1>6, <2>2 DEF OpenJobs, PlanInv, ReducedInOrder
  <2>4. cur \notin progress
    BY <1>1 DEF MainInv, Current, Finalize, Reducing, OpenJobs
  <2>5. ~(Rank[cur] < Rank[o])
    BY <1>1, <2>3, <2>4
  <2>6. Rank[o] # Rank[cur]
    BY <1>1, <1>3, RankAssumption
  <2>7. Rank[o] \in Nat /\ Rank[cur] \in Nat
    BY <1>1, <1>3, RankAssumption
  <2> QED
    BY <1>2, <2>1, <2>5, <2>6, <2>7
<1> QED
  BY <1>5, <1>6

LEMMA FinalizeBudget ==
  ASSUME TypeInv, PlanInv, MainInv, BudgetInv, FoldsInCandidateOrder, Finalize
  PROVE  BudgetInv' /\ FoldsInCandidateOrder'
<1>1. /\ cur \in Ordinal /\ cur \in OpenJobs /\ cur \notin Iterated
      /\ Counted' = Counted + 1 /\ Counted \in Nat
      /\ \A i \in 1 .. Counted : campaign'.iterations[i] = campaign.iterations[i]
      /\ \A i \in 1 .. Counted : campaign.iterations[i] \in Iterated
      /\ campaign'.iterations[Counted + 1] = cur
      /\ Iterated' = Iterated \cup {cur}
  BY IterationsGrow
<1>2. /\ campaign'.active = campaign.active /\ proposal' = proposal
  BY FinalizeEffect
<1>3. cur \in OpenSlots /\ campaign.active # None /\ OpenSlots' = OpenSlots
  BY <1>1, <1>2 DEF OpenJobs, OpenSlots
<1>4. \A i \in 1 .. Counted' : i \in 1 .. Counted \/ i = Counted + 1
  BY <1>1
<1> DEFINE left == OpenSlots \ Iterated
           unfolded == Cardinality(left)
<1>5. /\ Cardinality(OpenSlots' \ Iterated') = unfolded - 1 /\ unfolded \in Nat
      /\ Cardinality(OpenSlots' \ Iterated') \in Nat
  <2>1. IsFiniteSet(left) /\ unfolded \in Nat /\ cur \in left
    BY <1>1, <1>3, SlotsAreFinite
  <2>2. OpenSlots' \ Iterated' = left \ {cur}
    BY <1>1, <1>3
  <2> HIDE DEF left
  <2>3. Cardinality(left \ {cur}) = Cardinality(left) - 1 /\ IsFiniteSet(left \ {cur})
    BY <2>1, FS_RemoveElement
  <2>4. Cardinality(left \ {cur}) \in Nat
    BY <2>3, FS_CardinalityType
  <2> QED
    BY <2>1, <2>2, <2>3, <2>4
<1> DEFINE unfoldedNext == Cardinality(OpenSlots' \ Iterated')
<1>6. /\ Counted <= Budget
      /\ \/ /\ \A o \in OpenSlots : proposal[o].phase = "bootstrap"
            /\ Counted + unfolded <= Bootstrap
         \/ /\ \A o \in OpenSlots : proposal[o].phase = "explore"
            /\ Bootstrap <= Counted /\ Counted + unfolded <= Budget
  BY <1>3 DEF BudgetInv, BudgetLeft
<1>7. BudgetLeft' <=>
        /\ Counted' <= Budget
        /\ campaign'.active # None =>
             \/ /\ \A o \in OpenSlots' : proposal'[o].phase = "bootstrap"
                /\ Counted' + unfoldedNext <= Bootstrap
             \/ /\ \A o \in OpenSlots' : proposal'[o].phase = "explore"
                /\ Bootstrap <= Counted' /\ Counted' + unfoldedNext <= Budget
  BY DEF BudgetLeft
<1> HIDE DEF unfolded, unfoldedNext
<1>8. Counted' + unfoldedNext = Counted + unfolded /\ 1 <= unfolded
  BY <1>1, <1>5 DEF unfoldedNext
<1>9. BudgetLeft'
  <2>1. CASE Counted + unfolded <= Bootstrap /\ \A o \in OpenSlots : proposal[o].phase = "bootstrap"
    <3>1. Counted + 1 <= Budget /\ Counted' + unfoldedNext <= Bootstrap
      BY <1>1, <1>5, <1>8, <2>1, BudgetAssumption
    <3> QED
      BY <1>1, <1>2, <1>3, <1>7, <2>1, <3>1
  <2>2. CASE /\ Bootstrap <= Counted /\ Counted + unfolded <= Budget
             /\ \A o \in OpenSlots : proposal[o].phase = "explore"
    <3>1. /\ Counted + 1 <= Budget /\ Counted' + unfoldedNext <= Budget
          /\ Bootstrap <= Counted + 1
      BY <1>1, <1>5, <1>8, <2>2, BudgetAssumption
    <3> QED
      BY <1>1, <1>2, <1>3, <1>7, <2>2, <3>1
  <2> QED
    BY <1>6, <2>1, <2>2
<1>10. proposal[cur].phase = "bootstrap" <=> Counted + 1 <= Bootstrap
  <2>1. CASE Counted + unfolded <= Bootstrap /\ \A o \in OpenSlots : proposal[o].phase = "bootstrap"
    <3>1. Counted + 1 <= Bootstrap
      BY <1>1, <1>5, <1>8, <2>1, BudgetAssumption
    <3> QED
      BY <1>3, <2>1, <3>1
  <2>2. CASE Bootstrap <= Counted /\ \A o \in OpenSlots : proposal[o].phase = "explore"
    <3>1. ~(Counted + 1 <= Bootstrap)
      BY <1>1, <2>2, BudgetAssumption
    <3> QED
      BY <1>3, <2>2, <3>1
  <2> QED
    BY <1>6, <2>1, <2>2
<1>11. PhaseByPosition'
  <2> SUFFICES ASSUME NEW i \in 1 .. Counted'
               PROVE  proposal[campaign'.iterations[i]].phase = "bootstrap" <=> i <= Bootstrap
    BY <1>2 DEF PhaseByPosition
  <2>1. CASE i \in 1 .. Counted
    BY <1>1, <2>1 DEF BudgetInv, PhaseByPosition
  <2>2. CASE i = Counted + 1
    BY <1>1, <1>10, <2>2
  <2> QED
    BY <1>4, <2>1, <2>2
<1>12. FoldsInCandidateOrder'
  <2> SUFFICES ASSUME NEW i \in 1 .. Counted', NEW j \in 1 .. Counted', i < j
               PROVE  LET o == campaign'.iterations[i]
                          p == campaign'.iterations[j]
                      IN  \/ proposal[o].epoch < proposal[p].epoch
                          \/ proposal[o].epoch = proposal[p].epoch /\ Rank[o] < Rank[p]
    BY <1>2 DEF FoldsInCandidateOrder
  <2>1. i \in 1 .. Counted
    BY <1>1
  <2>2. CASE j \in 1 .. Counted
    BY <1>1, <2>1, <2>2 DEF FoldsInCandidateOrder
  <2>3. CASE j = Counted + 1
    BY <1>1, <2>1, <2>3, FinalizedLast
  <2> QED
    BY <1>4, <2>2, <2>3
<1> QED
  BY <1>9, <1>11, <1>12 DEF BudgetInv

LEMMA BudgetStep ==
  ASSUME TypeInv, PlanInv, MainInv, BudgetInv, FoldsInCandidateOrder, [Next]_vars
  PROVE  BudgetInv' /\ FoldsInCandidateOrder'
<1> USE DEF plans, reduceFiles
<1>1. CASE UNCHANGED <<campaign, proposal>>
  <2>1. OpenSlots' = OpenSlots
    BY <1>1 DEF OpenSlots
  <2> QED
    BY <1>1, <2>1, BudgetKept
<1>2. CASE PublishProposal
  <2>1. campaign' = campaign
    BY <1>2 DEF PublishProposal
  <2>2. OpenSlots' = OpenSlots
    BY <2>1 DEF OpenSlots
  <2>3. \A o \in Ordinal : proposal[o] # None => proposal'[o] = proposal[o]
    BY <1>2 DEF PublishProposal, TypeInv
  <2> QED
    BY <2>1, <2>2, <2>3, BudgetKept
<1>3. CASE SaveEpoch \/ Finalize
  BY <1>3, SaveEpochBudget, FinalizeBudget
<1>4. CASE Commit \/ SaveUncharged \/ Finish
  <2>1. /\ campaign'.iterations = campaign.iterations /\ campaign'.active = campaign.active
        /\ proposal' = proposal
    BY <1>4, CommitEffect, SavedEffect
  <2>2. OpenSlots' = OpenSlots
    BY <2>1 DEF OpenSlots
  <2> QED
    BY <2>1, <2>2, BudgetKept
<1>5. CASE EndEpoch
  <2>1. /\ campaign'.iterations = campaign.iterations /\ campaign'.active = None
        /\ proposal' = proposal
    BY <1>5, EndEpochEffect
  <2>2. Counted' = Counted
    BY <2>1 DEF Counted
  <2> QED
    BY <2>1, <2>2 DEF BudgetInv, PhaseByPosition, BudgetLeft, FoldsInCandidateOrder
<1>6. CASE \E o \in Ordinal : WorkerStep(o)
  BY <1>1, <1>6, WorkerFrame
<1>7. CASE Load \/ ResumeEpoch \/ ProposeFails \/ TakeFailure \/ StartWorkers \/ TakeResult
  BY <1>1, <1>7 DEF Load, ResumeEpoch, ProposeFails, TakeFailure, StartWorkers, TakeResult
<1>8. CASE \E results \in [Slots -> Candidates] : ProposeEpoch(results)
  BY <1>1, <1>8 DEF ProposeEpoch
<1>9. CASE PublishReceipt \/ Cleanup \/ PublishFold \/ PublishProgress
  BY <1>1, <1>9 DEF PublishReceipt, Cleanup, PublishFold, PublishProgress
<1>10. CASE \E status \in {"folded", "error"}, absorbed \in BOOLEAN : CallFold(status, absorbed)
  BY <1>1, <1>10 DEF CallFold
<1>11. CASE Crash \/ CleanupError \/ Restart
  BY <1>1, <1>11 DEF Crash, CleanupError, Forget, Restart
<1>12. CASE Terminated \/ UNCHANGED vars
  BY <1>1, <1>12 DEF Terminated, vars
<1> QED
  BY <1>2, <1>3, <1>4, <1>5, <1>6, <1>7, <1>8, <1>9, <1>10, <1>11, <1>12 DEF Next, MainStep

-----------------------------------------------------------------------------
(* The invariant, and what it says *)

LEMMA InvInit == Init => Inv
  BY TypeInit, PlanInit, MainInit, WorkersInit, GeneratorInit, BudgetInit DEF Inv

LEMMA InvStep == Inv /\ [Next]_vars => Inv'
  BY TypeStep, PlanStep, MainInvStep, WorkersStep, GeneratorStep, BudgetStep DEF Inv

LEMMA Invariance == Spec => []Inv
  BY InvInit, InvStep, PTL DEF Spec

LEMMA ResumableByInv == Inv => Resumable
<1> SUFFICES ASSUME Inv PROVE Resumable
  OBVIOUS
<1>1. pc = "refused" => litter # {}
  BY DEF Inv, WorkersInv, RefusedByLitter
<1>2. ASSUME pc = "loop", campaign.active = None, ThisBatch # None
      PROVE  gen \in {ThisBatch.pre, ThisBatch.post}
  BY <1>2 DEF Inv, GeneratorInv, MemoryBetweenEpochs, SavedBetweenEpochs, OnOneSide, Running,
              MainControl
<1> QED
  BY <1>1, <1>2 DEF Resumable, ThisBatch

\* An epoch is a barrier, for resumed processes too (_run_active_parallel_epoch): its
\* attempts are committed and its charges in the iterations before the next one is planned.
THEOREM EpochsAreBarriers == Spec => []EpochBarrier
<1>1. Inv => EpochBarrier
  <2> SUFFICES ASSUME Inv PROVE EpochBarrier
    OBVIOUS
  <2>1. TypeOK /\ Resumable
    BY TypesHold, ResumableByInv DEF Inv
  <2>2. ASSUME NEW o \in Ordinal, o < campaign.nextOrdinal,
               campaign.active = None \/ o \notin campaign.active.slots
        PROVE  Committed(o) /\ (Charged(o) => Folded(o))
    <3>1. o \notin OpenSlots
      BY <2>2 DEF OpenSlots
    <3>2. o \in campaign.attempts
      BY <2>2, <3>1 DEF Inv, PlanInv, ClosedCommitted
    <3>3. Charged(o) => o \in Iterated
      BY <3>1 DEF Charged, Charges, Committed, Inv, PlanInv, ChargesListed, PendingOpen, OpenJobs
    <3> QED
      BY <3>2, <3>3 DEF Committed, Folded, Iterated
  <2>3. \A i, j \in 1 .. Counted : campaign.iterations[i] = campaign.iterations[j] => i = j
    BY DEF Inv, PlanInv, IterationsOnce
  <2>4. ASSUME NEW o \in Ordinal, wpc[o] # "idle"
        PROVE  campaign.active # None /\ o \in campaign.active.slots
    BY <2>4 DEF Inv, WorkersInv, WorkersInEpoch, OpenJobs, OpenSlots
  <2> QED
    BY <2>1, <2>2, <2>3, <2>4 DEF EpochBarrier
<1> QED
  BY Invariance, <1>1, PTL

\* A sequence lists no more values than it has positions.
LEMMA ListedAtMost ==
  ASSUME NEW n \in Nat, NEW s
  PROVE  /\ IsFiniteSet({s[i] : i \in 1 .. n})
         /\ Cardinality({s[i] : i \in 1 .. n}) <= n
<1> DEFINE T == {s[i] : i \in 1 .. n}
           f == [i \in 1 .. n |-> s[i]]
<1>1. f \in Surjection(1 .. n, T)
  BY DEF Surjection
<1>2. IsFiniteSet(1 .. n) /\ Cardinality(1 .. n) = n
  BY FS_Interval
<1> HIDE DEF f, T
<1>3. IsFiniteSet(T) /\ Cardinality(T) <= Cardinality(1 .. n)
  BY <1>1, <1>2, FS_Surjection
<1> QED
  BY <1>2, <1>3 DEF T

\* The charges of a campaign are no more than its iterations and the slots left to its
\* epoch; the bootstrap executions among them, no more than the first Bootstrap.
LEMMA ChargesBounded ==
  ASSUME TypeInv, PlanInv, BudgetInv,
         NEW S \in SUBSET Charges, NEW n \in Nat, n <= Budget,
         \A i \in 1 .. Counted : campaign.iterations[i] \in S => i <= n,
         Pending \cap S # {} => Counted + 1 <= n
  PROVE  Cardinality(S) <= n
<1> DEFINE m == IF Counted <= n THEN Counted ELSE n
           T == {campaign.iterations[i] : i \in 1 .. m}
<1>1. m \in Nat /\ m <= n /\ Counted \in Nat
  BY CampaignParts
<1>2. IsFiniteSet(T) /\ Cardinality(T) <= m /\ Cardinality(T) \in Nat
  <2> HIDE DEF m
  <2>1. IsFiniteSet(T) /\ Cardinality(T) <= m
    BY <1>1, ListedAtMost
  <2> HIDE DEF T
  <2> QED
    BY <2>1, FS_CardinalityType
<1>3. S \cap Iterated \subseteq T
  <2> SUFFICES ASSUME NEW o \in S, o \in Iterated PROVE o \in T
    OBVIOUS
  <2>1. PICK i \in 1 .. Counted : o = campaign.iterations[i]
    BY DEF Iterated
  <2>2. i <= n
    BY <2>1
  <2>3. i \in 1 .. m
    BY <1>1, <2>2
  <2> QED
    BY <2>1, <2>3
<1>4. S \subseteq Iterated \cup Pending
  BY DEF PlanInv, ChargesListed
<1>5. CASE Pending \cap S = {}
  <2>1. S \in SUBSET T
    BY <1>3, <1>4, <1>5
  <2> HIDE DEF T, m
  <2>2. IsFiniteSet(S) /\ Cardinality(S) <= Cardinality(T)
    BY <1>2, <2>1, FS_Subset
  <2>3. Cardinality(S) \in Nat
    BY <2>2, FS_CardinalityType
  <2> QED
    BY <1>1, <1>2, <2>2, <2>3
<1>6. CASE Pending \cap S # {}
  <2>1. Counted + 1 <= n
    BY <1>6
  <2>2. m + 1 <= n
    BY <1>1, <2>1
  <2>3. S \in SUBSET (T \cup {campaign.pending})
    BY <1>3, <1>4 DEF Pending
  <2> HIDE DEF T, m
  <2>4. /\ IsFiniteSet(T \cup {campaign.pending})
        /\ Cardinality(T \cup {campaign.pending}) \in {Cardinality(T), Cardinality(T) + 1}
    BY <1>2, FS_AddElement
  <2>5. IsFiniteSet(S) /\ Cardinality(S) <= Cardinality(T \cup {campaign.pending})
    BY <2>3, <2>4, FS_Subset
  <2>6. Cardinality(S) \in Nat /\ Cardinality(T \cup {campaign.pending}) \in Nat
    BY <2>4, <2>5, FS_CardinalityType
  <2> QED
    BY <1>1, <1>2, <2>2, <2>4, <2>5, <2>6
<1> QED
  BY <1>5, <1>6

\* The pending charge has a slot of the epoch to itself.
LEMMA PendingFits ==
  ASSUME TypeInv, PlanInv, BudgetInv, NEW o \in Pending
  PROVE  /\ Counted + 1 <= Budget
         /\ proposal[o].phase = "bootstrap" => Counted + 1 <= Bootstrap
<1>1. o \in OpenSlots /\ o \in OpenSlots \ Iterated /\ campaign.active # None
  BY DEF PlanInv, PendingOpen, OpenJobs, OpenSlots
<1> DEFINE left == OpenSlots \ Iterated
           unfolded == Cardinality(left)
<1>2. unfolded \in Nat /\ unfolded # 0
  <2>1. IsFiniteSet(left) /\ left # {} /\ unfolded \in Nat
    BY <1>1, SlotsAreFinite
  <2> HIDE DEF left
  <2> QED
    BY <2>1, FS_EmptySet
<1>3. \/ /\ proposal[o].phase = "bootstrap"
         /\ Counted + unfolded <= Bootstrap
      \/ /\ proposal[o].phase = "explore"
         /\ Counted + unfolded <= Budget
  BY <1>1 DEF BudgetInv, BudgetLeft
<1> HIDE DEF left, unfolded
<1>4. /\ Counted \in Nat /\ Bootstrap \in Nat /\ Budget \in Nat /\ Bootstrap <= Budget
  BY CampaignParts, BudgetAssumption
<1>5. Counted + unfolded <= Bootstrap => Counted + 1 <= Bootstrap /\ Counted + 1 <= Budget
  BY <1>2, <1>4
<1>6. Counted + unfolded <= Budget => Counted + 1 <= Budget
  BY <1>2, <1>4
<1> QED
  BY <1>3, <1>5, <1>6

\* The campaign never charges more than its budget, and exactly its first Bootstrap
\* charges are bootstrap executions (_plan_parallel_epoch, _reduce_parallel_result).
THEOREM BudgetIsRespected == Spec => []BudgetRespected
<1>1. Inv => BudgetRespected
  <2> SUFFICES ASSUME Inv PROVE BudgetRespected
    OBVIOUS
  <2>0. TypeInv /\ PlanInv /\ BudgetInv
    BY DEF Inv
  <2> DEFINE bootstrapped == {o \in Ordinal : Charged(o) /\ proposal[o].phase = "bootstrap"}
  <2>1. {o \in Ordinal : Charged(o)} = Charges
    BY <2>0, CampaignParts DEF Charged, Committed, Charges
  <2>2. bootstrapped = {o \in Charges : proposal[o].phase = "bootstrap"}
    BY <2>1
  <2>3. Counted \in Nat /\ Counted <= Budget /\ Budget \in Nat /\ Bootstrap \in Nat
        /\ Bootstrap <= Budget
    BY <2>0, CampaignParts, BudgetAssumption DEF BudgetInv, BudgetLeft
  <2>4. \A i \in 1 .. Counted :
          /\ campaign.iterations[i] \in Charges /\ i <= Budget
          /\ campaign.iterations[i] \in bootstrapped <=> i <= Bootstrap
    <3> SUFFICES ASSUME NEW i \in 1 .. Counted
                 PROVE  /\ campaign.iterations[i] \in Charges /\ i <= Budget
                        /\ campaign.iterations[i] \in bootstrapped <=> i <= Bootstrap
      OBVIOUS
    <3>1. campaign.iterations[i] \in Charges
      BY <2>0 DEF Iterated, PlanInv, ChargesListed
    <3>2. proposal[campaign.iterations[i]].phase = "bootstrap" <=> i <= Bootstrap
      BY <2>0 DEF BudgetInv, PhaseByPosition
    <3>3. i <= Budget
      BY <2>3
    <3> QED
      BY <2>2, <3>1, <3>2, <3>3
  <2>5. Cardinality(Charges) <= Budget
    <3>1. Pending \cap Charges # {} => Counted + 1 <= Budget
      BY <2>0, PendingFits
    <3>2. Budget <= Budget
      BY <2>3
    <3> QED
      BY <2>0, <2>3, <2>4, <3>1, <3>2, ChargesBounded
  <2>6. Cardinality(bootstrapped) <= Bootstrap
    <3>1. Pending \cap bootstrapped # {} => Counted + 1 <= Bootstrap
      BY <2>0, <2>2, PendingFits
    <3>2. bootstrapped \in SUBSET Charges
      BY <2>2
    <3> HIDE DEF bootstrapped
    <3> QED
      BY <2>0, <2>3, <2>4, <3>1, <3>2, ChargesBounded
  <2> QED
    BY <2>1, <2>4, <2>5, <2>6 DEF BudgetRespected
<1> QED
  BY Invariance, <1>1, PTL

\* The order of the iterations is that of the candidate ids, epoch after epoch, whichever
\* worker finished first and wherever the process died (ParallelReducer.reduce).
THEOREM FoldsFollowCandidates == Spec => []FoldsInCandidateOrder
<1>1. Inv => FoldsInCandidateOrder
  BY DEF Inv
<1> QED
  BY Invariance, <1>1, PTL

\* The proposals of an epoch carry one snapshot, which has the feedback of earlier epochs
\* alone, and their candidates are results of the epoch's one batch, reserved with just that
\* feedback: also where propose_epoch raised for some of them, in whichever process
\* (propose_epoch, _plan_parallel_epoch).
THEOREM EpochsAreBlind == Spec => []EpochIsBlind
<1>1. Inv => EpochIsBlind
  <2> SUFFICES ASSUME Inv, NEW o \in Ordinal, proposal[o] # None
               PROVE  LET e == proposal[o].epoch
                          seen == proposal[o].gen.folded IN
                      /\ \A p \in Ordinal :
                           proposal[p] # None /\ proposal[p].epoch = e
                             => proposal[p].gen = proposal[o].gen
                      /\ \A i \in 1 .. Len(seen) :
                           proposal[seen[i]] # None /\ proposal[seen[i]].epoch < e
                      /\ proposal[o].candidate # "failure" =>
                           /\ batch[e] # None /\ proposal[o].candidate = batch[e].results[o]
                           /\ batch[e].pre.folded = proposal[o].gen.folded
    BY DEF EpochIsBlind
  <2>1. OneSnapshot /\ ProposalsBlind /\ CandidatesFromBatch
    BY DEF Inv, GeneratorInv, PlansInv
  <2>2. \A p \in Ordinal : proposal[p] # None /\ proposal[p].epoch = proposal[o].epoch
          => proposal[p].gen = proposal[o].gen
    BY <2>1 DEF OneSnapshot
  <2>3. \A i \in 1 .. Len(proposal[o].gen.folded) :
          proposal[o].gen.folded[i] \in Learned(proposal[o].gen)
    BY DEF Learned
  <2>4. \A p \in Learned(proposal[o].gen) :
          proposal[p] # None /\ proposal[p].epoch < proposal[o].epoch
    BY <2>1 DEF ProposalsBlind
  <2>5. proposal[o].candidate # "failure" =>
          /\ batch[proposal[o].epoch] # None
          /\ proposal[o].candidate = batch[proposal[o].epoch].results[o]
          /\ batch[proposal[o].epoch].pre.folded = proposal[o].gen.folded
    BY <2>1 DEF CandidatesFromBatch
  <2> QED
    BY <2>2, <2>3, <2>4, <2>5
<1> QED
  BY Invariance, <1>1, PTL

-----------------------------------------------------------------------------
(* As long as no process dies, nothing folded is forgotten *)

\* The process that starts finds nothing.
FirstStart ==
  /\ pc # "down"
  /\ pc = "load" => /\ campaign.pending = None /\ campaign.gen.folded = <<>> /\ Counted = 0
                    /\ \A o \in Ordinal : proposal[o] = None

\* What is committed is settled, but for what is being settled.
SettledAtOnce ==
  /\ OpenJobs \cap campaign.attempts \subseteq
       progress \cup (IF pc \in Settling THEN {cur} ELSE {})
  /\ pc \in {"receipt", "cleanup", "commit"} => cur \notin campaign.attempts

\* The iterations, with the one whose fold is done and not yet listed.
Folding == {"foldReceipt", "finalize"}
FoldHistory ==
  IF pc \in Folding THEN Append(campaign.iterations, cur) ELSE campaign.iterations

LearnedInOrder ==
  /\ InOrderOf(gen.folded, FoldHistory)
  /\ \A o \in Iterated : fold[o].status = "folded" => o \in Learned(gen)
  /\ pc = "foldReceipt" /\ out = "folded" => cur \in Learned(gen)
  /\ pc = "finalize" =>
       /\ fold[cur].gen = gen
       /\ fold[cur].status = "folded" => cur \in Learned(gen)

FeedbackInv == crashes = 0 => FirstStart /\ SettledAtOnce /\ LearnedInOrder

LEMMA FeedbackInit == Init => FeedbackInv
<1> SUFFICES ASSUME Init PROVE FeedbackInv
  OBVIOUS
<1>1. /\ pc = "load" /\ campaign.pending = None /\ campaign.gen = FreshGenerator
      /\ campaign.iterations = <<>> /\ campaign.active = None /\ gen = FreshGenerator
      /\ \A o \in Ordinal : proposal[o] = None
  BY DEF Init
<1>2. Counted = 0 /\ Iterated = {} /\ OpenJobs = {}
  BY <1>1 DEF Counted, Iterated, OpenJobs, OpenSlots
<1>3. FreshGenerator.folded = <<>>
  BY DEF FreshGenerator
<1>4. FirstStart /\ SettledAtOnce
  BY <1>1, <1>2, <1>3 DEF FirstStart, SettledAtOnce
<1>5. LearnedInOrder
  BY <1>1, <1>2, <1>3 DEF LearnedInOrder, FoldHistory, Folding, InOrderOf
<1> QED
  BY <1>4, <1>5 DEF FeedbackInv

\* Only a crash, and the restart after it, lead to a start of the process.
LEMMA ForwardControl ==
  ASSUME Inv, MainStep \/ \E o \in Ordinal : WorkerStep(o)
  PROVE  pc' \notin {"down", "load"} /\ crashes' = crashes
<1> USE DEF main
<1>1. CASE \E o \in Ordinal : WorkerStep(o)
  <2>1. PICK o \in Ordinal : WorkerStep(o)
    BY <1>1
  <2>2. crashes' = crashes /\ (pc' = pc \/ pc' = "refused")
    BY <2>1, WorkerFrame
  <2>3. pc \notin {"down", "load"}
    BY <2>1, WorkerEffect DEF Inv, WorkersInv, WorkersInEpoch, Reducing
  <2> QED
    BY <2>2, <2>3
<1>2. CASE \/ Load \/ ResumeEpoch \/ PublishProposal \/ SaveEpoch \/ TakeFailure \/ StartWorkers
           \/ ProposeFails \/ \E results \in [Slots -> Candidates] : ProposeEpoch(results)
  BY <1>2 DEF Load, ResumeEpoch, PublishProposal, SaveEpoch, TakeFailure, StartWorkers,
              ProposeFails, ProposeEpoch
<1>3. CASE TakeResult \/ PublishReceipt \/ Cleanup \/ Commit \/ SaveUncharged
  BY <1>3 DEF TakeResult, PublishReceipt, Cleanup, Commit, AfterCommit, SaveUncharged
<1>4. CASE \/ \E status \in {"folded", "error"}, absorbed \in BOOLEAN : CallFold(status, absorbed)
           \/ PublishFold \/ Finalize \/ PublishProgress \/ EndEpoch \/ Finish
  BY <1>4 DEF CallFold, PublishFold, Finalize, PublishProgress, EndEpoch, Finish
<1> QED
  BY <1>1, <1>2, <1>3, <1>4 DEF MainStep

\* A step that commits and settles nothing.
LEMMA SettledKept ==
  ASSUME SettledAtOnce, OpenJobs' = OpenJobs, campaign'.attempts = campaign.attempts,
         progress' = progress, pc' \in Settling <=> pc \in Settling,
         pc' \in {"receipt", "cleanup", "commit"} => pc \in {"receipt", "cleanup", "commit"},
         pc' \in Reducing => cur' = cur
  PROVE  SettledAtOnce'
BY DEF SettledAtOnce, Settling, Reducing

LEMMA SettledStep ==
  ASSUME Inv, Inv', SettledAtOnce, MainStep \/ \E o \in Ordinal : WorkerStep(o)
  PROVE  SettledAtOnce'
<1> USE DEF plans, reduceFiles
<1>0. TypeInv /\ PlanInv /\ MainInv /\ WorkersInv
  BY DEF Inv
<1>1. CASE \E o \in Ordinal : WorkerStep(o)
  <2>1. PICK o \in Ordinal : WorkerStep(o)
    BY <1>1
  <2>2. /\ UNCHANGED <<campaign, proposal, progress, cur>> /\ (pc' = pc \/ pc' = "refused")
    BY <2>1, WorkerFrame
  <2>3. pc \in {"workers", "refused"}
    BY <1>0, <2>1, WorkerEffect DEF WorkersInv, WorkersInEpoch
  <2> QED
    BY <2>2, <2>3, SameViews, SettledKept DEF Settling, Reducing
<1>2. CASE Load \/ ResumeEpoch \/ ProposeFails \/ StartWorkers
           \/ \E results \in [Slots -> Candidates] : ProposeEpoch(results)
  <2>1. /\ UNCHANGED <<campaign, proposal, progress>>
        /\ pc \notin Reducing \cup Settling /\ pc' \notin Reducing \cup Settling
    BY <1>2 DEF Load, ResumeEpoch, ProposeFails, StartWorkers, ProposeEpoch, Settling, Reducing
  <2> QED
    BY <2>1, SameViews, SettledKept DEF Reducing
<1>3. CASE PublishProposal \/ EndEpoch
  <2>1. campaign'.active = None /\ pc' \notin Reducing
    BY <1>0, <1>3, EndEpochEffect DEF PublishProposal, MainInv, Planning, Reducing
  <2> QED
    BY <2>1 DEF SettledAtOnce, OpenJobs, OpenSlots, Reducing
<1>4. CASE SaveEpoch
  <2>1. /\ campaign'.attempts = campaign.attempts /\ pc' = "failures"
        /\ campaign'.active = [epoch |-> campaign.nextEpoch, slots |-> Slots]
    BY <1>0, <1>4, SaveEpochEffect DEF SaveEpoch
  <2>2. \A o \in Slots : o \notin campaign.attempts
    <3>1. \A o \in Slots : ~(o < campaign.nextOrdinal)
      BY <1>0, SlotFacts, CampaignParts
    <3>2. \A o \in campaign.attempts : o < campaign.nextOrdinal
      BY <1>0, CampaignParts DEF PlanInv, CommitsRecorded
    <3> QED
      BY <3>1, <3>2
  <2>3. OpenJobs' \cap campaign'.attempts = {}
    BY <2>1, <2>2 DEF OpenJobs, OpenSlots
  <2> QED
    BY <2>1, <2>3 DEF SettledAtOnce
<1>5. CASE TakeFailure \/ TakeResult
  <2>1. /\ UNCHANGED <<campaign, proposal, progress>> /\ pc' = "receipt"
        /\ pc \in {"failures", "workers"}
    BY <1>5 DEF TakeFailure, TakeResult
  <2>2. OpenJobs' = OpenJobs /\ OpenJobs \cap campaign.attempts \subseteq progress
    BY <2>1, SameViews DEF SettledAtOnce, Settling
  <2>3. cur' \in OpenSlots'
    BY <2>1 DEF Inv, TypeInv, Reducing
  <2>4. cur' \in Failed' => cur' \notin campaign'.attempts
    BY <2>1 DEF Inv, MainInv, Current, Reducing
  <2>5. cur' \notin Failed' => cur' \in OpenJobs' /\ cur' \notin progress'
    BY <2>1, <2>3 DEF Inv, MainInv, Current, Reducing, OpenJobs
  <2>6. cur' \notin campaign'.attempts
    BY <2>1, <2>2, <2>4, <2>5
  <2> QED
    BY <2>1, <2>2, <2>6 DEF SettledAtOnce
<1>6. CASE PublishReceipt \/ Cleanup
  <2>1. /\ UNCHANGED <<campaign, proposal, progress, cur>>
        /\ pc \in {"receipt", "cleanup"} /\ pc' \in {"cleanup", "commit"}
    BY <1>6 DEF PublishReceipt, Cleanup
  <2> QED
    BY <2>1, SameViews, SettledKept DEF Settling
<1>7. CASE Commit
  <2>1. /\ campaign'.attempts = campaign.attempts \cup {cur} /\ cur' = cur
        /\ campaign'.iterations = campaign.iterations /\ campaign'.active = campaign.active
        /\ UNCHANGED <<proposal, progress>>
    BY <1>0, <1>7, CommitEffect
  <2>2. OpenJobs' = OpenJobs /\ OpenJobs \cap campaign.attempts \subseteq progress
    BY <1>7, <2>1, SameViews DEF SettledAtOnce, Commit, Settling
  <2>3. CASE cur \in Failed
    <3>1. pc' = "failures" /\ cur \notin OpenJobs
      BY <1>0, <1>7, <2>3, CommitStage DEF OpenJobs
    <3> QED
      BY <2>1, <2>2, <3>1 DEF SettledAtOnce
  <2>4. CASE cur \notin Failed
    <3>1. pc' \in Settling /\ pc' \notin {"receipt", "cleanup", "commit"}
      BY <1>0, <1>7, <2>4, CommitStage DEF Settling
    <3> QED
      BY <2>1, <2>2, <3>1 DEF SettledAtOnce
  <2> QED
    BY <2>3, <2>4
<1>8. CASE SaveUncharged \/ PublishFold \/ Finalize
           \/ \E status \in {"folded", "error"}, absorbed \in BOOLEAN : CallFold(status, absorbed)
  <2>1. /\ campaign'.attempts = campaign.attempts /\ campaign'.active = campaign.active
        /\ UNCHANGED <<proposal, progress, cur>>
        /\ pc \in Settling /\ pc' \in Settling
        /\ pc' \notin {"receipt", "cleanup", "commit"}
    <3>1. CASE SaveUncharged
      BY <1>0, <3>1, SavedEffect DEF SaveUncharged, Settling
    <3>2. CASE Finalize
      BY <1>0, <3>2, FinalizeEffect DEF Finalize, Settling
    <3>3. CASE PublishFold
      BY <3>3 DEF PublishFold, Settling
    <3>4. CASE \E status \in {"folded", "error"}, absorbed \in BOOLEAN : CallFold(status, absorbed)
      BY <3>4 DEF CallFold, Settling
    <3> QED
      BY <1>8, <3>1, <3>2, <3>3, <3>4
  <2>2. OpenJobs' = OpenJobs
    BY <2>1 DEF OpenJobs, OpenSlots, Failed
  <2> QED
    BY <2>1, <2>2, SettledKept
<1>9. CASE PublishProgress
  <2>1. /\ UNCHANGED <<campaign, proposal>> /\ progress' = progress \cup {cur}
        /\ pc = "progress" /\ pc' = "workers"
    BY <1>9 DEF PublishProgress
  <2>2. OpenJobs' = OpenJobs
    BY <2>1, SameViews
  <2> QED
    BY <2>1, <2>2 DEF SettledAtOnce, Settling
<1>10. CASE Finish
  <2>1. /\ campaign'.attempts = campaign.attempts /\ campaign'.active = campaign.active
        /\ UNCHANGED <<proposal, progress, cur>>
        /\ pc \notin Settling /\ pc' = "done"
    BY <1>0, <1>10, SavedEffect DEF Finish, Settling
  <2>2. OpenJobs' = OpenJobs
    BY <2>1 DEF OpenJobs, OpenSlots, Failed
  <2> QED
    BY <2>1, <2>2, SettledKept DEF Settling, Reducing
<1> QED
  BY <1>1, <1>2, <1>3, <1>4, <1>5, <1>6, <1>7, <1>8, <1>9, <1>10 DEF MainStep

\* A sequence stays in order of another that grows, and when both grow by one element.
LEMMA OrderExtends ==
  ASSUME NEW s \in Seq(Ordinal), NEW t \in Seq(Ordinal), NEW x \in Ordinal, InOrderOf(s, t)
  PROVE  InOrderOf(s, Append(t, x)) /\ InOrderOf(Append(s, x), Append(t, x))
<1> DEFINE u == Append(t, x)
           v == Append(s, x)
<1>1. /\ Len(s) \in Nat /\ Len(t) \in Nat /\ Len(u) = Len(t) + 1 /\ Len(v) = Len(s) + 1
      /\ u[Len(t) + 1] = x /\ v[Len(s) + 1] = x
      /\ \A k \in 1 .. Len(t) : u[k] = t[k]
      /\ \A i \in 1 .. Len(s) : v[i] = s[i]
  OBVIOUS
<1> HIDE DEF u, v
<1>2. ASSUME NEW i \in 1 .. Len(s)
      PROVE  \E k \in 1 .. Len(u) :
               s[i] = u[k] /\ \A j \in 1 .. i - 1 : \E l \in 1 .. k - 1 : s[j] = u[l]
  <2>1. PICK k \in 1 .. Len(t) :
          s[i] = t[k] /\ \A j \in 1 .. i - 1 : \E l \in 1 .. k - 1 : s[j] = t[l]
    BY DEF InOrderOf
  <2>2. k \in 1 .. Len(u) /\ s[i] = u[k]
    BY <1>1, <2>1
  <2>3. ASSUME NEW j \in 1 .. i - 1 PROVE \E l \in 1 .. k - 1 : s[j] = u[l]
    <3>1. PICK l \in 1 .. k - 1 : s[j] = t[l]
      BY <2>1
    <3>2. l \in 1 .. Len(t)
      BY <1>1
    <3> QED
      BY <1>1, <3>1, <3>2
  <2> QED
    BY <2>2, <2>3
<1>3. ASSUME NEW i \in 1 .. Len(v)
      PROVE  \E k \in 1 .. Len(u) :
               v[i] = u[k] /\ \A j \in 1 .. i - 1 : \E l \in 1 .. k - 1 : v[j] = u[l]
  <2>1. CASE i \in 1 .. Len(s)
    <3>1. PICK k \in 1 .. Len(u) :
            s[i] = u[k] /\ \A j \in 1 .. i - 1 : \E l \in 1 .. k - 1 : s[j] = u[l]
      BY <1>2, <2>1
    <3>2. \A j \in 1 .. i - 1 : j \in 1 .. Len(s)
      BY <1>1, <2>1
    <3> QED
      BY <1>1, <2>1, <3>1, <3>2
  <2>2. CASE i = Len(s) + 1
    <3>1. Len(t) + 1 \in 1 .. Len(u) /\ v[i] = u[Len(t) + 1]
      BY <1>1, <2>2
    <3>2. ASSUME NEW j \in 1 .. i - 1 PROVE \E l \in 1 .. (Len(t) + 1) - 1 : v[j] = u[l]
      <4>1. j \in 1 .. Len(s)
        BY <1>1, <2>2
      <4>2. PICK l \in 1 .. Len(t) : s[j] = t[l]
        BY <4>1 DEF InOrderOf
      <4>3. l \in 1 .. (Len(t) + 1) - 1 /\ v[j] = u[l]
        BY <1>1, <4>1, <4>2
      <4> QED
        BY <4>3
    <3> QED
      BY <3>1, <3>2
  <2> QED
    BY <1>1, <2>1, <2>2
<1> QED
  BY <1>2, <1>3 DEF InOrderOf, u, v

\* A step that teaches nothing, outside the folding of a candidate.
LEMMA LearnedKept ==
  ASSUME LearnedInOrder, gen'.folded = gen.folded, fold' = fold,
         campaign'.iterations = campaign.iterations, {pc, pc'} \cap Folding = {}
  PROVE  LearnedInOrder'
<1>1. pc \notin Folding /\ pc' \notin Folding /\ Folding' = Folding
  BY DEF Folding
<1>2. FoldHistory' = FoldHistory /\ Iterated' = Iterated
  BY <1>1 DEF FoldHistory, Iterated, Counted
<1>3. Learned(gen') = Learned(gen)
  BY DEF Learned
<1> QED
  BY <1>1, <1>2, <1>3 DEF LearnedInOrder, Folding

\* The fold of the current candidate, from the call to the entry in the iterations.
LEMMA FoldingLearned ==
  ASSUME Inv, LearnedInOrder,
         \/ \E status \in {"folded", "error"}, absorbed \in BOOLEAN : CallFold(status, absorbed)
         \/ PublishFold \/ Finalize
  PROVE  LearnedInOrder'
<1>0. TypeInv /\ PlanInv /\ MainInv /\ GeneratorInv /\ pc \in Settling
  BY DEF Inv, CallFold, PublishFold, Finalize, Settling
<1>1. /\ cur \in Ordinal /\ gen \in Generator /\ gen.folded \in Seq(Ordinal)
      /\ campaign.iterations \in Seq(Ordinal)
  BY <1>0, SettlingMemory, CampaignParts DEF Generator
<1>2. cur \notin Iterated
  <2>1. campaign.pending = cur
    BY <1>0 DEF MainInv, CurrentStage, CallFold, PublishFold, Finalize
  <2>2. cur \in Pending
    BY <1>1, <2>1, NotNone DEF Pending
  <2> QED
    BY <1>0, <2>2 DEF PlanInv, PendingOpen
<1>3. ASSUME NEW status \in {"folded", "error"}, NEW absorbed \in BOOLEAN,
             CallFold(status, absorbed)
      PROVE  LearnedInOrder'
  <2>1. /\ pc = "fold" /\ pc' = "foldReceipt" /\ UNCHANGED <<campaign, fold, cur>>
        /\ gen' = IF absorbed THEN Fold(gen, cur) ELSE gen
        /\ out' = status /\ (status = "folded" => absorbed)
    BY <1>3 DEF CallFold, FoldOnto, reduceFiles
  <2>2. InOrderOf(gen.folded, campaign.iterations)
    BY <2>1 DEF LearnedInOrder, FoldHistory, Folding
  <2>3. /\ InOrderOf(gen.folded, Append(campaign.iterations, cur))
        /\ InOrderOf(Append(gen.folded, cur), Append(campaign.iterations, cur))
    BY <1>1, <2>2, OrderExtends
  <2>4. /\ gen'.folded \in {gen.folded, Append(gen.folded, cur)}
        /\ Learned(gen) \subseteq Learned(gen')
        /\ absorbed => cur \in Learned(gen')
    <3> DEFINE known == \E i \in 1 .. Len(gen.folded) : gen.folded[i] = cur
    <3>1. CASE known \/ ~absorbed
      <4>1. gen' = gen
        BY <2>1, <3>1 DEF Fold
      <4> QED
        BY <3>1, <4>1 DEF Learned
    <3>2. CASE ~known /\ absorbed
      <4>1. gen' = [gen EXCEPT !.folded = Append(gen.folded, cur)]
        BY <2>1, <3>2 DEF Fold
      <4>2. gen'.folded = Append(gen.folded, cur)
        BY <1>1, <4>1 DEF Generator
      <4>3. /\ Len(gen'.folded) = Len(gen.folded) + 1 /\ Len(gen.folded) \in Nat
            /\ \A i \in 1 .. Len(gen.folded) : gen'.folded[i] = gen.folded[i]
            /\ gen'.folded[Len(gen.folded) + 1] = cur
        BY <1>1, <4>2
      <4>4. /\ \A i \in 1 .. Len(gen.folded) : i \in 1 .. Len(gen'.folded)
            /\ Len(gen.folded) + 1 \in 1 .. Len(gen'.folded)
        BY <4>3
      <4> QED
        BY <4>2, <4>3, <4>4 DEF Learned
    <3> QED
      BY <3>1, <3>2
  <2>5. Iterated' = Iterated /\ FoldHistory' = Append(campaign.iterations, cur)
    BY <2>1 DEF Iterated, Counted, FoldHistory, Folding
  <2> QED
    BY <2>1, <2>3, <2>4, <2>5 DEF LearnedInOrder
<1>4. CASE PublishFold
  <2>1. /\ pc = "foldReceipt" /\ pc' = "finalize" /\ UNCHANGED <<campaign, gen, cur>>
        /\ fold' = [fold EXCEPT ![cur] = [status |-> out, gen |-> gen]]
    BY <1>4 DEF PublishFold
  <2>2. /\ fold'[cur] = [status |-> out, gen |-> gen]
        /\ \A o \in Ordinal : o # cur => fold'[o] = fold[o]
    BY <1>0, <1>1, <2>1 DEF TypeInv
  <2>3. Iterated' = Iterated /\ FoldHistory' = FoldHistory /\ Iterated \subseteq Ordinal
    BY <1>0, <2>1, CampaignParts DEF Iterated, Counted, FoldHistory, Folding
  <2> QED
    BY <1>2, <2>1, <2>2, <2>3 DEF LearnedInOrder
<1>5. CASE Finalize
  <2>1. /\ pc = "finalize" /\ pc' = "progress" /\ gen' = fold[cur].gen
        /\ campaign'.iterations = Append(campaign.iterations, cur) /\ fold' = fold
    BY <1>0, <1>5, FinalizeEffect DEF Finalize
  <2>2. gen' = gen /\ FoldHistory' = FoldHistory
    BY <2>1 DEF LearnedInOrder, FoldHistory, Folding
  <2>3. Iterated' = Iterated \cup {cur}
    BY <1>0, <1>5, IterationsGrow
  <2> QED
    BY <2>1, <2>2, <2>3 DEF LearnedInOrder
<1> QED
  BY <1>3, <1>4, <1>5

LEMMA LearnedStep ==
  ASSUME Inv, FirstStart, SettledAtOnce, LearnedInOrder,
         MainStep \/ \E o \in Ordinal : WorkerStep(o)
  PROVE  LearnedInOrder'
<1> USE DEF plans, reduceFiles, Folding
<1>0. TypeInv /\ PlanInv /\ MainInv /\ WorkersInv /\ GeneratorInv
  BY DEF Inv
<1>1. CASE \E o \in Ordinal : WorkerStep(o)
  <2>1. PICK o \in Ordinal : WorkerStep(o)
    BY <1>1
  <2>2. /\ UNCHANGED <<campaign, fold, gen>> /\ (pc' = pc \/ pc' = "refused")
    BY <2>1, WorkerFrame
  <2>3. pc \in {"workers", "refused"}
    BY <1>0, <2>1, WorkerEffect DEF WorkersInv, WorkersInEpoch
  <2> QED
    BY <2>2, <2>3, LearnedKept
<1>2. CASE Load
  <2>1. /\ gen' = RestoredOnLoad /\ pc' \notin Folding /\ pc = "load"
        /\ UNCHANGED <<campaign, fold>>
    BY <1>2 DEF Load
  <2>2. campaign.pending = None /\ campaign.gen.folded = <<>> /\ Counted = 0 /\ Uncommitted = {}
    BY <2>1 DEF FirstStart, Uncommitted
  <2>3. gen'.folded = <<>>
    BY <2>1, <2>2 DEF RestoredOnLoad
  <2>4. Iterated' = {}
    BY <2>1, <2>2 DEF Iterated, Counted
  <2> QED
    BY <2>1, <2>3, <2>4 DEF LearnedInOrder, InOrderOf
<1>3. CASE \E results \in [Slots -> Candidates] : ProposeEpoch(results)
  <2>1. PICK results \in [Slots -> Candidates] : ProposeEpoch(results)
    BY <1>3
  <2>2. /\ pc = "loop" /\ campaign.active = None /\ UNCHANGED <<campaign, fold>>
        /\ pc' = "slots" /\ PlanMatches
    BY <1>0, <2>1, ChecksPass DEF ProposeEpoch
  <2>3. gen \in Generator
    BY <1>0 DEF TypeInv
  <2>4. gen'.folded = gen.folded
    <3>1. CASE ThisBatch = None
      <4>1. gen' = Draw(gen)
        BY <2>1, <2>2, <3>1 DEF ProposeEpoch, ThisBatch
      <4> QED
        BY <2>3, <4>1, DrawEffect
    <3>2. CASE ThisBatch # None
      <4>1. gen' = gen \/ (gen' = ThisBatch.post /\ gen = ThisBatch.pre)
        BY <2>1, <2>2, <3>2 DEF ProposeEpoch, ThisBatch
      <4>2. ThisBatch.post = Draw(ThisBatch.pre)
        BY <1>0, <3>2, OpenEpoch DEF GeneratorInv, PlansInv, BatchesBlind, ThisBatch
      <4> QED
        BY <2>3, <4>1, <4>2, DrawEffect
    <3> QED
      BY <3>1, <3>2
  <2> QED
    BY <2>2, <2>4, LearnedKept
<1>4. CASE PublishProposal
  <2>1. /\ pc = "slots" /\ pc' = "slots" /\ UNCHANGED <<campaign, fold>> /\ cur \in Slots
        /\ gen' = IF proposal[cur] = None THEN gen ELSE proposal[cur].gen
    BY <1>4 DEF PublishProposal, SlotSnapshot
  <2>2. campaign.active = None /\ cur \in Ordinal /\ ~(cur < campaign.nextOrdinal)
    BY <1>0, <2>1, SlotFacts, CampaignParts DEF MainInv, Planning
  <2>3. OnOneSide(gen)
    BY <1>0, <2>1, <2>2 DEF GeneratorInv, MemoryBetweenEpochs, Running, MainControl
  <2>4. proposal[cur] # None => OnOneSide(proposal[cur].gen)
    <3>1. cur \notin campaign.attempts
      BY <1>0, <2>2 DEF PlanInv, CommitsRecorded
    <3> QED
      BY <1>0, <2>2, <3>1, UncommittedProposal
  <2>5. gen'.folded = gen.folded
    BY <1>0, <2>1, <2>2, <2>3, <2>4, SidesFolded
  <2> QED
    BY <2>1, <2>5, LearnedKept
<1>5. CASE ResumeEpoch \/ ProposeFails \/ TakeFailure \/ StartWorkers \/ TakeResult
           \/ PublishReceipt \/ Cleanup \/ PublishProgress
  <2>1. UNCHANGED <<campaign, fold, gen>> /\ pc \notin Folding /\ pc' \notin Folding
    BY <1>5 DEF ResumeEpoch, ProposeFails, TakeFailure, StartWorkers, TakeResult,
                PublishReceipt, Cleanup, PublishProgress
  <2> QED
    BY <2>1, LearnedKept
<1>6. CASE SaveEpoch \/ EndEpoch \/ SaveUncharged \/ Finish
  <2>1. campaign'.iterations = campaign.iterations /\ fold' = fold /\ gen' = gen
    BY <1>0, <1>6, SaveEpochEffect, EndEpochEffect, SavedEffect
  <2>2. pc \notin Folding /\ pc' \notin Folding
    BY <1>6 DEF SaveEpoch, EndEpoch, SaveUncharged, Finish
  <2> QED
    BY <2>1, <2>2, LearnedKept
<1>7. CASE Commit
  <2>1. /\ campaign'.iterations = campaign.iterations /\ fold' = fold /\ gen' = gen
        /\ pc = "commit"
    BY <1>0, <1>7, CommitEffect DEF Commit
  <2>2. cur \notin campaign.attempts /\ cur \in Ordinal
    BY <1>0, <2>1, CampaignParts DEF SettledAtOnce, TypeInv, Reducing
  <2>3. fold[cur] = None
    BY <1>0, <2>2, CampaignParts DEF PlanInv, FoldsOfCharges
  <2>4. pc' \notin Folding
    BY <1>7, <2>3 DEF Commit, AfterCommit
  <2> QED
    BY <2>1, <2>4, LearnedKept
<1> QED
  BY <1>1, <1>2, <1>3, <1>4, <1>5, <1>6, <1>7, FoldingLearned DEF MainStep

LEMMA FeedbackStep == Inv /\ Inv' /\ FeedbackInv /\ [Next]_vars => FeedbackInv'
<1> SUFFICES ASSUME Inv, Inv', FeedbackInv, [Next]_vars, crashes' = 0
             PROVE  (FirstStart /\ SettledAtOnce /\ LearnedInOrder)'
  BY DEF FeedbackInv
<1>1. CASE MainStep \/ \E o \in Ordinal : WorkerStep(o)
  <2>1. pc' \notin {"down", "load"} /\ crashes' = crashes
    BY <1>1, ForwardControl
  <2>2. FirstStart /\ SettledAtOnce /\ LearnedInOrder
    BY <2>1 DEF FeedbackInv
  <2> QED
    BY <1>1, <2>1, <2>2, SettledStep, LearnedStep DEF FirstStart
<1>2. CASE Crash \/ CleanupError
  <2>1. crashes' = crashes + 1 /\ crashes \in Nat
    BY <1>2, BoundAssumption DEF Crash, CleanupError, Inv, TypeInv
  <2> QED
    BY <2>1
<1>3. CASE Restart
  <2>1. crashes = 0 /\ pc = "down"
    BY <1>3 DEF Restart
  <2> QED
    BY <2>1 DEF FeedbackInv, FirstStart
<1>4. CASE Terminated \/ UNCHANGED vars
  <2>1. UNCHANGED <<campaign, proposal, fold, progress, pc, cur, gen, out, crashes>>
    BY <1>4 DEF Terminated, vars, plans, reduceFiles, main
  <2>2. /\ OpenJobs' = OpenJobs /\ Counted' = Counted /\ Iterated' = Iterated
        /\ FoldHistory' = FoldHistory
    BY <2>1, SameViews DEF FoldHistory
  <2> QED
    BY <2>1, <2>2 DEF FeedbackInv, FirstStart, SettledAtOnce, LearnedInOrder
<1> QED
  BY <1>1, <1>2, <1>3, <1>4 DEF Next

\* As long as the process lives, the generator that plans an epoch has learned from every
\* iteration whose fold succeeded, in their order (_reduce_parallel_result, with
\* restore_proposal_state false): no snapshot of a proposal ever replaces it.
THEOREM UninterruptedFeedback == Spec => []FeedbackCompleteUninterrupted
<1>1. Inv /\ FeedbackInv => FeedbackCompleteUninterrupted
  <2> SUFFICES ASSUME Inv, FeedbackInv, crashes = 0, pc = "loop"
               PROVE  /\ \A i \in 1 .. Counted :
                           fold[campaign.iterations[i]].status = "folded"
                             => FoldedBy(gen, campaign.iterations[i])
                      /\ InOrderOf(gen.folded, campaign.iterations)
    BY DEF FeedbackCompleteUninterrupted, FeedbackComplete
  <2>1. LearnedInOrder
    BY DEF FeedbackInv
  <2>2. InOrderOf(gen.folded, campaign.iterations)
    BY <2>1 DEF LearnedInOrder, FoldHistory, Folding
  <2>3. ASSUME NEW i \in 1 .. Counted, fold[campaign.iterations[i]].status = "folded"
        PROVE  FoldedBy(gen, campaign.iterations[i])
    <3>1. campaign.iterations[i] \in Iterated
      BY DEF Iterated
    <3>2. campaign.iterations[i] \in Learned(gen)
      BY <2>1, <2>3, <3>1 DEF LearnedInOrder
    <3> QED
      BY <3>2 DEF FoldedBy, Learned
  <2> QED
    BY <2>2, <2>3
<1>2. Spec => []FeedbackInv
  BY Invariance, FeedbackInit, FeedbackStep, PTL DEF Spec
<1> QED
  BY Invariance, <1>1, <1>2, PTL

-----------------------------------------------------------------------------
(* Every step but a kill brings the campaign nearer to its end *)

\* How many steps the main thread is from the next result, epoch or end, at most.
StepsFrom(point) ==
  CASE point = "down" -> 14        [] point = "load" -> 13
    [] point = "loop" -> 12        [] point = "slots" -> 11
    [] point = "failures" -> 10    [] point = "workers" -> 9
    [] point = "receipt" -> 8      [] point = "cleanup" -> 7
    [] point = "commit" -> 6       [] point = "fold" -> 5
    [] point = "foldReceipt" -> 4  [] point \in {"save", "finalize"} -> 3
    [] point = "progress" -> 2     [] point = "abort" -> 1
    [] OTHER -> 0

\* How many steps a worker is from the end of its job, at most.
WorkerSteps(point) ==
  CASE point \in {"idle", "ready"} -> 5
    [] point = "launch" -> 4
    [] point = "external" -> 3
    [] point = "terminal" -> 2
    [] point = "receipt" -> 1
    [] OTHER -> 0

\* What is left to do for an ordinal: to propose and plan it, to run its worker, to reduce
\* its result.
Left(o) ==
  CASE o >= campaign.nextOrdinal -> IF pc = "slots" /\ o \in Slots /\ o < cur THEN 7 ELSE 8
    [] o < campaign.nextOrdinal /\ o \in OpenFailures ->
         IF o \in campaign.attempts THEN 0 ELSE 1
    [] o < campaign.nextOrdinal /\ o \in OpenJobs ->
         WorkerSteps(wpc[o]) + (IF o \in progress THEN 0 ELSE 1)
    [] OTHER -> 0

\* The steps left of all ordinals, as a set, to count them.
Todo(left) == {step \in Ordinal \X (1 .. 8) : step[2] <= left[step[1]]}

\* A bound on the steps left to a process that is not killed. The main thread goes at most 7
\* steps back, and only after a step of Todo is done.
Work ==
  8 * Cardinality(Todo([o \in Ordinal |-> Left(o)])) + StepsFrom(pc)
    + (IF campaign.active = None THEN 0 ELSE 4)

\* The kills, which leave the rest as it is, are counted; every other step is progress.
Advances ==
  \/ crashes' = crashes + 1 /\ crashes' <= MaxCrashes
  \/ crashes' = crashes /\ Work' < Work

\* Every ordinal has at most eight steps left.
LEMMA LeftBounded == TypeInv => \A o \in Ordinal : Left(o) \in 0 .. 8
<1> SUFFICES ASSUME TypeInv, NEW o \in Ordinal PROVE Left(o) \in 0 .. 8
  OBVIOUS
<1>1. WorkerSteps(wpc[o]) \in 0 .. 5
  BY DEF WorkerSteps
<1>2. campaign.nextOrdinal \in Nat /\ o \in Nat
  BY CampaignParts DEF Ordinal
<1> HIDE DEF WorkerSteps
<1> QED BY <1>1, <1>2 DEF Left

\* When no ordinal has more steps left than before, there is no more to do; when one has
\* fewer, there is less.
LEMMA FewerSteps ==
  ASSUME NEW f \in [Ordinal -> 0 .. 8], NEW g \in [Ordinal -> 0 .. 8],
         \A o \in Ordinal : g[o] <= f[o]
  PROVE  /\ Cardinality(Todo(f)) \in Nat /\ Cardinality(Todo(g)) \in Nat
         /\ Cardinality(Todo(g)) <= Cardinality(Todo(f))
         /\ (\E o \in Ordinal : g[o] < f[o]) => Cardinality(Todo(g)) < Cardinality(Todo(f))
<1>1. IsFiniteSet(Ordinal \X (1 .. 8))
  <2>1. IsFiniteSet(Ordinal)
    BY FS_Interval, BoundAssumption DEF Ordinal
  <2>2. IsFiniteSet(1 .. 8)
    <3>1. 1 \in Int /\ 8 \in Int
      OBVIOUS
    <3> QED BY <3>1, FS_Interval
  <2> QED BY <2>1, <2>2, FS_Product
<1>2. Todo(f) \in SUBSET (Ordinal \X (1 .. 8))
  BY DEF Todo
<1>3. IsFiniteSet(Todo(f))
  BY <1>1, <1>2, FS_Subset
<1>4. Todo(g) \in SUBSET Todo(f)
  <2> SUFFICES ASSUME NEW step \in Ordinal \X (1 .. 8), step[2] <= g[step[1]]
               PROVE  step[2] <= f[step[1]]
    BY DEF Todo
  <2>1. step[1] \in Ordinal /\ step[2] \in Nat
    OBVIOUS
  <2>2. g[step[1]] <= f[step[1]] /\ g[step[1]] \in Nat /\ f[step[1]] \in Nat
    BY <2>1
  <2> QED BY <2>1, <2>2
<1>5. /\ Cardinality(Todo(g)) <= Cardinality(Todo(f))
      /\ Cardinality(Todo(g)) = Cardinality(Todo(f)) => Todo(g) = Todo(f)
      /\ Cardinality(Todo(f)) \in Nat /\ Cardinality(Todo(g)) \in Nat
  BY <1>3, <1>4, FS_Subset, FS_CardinalityType
<1>6. ASSUME NEW o \in Ordinal, g[o] < f[o] PROVE Todo(g) # Todo(f)
  <2>1. f[o] \in 1 .. 8 /\ g[o] \in 0 .. 8
    BY <1>6
  <2>2. <<o, f[o]>> \in Todo(f)
    BY <2>1 DEF Todo
  <2>3. <<o, f[o]>> \notin Todo(g)
    BY <1>6, <2>1 DEF Todo
  <2> QED BY <2>2, <2>3
<1> QED BY <1>5, <1>6

\* How a step that is no kill advances: the main thread does, and nothing is left but what
\* was; or a step of an ordinal is done.
LEMMA WorkFalls ==
  ASSUME TypeInv, TypeInv', crashes' = crashes,
         \A o \in Ordinal : Left(o)' <= Left(o),
         \/ /\ StepsFrom(pc)' < StepsFrom(pc)
            /\ campaign'.active = campaign.active
         \/ /\ StepsFrom(pc)' <= StepsFrom(pc) + 7
            /\ campaign'.active = campaign.active
            /\ \E o \in Ordinal : Left(o)' < Left(o)
         \/ /\ StepsFrom(pc)' <= StepsFrom(pc)
            /\ \E o \in Ordinal : Left(o)' < Left(o)
         \/ /\ StepsFrom(pc)' <= StepsFrom(pc) + 3
            /\ campaign.active # None /\ campaign'.active = None
  PROVE  Advances
<1> DEFINE f == [o \in Ordinal |-> Left(o)]
           g == [o \in Ordinal |-> Left(o)']
           m == Cardinality(Todo(f))
           n == Cardinality(Todo(g))
<1>1. f \in [Ordinal -> 0 .. 8] /\ g \in [Ordinal -> 0 .. 8]
  <2>1. \A o \in Ordinal : Left(o) \in 0 .. 8
    BY LeftBounded
  <2>2. \A o \in Ordinal : Left(o)' \in 0 .. 8
    <3>1. (TypeInv => \A o \in Ordinal : Left(o) \in 0 .. 8)'
      BY LeftBounded, PTL
    <3> QED BY <3>1
  <2> QED BY <2>1, <2>2
<1>2. /\ m \in Nat /\ n \in Nat /\ n <= m
      /\ (\E o \in Ordinal : Left(o)' < Left(o)) => n < m
  <2>1. \A o \in Ordinal : f[o] = Left(o) /\ g[o] = Left(o)'
    OBVIOUS
  <2> HIDE DEF f, g
  <2> QED BY <1>1, <2>1, FewerSteps
<1>3. StepsFrom(pc) \in 0 .. 14 /\ StepsFrom(pc)' \in 0 .. 14
  BY DEF StepsFrom
<1>4. /\ Work = 8 * m + StepsFrom(pc) + (IF campaign.active = None THEN 0 ELSE 4)
      /\ Work' = 8 * n + StepsFrom(pc)' + (IF campaign'.active = None THEN 0 ELSE 4)
  BY DEF Work, Todo
<1> HIDE DEF m, n
<1>5. Work' < Work
  BY <1>2, <1>3, <1>4
<1> QED BY <1>5 DEF Advances

\* Between two plans no ordinal gets a step back.
LEMMA LeftKept ==
  ASSUME TypeInv, pc # "slots", campaign'.nextOrdinal = campaign.nextOrdinal,
         OpenJobs' = OpenJobs, OpenFailures' = OpenFailures,
         campaign.attempts \subseteq campaign'.attempts, progress \subseteq progress',
         \A o \in Ordinal : WorkerSteps(wpc'[o]) <= WorkerSteps(wpc[o])
  PROVE  \A o \in Ordinal : Left(o)' <= Left(o)
<1> SUFFICES ASSUME NEW o \in Ordinal PROVE Left(o)' <= Left(o)
  OBVIOUS
<1>1. /\ WorkerSteps(wpc[o]) \in Nat /\ WorkerSteps(wpc'[o]) \in Nat
      /\ WorkerSteps(wpc'[o]) <= WorkerSteps(wpc[o])
      /\ o \in Nat /\ campaign.nextOrdinal \in Nat
  BY CampaignParts DEF WorkerSteps, Ordinal
<1> HIDE DEF WorkerSteps
<1>2. CASE o >= campaign.nextOrdinal
  BY <1>1, <1>2 DEF Left
<1>3. CASE o < campaign.nextOrdinal
  BY <1>1, <1>3 DEF Left
<1> QED BY <1>1, <1>2, <1>3

\* The slots of the open epoch: a step of one of them is a step done.
LEMMA LeftDone ==
  ASSUME TypeInv, PlanInv, NEW o \in OpenSlots,
         campaign'.nextOrdinal = campaign.nextOrdinal,
         OpenJobs' = OpenJobs, OpenFailures' = OpenFailures,
         \/ /\ o \in Failed /\ o \notin campaign.attempts /\ o \in campaign'.attempts
         \/ /\ o \notin Failed /\ wpc'[o] = wpc[o]
            /\ o \notin progress /\ o \in progress'
         \/ /\ o \notin Failed /\ WorkerSteps(wpc'[o]) < WorkerSteps(wpc[o])
            /\ progress' = progress
  PROVE  o \in Ordinal /\ Left(o)' < Left(o)
<1>1. /\ WorkerSteps(wpc[o]) \in Nat /\ WorkerSteps(wpc'[o]) \in Nat
      /\ o \in Ordinal /\ o \in Nat /\ campaign.nextOrdinal \in Nat
      /\ o < campaign.nextOrdinal
  BY OpenEpoch, CampaignParts DEF WorkerSteps, Ordinal
<1> HIDE DEF WorkerSteps
<1>2. CASE o \in Failed
  <2>1. /\ o \in OpenFailures /\ o \in OpenFailures' /\ o \notin OpenJobs
        /\ o \notin OpenJobs'
    BY <1>2 DEF OpenFailures, OpenJobs
  <2>2. campaign'.nextOrdinal = campaign.nextOrdinal /\ ~(o >= campaign.nextOrdinal)
    BY <1>1
  <2>3. o \notin campaign.attempts /\ o \in campaign'.attempts
    BY <1>2
  <2>4. Left(o) = 1
    BY <1>1, <2>1, <2>2, <2>3 DEF Left
  <2>5. Left(o)' = 0
    BY <1>1, <2>1, <2>2, <2>3 DEF Left
  <2> QED BY <1>1, <2>4, <2>5
<1>3. CASE o \notin Failed
  <2>1. /\ o \in OpenJobs /\ o \in OpenJobs' /\ o \notin OpenFailures
        /\ o \notin OpenFailures'
    BY <1>3 DEF OpenJobs, OpenFailures
  <2>2. /\ Left(o) = WorkerSteps(wpc[o]) + (IF o \in progress THEN 0 ELSE 1)
        /\ Left(o)' = WorkerSteps(wpc'[o]) + (IF o \in progress' THEN 0 ELSE 1)
    BY <1>1, <2>1 DEF Left
  <2> QED BY <1>1, <1>3, <2>2
<1> QED BY <1>2, <1>3

LEMMA WorkerAdvances ==
  ASSUME Inv, TypeInv', NEW o \in Ordinal, WorkerStep(o)
  PROVE  Advances
<1> USE DEF plans, journal, workerFiles, reduceFiles, main, workers
<1>1. /\ UNCHANGED <<campaign, proposal, progress, crashes>>
      /\ pc' = pc \/ pc' = "refused"
  BY WorkerFrame
<1>2. OpenJobs' = OpenJobs /\ OpenFailures' = OpenFailures
  BY <1>1, SameViews
<1>3. wpc \in [Ordinal -> WorkerControl] /\ wpc[o] \notin {"idle", "done"}
      /\ \A p \in Ordinal : p # o => wpc'[p] = wpc[p]
  BY WorkerEffect DEF Inv, TypeInv
<1>4. o \in OpenSlots /\ o \notin Failed /\ pc # "slots"
  BY <1>3 DEF Inv, WorkersInv, WorkersInEpoch, OpenJobs, Reducing
<1>5. WorkerSteps(wpc'[o]) < WorkerSteps(wpc[o])
  <2>1. CASE WorkerBegin(o) \/ WorkerRefuse(o) \/ PublishStarted(o)
    <3>1. wpc[o] = "ready" /\ wpc'[o] \in {"launch", "terminal", "receipt", "done"}
      BY <1>3, <2>1 DEF WorkerBegin, WorkerRefuse, PublishStarted, MayExecute
    <3> QED BY <3>1 DEF WorkerSteps
  <2>2. ASSUME NEW began \in BOOLEAN, RunAgent(o, began)
        PROVE  WorkerSteps(wpc'[o]) < WorkerSteps(wpc[o])
    <3>1. wpc[o] = "launch" /\ wpc'[o] = "external"
      BY <1>3, <2>2 DEF RunAgent
    <3> QED BY <3>1 DEF WorkerSteps
  <2>3. CASE RaiseAfterAgent(o) \/ PublishExternal(o)
    <3>1. wpc[o] = "external" /\ wpc'[o] = "terminal"
      BY <1>3, <2>3 DEF RaiseAfterAgent, PublishExternal
    <3> QED BY <3>1 DEF WorkerSteps
  <2>4. CASE PublishTerminal(o)
    <3>1. wpc[o] = "terminal" /\ wpc'[o] = "receipt"
      BY <1>3, <2>4 DEF PublishTerminal
    <3> QED BY <3>1 DEF WorkerSteps
  <2>5. CASE PublishWorkerReceipt(o)
    <3>1. wpc[o] = "receipt" /\ wpc'[o] = "done"
      BY <1>3, <2>5 DEF PublishWorkerReceipt
    <3> QED BY <3>1 DEF WorkerSteps
  <2> QED BY <2>1, <2>2, <2>3, <2>4, <2>5 DEF WorkerStep
<1>6. \A p \in Ordinal : WorkerSteps(wpc'[p]) <= WorkerSteps(wpc[p])
  <2>1. \A p \in Ordinal : WorkerSteps(wpc[p]) \in Nat /\ WorkerSteps(wpc'[p]) \in Nat
    BY DEF WorkerSteps
  <2> HIDE DEF WorkerSteps
  <2> QED BY <1>3, <1>5, <2>1
<1> HIDE DEF WorkerSteps
<1>7. \A p \in Ordinal : Left(p)' <= Left(p)
  BY <1>1, <1>2, <1>4, <1>6, LeftKept DEF Inv
<1>8. Left(o)' < Left(o)
  BY <1>1, <1>2, <1>4, <1>5, LeftDone DEF Inv
<1>9. StepsFrom(pc)' <= StepsFrom(pc)
  BY <1>1 DEF StepsFrom
<1> QED BY <1>1, <1>7, <1>8, <1>9, WorkFalls DEF Inv

\* The steps that plan an epoch: each slot is proposed, and then they are planned at once.
LEMMA PlanningAdvances ==
  ASSUME Inv, TypeInv',
         PublishProposal \/ SaveEpoch
  PROVE  Advances
<1> USE DEF plans, journal, workerFiles, reduceFiles, main, workers
<1>1. /\ pc = "slots" /\ campaign.active = None /\ Counted < Budget
      /\ campaign.nextOrdinal + Capacity <= MaxAttempts
      /\ campaign.nextOrdinal \in Nat /\ Capacity \in Nat \ {0} /\ cur \in Nat
      /\ crashes' = crashes
  <2>1. pc = "slots" /\ crashes' = crashes
    BY DEF PublishProposal, SaveEpoch
  <2>2. /\ campaign.active = None /\ Counted < Budget
        /\ campaign.nextOrdinal + Capacity <= MaxAttempts /\ cur \in Nat
    BY <2>1 DEF Inv, MainInv, Planning
  <2> QED BY <2>1, <2>2, SlotFacts, CampaignParts DEF Inv
<1>2. /\ Slots \subseteq Ordinal
      /\ \A o \in Nat : o \in Slots <=>
           campaign.nextOrdinal <= o /\ o < campaign.nextOrdinal + Capacity
  BY <1>1, SlotFacts DEF Inv
<1>3. OpenJobs = {} /\ OpenFailures = {}
  BY <1>1 DEF OpenJobs, OpenFailures, OpenSlots
<1>4. \A o \in Ordinal : o \in Nat
  BY DEF Ordinal
<1>5. \A o \in Ordinal : Left(o) =
        IF o >= campaign.nextOrdinal THEN IF o \in Slots /\ o < cur THEN 7 ELSE 8 ELSE 0
  BY <1>1, <1>3, <1>4 DEF Left
<1>6. CASE PublishProposal
  <2>1. /\ campaign' = campaign /\ pc' = pc /\ cur \in Slots /\ cur' = cur + 1
    BY <1>6 DEF PublishProposal
  <2>2. Slots' = Slots
    BY <2>1, SameSlots
  <2>3. OpenJobs' = {} /\ OpenFailures' = {}
    BY <1>1, <2>1 DEF OpenJobs, OpenFailures, OpenSlots
  <2>4. \A o \in Ordinal : Left(o)' =
          IF o >= campaign.nextOrdinal THEN IF o \in Slots /\ o < cur + 1 THEN 7 ELSE 8 ELSE 0
    BY <1>1, <1>4, <2>1, <2>2, <2>3 DEF Left
  <2>5. \A o \in Ordinal : Left(o)' <= Left(o)
    BY <1>1, <1>4, <1>5, <2>4
  <2>6. PICK o \in Ordinal : o = cur /\ o >= campaign.nextOrdinal
    BY <1>1, <1>2, <2>1
  <2>7. Left(o)' < Left(o)
    BY <1>1, <1>5, <2>1, <2>4, <2>6
  <2>8. StepsFrom(pc)' <= StepsFrom(pc)
    BY <2>1 DEF StepsFrom
  <2> QED BY <1>1, <2>5, <2>6, <2>7, <2>8, WorkFalls DEF Inv
<1>7. CASE SaveEpoch
  <2>1. /\ campaign'.nextOrdinal = campaign.nextOrdinal + Capacity
        /\ campaign'.active = [epoch |-> campaign.nextEpoch, slots |-> Slots]
        /\ pc' = "failures"
    BY <1>7, SaveEpochEffect DEF Inv, SaveEpoch
  <2> DEFINE first == campaign.nextOrdinal
             after == campaign.nextOrdinal + Capacity
  <2>2. OpenSlots' \subseteq Slots
    BY <2>1 DEF OpenSlots
  <2>3. OpenJobs' \subseteq Slots /\ OpenFailures' \subseteq Slots
    BY <2>2 DEF OpenJobs, OpenFailures
  <2>4. \A o \in Ordinal : WorkerSteps(wpc'[o]) \in 0 .. 5
    BY DEF WorkerSteps
  <2>5. ASSUME NEW o \in Ordinal PROVE Left(o)' <= Left(o) /\ (o \in Slots => Left(o)' < Left(o))
    <3>1. CASE o >= after
      <4>1. o \in Nat /\ o >= first /\ o \notin Slots
        BY <1>1, <1>2, <1>4, <3>1
      <4>2. Left(o) = 8
        BY <1>5, <4>1
      <4>3. Left(o)' = 8
        <5>1. o >= campaign'.nextOrdinal /\ ~(o < campaign'.nextOrdinal) /\ pc' # "slots"
          BY <1>1, <2>1, <3>1, <4>1
        <5> QED BY <5>1 DEF Left
      <4> QED BY <4>1, <4>2, <4>3
    <3>2. CASE first <= o /\ o < after
      <4>1. Left(o) \in {7, 8}
        BY <1>5, <3>2
      <4>2. o \in Nat /\ ~(o >= campaign'.nextOrdinal) /\ WorkerSteps(wpc'[o]) \in 0 .. 5
        BY <1>1, <1>4, <2>1, <2>4, <3>2
      <4> HIDE DEF WorkerSteps
      <4>3. Left(o)' \in 0 .. 6
        BY <4>2 DEF Left
      <4> QED BY <4>1, <4>3
    <3>3. CASE o < first
      <4>1. o \in Nat /\ o \notin Slots /\ ~(o >= campaign.nextOrdinal) /\ o < after
        BY <1>1, <1>2, <1>4, <3>3
      <4>2. Left(o) = 0
        BY <1>5, <4>1
      <4>3. ~(o >= campaign'.nextOrdinal) /\ o \notin OpenJobs' /\ o \notin OpenFailures'
        BY <1>1, <2>1, <2>3, <4>1
      <4>4. Left(o)' = 0
        BY <4>3 DEF Left
      <4> QED BY <4>1, <4>2, <4>4
    <3> QED BY <1>1, <1>4, <3>1, <3>2, <3>3
  <2>6. first \in Slots /\ first \in Ordinal
    BY <1>1, <1>2
  <2>7. \E o \in Ordinal : Left(o)' < Left(o)
    BY <2>5, <2>6
  <2>8. StepsFrom(pc)' <= StepsFrom(pc)
    BY <1>1, <2>1 DEF StepsFrom
  <2> QED BY <1>1, <2>5, <2>7, <2>8, WorkFalls DEF Inv
<1> QED BY <1>6, <1>7

\* The steps of the main thread that neither plan nor end an epoch, nor settle a result.
LEMMA ControlAdvances ==
  ASSUME Inv, TypeInv', pc # "slots",
         UNCHANGED <<crashes, proposal, progress>>,
         campaign'.nextOrdinal = campaign.nextOrdinal, campaign'.active = campaign.active,
         campaign.attempts \subseteq campaign'.attempts,
         \A o \in Ordinal : WorkerSteps(wpc'[o]) <= WorkerSteps(wpc[o]),
         StepsFrom(pc)' < StepsFrom(pc)
  PROVE  Advances
<1>1. OpenJobs' = OpenJobs /\ OpenFailures' = OpenFailures
  BY DEF OpenJobs, OpenFailures, OpenSlots, Failed
<1>2. \A o \in Ordinal : Left(o)' <= Left(o)
  BY <1>1, LeftKept DEF Inv
<1> QED BY <1>2, WorkFalls DEF Inv

LEMMA SettlingAdvances ==
  ASSUME Inv, TypeInv', Commit \/ PublishProgress \/ EndEpoch
  PROVE  Advances
<1> USE DEF plans, journal, workerFiles, reduceFiles, main, workers
<1>1. CASE Commit
  <2>1. /\ campaign'.attempts = campaign.attempts \cup {cur}
        /\ campaign'.iterations = campaign.iterations /\ campaign'.active = campaign.active
        /\ campaign'.nextOrdinal = campaign.nextOrdinal
        /\ UNCHANGED <<proposal, progress, wpc, crashes>>
        /\ pc = "commit" /\ pc' = AfterCommit(cur)
    BY <1>1, CommitEffect DEF Inv, Commit
  <2>2. cur \in OpenSlots /\ cur \in Ordinal
    BY <2>1, CampaignParts DEF Inv, TypeInv, Reducing
  <2>3. proposal[cur] # None
    BY <2>2, OpenEpoch DEF Inv
  <2>4. OpenJobs' = OpenJobs /\ OpenFailures' = OpenFailures
    BY <2>1, SameViews
  <2>5. \A o \in Ordinal : WorkerSteps(wpc'[o]) <= WorkerSteps(wpc[o])
    BY <2>1 DEF WorkerSteps
  <2>6. \A o \in Ordinal : Left(o)' <= Left(o)
    BY <2>1, <2>4, <2>5, LeftKept DEF Inv
  <2>7. CASE cur \in Failed
    <3>1. cur \notin campaign.attempts
      BY <2>1, <2>7 DEF Inv, MainInv, Current, Reducing
    <3>2. PICK o \in OpenSlots : o = cur
      BY <2>2
    <3>3. o \in Ordinal /\ Left(o)' < Left(o)
      BY <2>1, <2>4, <2>7, <3>1, <3>2, LeftDone DEF Inv
    <3>4. pc' = "failures"
      BY <2>1, <2>7 DEF AfterCommit, Failed
    <3>5. StepsFrom(pc)' <= StepsFrom(pc) + 7
      BY <2>1, <3>4 DEF StepsFrom
    <3> QED BY <2>1, <2>6, <3>3, <3>5, WorkFalls DEF Inv
  <2>8. CASE cur \notin Failed
    <3>1. pc' \in {"save", "progress", "finalize", "fold"}
      BY <2>1, <2>2, <2>3, <2>8 DEF AfterCommit, Failed
    <3>2. StepsFrom(pc)' < StepsFrom(pc)
      BY <2>1, <3>1 DEF StepsFrom
    <3> QED BY <2>1, <2>6, <3>2, WorkFalls DEF Inv
  <2> QED BY <2>7, <2>8
<1>2. CASE PublishProgress
  <2>1. /\ UNCHANGED <<campaign, proposal, wpc, crashes>> /\ progress' = progress \cup {cur}
        /\ pc = "progress" /\ pc' = "workers"
    BY <1>2 DEF PublishProgress
  <2>2. cur \in OpenSlots /\ cur \in Ordinal
    BY <2>1, CampaignParts DEF Inv, TypeInv, Reducing
  <2>3. cur \notin Failed /\ cur \notin progress
    BY <2>1 DEF Inv, MainInv, Current, Reducing, Settling
  <2>4. OpenJobs' = OpenJobs /\ OpenFailures' = OpenFailures
    BY <2>1, SameViews
  <2>5. \A o \in Ordinal : WorkerSteps(wpc'[o]) <= WorkerSteps(wpc[o])
    BY <2>1 DEF WorkerSteps
  <2>6. \A o \in Ordinal : Left(o)' <= Left(o)
    BY <2>1, <2>4, <2>5, LeftKept DEF Inv
  <2>7. PICK o \in OpenSlots : o = cur
    BY <2>2
  <2>8. o \in Ordinal /\ Left(o)' < Left(o)
    BY <2>1, <2>3, <2>4, <2>7, LeftDone DEF Inv
  <2>9. StepsFrom(pc)' <= StepsFrom(pc) + 7
    BY <2>1 DEF StepsFrom
  <2> QED BY <2>1, <2>6, <2>8, <2>9, WorkFalls DEF Inv
<1>3. CASE EndEpoch
  <2>1. /\ campaign'.active = None /\ campaign'.nextOrdinal = campaign.nextOrdinal
        /\ pc = "workers" /\ pc' \in {"abort", "loop"} /\ crashes' = crashes
    BY <1>3, EndEpochEffect DEF Inv, EndEpoch
  <2>2. campaign.active # None
    BY <2>1 DEF Inv, MainInv, EpochOpen
  <2>3. OpenJobs' = {} /\ OpenFailures' = {}
    BY <2>1 DEF OpenJobs, OpenFailures, OpenSlots
  <2>4. ASSUME NEW o \in Ordinal PROVE Left(o)' <= Left(o)
    <3>1. Left(o) \in 0 .. 8 /\ o \in Nat /\ campaign.nextOrdinal \in Nat
      BY LeftBounded, CampaignParts DEF Inv, Ordinal
    <3>2. CASE o >= campaign.nextOrdinal
      <4>1. /\ o >= campaign'.nextOrdinal /\ ~(o < campaign'.nextOrdinal) /\ pc' # "slots"
            /\ ~(o < campaign.nextOrdinal) /\ pc # "slots"
        BY <2>1, <3>1, <3>2
      <4>2. Left(o) = 8
        BY <3>2, <4>1 DEF Left
      <4>3. Left(o)' = 8
        BY <4>1 DEF Left
      <4> QED BY <4>2, <4>3
    <3>3. CASE ~(o >= campaign.nextOrdinal)
      <4>1. Left(o)' = 0
        BY <2>1, <2>3, <3>3 DEF Left
      <4> QED BY <3>1, <4>1
    <3> QED BY <3>2, <3>3
  <2>5. StepsFrom(pc)' <= StepsFrom(pc) + 3
    BY <2>1 DEF StepsFrom
  <2> QED BY <2>1, <2>2, <2>4, <2>5, WorkFalls DEF Inv
<1> QED BY <1>1, <1>2, <1>3

LEMMA StepAdvances ==
  ASSUME Inv, TypeInv', Next, vars' # vars
  PROVE  Advances
<1> USE DEF plans, journal, workerFiles, reduceFiles, main, workers
<1>1. ASSUME wpc' = wpc PROVE \A o \in Ordinal : WorkerSteps(wpc'[o]) <= WorkerSteps(wpc[o])
  BY <1>1 DEF WorkerSteps
<1>2. CASE Load \/ ResumeEpoch \/ ProposeFails \/ Restart
  <2>1. /\ UNCHANGED <<campaign, proposal, progress, crashes, wpc>> /\ pc # "slots"
    BY <1>2 DEF Load, ResumeEpoch, ProposeFails, Restart
  <2>2. \/ pc = "load" /\ pc' \in {"refused", "done", "loop"}
        \/ pc = "loop" /\ pc' \in {"failures", "slots"}
        \/ pc = "down" /\ pc' = "load"
    BY <1>2 DEF Load, ResumeEpoch, ProposeFails, Restart
  <2>3. StepsFrom(pc)' < StepsFrom(pc)
    BY <2>2 DEF StepsFrom
  <2> QED BY <1>1, <2>1, <2>3, ControlAdvances
<1>3. ASSUME NEW results, ProposeEpoch(results) PROVE Advances
  <2>1. /\ UNCHANGED <<campaign, proposal, progress, crashes, wpc>>
        /\ pc = "loop" /\ pc' \in {"refused", "slots"}
    BY <1>3 DEF ProposeEpoch
  <2>2. StepsFrom(pc)' < StepsFrom(pc)
    BY <2>1 DEF StepsFrom
  <2> QED BY <1>1, <2>1, <2>2, ControlAdvances
<1>4. CASE TakeFailure \/ TakeResult \/ PublishReceipt \/ Cleanup \/ PublishFold
  <2>1. UNCHANGED <<campaign, proposal, progress, crashes, wpc>>
    BY <1>4 DEF TakeFailure, TakeResult, PublishReceipt, Cleanup, PublishFold
  <2>2. \/ pc \in {"failures", "workers"} /\ pc' = "receipt"
        \/ pc = "receipt" /\ pc' = "cleanup"
        \/ pc = "cleanup" /\ pc' = "commit"
        \/ pc = "foldReceipt" /\ pc' = "finalize"
    BY <1>4 DEF TakeFailure, TakeResult, PublishReceipt, Cleanup, PublishFold
  <2>3. StepsFrom(pc)' < StepsFrom(pc) /\ pc # "slots"
    BY <2>2 DEF StepsFrom
  <2> QED BY <1>1, <2>1, <2>3, ControlAdvances
<1>5. CASE StartWorkers
  <2>1. /\ UNCHANGED <<campaign, proposal, progress, crashes>>
        /\ pc = "failures" /\ pc' = "workers"
        /\ \A o \in Ordinal : wpc'[o] \in {"ready", "idle"}
    BY <1>5 DEF StartWorkers
  <2>2. \A o \in Ordinal : wpc[o] = "idle"
    BY <2>1 DEF Inv, WorkersInv, WorkersInEpoch, Reducing
  <2>3. \A o \in Ordinal : WorkerSteps(wpc'[o]) <= WorkerSteps(wpc[o])
    BY <2>1, <2>2 DEF WorkerSteps
  <2>4. StepsFrom(pc)' < StepsFrom(pc)
    BY <2>1 DEF StepsFrom
  <2> QED BY <2>1, <2>3, <2>4, ControlAdvances
<1>6. ASSUME NEW status, NEW absorbed, CallFold(status, absorbed) PROVE Advances
  <2>1. /\ UNCHANGED <<campaign, proposal, progress, crashes, wpc>>
        /\ pc = "fold" /\ pc' = "foldReceipt"
    BY <1>6 DEF CallFold
  <2>2. StepsFrom(pc)' < StepsFrom(pc)
    BY <2>1 DEF StepsFrom
  <2> QED BY <1>1, <2>1, <2>2, ControlAdvances
<1>7. CASE Finalize
  <2>1. /\ UNCHANGED <<proposal, progress, crashes, wpc>>
        /\ campaign'.attempts = campaign.attempts
        /\ campaign'.active = campaign.active
        /\ campaign'.nextOrdinal = campaign.nextOrdinal
        /\ pc = "finalize" /\ pc' = "progress"
    BY <1>7, FinalizeEffect DEF Inv, Finalize
  <2>2. StepsFrom(pc)' < StepsFrom(pc)
    BY <2>1 DEF StepsFrom
  <2> QED BY <1>1, <2>1, <2>2, ControlAdvances
<1>8. CASE SaveUncharged \/ Finish
  <2>1. /\ UNCHANGED <<proposal, progress, crashes, wpc>>
        /\ campaign'.attempts = campaign.attempts
        /\ campaign'.active = campaign.active
        /\ campaign'.nextOrdinal = campaign.nextOrdinal
    BY <1>8, SavedEffect DEF Inv, SaveUncharged, Finish
  <2>2. \/ pc = "save" /\ pc' = "progress"
        \/ pc \in {"loop", "abort"} /\ pc' = "done"
    BY <1>8 DEF SaveUncharged, Finish
  <2>3. StepsFrom(pc)' < StepsFrom(pc) /\ pc # "slots"
    BY <2>2 DEF StepsFrom
  <2> QED BY <1>1, <2>1, <2>3, ControlAdvances
<1>9. CASE Crash \/ CleanupError
  <2>1. crashes' = crashes + 1 /\ crashes < MaxCrashes /\ crashes \in Nat /\ MaxCrashes \in Nat
    BY <1>9, BoundAssumption DEF Crash, CleanupError, Inv, TypeInv
  <2> QED BY <2>1 DEF Advances
<1>10. ~Terminated
  BY DEF Terminated
<1> QED
  BY <1>2, <1>3, <1>4, <1>5, <1>6, <1>7, <1>8, <1>9, <1>10, PlanningAdvances,
     SettlingAdvances, WorkerAdvances DEF Next, MainStep

\* A parallel campaign takes finitely many steps, whatever the order in which its workers
\* take theirs and wherever it is killed: every step reduces what is left to do, or is one
\* of at most MaxCrashes kills (_run_parallel, run_epoch, ParallelReducer.reduce).
THEOREM ParallelAdvances == Spec => [][Advances]_vars
<1>1. Inv /\ Inv' /\ [Next]_vars => [Advances]_vars
  BY StepAdvances DEF Inv
<1> QED BY Invariance, <1>1, PTL DEF Spec

-----------------------------------------------------------------------------
(* The campaign implements EpochCampaign *)

\* A campaign that ended is not worked on: nothing runs, and no process gets beyond Load.
StatusRunning ==
  campaign.status # "running" =>
    /\ pc \in {"load", "down", "done", "refused"}
    /\ \A o \in Ordinal : wpc[o] = "idle"

\* An epoch is entered, and a campaign is given up, with executions left to charge.
RoomLeft ==
  /\ pc \in {"failures", "abort"} => Counted < Budget
  /\ pc \in Reducing /\ cur \in Failed => Counted < Budget
  /\ pc = "workers" \/ (pc \in Reducing /\ cur \notin Failed) => before < Budget

\* A result is taken from a worker that has delivered it, and no worker runs after that.
ReceiptsDelivered ==
  /\ \A o \in Ordinal \ Failed : receipt[o] # None => workerReceipt[o] # None
  /\ \A o \in Ordinal :
       wpc[o] \in {"launch", "external", "terminal", "receipt"} => workerReceipt[o] = None

EpochInv == StatusRunning /\ RoomLeft /\ ReceiptsDelivered

LEMMA EpochInit == Init => EpochInv
  BY DEF Init, EpochInv, StatusRunning, RoomLeft, ReceiptsDelivered, Reducing

\* What the control points of a step say of the workers and of the status.
LEMMA StatusStep ==
  ASSUME Inv, StatusRunning, [Next]_vars
  PROVE  StatusRunning'
<1> USE DEF plans, journal, workerFiles, reduceFiles, main, workers
<1>1. CASE Finish
  <2>1. pc \in {"loop", "abort"} /\ pc' = "done" /\ wpc' = wpc
    BY <1>1 DEF Finish
  <2>2. \A o \in Ordinal : wpc[o] = "idle"
    BY <2>1 DEF Inv, WorkersInv, WorkersInEpoch, Reducing
  <2> QED BY <2>1, <2>2 DEF StatusRunning
<1>2. CASE Crash \/ CleanupError
  BY <1>2 DEF Crash, CleanupError, Forget, StatusRunning
<1>3. CASE Load \/ Restart \/ Terminated \/ UNCHANGED vars
  BY <1>3 DEF Load, Restart, Terminated, vars, StatusRunning
<1>4. ASSUME NEW o \in Ordinal, WorkerStep(o) PROVE StatusRunning'
  <2>1. wpc[o] # "idle" /\ campaign' = campaign
    BY <1>4, WorkerEffect, WorkerFrame DEF Inv
  <2> QED BY <2>1 DEF StatusRunning
<1>5. CASE Commit \/ SaveUncharged \/ Finalize
  <2>1. campaign.status = "running"
    BY <1>5 DEF Commit, SaveUncharged, Finalize, StatusRunning
  <2>2. campaign'.status = campaign.status
    BY <1>5 DEF Commit, SaveUncharged, Finalize, CommittedState, Inv, TypeInv, CampaignState
  <2> QED BY <2>1, <2>2 DEF StatusRunning
<1>6. CASE SaveEpoch \/ EndEpoch
  <2>1. campaign.status = "running"
    BY <1>6 DEF SaveEpoch, EndEpoch, StatusRunning
  <2>2. campaign'.status = campaign.status
    BY <1>6 DEF SaveEpoch, EndEpoch, PlannedState, Inv, TypeInv, CampaignState
  <2> QED BY <2>1, <2>2 DEF StatusRunning
<1>7. ASSUME campaign' = campaign, pc \notin {"load", "down", "done", "refused"}
      PROVE  StatusRunning'
  BY <1>7 DEF StatusRunning
<1>8. CASE ResumeEpoch \/ ProposeFails \/ PublishProposal \/ TakeFailure \/ StartWorkers
           \/ TakeResult \/ PublishReceipt \/ Cleanup \/ PublishFold \/ PublishProgress
  BY <1>7, <1>8 DEF ResumeEpoch, ProposeFails, PublishProposal, TakeFailure, StartWorkers,
                    TakeResult, PublishReceipt, Cleanup, PublishFold, PublishProgress
<1>9. ASSUME NEW results, ProposeEpoch(results) PROVE StatusRunning'
  BY <1>7, <1>9 DEF ProposeEpoch
<1>10. ASSUME NEW status, NEW absorbed, CallFold(status, absorbed) PROVE StatusRunning'
  BY <1>7, <1>10 DEF CallFold
<1> QED
  BY <1>1, <1>2, <1>3, <1>4, <1>5, <1>6, <1>8, <1>9, <1>10 DEF Next, MainStep

LEMMA RoomStep ==
  ASSUME Inv, RoomLeft, [Next]_vars
  PROVE  RoomLeft'
<1> USE DEF plans, journal, workerFiles, reduceFiles, main, workers
<1>1. ASSUME pc' \notin Reducing \cup {"failures", "workers", "abort"} PROVE RoomLeft'
  BY <1>1 DEF RoomLeft
<1>2. ASSUME Counted' < Budget, pc' \in {"failures", "abort"} PROVE RoomLeft'
  BY <1>2 DEF RoomLeft, Reducing
<1>3. ASSUME campaign'.iterations = campaign.iterations, campaign'.active = campaign.active,
             proposal' = proposal, before' = before, cur' = cur,
             pc \in Reducing, pc' \in Reducing
      PROVE  RoomLeft'
  <2>1. Counted' = Counted /\ Failed' = Failed
    BY <1>3, SameViews
  <2> QED BY <1>3, <2>1 DEF RoomLeft, Reducing
<1>4. CASE \/ Load \/ Crash \/ CleanupError \/ Restart \/ ProposeFails \/ PublishProposal
           \/ Finish
  BY <1>1, <1>4 DEF Load, Crash, CleanupError, Forget, Restart, ProposeFails, PublishProposal,
                    Finish, Reducing
<1>5. ASSUME NEW results, ProposeEpoch(results) PROVE RoomLeft'
  BY <1>1, <1>5 DEF ProposeEpoch, Reducing
<1>6. CASE ResumeEpoch
  BY <1>2, <1>6 DEF ResumeEpoch, Counted
<1>7. CASE SaveEpoch
  <2>1. pc' = "failures" /\ campaign'.iterations = campaign.iterations
    BY <1>7, SaveEpochEffect DEF SaveEpoch, Inv
  <2>2. Counted < Budget
    BY <1>7 DEF SaveEpoch, Inv, MainInv, Planning
  <2> QED BY <1>2, <2>1, <2>2 DEF Counted
<1>8. CASE TakeFailure
  <2>1. pc = "failures" /\ pc' = "receipt" /\ UNCHANGED <<campaign, proposal>>
    BY <1>8 DEF TakeFailure
  <2>2. cur' \in Failed'
    <3>1. Failures = OpenFailures /\ OpenFailures \subseteq Ordinal
      BY <2>1, OpenEpoch, CampaignParts DEF Inv, MainInv, EpochOpen, OpenFailures
    <3> DEFINE left == {o \in Failures : ~Committed(o)}
    <3>2. left \in SUBSET Ordinal /\ left # {} /\ cur' = FirstSlot(left)
      BY <1>8, <3>1 DEF TakeFailure
    <3> HIDE DEF left
    <3>3. cur' \in left
      BY <3>2, FirstSlotIsMember
    <3>4. cur' \in Failed
      BY <3>1, <3>3 DEF left, OpenFailures
    <3> QED BY <2>1, <3>4 DEF Failed
  <2>3. Counted' < Budget
    BY <2>1 DEF RoomLeft, Counted
  <2> QED BY <2>1, <2>2, <2>3 DEF RoomLeft, Reducing
<1>9. CASE StartWorkers
  <2>1. pc = "failures" /\ pc' = "workers" /\ before' = Counted /\ campaign' = campaign
    BY <1>9 DEF StartWorkers
  <2> QED BY <2>1 DEF RoomLeft, Reducing
<1>10. CASE TakeResult
  <2>1. /\ pc = "workers" /\ pc' = "receipt" /\ UNCHANGED <<campaign, proposal, before>>
    BY <1>10 DEF TakeResult
  <2>2. cur' \notin Failed'
    <3>1. Jobs = OpenJobs /\ OpenJobs \subseteq Ordinal
      BY <2>1, OpenEpoch, CampaignParts DEF Inv, MainInv, EpochOpen
    <3> DEFINE left == Jobs \ progress
    <3>2. left \in SUBSET Ordinal /\ left # {} /\ cur' = NextResult(left)
      BY <1>10, <3>1 DEF TakeResult
    <3> HIDE DEF left
    <3>3. cur' \in left
      BY <3>2, NextResultIsFirst
    <3>4. cur' \notin Failed
      BY <3>1, <3>3 DEF left, OpenJobs
    <3> QED BY <2>1, <3>4 DEF Failed
  <2> QED BY <2>1, <2>2 DEF RoomLeft, Reducing
<1>11. CASE PublishReceipt \/ Cleanup \/ PublishFold
  BY <1>3, <1>11 DEF PublishReceipt, Cleanup, PublishFold, Reducing
<1>12. ASSUME NEW status, NEW absorbed, CallFold(status, absorbed) PROVE RoomLeft'
  BY <1>3, <1>12 DEF CallFold, Reducing
<1>13. CASE SaveUncharged
  <2>1. /\ pc = "save" /\ pc' = "progress" /\ UNCHANGED <<before, cur>>
    BY <1>13 DEF SaveUncharged
  <2> QED BY <1>3, <1>13, <2>1, SavedEffect DEF Inv, Reducing
<1>14. CASE Commit
  <2>1. /\ pc = "commit" /\ pc' = AfterCommit(cur) /\ before' = before /\ cur' = cur
        /\ campaign'.iterations = campaign.iterations /\ campaign'.active = campaign.active
        /\ proposal' = proposal
    BY <1>14, CommitEffect DEF Commit, Inv
  <2>2. cur \in Ordinal /\ proposal[cur] # None
    BY <2>1, OpenEpoch DEF Inv, TypeInv, Reducing
  <2>3. CASE cur \in Failed
    <3>1. pc' = "failures" /\ Counted < Budget
      BY <2>1, <2>3 DEF AfterCommit, Failed, RoomLeft, Reducing
    <3> QED BY <1>2, <2>1, <3>1 DEF Counted
  <2>4. CASE cur \notin Failed
    <3>1. pc' \in {"save", "progress", "finalize", "fold"}
      BY <2>1, <2>2, <2>4 DEF AfterCommit, Failed
    <3> QED BY <1>3, <2>1, <3>1 DEF Reducing
  <2> QED BY <2>3, <2>4
<1>15. CASE Finalize
  <2>1. /\ pc = "finalize" /\ pc' = "progress" /\ before' = before
        /\ cur' = cur /\ proposal' = proposal
    BY <1>15, FinalizeEffect DEF Finalize, Inv
  <2>2. cur \notin Failed /\ Failed' = Failed
    BY <2>1 DEF Inv, MainInv, Current, Reducing, Settling, Failed
  <2>3. before' < Budget /\ cur' \notin Failed'
    BY <2>1, <2>2 DEF RoomLeft, Reducing
  <2> QED BY <2>1, <2>3 DEF RoomLeft
<1>16. CASE PublishProgress
  <2>1. pc = "progress" /\ pc' = "workers" /\ before' = before
    BY <1>16 DEF PublishProgress
  <2>2. cur \notin Failed
    BY <2>1 DEF Inv, MainInv, Current, Reducing, Settling
  <2>3. before' < Budget
    BY <2>1, <2>2 DEF RoomLeft, Reducing
  <2> QED BY <2>1, <2>3 DEF RoomLeft, Reducing
<1>17. CASE EndEpoch
  <2>1. /\ pc = "workers" /\ before < Budget /\ before \in Nat
        /\ campaign'.iterations = campaign.iterations
        /\ pc' = IF FailuresAfter(Counted - before) >= Cap THEN "abort" ELSE "loop"
    BY <1>17, EndEpochEffect DEF EndEpoch, RoomLeft, Inv, TypeInv
  <2>2. CASE Counted - before > 0
    <3>1. pc' = "loop"
      BY <2>1, <2>2, CapAssumption DEF FailuresAfter
    <3> QED BY <1>1, <3>1 DEF Reducing
  <2>3. CASE ~(Counted - before > 0)
    <3>1. Counted < Budget /\ Counted' = Counted
      BY <2>1, <2>3, CampaignParts, BudgetAssumption DEF Inv, Counted
    <3> QED BY <1>1, <1>2, <2>1, <3>1 DEF Reducing
  <2> QED BY <2>2, <2>3
<1>18. ASSUME NEW o \in Ordinal, WorkerStep(o) PROVE RoomLeft'
  <2>1. /\ UNCHANGED <<campaign, proposal, before, cur>>
        /\ pc' = pc \/ pc' = "refused"
    BY <1>18, WorkerFrame
  <2>2. Counted' = Counted /\ Failed' = Failed
    BY <2>1 DEF Counted, Failed
  <2> QED BY <1>1, <2>1, <2>2 DEF RoomLeft, Reducing
<1>19. CASE Terminated \/ UNCHANGED vars
  BY <1>19 DEF Terminated, vars, RoomLeft, Counted, Failed
<1> QED
  BY <1>4, <1>5, <1>6, <1>7, <1>8, <1>9, <1>10, <1>11, <1>12, <1>13, <1>14, <1>15, <1>16,
     <1>17, <1>18, <1>19 DEF Next, MainStep

\* A step that publishes no receipt and moves no worker.
LEMMA DeliveredKept ==
  ASSUME ReceiptsDelivered, Failed \subseteq Failed', receipt' = receipt,
         workerReceipt' = workerReceipt,
         \A o \in Ordinal : wpc'[o] = wpc[o] \/ wpc'[o] \in {"idle", "ready"}
  PROVE  ReceiptsDelivered'
  BY DEF ReceiptsDelivered

LEMMA DeliveredStep ==
  ASSUME Inv, ReceiptsDelivered, [Next]_vars
  PROVE  ReceiptsDelivered'
<1> USE DEF plans, journal, workerFiles, reduceFiles, main, workers
<1>1. ASSUME proposal' = proposal PROVE Failed \subseteq Failed'
  BY <1>1 DEF Failed
<1>2. CASE Load \/ ResumeEpoch \/ ProposeFails \/ SaveEpoch \/ TakeFailure \/ StartWorkers
  BY <1>1, <1>2, DeliveredKept
     DEF Load, ResumeEpoch, ProposeFails, SaveEpoch, TakeFailure, StartWorkers
<1>3. CASE TakeResult \/ Cleanup \/ Commit \/ SaveUncharged
  BY <1>1, <1>3, DeliveredKept DEF TakeResult, Cleanup, Commit, SaveUncharged
<1>4. CASE PublishFold \/ Finalize \/ PublishProgress \/ EndEpoch \/ Finish
  BY <1>1, <1>4, DeliveredKept DEF PublishFold, Finalize, PublishProgress, EndEpoch, Finish
<1>5. CASE Crash \/ CleanupError
  BY <1>1, <1>5, DeliveredKept DEF Crash, CleanupError, Forget
<1>6. CASE Restart \/ Terminated \/ UNCHANGED vars
  BY <1>1, <1>6, DeliveredKept DEF Restart, Terminated, vars
<1>7. ASSUME NEW results, ProposeEpoch(results) PROVE ReceiptsDelivered'
  BY <1>1, <1>7, DeliveredKept DEF ProposeEpoch
<1>8. ASSUME NEW status, NEW absorbed, CallFold(status, absorbed) PROVE ReceiptsDelivered'
  BY <1>1, <1>8, DeliveredKept DEF CallFold
<1>9. CASE PublishProposal
  <2>1. /\ UNCHANGED <<receipt, workerReceipt, wpc>>
        /\ \A o \in Ordinal : proposal[o] # None => proposal'[o] = proposal[o]
    BY <1>9 DEF PublishProposal, Inv, TypeInv
  <2>2. Failed \subseteq Failed'
    BY <2>1 DEF Failed
  <2> QED BY <2>1, <2>2, DeliveredKept
<1>10. CASE PublishReceipt
  <2>1. /\ pc = "receipt" /\ UNCHANGED <<proposal, workerReceipt, wpc>>
        /\ \A o \in Ordinal : o # cur => receipt'[o] = receipt[o]
    BY <1>10 DEF PublishReceipt
  <2>2. Failed' = Failed
    BY <2>1 DEF Failed
  <2>3. cur \in OpenSlots /\ cur \in Ordinal
    BY <2>1, CampaignParts DEF Inv, TypeInv, Reducing
  <2>4. cur \notin Failed => workerReceipt[cur] # None
    <3> SUFFICES ASSUME cur \notin Failed PROVE workerReceipt[cur] # None
      OBVIOUS
    <3>1. cur \in OpenJobs
      BY <2>3 DEF OpenJobs
    <3>2. wpc[cur] = "done" /\ pc # "refused"
      BY <2>1, <3>1 DEF Inv, MainInv, Current, Reducing
    <3> QED BY <2>3, <3>2 DEF Inv, WorkersInv, WorkersDeliver
  <2> QED BY <2>1, <2>2, <2>4 DEF ReceiptsDelivered
<1>11. ASSUME NEW o \in Ordinal, WorkerStep(o) PROVE ReceiptsDelivered'
  <2>1. UNCHANGED <<proposal, receipt>>
    BY <1>11, WorkerFrame
  <2>2. Failed' = Failed
    BY <2>1 DEF Failed
  <2>3. \A p \in Ordinal : p # o => wpc'[p] = wpc[p] /\ workerReceipt'[p] = workerReceipt[p]
    BY <1>11, WorkerEffect DEF Inv
  <2>4. CASE PublishWorkerReceipt(o)
    <3>1. wpc'[o] = "done" /\ workerReceipt'[o] # None
      BY <1>11, <2>4 DEF PublishWorkerReceipt, Inv, TypeInv, WorkersInv, WorkersDeliver
    <3> QED BY <2>1, <2>2, <2>3, <3>1 DEF ReceiptsDelivered
  <2>5. CASE ~PublishWorkerReceipt(o)
    <3>1. workerReceipt' = workerReceipt
      BY <1>11, <2>5 DEF WorkerStep, WorkerBegin, WorkerRefuse, PublishStarted, RunAgent,
                         RaiseAfterAgent, PublishExternal, PublishTerminal
    <3>2. wpc'[o] \in {"launch", "external", "terminal", "receipt"} => workerReceipt[o] = None
      <4>1. CASE WorkerBegin(o) \/ WorkerRefuse(o) \/ PublishStarted(o)
        BY <4>1 DEF WorkerBegin, WorkerRefuse, PublishStarted, MayExecute, Inv, TypeInv
      <4>2. CASE ~(WorkerBegin(o) \/ WorkerRefuse(o) \/ PublishStarted(o))
        <5>1. wpc[o] \in {"launch", "external", "terminal"}
          BY <1>11, <2>5, <4>2 DEF WorkerStep, RunAgent, RaiseAfterAgent, PublishExternal,
                                   PublishTerminal
        <5> QED BY <5>1 DEF ReceiptsDelivered
      <4> QED BY <4>1, <4>2
    <3> QED BY <2>1, <2>2, <2>3, <3>1, <3>2 DEF ReceiptsDelivered
  <2> QED BY <2>4, <2>5
<1> QED
  BY <1>2, <1>3, <1>4, <1>5, <1>6, <1>7, <1>8, <1>9, <1>10, <1>11 DEF Next, MainStep

LEMMA EpochStep == Inv /\ EpochInv /\ [Next]_vars => EpochInv'
  BY StatusStep, RoomStep, DeliveredStep DEF EpochInv

\* The charges in their order: the iterations, and the one that is not folded yet.
ChargedList ==
  campaign.iterations \o (IF campaign.pending = None THEN <<>> ELSE <<campaign.pending>>)

LEMMA ChargedValues ==
  TypeInv =>
    /\ campaign.pending = None => ChargedList = campaign.iterations
    /\ campaign.pending # None => ChargedList = Append(campaign.iterations, campaign.pending)
    /\ \A o : (\E i \in 1 .. Len(ChargedList) : ChargedList[i] = o) => o \in Iterated \cup Pending
<1> SUFFICES ASSUME TypeInv
             PROVE  /\ campaign.pending = None => ChargedList = campaign.iterations
                    /\ campaign.pending # None =>
                         ChargedList = Append(campaign.iterations, campaign.pending)
                    /\ \A o : (\E i \in 1 .. Len(ChargedList) : ChargedList[i] = o)
                                => o \in Iterated \cup Pending
  OBVIOUS
<1>1. campaign.iterations \in Seq(Ordinal) /\ campaign.pending \in Ordinal \cup {None}
  BY CampaignParts
<1>2. campaign.pending = None => ChargedList = campaign.iterations
  <2>1. \A s \in Seq(Ordinal) : s \o <<>> = s
    OBVIOUS
  <2> QED BY <1>1, <2>1 DEF ChargedList
<1>3. campaign.pending # None => ChargedList = Append(campaign.iterations, campaign.pending)
  <2>1. \A s \in Seq(Ordinal), o \in Ordinal : s \o <<o>> = Append(s, o)
    OBVIOUS
  <2> QED BY <1>1, <2>1 DEF ChargedList
<1>4. ASSUME NEW i \in 1 .. Len(ChargedList) PROVE ChargedList[i] \in Iterated \cup Pending
  <2>1. CASE campaign.pending = None
    BY <1>2, <1>4, <2>1 DEF Iterated, Counted
  <2>2. CASE campaign.pending # None
    <3> DEFINE s == campaign.iterations
               p == campaign.pending
    <3>1. s \in Seq(Ordinal) /\ p \in Ordinal
      BY <1>1, <2>2
    <3>2. ChargedList = Append(s, p) /\ p \in Pending
      BY <1>3, <2>2 DEF Pending
    <3>3. \A j \in 1 .. Len(s) : s[j] \in Iterated
      BY DEF Iterated, Counted
    <3> HIDE DEF s, p
    <3>4. CASE i = Len(s) + 1
      BY <3>1, <3>2, <3>4
    <3>5. CASE i # Len(s) + 1
      <4>1. i \in 1 .. Len(s)
        BY <1>4, <3>1, <3>2, <3>5
      <4>2. Append(s, p)[i] = s[i]
        BY <3>1, <4>1
      <4> QED BY <3>2, <3>3, <4>1, <4>2
    <3> QED BY <3>4, <3>5
  <2> QED BY <2>1, <2>2
<1> QED BY <1>2, <1>3, <1>4

\* The abstract state is a function of the launches and of campaign.json.
LEMMA AbstractStutter ==
  ASSUME launches' = launches, campaign'.nextOrdinal = campaign.nextOrdinal,
         campaign'.active = campaign.active, ChargedList' = ChargedList,
         campaign'.status = campaign.status
  PROVE  UNCHANGED Abstract!evars
  BY DEF Abstract!evars, ChargedList

LEMMA AbstractInit == Init => Abstract!Init
<1> SUFFICES ASSUME Init PROVE Abstract!Init
  OBVIOUS
<1>1. /\ campaign.nextOrdinal = 0 /\ campaign.active = None
      /\ campaign.iterations = <<>> /\ campaign.pending = None
      /\ campaign.status = "running" /\ launches = [o \in Ordinal |-> 0]
  BY DEF Init
<1> QED BY <1>1 DEF Abstract!Init

\* Room for the charge of any slot of the open epoch that is not in the iterations.
LEMMA SlotFits ==
  ASSUME TypeInv, PlanInv, BudgetInv, NEW o \in OpenSlots, o \notin Iterated
  PROVE  Counted < Budget
<1> DEFINE left == OpenSlots \ Iterated
           unfolded == Cardinality(left)
<1>1. campaign.active # None /\ o \in left
  BY DEF OpenSlots
<1>2. unfolded \in Nat /\ unfolded # 0
  <2>1. IsFiniteSet(left) /\ left # {} /\ unfolded \in Nat
    BY <1>1, SlotsAreFinite
  <2> HIDE DEF left
  <2> QED BY <2>1, FS_EmptySet
<1>3. Counted + unfolded <= Bootstrap \/ Counted + unfolded <= Budget
  BY <1>1 DEF BudgetInv, BudgetLeft
<1> HIDE DEF left, unfolded
<1>4. Counted \in Nat /\ Bootstrap \in Nat /\ Budget \in Nat /\ Bootstrap <= Budget
  BY CampaignParts, BudgetAssumption
<1> QED BY <1>2, <1>3, <1>4

LEMMA LaunchImplements ==
  ASSUME Inv, EpochInv, LaunchInv, NEW o \in Ordinal, NEW began, RunAgent(o, began)
  PROVE  Abstract!Next
<1>1. /\ wpc[o] = "launch" /\ launches[o] = 0
      /\ launches' = [launches EXCEPT ![o] = 1] /\ campaign' = campaign
  <2>1. wpc[o] = "launch" /\ launches' = [launches EXCEPT ![o] = @ + 1] /\ campaign' = campaign
    BY DEF RunAgent
  <2>2. launches[o] = 0 /\ launches[o] + 1 = 1
    BY <2>1 DEF LaunchInv, ReadyToLaunch
  <2> QED BY <2>1, <2>2
<1>2. o \in OpenSlots /\ o \notin Failed /\ campaign.status = "running"
  BY <1>1 DEF Inv, WorkersInv, WorkersInEpoch, OpenJobs, EpochInv, StatusRunning
<1>3. o \notin Iterated \cup Pending
  <2> SUFFICES ASSUME o \in Charges PROVE FALSE
    BY DEF Inv, PlanInv, ChargesListed
  <2>1. receipt[o] # None
    BY DEF Charges, Inv, PlanInv, CommitsRecorded
  <2>2. workerReceipt[o] # None
    BY <1>2, <2>1 DEF EpochInv, ReceiptsDelivered
  <2> QED BY <1>1, <2>2 DEF EpochInv, ReceiptsDelivered
<1>4. ~ \E i \in 1 .. Len(ChargedList) : ChargedList[i] = o
  BY <1>3, ChargedValues DEF Inv
<1>5. Abstract!Launch(o)
  BY <1>1, <1>2, <1>4 DEF Abstract!Launch, Abstract!IsCharged, ChargedList, OpenSlots
<1> QED BY <1>5 DEF Abstract!Next

LEMMA SaveEpochImplements ==
  ASSUME Inv, EpochInv, SaveEpoch
  PROVE  Abstract!Next
<1>1. /\ campaign.active = None /\ Counted < Budget /\ campaign.status = "running"
  BY DEF SaveEpoch, Inv, MainInv, Planning, EpochInv, StatusRunning
<1>2. /\ campaign'.iterations = campaign.iterations /\ campaign'.pending = campaign.pending
      /\ campaign'.active = [epoch |-> campaign.nextEpoch, slots |-> Slots]
      /\ campaign'.nextOrdinal = campaign.nextOrdinal + Capacity
      /\ launches' = launches
  BY SaveEpochEffect DEF Inv, SaveEpoch
<1>3. campaign'.status = campaign.status
  BY DEF SaveEpoch, PlannedState, Inv, TypeInv, CampaignState
<1>4. campaign'.active # None
  <2>1. campaign.nextEpoch \in Nat /\ Slots \subseteq Ordinal
    BY SlotFacts, CampaignParts DEF SaveEpoch, Inv, MainInv, Planning
  <2>2. [epoch |-> campaign.nextEpoch, slots |-> Slots] \in EpochRecord
    BY <2>1 DEF EpochRecord
  <2> QED BY <1>2, <2>2, NotNone
<1>5. Capacity \in Nat \ {0} /\ Capacity <= Budget - Counted /\ Capacity <= EpochSize
  <2>1. Capacity \in Nat \ {0} /\ Capacity <= Budget - Counted
    BY <1>1, SlotFacts DEF Inv
  <2>2. \A m \in Nat, n \in Int : AtMost(m, n) <= m
    BY DEF AtMost
  <2>3. EpochSize \in Nat /\ Bootstrap - Counted \in Int /\ Budget - Counted \in Int
    BY CampaignParts, CapAssumption, BudgetAssumption DEF Inv
  <2> QED BY <2>1, <2>2, <2>3 DEF Capacity
<1>6. ChargedList = campaign.iterations
  <2>1. campaign.pending = None
    BY <1>1 DEF Inv, PlanInv, PendingOpen, Pending, OpenJobs, OpenSlots
  <2> QED BY <2>1, ChargedValues DEF Inv
<1>7. Len(ChargedList) + Capacity <= Budget
  BY <1>5, <1>6, CampaignParts, BudgetAssumption DEF Inv, Counted
<1>8. Capacity \in 1 .. EpochSize
  BY <1>5, CapAssumption
<1>9. ChargedList' = ChargedList
  BY <1>2 DEF ChargedList
<1>10. campaign'.active.slots = Slots
  BY <1>2
<1>11. Abstract!Open(Capacity)
  BY <1>1, <1>2, <1>3, <1>4, <1>7, <1>8, <1>9, <1>10
     DEF Abstract!Open, ChargedList, Slots
<1> QED BY <1>8, <1>11 DEF Abstract!Next

LEMMA CommitImplements ==
  ASSUME Inv, TypeInv', EpochInv, Commit
  PROVE  Abstract!Next \/ UNCHANGED Abstract!evars
<1>1. /\ campaign'.iterations = campaign.iterations /\ campaign'.active = campaign.active
      /\ campaign'.nextOrdinal = campaign.nextOrdinal
      /\ campaign'.pending =
           IF cur \notin campaign.attempts /\ ConsumesBudget(receipt[cur]) THEN cur
           ELSE campaign.pending
      /\ launches' = launches /\ pc = "commit"
  BY CommitEffect DEF Inv, Commit
<1>2. campaign'.status = campaign.status /\ campaign.status = "running"
  BY <1>1 DEF Commit, CommittedState, Inv, TypeInv, CampaignState, EpochInv, StatusRunning
<1>3. CASE campaign'.pending = campaign.pending
  <2>1. ChargedList' = ChargedList
    BY <1>1, <1>3 DEF ChargedList
  <2> QED BY <1>1, <1>2, <2>1, AbstractStutter
<1>4. CASE campaign'.pending # campaign.pending
  <2>1. /\ cur \notin campaign.attempts /\ campaign'.pending = cur
        /\ cur \in OpenSlots /\ cur \in Ordinal /\ cur # None
    BY <1>1, <1>4, CampaignParts, NotNone DEF Inv, TypeInv, Reducing
  <2>2. campaign.pending = None
    BY <1>1, <2>1, NonePending DEF Inv, Reducing, Pending
  <2>3. cur \notin Iterated \cup Pending
    BY <2>1, CampaignParts DEF Inv, PlanInv, ChargesListed
  <2>4. Counted < Budget
    BY <2>1, <2>3, SlotFits DEF Inv
  <2>5. ChargedList = campaign.iterations
        /\ ~ \E i \in 1 .. Len(ChargedList) : ChargedList[i] = cur
    BY <2>2, <2>3, ChargedValues DEF Inv
  <2>6. ChargedList' = Append(ChargedList, cur)
    <3>1. (campaign.pending # None => ChargedList = Append(campaign.iterations, campaign.pending))'
      BY ChargedValues, PTL
    <3> QED BY <1>1, <2>1, <2>5, <3>1
  <2>7. PICK o \in Ordinal : o = cur
    BY <2>1
  <2>8. Len(ChargedList) < Budget
    BY <2>4, <2>5 DEF Counted
  <2>9. Abstract!Charge(o)
    BY <1>1, <1>2, <2>1, <2>5, <2>6, <2>7, <2>8
       DEF Abstract!Charge, Abstract!IsCharged, ChargedList, OpenSlots
  <2> QED BY <2>9 DEF Abstract!Next
<1> QED BY <1>3, <1>4

LEMMA FinishImplements ==
  ASSUME Inv, EpochInv, Finish
  PROVE  Abstract!Next
<1>1. /\ campaign'.iterations = campaign.iterations /\ campaign'.pending = campaign.pending
      /\ campaign'.active = campaign.active
      /\ campaign'.nextOrdinal = campaign.nextOrdinal /\ launches' = launches
  BY SavedEffect DEF Inv, Finish
<1>2. ChargedList' = ChargedList /\ campaign.status = "running"
  BY <1>1 DEF ChargedList, Finish, EpochInv, StatusRunning
<1>3. CASE pc = "loop" /\ Counted >= Budget /\ campaign' = [campaign EXCEPT !.status = "completed"]
  <2>1. campaign.pending = None
    <3> SUFFICES ASSUME campaign.pending # None PROVE FALSE
      OBVIOUS
    <3>1. campaign.pending \in Pending
      BY DEF Pending
    <3>2. Counted + 1 <= Budget
      BY <3>1, PendingFits DEF Inv
    <3> QED BY <1>3, <3>2, CampaignParts, BudgetAssumption DEF Inv
  <2>2. Len(ChargedList) = Counted
    BY <2>1, ChargedValues DEF Inv, Counted
  <2>3. Len(ChargedList) = Budget
    BY <1>3, <2>2, CampaignParts, BudgetAssumption DEF Inv, BudgetInv, BudgetLeft
  <2>4. campaign'.status = "completed"
    BY <1>3 DEF Inv, TypeInv, CampaignState
  <2>5. Abstract!Complete
    BY <1>1, <1>2, <2>3, <2>4 DEF Abstract!Complete, ChargedList
  <2> QED BY <2>5 DEF Abstract!Next
<1>4. CASE pc = "abort" /\ campaign' = [campaign EXCEPT !.status = "aborted"]
  <2>1. campaign.active = None /\ Counted < Budget
    BY <1>4 DEF Inv, MainInv, EpochOpen, EpochInv, RoomLeft
  <2>2. campaign.pending = None
    BY <2>1 DEF Inv, PlanInv, PendingOpen, Pending, OpenJobs, OpenSlots
  <2>3. Len(ChargedList) < Budget
    BY <2>1, <2>2, ChargedValues DEF Inv, Counted
  <2>4. campaign'.status = "aborted"
    BY <1>4 DEF Inv, TypeInv, CampaignState
  <2>5. Abstract!Abort
    BY <1>1, <1>2, <2>1, <2>3, <2>4 DEF Abstract!Abort, ChargedList
  <2> QED BY <2>5 DEF Abstract!Next
<1> QED BY <1>3, <1>4 DEF Finish

LEMMA AbstractStep ==
  Inv /\ Inv' /\ EpochInv /\ LaunchInv /\ [Next]_vars => [Abstract!Next]_(Abstract!evars)
<1> SUFFICES ASSUME Inv, Inv', EpochInv, LaunchInv, [Next]_vars
             PROVE  Abstract!Next \/ UNCHANGED Abstract!evars
  OBVIOUS
<1> USE DEF plans, journal, workerFiles, reduceFiles, main, workers
<1>1. ASSUME UNCHANGED <<campaign, launches>> PROVE UNCHANGED Abstract!evars
  BY <1>1, AbstractStutter DEF ChargedList
<1>2. CASE \/ Load \/ ResumeEpoch \/ ProposeFails \/ PublishProposal \/ TakeFailure
           \/ StartWorkers \/ TakeResult
  BY <1>1, <1>2 DEF Load, ResumeEpoch, ProposeFails, PublishProposal, TakeFailure, StartWorkers,
                    TakeResult
<1>3. CASE PublishReceipt \/ Cleanup \/ PublishFold \/ PublishProgress
  BY <1>1, <1>3 DEF PublishReceipt, Cleanup, PublishFold, PublishProgress
<1>4. CASE Crash \/ CleanupError \/ Restart \/ Terminated \/ UNCHANGED vars
  BY <1>1, <1>4 DEF Crash, CleanupError, Forget, Restart, Terminated, vars
<1>5. ASSUME NEW results, ProposeEpoch(results) PROVE UNCHANGED Abstract!evars
  BY <1>1, <1>5 DEF ProposeEpoch
<1>6. ASSUME NEW status, NEW absorbed, CallFold(status, absorbed) PROVE UNCHANGED Abstract!evars
  BY <1>1, <1>6 DEF CallFold
<1>7. ASSUME NEW o \in Ordinal, WorkerStep(o) PROVE Abstract!Next \/ UNCHANGED Abstract!evars
  <2>1. ASSUME NEW began, RunAgent(o, began) PROVE Abstract!Next
    BY <2>1, LaunchImplements
  <2>2. CASE ~ \E began \in BOOLEAN : RunAgent(o, began)
    BY <1>1, <1>7, <2>2 DEF WorkerStep, WorkerBegin, WorkerRefuse, PublishStarted,
                            RaiseAfterAgent, PublishExternal, PublishTerminal,
                            PublishWorkerReceipt
  <2> QED BY <2>1, <2>2
<1>8. CASE SaveUncharged
  <2>1. /\ campaign'.status = campaign.status /\ campaign'.pending = campaign.pending
        /\ campaign'.iterations = campaign.iterations /\ campaign'.active = campaign.active
        /\ campaign'.nextOrdinal = campaign.nextOrdinal /\ launches' = launches
    BY <1>8 DEF SaveUncharged, Inv, TypeInv, CampaignState
  <2> QED BY <2>1, AbstractStutter DEF ChargedList
<1>9. CASE Finalize
  <2>1. /\ campaign'.status = campaign.status /\ campaign'.pending = None
        /\ campaign'.iterations = Append(campaign.iterations, cur)
        /\ campaign'.active = campaign.active
        /\ campaign'.nextOrdinal = campaign.nextOrdinal /\ launches' = launches
    BY <1>9 DEF Finalize, Inv, TypeInv, CampaignState
  <2>2. campaign.pending = cur /\ cur # None
    BY <1>9, CampaignParts, NotNone DEF Finalize, Inv, MainInv, CurrentStage, TypeInv, Reducing
  <2>3. ChargedList = Append(campaign.iterations, cur)
    BY <2>2, ChargedValues DEF Inv
  <2>4. (campaign.pending = None => ChargedList = campaign.iterations)'
    <3>1. TypeInv'
      BY DEF Inv
    <3> QED BY <3>1, ChargedValues, PTL
  <2> QED BY <2>1, <2>3, <2>4, AbstractStutter
<1>10. CASE EndEpoch
  <2>1. /\ campaign'.pending = campaign.pending /\ campaign'.iterations = campaign.iterations
        /\ campaign'.active = None /\ campaign'.nextOrdinal = campaign.nextOrdinal
        /\ launches' = launches
    BY <1>10, EndEpochEffect DEF EndEpoch, Inv
  <2>2. campaign'.status = campaign.status /\ campaign.status = "running"
    BY <1>10 DEF EndEpoch, Inv, TypeInv, CampaignState, EpochInv, StatusRunning
  <2>3. CASE OpenSlots = {}
    BY <2>1, <2>2, <2>3 DEF Abstract!evars, OpenSlots
  <2>4. CASE OpenSlots # {}
    <3>1. Abstract!Close
      BY <2>1, <2>2, <2>4 DEF Abstract!Close, OpenSlots
    <3> QED BY <3>1 DEF Abstract!Next
  <2> QED BY <2>3, <2>4
<1>11. CASE SaveEpoch \/ Commit \/ Finish
  BY <1>11, SaveEpochImplements, CommitImplements, FinishImplements DEF Inv
<1> QED
  BY <1>2, <1>3, <1>4, <1>5, <1>6, <1>7, <1>8, <1>9, <1>10, <1>11 DEF Next, MainStep

\* The parallel engine implements the abstract campaign of epochs: whatever its workers do at
\* once and wherever it is killed, only slots of the open epoch are launched and charged,
\* each at most once and within the budget, and only a spent budget completes the campaign
\* (_run_parallel, _plan_parallel_epoch, _run_active_parallel_epoch, _commit_attempt).
THEOREM CampaignRefinesEpochs == Spec => ImplementsEpochs
<1>1. Spec => []LaunchInv
  BY InitLaunch, StepLaunch, PTL DEF Spec
<1>2. Spec => []EpochInv
  <2>1. Inv /\ EpochInv /\ [Next]_vars => EpochInv'
    BY EpochStep
  <2> QED BY Invariance, EpochInit, <2>1, PTL DEF Spec
<1>3. Inv /\ Inv' /\ EpochInv /\ LaunchInv /\ [Next]_vars => [Abstract!Next]_(Abstract!evars)
  BY AbstractStep
<1>4. Spec => Abstract!Spec
  BY Invariance, <1>1, <1>2, <1>3, AbstractInit, PTL DEF Spec, Abstract!Spec
<1> QED BY <1>4 DEF ImplementsEpochs
=============================================================================
