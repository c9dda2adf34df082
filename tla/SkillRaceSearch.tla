-------------------------- MODULE SkillRaceSearch --------------------------
(***************************************************************************)
(* The SkillRACE generator inside a parallel campaign: the behaviour tree, *)
(* its judgment cache and its guard state are three files shared by every  *)
(* epoch (tree.json, tree.cache.json, tree.guards.json).  An epoch         *)
(* extracts the guards of the tree's branches, plans one target per slot,  *)
(* synthesizes the targets concurrently and marks them tried; the runs of  *)
(* the epoch are then folded into the tree, one by one.  Each of these     *)
(* steps is made durable on its own, so that a process that dies between   *)
(* two of them can be followed by one that repeats none.                   *)
(*                                                                         *)
(* Every candidate is taken to be executed and charged: what may happen to *)
(* it on the way is the subject of ParallelCampaign.  An episode line has  *)
(* one episode, so the tree branches at its root only.                     *)
(***************************************************************************)
EXTENDS Naturals, Sequences, FiniteSets, Functions

CONSTANTS
  Purposes,     \* the purposes an episode may have, as same_purpose tells them apart
  Mutations,    \* the unobserved values a guard may list
  EpochSize,    \* slots of an epoch
  Epochs,       \* bound: epochs of the campaign, the first of them the bootstrap
  MaxMishaps,   \* bound: how often a model call or a build fails
  MaxCrashes,   \* bound: how often the process is killed
  None

ASSUME SizeAssumption == EpochSize \in Nat \ {0} /\ Epochs \in Nat \ {0}
ASSUME NoneAssumption == None \notin Nat
ASSUME BoundAssumption == MaxMishaps \in Nat /\ MaxCrashes \in Nat

Attempt == 0 .. EpochSize * Epochs - 1
Epoch == 0 .. Epochs - 1

VARIABLES
  (* durable; the functions are defined for the attempts and epochs whose file is there *)
  art,        \* the adaptive files
  version,    \* fold-artifacts/<a>.json: the files as the fold of a leaves them
  complete,   \* fold-artifacts/<a>.complete.json
  intent,     \* generation.intent.json of an epoch
  plan,       \* targets.json of an epoch
  receipt,    \* target-results/<candidate>.json
  proposal,   \* attempts/<a>/proposal.json
  fold,       \* attempts/<a>/fold.json
  campaign,   \* campaign.json
  (* volatile *)
  pc, cur,    \* the main thread, and the slot it is at
  mem,        \* the generator object: cost_usd, stats, folded_attempt_ids
  work,       \* the epoch being planned: frozen state, cost before, results
  job,        \* a restore_adaptive_artifacts in progress
  mishaps, crashes

files == <<art, version, complete>>
generation == <<intent, plan, receipt>>
records == <<proposal, fold, campaign>>
bounds == <<mishaps, crashes>>
vars == <<files, generation, records, pc, cur, mem, work, job, bounds>>

\* A file is published once; one that is there is kept.
With(there, a, content) ==
  [x \in DOMAIN there \cup {a} |-> IF x \in DOMAIN there THEN there[x] ELSE content]

-----------------------------------------------------------------------------
(* The adaptive files *)

EmptyTree == [runs |-> {}, children |-> <<>>]

\* find_branches and branch_key: the root, once it has two children, is known by the
\* set of them; another child makes it another branch.
Branches(tree) ==
  IF Len(tree.children) >= 2 THEN {Range(tree.children)} ELSE {}

\* load_guard_state: what an absent guard file is read as.
NoGuards == [written |-> FALSE, known |-> <<>>, tried |-> {}]

\* The guard file is written whole.
SavedGuards(known, tried) ==
  [art EXCEPT !.guards = [written |-> TRUE, known |-> known, tried |-> tried]]

\* build_frontier: the mutations of decidable guards that no epoch has tried. (A guard
\* that is not decidable from the initial environment is one without mutations.)
Untried(guards) ==
  {t \in UNION {{k} \X guards.known[k] : k \in DOMAIN guards.known} : t \notin guards.tried}

Frontier == IF art.tree = EmptyTree THEN {} ELSE Untried(art.guards)

Fallback == "fallback"

Slots(e) == EpochSize * e .. EpochSize * e + EpochSize - 1
Lesser(m, n) == IF m <= n THEN m ELSE n

\* diverse_target_batch: targets first and fallbacks only when the frontier is spent, no
\* target twice, and no branch again while another has been given fewer.
DiverseTargets(slots, frontier) ==
  LET first == CHOOSE s \in slots : \A r \in slots : s <= r
      aimed == first .. first + Lesser(Cardinality(slots), Cardinality(frontier)) - 1
      Before(t, s, k) == Cardinality({r \in aimed : r < s /\ t[r][1] = k})
      Left(t, s) == frontier \ {t[r] : r \in {q \in aimed : q < s}}
  IN {t \in [slots -> frontier \cup {Fallback}] :
        /\ \A s \in slots : t[s] = Fallback <=> s \notin aimed
        /\ \A s \in aimed :
             /\ t[s] \in Left(t, s)
             /\ \A u \in Left(t, s) : Before(t, s, t[s][1]) <= Before(t, s, u[1])}

\* tree.fold for a line of one episode: the run joins the child of the same purpose, or
\* becomes a child of its own.
TreeAfter(a, purpose) ==
  [runs |-> art.tree.runs \cup {a},
   children |-> IF purpose \in Range(art.tree.children) THEN art.tree.children
                ELSE Append(art.tree.children, purpose)]

\* same_purpose is asked of one child after the other, up to the one that matches.
JudgmentsAfter(purpose) ==
  LET asked == {i \in DOMAIN art.tree.children :
                  \A j \in 1 .. i - 1 : art.tree.children[j] # purpose}
  IN art.cache \cup {{purpose, art.tree.children[i]} : i \in asked}

-----------------------------------------------------------------------------
(* Snapshots *)

Snapshot == [mem |-> mem, art |-> art]

NoStats == [synthesized |-> 0, failures |-> 0, fallbacks |-> 0]
FreshMemory == [cost |-> 0, stats |-> NoStats, folded |-> {}]
NoWork == [frozen |-> None, before |-> None, results |-> None]
NoJob == [target |-> None, left |-> <<>>, mem |-> None, then |-> None]
AllFiles == <<"tree", "cache", "guards">>

\* restore_adaptive_artifacts rewrites the files one after the other; the memory of the
\* snapshot is recalled when they are back.
StartRestore(target, memory, then) ==
  /\ pc' = "restore"
  /\ job' = [target |-> target, left |-> AllFiles, mem |-> memory, then |-> then]
  /\ UNCHANGED mem

\* Faulty variant of RestoreExact: the files are not looked at.
RestoreMemoryOnly(snapshot, then) ==
  /\ pc' = then
  /\ mem' = snapshot.mem
  /\ UNCHANGED job

\* restore(): the files must be those of the snapshot; files that a generation changed
\* are put back when its intent holds the ones expected. Anything else is refused.
RestoreExact(snapshot, then) ==
  IF art = snapshot.art
  THEN pc' = then /\ mem' = snapshot.mem /\ UNCHANGED job
  ELSE IF \E e \in DOMAIN intent : intent[e].pre = snapshot.art
       THEN StartRestore(snapshot.art, snapshot.mem, then)
       ELSE pc' = "refused" /\ UNCHANGED <<mem, job>>

\* Faulty variant of RestorePending: the fold is undone although its version is staged.
RollBack(a) == StartRestore(campaign.gen.art, campaign.gen.mem, "loop")

\* restore_for_pending_fold: forward to the staged version, which is then complete, else
\* back to the files of campaign.json. Completed files must not have changed since.
RestorePending(a) ==
  CASE a \notin DOMAIN version -> StartRestore(campaign.gen.art, campaign.gen.mem, "loop")
    [] a \in DOMAIN version \ complete ->
         StartRestore(version[a], campaign.gen.mem, "recovered")
    [] OTHER ->
         /\ pc' = IF art = version[a] THEN "loop" ELSE "refused"
         /\ mem' = campaign.gen.mem
         /\ UNCHANGED job

Uncommitted == DOMAIN proposal \ campaign.committed
Last(set) == CHOOSE a \in set : \A b \in set : b <= a

\* The snapshot _load_or_create restores when no fold is under way.
RestoredOnLoad ==
  CASE campaign.pending # None -> fold[campaign.pending].gen
    [] campaign.pending = None /\ Uncommitted # {} -> proposal[Last(Uncommitted)].gen
    [] OTHER -> campaign.gen

-----------------------------------------------------------------------------
Init ==
  /\ art = [tree |-> EmptyTree, cache |-> {}, guards |-> NoGuards]
  /\ version = <<>> /\ complete = {}
  /\ intent = <<>> /\ plan = <<>> /\ receipt = <<>>
  /\ proposal = <<>> /\ fold = <<>>
  /\ campaign = [epoch |-> 0, active |-> FALSE, committed |-> {}, folded |-> {},
                 pending |-> None,
                 gen |-> [mem |-> FreshMemory,
                          art |-> [tree |-> EmptyTree, cache |-> {}, guards |-> NoGuards]]]
  /\ pc = "load" /\ cur = None /\ mem = FreshMemory /\ work = NoWork /\ job = NoJob
  /\ mishaps = 0 /\ crashes = 0

Load ==
  /\ pc = "load"
  /\ IF campaign.pending # None /\ campaign.pending \notin DOMAIN fold
     THEN RestorePending(campaign.pending)
     ELSE RestoreExact(RestoredOnLoad, "loop")
  /\ UNCHANGED <<files, generation, records, cur, work, bounds>>

RestoreFile ==
  /\ pc = "restore" /\ job.left # <<>>
  /\ art' = [art EXCEPT ![Head(job.left)] = job.target[Head(job.left)]]
  /\ job' = [job EXCEPT !.left = Tail(@)]
  /\ UNCHANGED <<version, complete, generation, records, pc, cur, mem, work, bounds>>

\* Recovering forward publishes the completion that the dead process owed.
FilesRestored ==
  /\ pc = "restore" /\ job.left = <<>>
  /\ mem' = job.mem
  /\ job' = NoJob
  /\ IF job.then = "recovered"
     THEN complete' = complete \cup {campaign.pending} /\ pc' = "loop"
     ELSE pc' = job.then /\ UNCHANGED complete
  /\ UNCHANGED <<art, version, generation, records, cur, work, bounds>>

-----------------------------------------------------------------------------
(* Planning an epoch *)

Planning == pc = "loop" /\ ~campaign.active /\ campaign.epoch < Epochs
Current == campaign.epoch

\* The frozen state of the epoch: of the proposals that an earlier process published
\* for it, else the generator's state now.
Frozen ==
  LET published == Slots(Current) \cap DOMAIN proposal
  IN IF published = {} THEN Snapshot ELSE proposal[Last(published)].frozen

\* propose_epoch raised: every slot fails.
AllFail == [s \in Slots(Current) |-> "failure"]

ToSlots(results) == pc' = "slots" /\ cur' = EpochSize * Current /\ work' =
  [frozen |-> work.frozen, before |-> None, results |-> results]

\* The bootstrap epoch takes its candidates from the seed generator.
ProposeBootstrap ==
  /\ Planning /\ Current = 0
  /\ work' = [frozen |-> Frozen, before |-> None,
              results |-> [s \in Slots(Current) |-> "case"]]
  /\ pc' = "slots" /\ cur' = 0
  /\ UNCHANGED <<files, generation, records, mem, job, bounds>>

\* What the synthesis receipts of a plan say it has cost.
RecordedCost(e) ==
  Cardinality({s \in Slots(e) : plan[e].targets[s] # Fallback /\ s \in DOMAIN receipt})

\* A plan is replayed by a generator on one of its sides: before it, after it, or after
\* the syntheses it asked for.
ReplayMatches(e) ==
  /\ plan[e].frozen = Frozen
  /\ mem.cost \in {plan[e].before, plan[e].after, plan[e].after + RecordedCost(e)}

\* Faulty variant of CostOnReplay: the planning calls are not charged again.
CostUnchanged(e) == mem.cost

CostOnReplay(e) == IF mem.cost = plan[e].before THEN plan[e].after ELSE mem.cost

ReplayPlan ==
  /\ Planning /\ Current > 0 /\ Current \in DOMAIN plan
  /\ IF ReplayMatches(Current)
     THEN /\ mem' = [mem EXCEPT !.cost = CostOnReplay(Current)]
          /\ work' = [frozen |-> Frozen, before |-> None, results |-> None]
          /\ pc' = "synthesize" /\ UNCHANGED cur
     ELSE /\ work' = [frozen |-> Frozen, before |-> None, results |-> AllFail]
          /\ pc' = "slots" /\ cur' = EpochSize * Current /\ UNCHANGED mem
  /\ UNCHANGED <<files, generation, records, job, bounds>>

\* The intent keeps the files as they are before anything of the epoch is asked of a
\* model.
PublishIntent ==
  /\ Planning /\ Current > 0 /\ Current \notin DOMAIN plan \cup DOMAIN intent
  /\ intent' = With(intent, Current, [pre |-> art, frozen |-> Frozen])
  /\ work' = [frozen |-> Frozen, before |-> mem.cost, results |-> None]
  /\ pc' = "extract"
  /\ UNCHANGED <<files, plan, receipt, records, cur, mem, job, bounds>>

\* A generation that was interrupted before its plan starts over from those files.
ResumeIntent ==
  /\ Planning /\ Current > 0 /\ Current \in DOMAIN intent \ DOMAIN plan
  /\ work' = [frozen |-> Frozen, before |-> mem.cost,
              results |-> IF intent[Current].frozen = Frozen THEN None ELSE AllFail]
  /\ CASE intent[Current].frozen # Frozen ->
            pc' = "slots" /\ cur' = EpochSize * Current /\ UNCHANGED <<mem, job>>
       [] intent[Current].frozen = Frozen /\ art = intent[Current].pre ->
            pc' = "extract" /\ UNCHANGED <<cur, mem, job>>
       [] OTHER -> StartRestore(intent[Current].pre, mem, "extract") /\ UNCHANGED cur
  /\ UNCHANGED <<files, generation, records, bounds>>

NewBranches == Branches(art.tree) \ DOMAIN art.guards.known

\* extract_all_guards: one model call for a branch without a guard, then the guard file
\* is written, also when nothing was extracted. Without a tree there is nothing to do.
ExtractGuards(mutations) ==
  /\ pc = "extract"
  /\ art' = IF art.tree = EmptyTree THEN art
            ELSE SavedGuards([k \in DOMAIN art.guards.known \cup NewBranches |->
                                IF k \in DOMAIN art.guards.known THEN art.guards.known[k]
                                ELSE mutations],
                             art.guards.tried)
  /\ mem' = [mem EXCEPT !.cost = @ + Cardinality(NewBranches)]
  /\ pc' = "select"
  /\ UNCHANGED <<version, complete, generation, records, cur, work, job, bounds>>

\* The model call for a guard, or the one that selects a target, fails.
PlanningFails ==
  /\ \/ pc = "extract" /\ NewBranches # {}
     \/ pc = "select" /\ Frontier # {}
  /\ mishaps < MaxMishaps /\ mishaps' = mishaps + 1
  /\ ToSlots(AllFail)
  /\ UNCHANGED <<files, generation, records, mem, job, crashes>>

\* select_target is asked when there is something to select from; the plan holds the
\* targets of every slot before any of them is synthesized.
WritePlan ==
  LET after == mem.cost + IF Frontier = {} THEN 0 ELSE 1 IN
  /\ pc = "select"
  /\ \E targets \in DiverseTargets(Slots(Current), Frontier) :
       plan' = With(plan, Current,
                    [before |-> work.before, after |-> after, frozen |-> work.frozen,
                     stats |-> mem.stats, targets |-> targets])
  /\ mem' = [mem EXCEPT !.cost = after]
  /\ pc' = "synthesize"
  /\ UNCHANGED <<files, intent, receipt, records, cur, work, job, bounds>>

Targeted(e) == {s \in Slots(e) : plan[e].targets[s] # Fallback}

\* The targets are synthesized concurrently; one that has its receipt is not again.
Synthesize(a) ==
  /\ pc = "synthesize" /\ a \in Targeted(Current) \ DOMAIN receipt
  /\ receipt' = With(receipt, a, "case")
  /\ UNCHANGED <<files, intent, plan, records, pc, cur, mem, work, job, bounds>>

SynthesisFails(a) ==
  /\ pc = "synthesize" /\ a \in Targeted(Current) \ DOMAIN receipt
  /\ mishaps < MaxMishaps /\ mishaps' = mishaps + 1
  /\ receipt' = With(receipt, a, "unbuilt")
  /\ UNCHANGED <<files, intent, plan, records, pc, cur, mem, work, job, crashes>>

\* A fallback slot is filled by the seed generator.
Results(e) == [s \in Slots(e) |-> IF s \in Targeted(e) THEN receipt[s] ELSE "case"]

Received(e, outcome) == {s \in Targeted(e) \cap DOMAIN receipt : receipt[s] = outcome}

WithResults(stats, e) ==
  [synthesized |-> stats.synthesized + Cardinality(Received(e, "case")),
   failures |-> stats.failures + Cardinality(Received(e, "unbuilt")),
   fallbacks |-> stats.fallbacks + Cardinality(Slots(e) \ Targeted(e))]

\* The statistics after the epoch, from those the plan recorded.
StatsAfter(e) == WithResults(plan[e].stats, e)

SettleMatches(e) ==
  /\ mem.cost \in {plan[e].after, plan[e].after + RecordedCost(e)}
  /\ mem.stats \in {plan[e].stats, StatsAfter(e)}

\* The replay checks at the end of propose_epoch; cost and statistics are set from the
\* plan and the receipts, never added up.
Settle ==
  /\ pc = "synthesize" /\ Targeted(Current) \subseteq DOMAIN receipt
  /\ IF SettleMatches(Current)
     THEN /\ mem' = [mem EXCEPT !.cost = plan[Current].after + RecordedCost(Current),
                                !.stats = StatsAfter(Current)]
          /\ pc' = "mark"
          /\ work' = [work EXCEPT !.results = Results(Current)]
          /\ UNCHANGED cur
     ELSE ToSlots(AllFail) /\ UNCHANGED mem
  /\ UNCHANGED <<files, generation, records, job, bounds>>

Unmarked ==
  {s \in Targeted(Current) : plan[Current].targets[s] \notin art.guards.tried}

\* Faulty variant of ToMark: a target whose synthesis failed is left to be tried again.
ToMarkIfSynthesized == {s \in Unmarked : receipt[s] = "case"}

ToMark == Unmarked

\* mark_tried: the guard file is rewritten for one target after the other.
MarkTried ==
  LET s == CHOOSE x \in ToMark : \A y \in ToMark : x <= y IN
  /\ pc = "mark" /\ ToMark # {}
  /\ art' = SavedGuards(art.guards.known, art.guards.tried \cup {plan[Current].targets[s]})
  /\ UNCHANGED <<version, complete, generation, records, pc, cur, mem, work, job, bounds>>

AllMarked ==
  /\ pc = "mark" /\ ToMark = {}
  /\ pc' = "slots" /\ cur' = EpochSize * Current
  /\ UNCHANGED <<files, generation, records, mem, work, job, bounds>>

\* One proposal record per slot, with the state of the generator after the batch; one
\* that is there already restores its own.
PublishProposal ==
  /\ pc = "slots" /\ cur \in Slots(Current) \ DOMAIN proposal
  /\ proposal' = With(proposal, cur, [candidate |-> work.results[cur],
                                      frozen |-> work.frozen, gen |-> Snapshot])
  /\ cur' = cur + 1
  /\ UNCHANGED <<files, generation, fold, campaign, pc, mem, work, job, bounds>>

FindProposal ==
  /\ pc = "slots" /\ cur \in Slots(Current) \cap DOMAIN proposal
  /\ RestoreExact(proposal[cur].gen, "slots")
  /\ cur' = cur + 1
  /\ UNCHANGED <<files, generation, records, work, bounds>>

SaveEpoch ==
  /\ pc = "slots" /\ cur \notin Slots(Current)
  /\ campaign' = [campaign EXCEPT !.active = TRUE, !.gen = Snapshot]
  /\ cur' = None /\ work' = NoWork
  /\ pc' = "loop"
  /\ UNCHANGED <<files, generation, proposal, fold, mem, job, bounds>>

-----------------------------------------------------------------------------
(* Reducing the epoch *)

Failures(e) == {s \in Slots(e) : proposal[s].candidate # "case"}
First(set) == CHOOSE s \in set : \A r \in set : s <= r

\* A generation failure is committed with its proposal's snapshot.
CommitFailure ==
  LET left == Failures(Current) \ campaign.committed IN
  /\ pc = "loop" /\ campaign.active /\ left # {}
  /\ campaign' = [campaign EXCEPT !.committed = @ \cup {First(left)},
                                  !.gen = proposal[First(left)].gen]
  /\ UNCHANGED <<files, generation, proposal, fold, pc, cur, mem, work, job, bounds>>

Unfolded(e) == (Slots(e) \ Failures(e)) \ campaign.folded

\* The executed runs are reduced in order: the charge and the pending fold first.
Commit ==
  LET s == First(Unfolded(Current)) IN
  /\ pc = "loop" /\ campaign.active
  /\ Failures(Current) \subseteq campaign.committed /\ Unfolded(Current) # {}
  /\ campaign' = IF s \in campaign.committed THEN campaign
                 ELSE [campaign EXCEPT !.committed = @ \cup {s}, !.pending = s,
                                       !.gen = proposal[s].gen]
  /\ cur' = s
  /\ pc' = IF s \in DOMAIN fold THEN "finalize" ELSE "fold"
  /\ UNCHANGED <<files, generation, proposal, fold, mem, work, job, bounds>>

\* Faulty variant of FoldAgain: the run is not remembered again.
FoldAgainForgotten ==
  /\ pc = "fold" /\ cur \in art.tree.runs \cup mem.folded
  /\ version' = With(version, cur, art)
  /\ complete' = complete \cup {cur}
  /\ pc' = "folded"
  /\ UNCHANGED <<art, generation, records, cur, mem, work, job, bounds>>

\* The tree holds the run already: its actions are read back, at no cost.
FoldAgain ==
  /\ pc = "fold" /\ cur \in art.tree.runs \cup mem.folded
  /\ mem' = [mem EXCEPT !.folded = @ \cup {cur}]
  /\ version' = With(version, cur, art)
  /\ complete' = complete \cup {cur}
  /\ pc' = "folded"
  /\ UNCHANGED <<art, generation, records, cur, work, job, bounds>>

\* No trace to segment, or a trace that was not segmented in two attempts.
FoldNothing(calls) ==
  /\ pc = "fold" /\ cur \notin art.tree.runs \cup mem.folded
  /\ mishaps < MaxMishaps /\ mishaps' = mishaps + 1
  /\ mem' = [mem EXCEPT !.folded = @ \cup {cur}, !.cost = @ + calls]
  /\ pc' = "folded"
  /\ UNCHANGED <<files, generation, records, cur, work, job, crashes>>

\* A model call raises: nothing of the fold has reached a file.
FoldFails ==
  /\ pc = "fold" /\ cur \notin art.tree.runs \cup mem.folded
  /\ mishaps < MaxMishaps /\ mishaps' = mishaps + 1
  /\ pc' = "failed"
  /\ UNCHANGED <<files, generation, records, cur, mem, work, job, crashes>>

\* The new files are staged whole before the first of them is written.
StageVersion(purpose) ==
  /\ pc = "fold" /\ cur \notin art.tree.runs \cup mem.folded /\ cur \notin DOMAIN version
  /\ version' = With(version, cur, [art EXCEPT !.tree = TreeAfter(cur, purpose),
                                               !.cache = JudgmentsAfter(purpose)])
  /\ pc' = "cache"
  /\ UNCHANGED <<art, complete, generation, records, cur, mem, work, job, bounds>>

WriteCache ==
  /\ pc = "cache"
  /\ art' = [art EXCEPT !.cache = version[cur].cache]
  /\ pc' = "tree"
  /\ UNCHANGED <<version, complete, generation, records, cur, mem, work, job, bounds>>

WriteTree ==
  /\ pc = "tree"
  /\ art' = [art EXCEPT !.tree = version[cur].tree]
  /\ pc' = "complete"
  /\ UNCHANGED <<version, complete, generation, records, cur, mem, work, job, bounds>>

CompleteVersion ==
  /\ pc = "complete" /\ art = version[cur]
  /\ complete' = complete \cup {cur}
  /\ mem' = [mem EXCEPT !.folded = @ \cup {cur}, !.cost = @ + 1]
  /\ pc' = "folded"
  /\ UNCHANGED <<art, version, generation, records, cur, work, job, bounds>>

PublishFold ==
  /\ pc \in {"folded", "failed"}
  /\ fold' = With(fold, cur, [status |-> pc, gen |-> Snapshot])
  /\ pc' = "finalize"
  /\ UNCHANGED <<files, generation, proposal, campaign, cur, mem, work, job, bounds>>

Finalize ==
  /\ pc = "finalize"
  /\ RestoreExact(fold[cur].gen, "loop")
  /\ campaign' = IF pc' = "loop"
                 THEN [campaign EXCEPT !.folded = @ \cup {cur}, !.pending = None,
                                       !.gen = fold[cur].gen]
                 ELSE campaign
  /\ cur' = None
  /\ UNCHANGED <<files, generation, proposal, fold, work, bounds>>

EndEpoch ==
  /\ pc = "loop" /\ campaign.active
  /\ Failures(Current) \subseteq campaign.committed /\ Unfolded(Current) = {}
  /\ campaign' = [campaign EXCEPT !.active = FALSE, !.epoch = @ + 1]
  /\ UNCHANGED <<files, generation, proposal, fold, pc, cur, mem, work, job, bounds>>

\* The process dies, and with it the generator; another one is started.
Crash ==
  /\ pc \notin {"load", "refused"} /\ crashes < MaxCrashes
  /\ crashes' = crashes + 1
  /\ pc' = "load" /\ cur' = None /\ mem' = FreshMemory /\ work' = NoWork /\ job' = NoJob
  /\ UNCHANGED <<files, generation, records, mishaps>>

Next ==
  \/ Load \/ RestoreFile \/ FilesRestored
  \/ ProposeBootstrap \/ PublishIntent \/ ResumeIntent
  \/ \E mutations \in SUBSET Mutations : ExtractGuards(mutations)
  \/ PlanningFails \/ WritePlan \/ ReplayPlan
  \/ \E a \in Attempt : Synthesize(a) \/ SynthesisFails(a)
  \/ Settle \/ MarkTried \/ AllMarked
  \/ PublishProposal \/ FindProposal \/ SaveEpoch
  \/ CommitFailure \/ Commit
  \/ FoldAgain \/ FoldFails
  \/ \E calls \in {0, 2} : FoldNothing(calls)
  \/ \E purpose \in Purposes : StageVersion(purpose)
  \/ WriteCache \/ WriteTree \/ CompleteVersion
  \/ PublishFold \/ Finalize \/ EndEpoch
  \/ Crash

Spec == Init /\ [][Next]_vars

-----------------------------------------------------------------------------
(* What the search guarantees *)

\* A run is judged once: from the moment its fold is staged, whatever is killed and
\* restored in between, the fold receipt records the staged files; and files that were
\* declared complete have not changed when the next process looks at them.
JudgedOnce ==
  /\ \A a \in DOMAIN fold \cap DOMAIN version :
       fold[a].status = "folded" /\ fold[a].gen.art = version[a]
  /\ pc = "load" /\ campaign.pending \in complete \ DOMAIN fold =>
       art = version[campaign.pending]

\* The targets of an epoch whose proposals all stand for them, synthesized or not.
Aimed(e) ==
  IF /\ e \in DOMAIN plan /\ Slots(e) \subseteq DOMAIN proposal
     /\ \A s \in Slots(e) : proposal[s].candidate # "failure"
  THEN {plan[e].targets[s] : s \in Targeted(e)} ELSE {}

\* A mutation of a branch is spent on one epoch, whatever its synthesis comes to, and
\* although a process that repeats a generation puts the guard file back first. (Not so
\* for an epoch some of whose slots failed with the planning: what a second process
\* plans for the others is forgotten when it restores the first failure.)
EachMutationOnce ==
  \A e, f \in Epoch : e # f => Aimed(e) \cap Aimed(f) = {}

\* A generation that is resumed finds the state it left: none of the checks it makes of
\* the cost, the statistics and the frozen state ever fails a slot.
ReplayAccepted ==
  /\ Planning /\ Current > 0 /\ Current \in DOMAIN plan => ReplayMatches(Current)
  /\ Planning /\ Current > 0 /\ Current \in DOMAIN intent => intent[Current].frozen = Frozen
  /\ pc = "synthesize" => SettleMatches(Current)

\* The runs whose fold receipts campaign.json has taken in, but for the folds that raised.
Reduced == {a \in campaign.folded : fold[a].status = "folded"}

\* Between two epochs the files and the generator are those of campaign.json, and the
\* next epoch is planned from nothing that campaign.json has not recorded: a run that is
\* in the tree or in the generator's memory has its receipt there, and the memory names
\* no run whose staged files the tree lacks. The converse holds until a process dies. One
\* that dies between two folds of an epoch takes the epoch's earlier folds with it (the
\* proposals' snapshots are restored, which precede them): a run that is recorded and not
\* remembered was followed by another fold of its epoch, and all before it are lost too.
ArtifactsAgree ==
  Planning /\ Slots(Current) \cap DOMAIN proposal = {} =>
    /\ campaign.gen = Snapshot
    /\ mem.folded \subseteq Reduced
    /\ art.tree.runs \subseteq Reduced \cap DOMAIN version
    /\ mem.folded \cap DOMAIN version \subseteq art.tree.runs
    /\ \A e \in Epoch : \A a \in (Slots(e) \cap Reduced) \ mem.folded :
         /\ crashes > 0
         /\ \E b \in Slots(e) \cap campaign.folded : a < b
         /\ \A c \in Slots(e) \cap mem.folded : a < c
=============================================================================
