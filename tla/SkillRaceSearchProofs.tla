----------------------- MODULE SkillRaceSearchProofs -----------------------
(***************************************************************************)
(* What holds of the SkillRACE search for any purposes, mutations, sizes   *)
(* of an epoch and number of epochs, mishaps and crashes.                  *)
(*                                                                         *)
(* 1. A run is judged once (JudgeInv). campaign.json names at most one     *)
(* attempt whose fold is open, the least of its epoch that is not folded;  *)
(* a staged version belongs to a charged attempt; and outside the three    *)
(* steps that write it, the files on disk are those of the open fold's     *)
(* version as soon as there is one. A restoration is followed file by      *)
(* file: what it has written agrees with its target.                       *)
(*                                                                         *)
(* 2. An epoch is planned on what campaign.json says, and a generation     *)
(* that is repeated finds what it left (StoryInv, beside JudgeInv). Where  *)
(* a restoration is under way it counts for what it leads to, so that a    *)
(* crash is a step like the others: the place and the snapshot it heads    *)
(* for are among those an uninterrupted process could be at.               *)
(*                                                                         *)
(* 3. A mutation is aimed at by one epoch only (TriedInv, beside both):    *)
(* it is marked before the proposals that stand for it are published, and  *)
(* no snapshot that is put back has fewer marks than campaign.json.        *)
(*                                                                         *)
(* 4. What is planned from is what is recorded (KeptInv, beside the first  *)
(* two). Folds are recorded one by one in the order of the slots, and no   *)
(* snapshot holds a run without its receipt. A snapshot taken before the   *)
(* folds of an epoch holds none of its runs, so that one that is restored  *)
(* in mid-epoch loses them all: they precede the fold that goes on.        *)
(***************************************************************************)
EXTENDS SkillRaceSearch, TLAPS, WellFoundedInduction

-----------------------------------------------------------------------------
(* The three adaptive files, and records that come into being once. *)

Files == {"tree", "cache", "guards"}

Artifacts(x) == x = [f \in Files |-> x[f]]

LEMMA SameFiles ==
  ASSUME NEW x, NEW y, Artifacts(x), Artifacts(y), \A f \in Files : x[f] = y[f]
  PROVE  x = y
  BY DEF Artifacts

LEMMA WithAdds ==
  ASSUME NEW there, NEW a, NEW content
  PROVE  /\ DOMAIN With(there, a, content) = DOMAIN there \cup {a}
         /\ \A b \in DOMAIN there : With(there, a, content)[b] = there[b]
         /\ a \notin DOMAIN there => With(there, a, content)[a] = content
  BY DEF With

LEMMA LeastNatural ==
  ASSUME NEW S \in SUBSET Nat, S # {}
  PROVE  \E s \in S : \A r \in S : s <= r
<1>1. \E s \in S : \A r \in S : ~ (<<r, s>> \in OpToRel(<, Nat))
  BY NatLessThanWellFounded, WFMin, Zenon
<1>2. \A r, s \in Nat : r < s => <<r, s>> \in OpToRel(<, Nat)
  BY DEF OpToRel
<1>3. \E s \in S : \A r \in S : ~ (r < s)
  BY <1>1, <1>2, Zenon
<1> QED BY <1>3

LEMMA FirstIsLeast ==
  ASSUME NEW S \in SUBSET Nat, S # {}
  PROVE  First(S) \in S /\ \A r \in S : First(S) <= r
  BY LeastNatural, Zenon DEF First

\* A bounded set has a last element: the one that the least distance leaves to the bound.
LEMMA LastIsGreatest ==
  ASSUME NEW S \in SUBSET Nat, S # {}, NEW b \in Nat, \A a \in S : a <= b
  PROVE  Last(S) \in S
<1> DEFINE Distances == {n \in Nat : \E a \in S : n = b - a}
<1>1. \A a \in S : b - a \in Distances
  OBVIOUS
<1>2. Distances \in SUBSET Nat /\ Distances # {}
  BY <1>1
<1>3. PICK n \in Distances : \A m \in Distances : n <= m
  <2> HIDE DEF Distances
  <2> QED BY <1>2, LeastNatural
<1>4. PICK a \in S : n = b - a
  OBVIOUS
<1>5. \A c \in S : c <= a
  BY <1>1, <1>3, <1>4
<1> HIDE DEF Distances
<1> QED BY <1>5, Zenon DEF Last

-----------------------------------------------------------------------------
(* The inductive invariant. *)

Remembers(memory, runs) == "folded" \in DOMAIN memory /\ memory.folded \subseteq runs

\* A snapshot remembers only runs whose fold is recorded.
Sound(gen) == Artifacts(gen.art) /\ Remembers(gen.mem, DOMAIN fold)

SnapshotsOK ==
  /\ Artifacts(art)
  /\ \A a \in DOMAIN version : Artifacts(version[a]) /\ a \in version[a].tree.runs
  /\ Sound(campaign.gen)
  /\ \A a \in DOMAIN proposal : Sound(proposal[a].gen)
  /\ \A a \in DOMAIN fold : Sound(fold[a].gen)
  /\ \A e \in DOMAIN intent : Artifacts(intent[e].pre)

\* A version is completed after it is staged, staged and recorded after the charge, and
\* only what was proposed is charged.
RecordsOK ==
  /\ complete \subseteq DOMAIN version
  /\ DOMAIN version \cup DOMAIN fold \subseteq campaign.committed
  /\ campaign.committed \subseteq DOMAIN proposal /\ DOMAIN proposal \subseteq Nat
  /\ \E b \in Nat : \A a \in DOMAIN proposal : a <= b

CampaignOK ==
  /\ DOMAIN campaign = {"epoch", "active", "committed", "folded", "pending", "gen"}
  /\ campaign.epoch \in Nat /\ campaign.active \in BOOLEAN
  /\ campaign.active => Slots(Current) \subseteq DOMAIN proposal
  /\ \A a \in campaign.committed :
       \/ a \in campaign.folded \/ a = campaign.pending
       \/ proposal[a].candidate # "case"

\* The open fold is the first one that the epoch still owes.
PendingOK ==
  campaign.pending # None =>
    /\ campaign.active /\ campaign.pending \in campaign.committed \cap Unfolded(Current)
    /\ \A r \in Unfolded(Current) : campaign.pending <= r

Judged ==
  /\ \A a \in DOMAIN fold \cap DOMAIN version :
       fold[a].status = "folded" /\ fold[a].gen.art = version[a]
  /\ campaign.pending \in complete \ DOMAIN fold => art = version[campaign.pending]

DurableInv == SnapshotsOK /\ RecordsOK /\ CampaignOK /\ PendingOK /\ Judged

MemoryOK ==
  Remembers(mem, IF pc = "folded" THEN DOMAIN fold \cup {cur} ELSE DOMAIN fold)

BeforeProposals == {"extract", "select", "synthesize", "mark", "slots"}

\* The slots below the one the main thread is at have their proposals.
AtSlot ==
  /\ ~campaign.active /\ cur \in Nat /\ cur >= EpochSize * Current
  /\ \A s \in Slots(Current) : s < cur => s \in DOMAIN proposal

PlanningOK ==
  /\ pc \in BeforeProposals => ~campaign.active
  /\ pc = "slots" => AtSlot

Folding == {"fold", "cache", "tree", "complete", "folded", "failed"}

FoldingOK ==
  /\ pc \in Folding => /\ cur = campaign.pending /\ cur # None
                       /\ cur \notin DOMAIN fold
  /\ pc \in {"cache", "tree", "complete"} => cur \in DOMAIN version \ complete
  /\ pc = "failed" => cur \notin DOMAIN version
  /\ pc = "finalize" => /\ cur = campaign.pending /\ cur # None
                        /\ cur \in DOMAIN fold /\ art = fold[cur].gen.art
  /\ pc \in {"loop", "fold", "folded"} /\ campaign.pending \in DOMAIN version =>
       art = version[campaign.pending]
  /\ pc = "loop" /\ campaign.pending \in DOMAIN fold =>
       art = fold[campaign.pending].gen.art

Left(n) == CASE n = 3 -> AllFiles
             [] n = 2 -> <<"cache", "guards">>
             [] n = 1 -> <<"guards">>
             [] n = 0 -> <<>>

Written(n) == CASE n = 3 -> {} [] n = 2 -> {"tree"} [] n = 1 -> {"tree", "cache"}
                [] n = 0 -> Files

\* A restoration under way, and what it is for.
RestoringOK ==
  pc = "restore" =>
    /\ DOMAIN job = {"target", "left", "mem", "then"}
    /\ Artifacts(job.target) /\ Remembers(job.mem, DOMAIN fold)
    /\ \E n \in 0 .. 3 : job.left = Left(n) /\ \A f \in Written(n) : art[f] = job.target[f]
    /\ campaign.pending \notin complete \ DOMAIN fold
    /\ \/ /\ job.then = "recovered" /\ campaign.pending \in DOMAIN version \ DOMAIN fold
          /\ job.target = version[campaign.pending]
       \/ /\ job.then = "loop"
          /\ campaign.pending \in DOMAIN fold =>
               job.target = fold[campaign.pending].gen.art
          /\ campaign.pending \notin DOMAIN fold => campaign.pending \notin DOMAIN version
       \/ job.then = "extract" /\ ~campaign.active
       \/ job.then = "slots" /\ AtSlot

ControlInv == MemoryOK /\ PlanningOK /\ FoldingOK /\ RestoringOK

JudgeInv == DurableInv /\ ControlInv

-----------------------------------------------------------------------------
(* Consequences of the durable part. *)

LEMMA SlotsAreNatural == CampaignOK => Slots(Current) \subseteq Nat
<1>1. CampaignOK => EpochSize * Current \in Nat
  BY SizeAssumption DEF CampaignOK, Current
<1> QED BY <1>1, SizeAssumption DEF Slots

\* Nothing is recorded under None, which stands for no open fold.
LEMMA NoneHasNoRecord ==
  RecordsOK => None \notin DOMAIN version \cup DOMAIN fold \cup complete
  BY NoneAssumption DEF RecordsOK

LEMMA PlanningHasNoFold ==
  DurableInv /\ ~campaign.active =>
    campaign.pending = None /\ campaign.pending \notin DOMAIN version \cup DOMAIN fold \cup complete
  BY NoneHasNoRecord DEF DurableInv, PendingOK

-----------------------------------------------------------------------------
(* Steps that leave the durable part alone. *)

durable == <<files, intent, records>>

LEMMA DurableKept == ASSUME DurableInv, UNCHANGED durable PROVE DurableInv'
<1> USE DEF durable, files, records
<1>1. SnapshotsOK'
  BY DEF DurableInv, SnapshotsOK, Sound
<1>2. RecordsOK' /\ CampaignOK'
  BY DEF DurableInv, RecordsOK, CampaignOK, Current
<1>3. PendingOK'
  BY DEF DurableInv, PendingOK, Unfolded, Failures, Current
<1>4. Judged'
  BY DEF DurableInv, Judged
<1> QED BY <1>1, <1>2, <1>3, <1>4 DEF DurableInv

\* What a restoration to a snapshot leads to.
LEMMA ExactCases ==
  ASSUME NEW gen, NEW then, RestoreExact(gen, then)
  PROVE  \/ pc' = then /\ art = gen.art /\ mem' = gen.mem
         \/ /\ pc' = "restore" /\ mem' = mem
            /\ job' = [target |-> gen.art, left |-> AllFiles, mem |-> gen.mem, then |-> then]
         \/ pc' = "refused" /\ mem' = mem
  BY DEF RestoreExact, StartRestore

\* A restoration that begins has written nothing yet.
LEMMA RestoreStarts ==
  ASSUME NEW target, NEW memory, NEW then, Artifacts(target), Remembers(memory, DOMAIN fold),
         job' = [target |-> target, left |-> AllFiles, mem |-> memory, then |-> then],
         fold' = fold
  PROVE  /\ DOMAIN job' = {"target", "left", "mem", "then"}
         /\ Artifacts(job'.target) /\ Remembers(job'.mem, DOMAIN fold')
         /\ \E n \in 0 .. 3 : /\ job'.left = Left(n)
                              /\ \A f \in Written(n) : art'[f] = job'.target[f]
         /\ job'.then = then /\ job'.target = target
<1>1. Left(3) = AllFiles /\ Written(3) = {}
  BY DEF Left, Written
<1> QED BY <1>1

\* What a process restores when no fold is under way is a sound snapshot.
LEMMA LoadedIsSound ==
  ASSUME DurableInv, campaign.pending = None \/ campaign.pending \in DOMAIN fold
  PROVE  /\ Sound(RestoredOnLoad)
         /\ campaign.pending \in DOMAIN fold =>
              RestoredOnLoad = fold[campaign.pending].gen
<1> USE DEF DurableInv, SnapshotsOK
<1>1. None \notin DOMAIN fold
  BY NoneHasNoRecord
<1>2. CASE campaign.pending \in DOMAIN fold
  BY <1>1, <1>2 DEF RestoredOnLoad
<1>3. CASE campaign.pending = None /\ Uncommitted # {}
  <2>1. Last(Uncommitted) \in DOMAIN proposal
    BY <1>3, LastIsGreatest DEF Uncommitted, RecordsOK
  <2> QED BY <1>1, <1>3, <2>1 DEF RestoredOnLoad
<1>4. CASE campaign.pending = None /\ Uncommitted = {}
  BY <1>1, <1>4 DEF RestoredOnLoad
<1> QED BY <1>2, <1>3, <1>4

\* The process starts again: back to the open fold's files, or to a snapshot.
LEMMA LoadKeeps == ASSUME JudgeInv, Load PROVE JudgeInv'
<1> USE DEF JudgeInv, ControlInv
<1>1. UNCHANGED durable /\ UNCHANGED cur /\ pc = "load"
  BY DEF Load, durable, generation
<1>2. DurableInv'
  BY <1>1, DurableKept
<1>u. UNCHANGED <<art, version, complete, fold, campaign>>
  BY <1>1 DEF durable, files, records
<1>3. CASE campaign.pending # None /\ campaign.pending \notin DOMAIN fold
  <2> DEFINE a == campaign.pending
  <2>1. Sound(campaign.gen) /\ (a \in DOMAIN version => Artifacts(version[a]))
    BY DEF DurableInv, SnapshotsOK
  <2>2. RestorePending(a)
    BY <1>3 DEF Load
  <2>3. CASE a \notin DOMAIN version
    <3>1. pc' = "restore" /\ mem' = mem /\ a \notin complete
          /\ job' = [target |-> campaign.gen.art, left |-> AllFiles,
                     mem |-> campaign.gen.mem, then |-> "loop"]
      BY <2>2, <2>3 DEF RestorePending, StartRestore, DurableInv, RecordsOK
    <3>2. RestoringOK'
      BY <1>u, <1>3, <2>1, <2>3, <3>1, RestoreStarts DEF RestoringOK, Sound
    <3>3. MemoryOK' /\ PlanningOK' /\ FoldingOK'
      BY <1>1, <1>u, <3>1 DEF MemoryOK, PlanningOK, FoldingOK, BeforeProposals, Folding
    <3> QED BY <1>2, <3>2, <3>3
  <2>4. CASE a \in DOMAIN version \ complete
    <3>1. pc' = "restore" /\ mem' = mem
          /\ job' = [target |-> version[a], left |-> AllFiles,
                     mem |-> campaign.gen.mem, then |-> "recovered"]
      BY <2>2, <2>4 DEF RestorePending, StartRestore
    <3>2. RestoringOK'
      BY <1>u, <1>3, <2>1, <2>4, <3>1, RestoreStarts DEF RestoringOK, Sound
    <3>3. MemoryOK' /\ PlanningOK' /\ FoldingOK'
      BY <1>1, <1>u, <3>1 DEF MemoryOK, PlanningOK, FoldingOK, BeforeProposals, Folding
    <3> QED BY <1>2, <3>2, <3>3
  <2>5. CASE a \in DOMAIN version /\ a \in complete
    <3>1. /\ mem' = campaign.gen.mem
          /\ \/ pc' = "loop" /\ art = version[a]
             \/ pc' = "refused"
      BY <2>2, <2>5 DEF RestorePending
    <3>2. MemoryOK' /\ PlanningOK' /\ FoldingOK' /\ RestoringOK'
      BY <1>u, <1>3, <2>1, <3>1
      DEF MemoryOK, PlanningOK, FoldingOK, RestoringOK, BeforeProposals, Folding, Sound
    <3> QED BY <1>2, <3>2
  <2> QED BY <2>3, <2>4, <2>5
<1>4. CASE ~(campaign.pending # None /\ campaign.pending \notin DOMAIN fold)
  <2> DEFINE gen == RestoredOnLoad
  <2>1. RestoreExact(gen, "loop")
    BY <1>4 DEF Load
  <2>2. /\ Sound(gen)
        /\ campaign.pending \in DOMAIN fold => gen = fold[campaign.pending].gen
    BY <1>4, LoadedIsSound
  <2>3. campaign.pending \notin DOMAIN fold =>
          campaign.pending \notin DOMAIN version \cup complete
    BY <1>4, NoneHasNoRecord DEF DurableInv
  <2>4. \A a \in DOMAIN fold \cap DOMAIN version : fold[a].gen.art = version[a]
    BY DEF DurableInv, Judged
  <2> HIDE DEF gen
  <2>5. CASE pc' = "loop" /\ art = gen.art /\ mem' = gen.mem
    BY <1>2, <1>u, <2>2, <2>3, <2>4, <2>5
    DEF MemoryOK, PlanningOK, FoldingOK, RestoringOK, BeforeProposals, Folding, Sound
  <2>6. CASE /\ pc' = "restore" /\ mem' = mem
             /\ job' = [target |-> gen.art, left |-> AllFiles, mem |-> gen.mem,
                        then |-> "loop"]
    <3>1. RestoringOK'
      BY <1>u, <2>2, <2>3, <2>6, RestoreStarts DEF RestoringOK, Sound
    <3>2. MemoryOK' /\ PlanningOK' /\ FoldingOK'
      BY <1>1, <1>u, <2>6 DEF MemoryOK, PlanningOK, FoldingOK, BeforeProposals, Folding
    <3> QED BY <1>2, <3>1, <3>2
  <2>7. CASE pc' = "refused" /\ mem' = mem
    BY <1>1, <1>2, <1>u, <2>7
    DEF MemoryOK, PlanningOK, FoldingOK, RestoringOK, BeforeProposals, Folding
  <2> QED BY <2>1, <2>5, <2>6, <2>7, ExactCases
<1> QED BY <1>3, <1>4

\* A step of the planning, up to the proposals: no fold is open.
LEMMA PlanningKeeps ==
  ASSUME JudgeInv, UNCHANGED durable, ~campaign.active, Remembers(mem', DOMAIN fold),
         pc' \in BeforeProposals, pc' = "slots" => cur' = EpochSize * Current
  PROVE  JudgeInv'
<1> USE DEF JudgeInv, ControlInv
<1>1. DurableInv'
  BY DurableKept
<1>2. UNCHANGED <<fold, campaign, proposal>>
  BY DEF durable, records
<1>3. MemoryOK'
  BY <1>2 DEF MemoryOK, BeforeProposals
<1>4. PlanningOK'
  <2>1. pc' = "slots" => AtSlot'
    <3>1. Current \in Nat /\ EpochSize * Current \in Nat
      BY SizeAssumption DEF DurableInv, CampaignOK, Current
    <3>2. \A s \in Slots(Current) : s >= EpochSize * Current
      BY <3>1, SizeAssumption DEF Slots
    <3>3. Current' = Current /\ Slots(Current)' = Slots(Current)
      BY <1>2 DEF Current, Slots
    <3>4. \A s \in Slots(Current) : s \in Nat
      BY SlotsAreNatural DEF DurableInv
    <3> QED BY <1>2, <3>1, <3>2, <3>3, <3>4 DEF AtSlot
  <2> QED BY <1>2, <2>1 DEF PlanningOK
<1>5. FoldingOK' /\ RestoringOK'
  BY DEF FoldingOK, RestoringOK, BeforeProposals, Folding
<1> QED BY <1>1, <1>3, <1>4, <1>5

LEMMA QuietPlanningKeeps ==
  ASSUME JudgeInv,
         \/ ProposeBootstrap \/ PlanningFails \/ WritePlan \/ ReplayPlan
         \/ \E a \in Attempt : Synthesize(a) \/ SynthesisFails(a)
         \/ Settle \/ AllMarked
  PROVE  JudgeInv'
<1> USE DEF JudgeInv, ControlInv
<1>1. UNCHANGED durable
  BY DEF durable, records, files, generation, ProposeBootstrap, PlanningFails, WritePlan,
         ReplayPlan, Synthesize, SynthesisFails, Settle, AllMarked
<1>2. pc \in BeforeProposals \cup {"loop"} /\ ~campaign.active
  BY DEF ProposeBootstrap, PlanningFails, WritePlan, ReplayPlan, Synthesize, SynthesisFails,
         Settle, AllMarked, Planning, PlanningOK, BeforeProposals
<1>3. Remembers(mem, DOMAIN fold)
  BY <1>2 DEF MemoryOK, BeforeProposals
<1>4. \/ UNCHANGED mem
      \/ \E cost, stats : mem' = [mem EXCEPT !.cost = cost]
                          \/ mem' = [mem EXCEPT !.cost = cost, !.stats = stats]
  BY DEF ProposeBootstrap, PlanningFails, WritePlan, ReplayPlan, Synthesize, SynthesisFails,
         Settle, AllMarked, ToSlots
<1>5. Remembers(mem', DOMAIN fold)
  BY <1>3, <1>4 DEF Remembers
<1>6. /\ pc' \in BeforeProposals
      /\ pc' = "slots" => cur' = EpochSize * Current
  <2>1. CASE ProposeBootstrap
    BY <2>1, SizeAssumption DEF ProposeBootstrap, BeforeProposals
  <2>2. CASE PlanningFails \/ WritePlan \/ ReplayPlan \/ Settle \/ AllMarked
    BY <2>2 DEF PlanningFails, WritePlan, ReplayPlan, Settle, AllMarked, ToSlots, BeforeProposals
  <2>3. CASE \E a \in Attempt : Synthesize(a) \/ SynthesisFails(a)
    BY <2>3 DEF Synthesize, SynthesisFails, BeforeProposals
  <2> QED BY <2>1, <2>2, <2>3
<1> QED BY <1>1, <1>2, <1>5, <1>6, PlanningKeeps

LEMMA ResumeIntentKeeps == ASSUME JudgeInv, ResumeIntent PROVE JudgeInv'
<1> USE DEF JudgeInv, ControlInv
<1>1. UNCHANGED durable /\ ~campaign.active /\ pc = "loop"
  BY DEF ResumeIntent, Planning, durable, generation
<1>2. Remembers(mem, DOMAIN fold)
  BY <1>1 DEF MemoryOK
<1>3. CASE /\ pc' \in BeforeProposals /\ UNCHANGED mem
           /\ pc' = "slots" => cur' = EpochSize * Current
  BY <1>1, <1>2, <1>3, PlanningKeeps
<1>4. CASE StartRestore(intent[Current].pre, mem, "extract")
  <2>1. Artifacts(intent[Current].pre)
    BY DEF DurableInv, SnapshotsOK, ResumeIntent
  <2>2. /\ pc' = "restore" /\ UNCHANGED <<mem, fold, campaign, complete>>
        /\ job' = [target |-> intent[Current].pre, left |-> AllFiles, mem |-> mem,
                   then |-> "extract"]
    BY <1>1, <1>4 DEF StartRestore, durable, files, records
  <2>3. campaign.pending \notin complete
    BY <1>1, PlanningHasNoFold
  <2>4. RestoringOK'
    BY <1>1, <1>2, <2>1, <2>2, <2>3, RestoreStarts DEF RestoringOK
  <2>5. MemoryOK' /\ PlanningOK' /\ FoldingOK'
    BY <1>2, <2>2 DEF MemoryOK, PlanningOK, FoldingOK, BeforeProposals, Folding
  <2> QED BY <1>1, <2>4, <2>5, DurableKept
<1> QED BY <1>3, <1>4 DEF ResumeIntent, BeforeProposals

\* The generator remembers the attempt of the open fold, or has failed; no file changed.
LEMMA FoldEndsKeeps ==
  ASSUME JudgeInv, FoldFails \/ \E calls \in {0, 2} : FoldNothing(calls)
  PROVE  JudgeInv'
<1> USE DEF JudgeInv, ControlInv
<1>1. /\ UNCHANGED durable /\ UNCHANGED cur /\ pc = "fold" /\ cur \notin art.tree.runs
      /\ \/ pc' = "failed" /\ mem' = mem
         \/ /\ pc' = "folded"
            /\ \E cost : mem' = [mem EXCEPT !.folded = @ \cup {cur}, !.cost = cost]
  BY DEF FoldFails, FoldNothing, durable, generation
<1>2. cur \notin DOMAIN version
  BY <1>1 DEF FoldingOK, Folding, DurableInv, SnapshotsOK
<1>3. UNCHANGED <<art, version, complete, fold, campaign>>
  BY <1>1 DEF durable, files, records
<1>4. MemoryOK'
  BY <1>1, <1>3 DEF MemoryOK, Remembers
<1>5. PlanningOK' /\ FoldingOK' /\ RestoringOK'
  BY <1>1, <1>2, <1>3 DEF PlanningOK, FoldingOK, RestoringOK, BeforeProposals, Folding
<1> QED BY <1>1, <1>4, <1>5, DurableKept

LEMMA CrashKeeps == ASSUME JudgeInv, Crash PROVE JudgeInv'
<1> USE DEF JudgeInv, ControlInv
<1>1. UNCHANGED durable /\ pc' = "load" /\ mem' = FreshMemory
  BY DEF Crash, durable, generation
<1>2. Remembers(FreshMemory, DOMAIN fold')
  BY DEF FreshMemory, Remembers
<1>3. ControlInv'
  BY <1>1, <1>2
  DEF MemoryOK, PlanningOK, FoldingOK, RestoringOK, BeforeProposals, Folding
<1> QED BY <1>1, <1>3, DurableKept

LEMMA StutterKeeps == ASSUME JudgeInv, UNCHANGED vars PROVE JudgeInv'
<1>1. UNCHANGED durable /\ UNCHANGED <<pc, cur, mem, job>>
  BY DEF vars, durable, generation
<1>2. UNCHANGED <<art, version, complete, proposal, fold, campaign>>
  BY <1>1 DEF durable, files, records
<1>3. ControlInv'
  BY <1>1, <1>2 DEF JudgeInv, ControlInv, MemoryOK, PlanningOK, FoldingOK, RestoringOK, AtSlot,
                   Current
<1> QED BY <1>1, <1>3, DurableKept DEF JudgeInv

-----------------------------------------------------------------------------
(* Steps that write an adaptive file or restore them. *)

LEMMA DurableButFiles ==
  ASSUME DurableInv, UNCHANGED <<version, complete, intent, records>>, Artifacts(art'),
         campaign.pending \notin complete \ DOMAIN fold
  PROVE  DurableInv'
<1> USE DEF records
<1>1. SnapshotsOK'
  BY DEF DurableInv, SnapshotsOK, Sound
<1>2. RecordsOK' /\ CampaignOK'
  BY DEF DurableInv, RecordsOK, CampaignOK, Current
<1>3. PendingOK'
  BY DEF DurableInv, PendingOK, Unfolded, Failures, Current
<1>4. Judged'
  BY DEF DurableInv, Judged
<1> QED BY <1>1, <1>2, <1>3, <1>4 DEF DurableInv

LEMMA GuardsKeep ==
  ASSUME JudgeInv, MarkTried \/ \E mutations \in SUBSET Mutations : ExtractGuards(mutations)
  PROVE  JudgeInv'
<1> USE DEF JudgeInv, ControlInv
<1>1. /\ UNCHANGED <<version, complete, intent, records>> /\ pc \in {"extract", "mark"}
      /\ pc' \in {"select", "mark"}
      /\ mem' = mem \/ \E cost : mem' = [mem EXCEPT !.cost = cost]
      /\ art' = art \/ \E known, tried : art' = SavedGuards(known, tried)
  <2>1. CASE MarkTried
    BY <2>1 DEF MarkTried, generation
  <2>2. ASSUME NEW mutations \in SUBSET Mutations, ExtractGuards(mutations)
        PROVE  <1>1!:
    BY <2>2 DEF ExtractGuards, generation
  <2> QED BY <2>1, <2>2
<1>2. ~campaign.active /\ campaign.pending \notin complete
  BY <1>1, PlanningHasNoFold DEF PlanningOK, BeforeProposals
<1>3. Artifacts(art')
  BY <1>1 DEF DurableInv, SnapshotsOK, Artifacts, Files, SavedGuards
<1>4. MemoryOK'
  BY <1>1 DEF MemoryOK, Remembers, records
<1>5. PlanningOK' /\ FoldingOK' /\ RestoringOK'
  BY <1>1, <1>2 DEF PlanningOK, FoldingOK, RestoringOK, BeforeProposals, Folding, records
<1> QED BY <1>1, <1>2, <1>3, <1>4, <1>5, DurableButFiles

LEMMA WriteKeeps == ASSUME JudgeInv, WriteCache \/ WriteTree PROVE JudgeInv'
<1> USE DEF JudgeInv, ControlInv
<1>1. /\ UNCHANGED <<version, complete, intent, records, cur, mem>> /\ pc \in {"cache", "tree"}
      /\ pc' \in {"tree", "complete"}
      /\ \E f \in {"cache", "tree"} : \E v : art' = [art EXCEPT ![f] = v]
  BY DEF WriteCache, WriteTree, generation
<1>2. campaign.pending \notin complete
  BY <1>1 DEF FoldingOK, Folding
<1>3. Artifacts(art')
  BY <1>1 DEF DurableInv, SnapshotsOK, Artifacts, Files
<1>4. MemoryOK' /\ PlanningOK' /\ FoldingOK' /\ RestoringOK'
  BY <1>1 DEF MemoryOK, PlanningOK, FoldingOK, RestoringOK, BeforeProposals, Folding, records
<1> QED BY <1>1, <1>2, <1>3, <1>4, DurableButFiles

LEMMA LeftShrinks ==
  ASSUME NEW n \in 0 .. 3, Left(n) # <<>>
  PROVE  /\ n - 1 \in 0 .. 3 /\ Head(Left(n)) \in Files /\ Tail(Left(n)) = Left(n - 1)
         /\ Written(n - 1) = Written(n) \cup {Head(Left(n))} /\ Written(n - 1) \subseteq Files
<1>1. CASE n = 3
  BY <1>1 DEF Left, Written, Files, AllFiles
<1>2. CASE n = 2
  BY <1>2 DEF Left, Written, Files
<1>3. CASE n = 1
  BY <1>3 DEF Left, Written, Files
<1>4. CASE n = 0
  BY <1>4 DEF Left
<1> QED BY <1>1, <1>2, <1>3, <1>4

LEMMA RestoreFileKeeps == ASSUME JudgeInv, RestoreFile PROVE JudgeInv'
<1> USE DEF JudgeInv, ControlInv
<1>1. /\ UNCHANGED <<version, complete, intent, records, cur, mem, pc>> /\ pc = "restore"
      /\ job.left # <<>>
      /\ art' = [art EXCEPT ![Head(job.left)] = job.target[Head(job.left)]]
      /\ job' = [job EXCEPT !.left = Tail(@)]
  BY DEF RestoreFile, generation
<1>2. PICK n \in 0 .. 3 : job.left = Left(n) /\ \A f \in Written(n) : art[f] = job.target[f]
  BY <1>1 DEF RestoringOK
<1> DEFINE h == Head(job.left)
<1>3. /\ n - 1 \in 0 .. 3 /\ h \in Files /\ Tail(job.left) = Left(n - 1)
      /\ Written(n - 1) = Written(n) \cup {h} /\ Written(n - 1) \subseteq Files
  BY <1>1, <1>2, LeftShrinks
<1>4. /\ Artifacts(art') /\ art'[h] = job.target[h]
      /\ \A g \in Files \ {h} : art'[g] = art[g]
  <2> HIDE DEF h
  <2>1. art' = [art EXCEPT ![h] = job.target[h]]
    BY <1>1 DEF h
  <2>2. Artifacts(art)
    BY DEF DurableInv, SnapshotsOK
  <2> QED BY <1>3, <2>1, <2>2 DEF Artifacts
<1>5. campaign.pending \notin complete \ DOMAIN fold
  BY <1>1 DEF RestoringOK
<1>6. /\ DOMAIN job' = DOMAIN job /\ job'.left = Left(n - 1)
      /\ job'.target = job.target /\ job'.mem = job.mem /\ job'.then = job.then
  BY <1>1, <1>3 DEF RestoringOK
<1>7. \A f \in Written(n - 1) : art'[f] = job'.target[f]
  BY <1>2, <1>3, <1>4, <1>6
<1> HIDE DEF h
<1>8. RestoringOK'
  BY <1>1, <1>3, <1>6, <1>7 DEF RestoringOK, records, AtSlot, Current
<1>9. MemoryOK' /\ PlanningOK' /\ FoldingOK'
  BY <1>1 DEF MemoryOK, PlanningOK, FoldingOK, BeforeProposals, Folding, records
<1> QED BY <1>1, <1>4, <1>5, <1>8, <1>9, DurableButFiles

LEMMA FilesRestoredKeeps == ASSUME JudgeInv, FilesRestored PROVE JudgeInv'
<1> USE DEF JudgeInv, ControlInv
<1>1. /\ UNCHANGED <<art, version, intent, records, cur>> /\ pc = "restore"
      /\ job.left = <<>> /\ mem' = job.mem
      /\ IF job.then = "recovered"
         THEN complete' = complete \cup {campaign.pending} /\ pc' = "loop"
         ELSE complete' = complete /\ pc' = job.then
  BY DEF FilesRestored, generation
<1>2. PICK n \in 0 .. 3 : job.left = Left(n) /\ \A f \in Written(n) : art[f] = job.target[f]
  BY <1>1 DEF RestoringOK
<1>3. Written(n) = Files
  BY <1>1, <1>2 DEF Left, Written, AllFiles
<1>4. art = job.target
  BY <1>1, <1>2, <1>3, SameFiles DEF RestoringOK, DurableInv, SnapshotsOK
<1>5. Remembers(mem', DOMAIN fold)
  BY <1>1 DEF RestoringOK
<1>6. CASE job.then = "recovered"
  <2>1. /\ campaign.pending \in DOMAIN version \ DOMAIN fold
        /\ art = version[campaign.pending]
    BY <1>1, <1>4, <1>6 DEF RestoringOK
  <2>2. SnapshotsOK' /\ RecordsOK'
    BY <1>1, <1>6, <2>1 DEF DurableInv, SnapshotsOK, Sound, RecordsOK, records
  <2>3. CampaignOK' /\ PendingOK'
    BY <1>1 DEF DurableInv, CampaignOK, PendingOK, Unfolded, Failures, Current, records
  <2>4. Judged'
    BY <1>1, <1>6, <2>1 DEF DurableInv, Judged, records
  <2>5. ControlInv'
    BY <1>1, <1>5, <1>6, <2>1
    DEF MemoryOK, PlanningOK, FoldingOK, RestoringOK, BeforeProposals, Folding, records
  <2> QED BY <2>2, <2>3, <2>4, <2>5 DEF DurableInv
<1>7. CASE job.then # "recovered"
  <2>1. DurableInv'
    BY <1>1, <1>7, DurableKept DEF durable, files
  <2>2. MemoryOK' /\ RestoringOK'
    BY <1>1, <1>5, <1>7 DEF MemoryOK, RestoringOK, records
  <2>3. PlanningOK'
    BY <1>1, <1>7 DEF PlanningOK, RestoringOK, BeforeProposals, AtSlot, Current, records
  <2>4. FoldingOK'
    BY <1>1, <1>4, <1>7 DEF FoldingOK, RestoringOK, Folding, records, DurableInv, Judged
  <2> QED BY <2>1, <2>2, <2>3, <2>4
<1> QED BY <1>6, <1>7

-----------------------------------------------------------------------------
(* Steps that publish the records of an epoch before its runs. *)

LEMMA PublishIntentKeeps == ASSUME JudgeInv, PublishIntent PROVE JudgeInv'
<1> USE DEF JudgeInv, ControlInv
<1>1. /\ UNCHANGED <<art, version, complete, records, mem>> /\ pc = "loop" /\ ~campaign.active
      /\ pc' = "extract"
      /\ Current \notin DOMAIN intent
      /\ intent' = With(intent, Current, [pre |-> art, frozen |-> Frozen])
  BY DEF PublishIntent, Planning, files
<1>2. SnapshotsOK' /\ RecordsOK'
  <2>1. Artifacts(art) /\ \A e \in DOMAIN intent : Artifacts(intent[e].pre)
    BY DEF DurableInv, SnapshotsOK
  <2>2. \A e \in DOMAIN intent' : Artifacts(intent'[e].pre)
    BY <1>1, <2>1 DEF With
  <2> QED BY <1>1, <2>1, <2>2 DEF DurableInv, SnapshotsOK, RecordsOK, Sound, records
<1>3. CampaignOK' /\ PendingOK' /\ Judged'
  BY <1>1 DEF DurableInv, CampaignOK, PendingOK, Judged, Unfolded, Failures, Current, records
<1>4. ControlInv'
  BY <1>1 DEF MemoryOK, PlanningOK, FoldingOK, RestoringOK, BeforeProposals, Folding, records
<1> QED BY <1>2, <1>3, <1>4 DEF DurableInv

LEMMA PublishProposalKeeps == ASSUME JudgeInv, PublishProposal PROVE JudgeInv'
<1> USE DEF JudgeInv, ControlInv
<1>1. /\ UNCHANGED <<art, version, complete, intent, fold, campaign, mem>>
      /\ pc = "slots" /\ pc' = "slots" /\ cur \in Slots(Current) \ DOMAIN proposal
      /\ cur' = cur + 1
      /\ \E result, frozen :
           proposal' = With(proposal, cur, [candidate |-> result, frozen |-> frozen,
                                            gen |-> Snapshot])
  BY DEF PublishProposal, files, generation
<1>2. AtSlot /\ ~campaign.active /\ cur \in Nat
  BY <1>1 DEF PlanningOK, AtSlot
<1>3. /\ DOMAIN proposal' = DOMAIN proposal \cup {cur}
      /\ \A a \in DOMAIN proposal : proposal'[a] = proposal[a]
      /\ proposal'[cur].gen = Snapshot
  <2>1. PICK result, frozen :
          proposal' = With(proposal, cur, [candidate |-> result, frozen |-> frozen,
                                           gen |-> Snapshot])
    BY <1>1
  <2>2. cur \notin DOMAIN proposal
    BY <1>1
  <2> QED BY <2>1, <2>2 DEF With
<1>4. Sound(Snapshot)
  BY <1>1 DEF Sound, Snapshot, DurableInv, SnapshotsOK, MemoryOK
<1>5. SnapshotsOK'
  BY <1>1, <1>3, <1>4 DEF DurableInv, SnapshotsOK, Sound
<1>6. RecordsOK'
  <2>1. PICK b \in Nat : \A a \in DOMAIN proposal : a <= b
    BY DEF DurableInv, RecordsOK
  <2>2. b + cur \in Nat /\ \A a \in DOMAIN proposal' : a <= b + cur
    BY <1>2, <1>3, <2>1 DEF DurableInv, RecordsOK
  <2> QED BY <1>1, <1>2, <1>3, <2>2 DEF DurableInv, RecordsOK
<1>7. CampaignOK'
  BY <1>1, <1>2, <1>3 DEF DurableInv, CampaignOK, RecordsOK, Current
<1>8. PendingOK' /\ Judged'
  BY <1>1, <1>2, PlanningHasNoFold DEF DurableInv, PendingOK, Judged
<1>9. AtSlot'
  <2>1. Current' = Current /\ Slots(Current)' = Slots(Current)
    BY <1>1 DEF Current, Slots
  <2>2. EpochSize * Current \in Nat /\ Slots(Current) \subseteq Nat
    BY SlotsAreNatural, SizeAssumption DEF DurableInv, CampaignOK, Current
  <2> QED BY <1>1, <1>2, <1>3, <2>1, <2>2 DEF AtSlot
<1>10. ControlInv'
  BY <1>1, <1>2, <1>9
  DEF MemoryOK, PlanningOK, FoldingOK, RestoringOK, BeforeProposals, Folding
<1> QED BY <1>5, <1>6, <1>7, <1>8, <1>10 DEF DurableInv

LEMMA FindProposalKeeps == ASSUME JudgeInv, FindProposal PROVE JudgeInv'
<1> USE DEF JudgeInv, ControlInv
<1>1. /\ UNCHANGED durable /\ pc = "slots" /\ cur \in Slots(Current) \cap DOMAIN proposal
      /\ cur' = cur + 1 /\ RestoreExact(proposal[cur].gen, "slots")
  BY DEF FindProposal, durable, generation
<1>2. AtSlot /\ ~campaign.active /\ cur \in Nat
  BY <1>1 DEF PlanningOK, AtSlot
<1>3. Sound(proposal[cur].gen) /\ Remembers(mem, DOMAIN fold)
  BY <1>1 DEF DurableInv, SnapshotsOK, MemoryOK
<1>4. UNCHANGED <<art, version, complete, proposal, fold, campaign>>
  BY <1>1 DEF durable, files, records
<1>5. AtSlot'
  <2>1. Current' = Current /\ Slots(Current)' = Slots(Current)
    BY <1>4 DEF Current, Slots
  <2>2. EpochSize * Current \in Nat /\ Slots(Current) \subseteq Nat
    BY SlotsAreNatural, SizeAssumption DEF DurableInv, CampaignOK, Current
  <2> QED BY <1>1, <1>2, <1>4, <2>1, <2>2 DEF AtSlot
<1>6. campaign.pending \notin complete
  BY <1>2, PlanningHasNoFold
<1> DEFINE gen == proposal[cur].gen
<1>7. CASE pc' = "slots" /\ art = gen.art /\ mem' = gen.mem
  BY <1>1, <1>2, <1>3, <1>4, <1>5, <1>7, DurableKept
  DEF MemoryOK, PlanningOK, FoldingOK, RestoringOK, BeforeProposals, Folding, Sound
<1>8. CASE /\ pc' = "restore" /\ mem' = mem
           /\ job' = [target |-> gen.art, left |-> AllFiles, mem |-> gen.mem,
                      then |-> "slots"]
  <2>1. RestoringOK'
    BY <1>3, <1>4, <1>5, <1>6, <1>8, RestoreStarts DEF RestoringOK, Sound
  <2>2. MemoryOK' /\ PlanningOK' /\ FoldingOK'
    BY <1>3, <1>4, <1>8 DEF MemoryOK, PlanningOK, FoldingOK, BeforeProposals, Folding
  <2> QED BY <1>1, <2>1, <2>2, DurableKept
<1>9. CASE pc' = "refused" /\ mem' = mem
  BY <1>1, <1>3, <1>4, <1>9, DurableKept
  DEF MemoryOK, PlanningOK, FoldingOK, RestoringOK, BeforeProposals, Folding
<1> QED BY <1>1, <1>7, <1>8, <1>9, ExactCases

LEMMA SaveEpochKeeps == ASSUME JudgeInv, SaveEpoch PROVE JudgeInv'
<1> USE DEF JudgeInv, ControlInv
<1>1. /\ UNCHANGED <<art, version, complete, intent, proposal, fold, mem>>
      /\ pc = "slots" /\ pc' = "loop" /\ cur \notin Slots(Current)
      /\ campaign' = [campaign EXCEPT !.active = TRUE, !.gen = Snapshot]
  BY DEF SaveEpoch, files, generation
<1>2. AtSlot /\ ~campaign.active
  BY <1>1 DEF PlanningOK, AtSlot
<1>3. campaign.pending = None /\ None \notin DOMAIN version \cup DOMAIN fold \cup complete
  BY <1>2, PlanningHasNoFold
<1>4. /\ DOMAIN campaign' = DOMAIN campaign /\ campaign'.gen = Snapshot
      /\ campaign'.epoch = campaign.epoch /\ campaign'.committed = campaign.committed
      /\ campaign'.folded = campaign.folded /\ campaign'.pending = None
      /\ campaign'.active = TRUE
  BY <1>1, <1>3 DEF DurableInv, CampaignOK
<1>5. Slots(Current) \subseteq DOMAIN proposal
  <2>1. EpochSize * Current \in Nat /\ Slots(Current) \subseteq Nat
    BY SlotsAreNatural, SizeAssumption DEF DurableInv, CampaignOK, Current
  <2>2. \A s \in Slots(Current) : s < cur
    <3> TAKE s \in Slots(Current)
    <3> DEFINE base == EpochSize * Current
    <3>1. cur \in Nat /\ cur >= base /\ ~(cur <= base + EpochSize - 1)
      BY <1>1, <1>2, <2>1, SizeAssumption DEF Slots, AtSlot
    <3>2. s \in Nat /\ s <= base + EpochSize - 1
      BY <2>1, SizeAssumption DEF Slots
    <3> HIDE DEF base
    <3> QED BY <2>1, <3>1, <3>2, SizeAssumption DEF base
  <2> QED BY <1>2, <2>2 DEF AtSlot
<1>6. Sound(Snapshot)
  BY <1>1 DEF Sound, Snapshot, DurableInv, SnapshotsOK, MemoryOK
<1>7. SnapshotsOK' /\ RecordsOK'
  BY <1>1, <1>4, <1>6 DEF DurableInv, SnapshotsOK, Sound, RecordsOK
<1>8. CampaignOK'
  BY <1>1, <1>3, <1>4, <1>5 DEF DurableInv, CampaignOK, Current, Slots
<1>9. PendingOK' /\ Judged'
  BY <1>1, <1>3, <1>4 DEF DurableInv, PendingOK, Judged
<1>10. ControlInv'
  BY <1>1, <1>3, <1>4
  DEF MemoryOK, PlanningOK, FoldingOK, RestoringOK, BeforeProposals, Folding
<1> QED BY <1>7, <1>8, <1>9, <1>10 DEF DurableInv

-----------------------------------------------------------------------------
(* Steps that reduce the epoch. *)

LEMMA CommitFailureKeeps == ASSUME JudgeInv, CommitFailure PROVE JudgeInv'
<1> USE DEF JudgeInv, ControlInv
<1> DEFINE left == Failures(Current) \ campaign.committed
           s == First(left)
<1>1. /\ UNCHANGED <<art, version, complete, intent, proposal, fold, pc, cur, mem>>
      /\ pc = "loop" /\ campaign.active /\ left # {}
      /\ campaign' = [campaign EXCEPT !.committed = @ \cup {s}, !.gen = proposal[s].gen]
  BY DEF CommitFailure, files, generation
<1>2. s \in Failures(Current)
  <2>1. left \in SUBSET Nat
    BY SlotsAreNatural DEF DurableInv, Failures
  <2> HIDE DEF left
  <2>2. s \in left
    BY <1>1, <2>1, FirstIsLeast
  <2> QED BY <2>2 DEF left
<1>3. s \in DOMAIN proposal /\ proposal[s].candidate # "case"
  BY <1>1, <1>2 DEF DurableInv, CampaignOK, Failures
<1> HIDE DEF left, s
<1>4. /\ DOMAIN campaign' = DOMAIN campaign /\ campaign'.gen = proposal[s].gen
      /\ campaign'.committed = campaign.committed \cup {s}
      /\ campaign'.epoch = campaign.epoch /\ campaign'.active = campaign.active
      /\ campaign'.folded = campaign.folded /\ campaign'.pending = campaign.pending
  BY <1>1 DEF DurableInv, CampaignOK
<1>5. SnapshotsOK' /\ RecordsOK'
  BY <1>1, <1>3, <1>4 DEF DurableInv, SnapshotsOK, Sound, RecordsOK
<1>6. CampaignOK'
  BY <1>1, <1>3, <1>4 DEF DurableInv, CampaignOK, Current, Slots
<1>7. PendingOK'
  BY <1>1, <1>4 DEF DurableInv, PendingOK, Unfolded, Failures, Current, Slots
<1>8. Judged'
  BY <1>1, <1>4 DEF DurableInv, Judged
<1>9. ControlInv'
  BY <1>1, <1>4 DEF MemoryOK, PlanningOK, FoldingOK, RestoringOK, BeforeProposals, Folding
<1> QED BY <1>5, <1>6, <1>7, <1>8, <1>9 DEF DurableInv

\* The fold that is opened, or taken up again, is the one that campaign.json names.
LEMMA CommitOpens ==
  ASSUME DurableInv, NEW s, s = First(Unfolded(Current)), Unfolded(Current) # {},
         campaign.active
  PROVE  /\ s \in Nat /\ s \in Unfolded(Current) /\ s \in DOMAIN proposal
         /\ \A r \in Unfolded(Current) : s <= r
         /\ s \in campaign.committed => s = campaign.pending
         /\ s \notin campaign.committed => campaign.pending = None
<1>1. Unfolded(Current) \in SUBSET Nat
  BY SlotsAreNatural DEF DurableInv, Unfolded
<1>2. s \in Unfolded(Current) /\ \A r \in Unfolded(Current) : s <= r
  BY <1>1, FirstIsLeast
<1>3. s \in DOMAIN proposal
  BY <1>2 DEF DurableInv, CampaignOK, Unfolded
<1>4. s \in campaign.committed => s = campaign.pending
  BY <1>2 DEF DurableInv, CampaignOK, Unfolded, Failures
<1>5. ASSUME campaign.pending # None PROVE s \in campaign.committed
  <2>1. /\ campaign.pending \in Unfolded(Current) /\ campaign.pending <= s
        /\ campaign.pending \in campaign.committed
    BY <1>2, <1>5 DEF DurableInv, PendingOK
  <2>2. s <= campaign.pending /\ campaign.pending \in Nat /\ s \in Nat
    BY <1>1, <1>2, <2>1
  <2>3. s = campaign.pending
    BY <2>1, <2>2
  <2> QED BY <2>1, <2>3
<1> QED BY <1>1, <1>2, <1>3, <1>4, <1>5

LEMMA CommitKeeps == ASSUME JudgeInv, Commit PROVE JudgeInv'
<1> USE DEF JudgeInv, ControlInv
<1> DEFINE s == First(Unfolded(Current))
<1>1. /\ UNCHANGED <<art, version, complete, intent, proposal, fold, mem>>
      /\ pc = "loop" /\ campaign.active /\ Unfolded(Current) # {}
      /\ campaign' = IF s \in campaign.committed THEN campaign
                     ELSE [campaign EXCEPT !.committed = @ \cup {s}, !.pending = s,
                                           !.gen = proposal[s].gen]
      /\ cur' = s /\ pc' = IF s \in DOMAIN fold THEN "finalize" ELSE "fold"
  BY DEF Commit, files, generation
<1>2. /\ s \in Nat /\ s \in Unfolded(Current) /\ s \in DOMAIN proposal
      /\ \A r \in Unfolded(Current) : s <= r
      /\ s \in campaign.committed => s = campaign.pending
      /\ s \notin campaign.committed => campaign.pending = None
  BY <1>1, CommitOpens
<1> HIDE DEF s
<1>3. s # None /\ Remembers(mem, DOMAIN fold)
  BY <1>1, <1>2, NoneAssumption DEF MemoryOK
<1>4. CASE s \in campaign.committed
  <2>1. campaign' = campaign /\ s = campaign.pending
    BY <1>1, <1>2, <1>4
  <2>2. DurableInv'
    BY <1>1, <2>1, DurableKept DEF durable, files, records
  <2>3. ControlInv'
    BY <1>1, <1>3, <2>1
    DEF MemoryOK, PlanningOK, FoldingOK, RestoringOK, BeforeProposals, Folding
  <2> QED BY <2>2, <2>3
<1>5. CASE s \notin campaign.committed
  <2>1. /\ DOMAIN campaign' = DOMAIN campaign /\ campaign'.gen = proposal[s].gen
        /\ campaign'.committed = campaign.committed \cup {s}
        /\ campaign'.epoch = campaign.epoch /\ campaign'.active = campaign.active
        /\ campaign'.folded = campaign.folded /\ campaign'.pending = s
    BY <1>1, <1>5 DEF DurableInv, CampaignOK
  <2>2. s \notin DOMAIN version \cup DOMAIN fold \cup complete
    BY <1>5 DEF DurableInv, RecordsOK
  <2>3. campaign.pending \notin campaign.committed
    BY <1>2, <1>5, NoneAssumption DEF DurableInv, RecordsOK
  <2>4. SnapshotsOK' /\ RecordsOK'
    BY <1>1, <1>2, <2>1 DEF DurableInv, SnapshotsOK, Sound, RecordsOK
  <2>5. CampaignOK'
    BY <1>1, <2>1, <2>3 DEF DurableInv, CampaignOK, Current, Slots
  <2>6. PendingOK'
    <3>1. Unfolded(Current)' = Unfolded(Current)
      BY <1>1, <2>1 DEF Unfolded, Failures, Current, Slots
    <3> QED BY <1>1, <1>2, <2>1, <3>1 DEF PendingOK
  <2>7. Judged'
    BY <1>1, <2>1, <2>2 DEF DurableInv, Judged
  <2>8. ControlInv'
    BY <1>1, <1>3, <2>1, <2>2
    DEF MemoryOK, PlanningOK, FoldingOK, RestoringOK, BeforeProposals, Folding
  <2> QED BY <2>4, <2>5, <2>6, <2>7, <2>8 DEF DurableInv
<1> QED BY <1>4, <1>5

LEMMA OpenFold ==
  ASSUME JudgeInv, pc \in Folding
  PROVE  /\ cur = campaign.pending /\ cur # None /\ cur \in campaign.committed
         /\ cur \notin DOMAIN fold
  BY DEF JudgeInv, DurableInv, ControlInv, FoldingOK, PendingOK

\* A version of the open fold is added.
LEMMA VersionAdded ==
  ASSUME JudgeInv, pc \in Folding, NEW content, version' = With(version, cur, content),
         UNCHANGED <<art, intent, records>>, complete' \in {complete, complete \cup {cur}},
         cur \in DOMAIN version => version[cur] = content,
         Artifacts(content), cur \in content.tree.runs, cur \in complete' => art = content
  PROVE  DurableInv' /\ DOMAIN version' = DOMAIN version \cup {cur} /\ version'[cur] = content
<1>1. /\ DOMAIN version' = DOMAIN version \cup {cur} /\ version'[cur] = content
      /\ \A a \in DOMAIN version : version'[a] = version[a]
  BY DEF With
<1>2. SnapshotsOK'
  BY <1>1 DEF JudgeInv, DurableInv, SnapshotsOK, Sound, records
<1>3. RecordsOK'
  BY <1>1, OpenFold DEF JudgeInv, DurableInv, RecordsOK, records
<1>4. CampaignOK' /\ PendingOK'
  BY DEF JudgeInv, DurableInv, CampaignOK, PendingOK, Unfolded, Failures, Current, records
<1>5. Judged'
  BY <1>1, OpenFold DEF JudgeInv, DurableInv, Judged, RecordsOK, records
<1> QED BY <1>1, <1>2, <1>3, <1>4, <1>5 DEF DurableInv

LEMMA FoldAgainKeeps == ASSUME JudgeInv, FoldAgain PROVE JudgeInv'
<1> USE DEF JudgeInv, ControlInv
<1>1. /\ UNCHANGED <<art, intent, records, cur>> /\ pc = "fold" /\ pc' = "folded"
      /\ cur \in art.tree.runs \cup mem.folded
      /\ mem' = [mem EXCEPT !.folded = @ \cup {cur}]
      /\ version' = With(version, cur, art) /\ complete' = complete \cup {cur}
  BY DEF FoldAgain, generation
<1>2. cur = campaign.pending /\ cur # None /\ cur \notin DOMAIN fold
  BY <1>1, OpenFold DEF Folding
<1>3. cur \in art.tree.runs
  BY <1>1, <1>2 DEF MemoryOK, Remembers
<1>4. cur \in DOMAIN version => version[cur] = art
  BY <1>1, <1>2 DEF FoldingOK
<1>5. DurableInv' /\ version'[cur] = art
  BY <1>1, <1>3, <1>4, VersionAdded DEF Folding, DurableInv, SnapshotsOK
<1>6. ControlInv'
  BY <1>1, <1>2, <1>5
  DEF MemoryOK, PlanningOK, FoldingOK, RestoringOK, BeforeProposals, Folding, Remembers, records
<1> QED BY <1>5, <1>6

LEMMA StageVersionKeeps ==
  ASSUME JudgeInv, NEW purpose, StageVersion(purpose)
  PROVE  JudgeInv'
<1> USE DEF JudgeInv, ControlInv
<1> DEFINE content == [art EXCEPT !.tree = TreeAfter(cur, purpose),
                                  !.cache = JudgmentsAfter(purpose)]
<1>1. /\ UNCHANGED <<art, complete, intent, records, cur, mem>> /\ pc = "fold" /\ pc' = "cache"
      /\ cur \notin DOMAIN version /\ version' = With(version, cur, content)
  BY DEF StageVersion, generation
<1>2. /\ cur = campaign.pending /\ cur # None /\ cur \notin DOMAIN fold /\ cur \notin complete
  BY <1>1, OpenFold DEF Folding, DurableInv, RecordsOK
<1>3. Artifacts(content) /\ content.tree = TreeAfter(cur, purpose)
  BY DEF DurableInv, SnapshotsOK, Artifacts, Files
<1>4. cur \in content.tree.runs
  BY <1>3 DEF TreeAfter
<1> HIDE DEF content
<1>5. DurableInv' /\ DOMAIN version' = DOMAIN version \cup {cur}
  BY <1>1, <1>2, <1>3, <1>4, VersionAdded DEF Folding
<1>6. ControlInv'
  BY <1>1, <1>2, <1>5
  DEF MemoryOK, PlanningOK, FoldingOK, RestoringOK, BeforeProposals, Folding, records
<1> QED BY <1>5, <1>6

LEMMA CompleteVersionKeeps == ASSUME JudgeInv, CompleteVersion PROVE JudgeInv'
<1> USE DEF JudgeInv, ControlInv
<1>1. /\ UNCHANGED <<art, version, intent, records, cur>> /\ pc = "complete" /\ pc' = "folded"
      /\ art = version[cur] /\ complete' = complete \cup {cur}
      /\ \E cost : mem' = [mem EXCEPT !.folded = @ \cup {cur}, !.cost = cost]
  BY DEF CompleteVersion, generation
<1>2. cur = campaign.pending /\ cur # None /\ cur \notin DOMAIN fold /\ cur \in DOMAIN version
  BY <1>1, OpenFold DEF Folding, FoldingOK
<1>3. SnapshotsOK' /\ RecordsOK'
  BY <1>1, <1>2 DEF DurableInv, SnapshotsOK, Sound, RecordsOK, records
<1>4. CampaignOK' /\ PendingOK'
  BY <1>1 DEF DurableInv, CampaignOK, PendingOK, Unfolded, Failures, Current, records
<1>5. Judged'
  BY <1>1, <1>2 DEF DurableInv, Judged, records
<1>6. ControlInv'
  BY <1>1, <1>2
  DEF MemoryOK, PlanningOK, FoldingOK, RestoringOK, BeforeProposals, Folding, Remembers, records
<1> QED BY <1>3, <1>4, <1>5, <1>6 DEF DurableInv

LEMMA PublishFoldKeeps == ASSUME JudgeInv, PublishFold PROVE JudgeInv'
<1> USE DEF JudgeInv, ControlInv
<1>1. /\ UNCHANGED <<art, version, complete, intent, proposal, campaign, cur, mem>>
      /\ pc \in {"folded", "failed"} /\ pc' = "finalize"
      /\ fold' = With(fold, cur, [status |-> pc, gen |-> Snapshot])
  BY DEF PublishFold, files, generation
<1>2. /\ cur = campaign.pending /\ cur # None /\ cur \in campaign.committed
      /\ cur \notin DOMAIN fold
  BY <1>1, OpenFold DEF Folding
<1>3. /\ DOMAIN fold' = DOMAIN fold \cup {cur}
      /\ fold'[cur] = [status |-> pc, gen |-> Snapshot]
      /\ \A a \in DOMAIN fold : fold'[a] = fold[a]
  BY <1>1, <1>2 DEF With
<1>4. Remembers(mem, DOMAIN fold')
  BY <1>1, <1>3 DEF MemoryOK, Remembers
<1>5. SnapshotsOK'
  BY <1>1, <1>3, <1>4 DEF DurableInv, SnapshotsOK, Sound, Remembers, Snapshot
<1>6. RecordsOK'
  BY <1>1, <1>2, <1>3 DEF DurableInv, RecordsOK
<1>7. CampaignOK' /\ PendingOK'
  BY <1>1 DEF DurableInv, CampaignOK, PendingOK, Unfolded, Failures, Current
<1>8. cur \in DOMAIN version => pc = "folded" /\ art = version[cur]
  BY <1>1, <1>2 DEF FoldingOK
<1>9. Judged'
  BY <1>1, <1>2, <1>3, <1>8 DEF DurableInv, Judged, Snapshot
<1>10. ControlInv'
  BY <1>1, <1>2, <1>3, <1>4
  DEF MemoryOK, PlanningOK, FoldingOK, RestoringOK, BeforeProposals, Folding, Snapshot
<1> QED BY <1>5, <1>6, <1>7, <1>9, <1>10 DEF DurableInv

\* The files are those of the fold's snapshot, so that nothing has to be put back.
LEMMA FinalizeKeeps == ASSUME JudgeInv, Finalize PROVE JudgeInv'
<1> USE DEF JudgeInv, ControlInv
<1>1. /\ UNCHANGED <<art, version, complete, intent, proposal, fold>> /\ pc = "finalize"
      /\ RestoreExact(fold[cur].gen, "loop")
      /\ campaign' = IF pc' = "loop"
                     THEN [campaign EXCEPT !.folded = @ \cup {cur}, !.pending = None,
                                           !.gen = fold[cur].gen]
                     ELSE campaign
  BY DEF Finalize, files, generation
<1>2. cur = campaign.pending /\ cur \in DOMAIN fold /\ art = fold[cur].gen.art
  BY <1>1 DEF FoldingOK
<1>3. pc' = "loop" /\ mem' = fold[cur].gen.mem
  BY <1>1, <1>2 DEF RestoreExact
<1>4. /\ DOMAIN campaign' = DOMAIN campaign /\ campaign'.gen = fold[cur].gen
      /\ campaign'.committed = campaign.committed /\ campaign'.pending = None
      /\ campaign'.epoch = campaign.epoch /\ campaign'.active = campaign.active
      /\ campaign'.folded = campaign.folded \cup {cur}
  BY <1>1, <1>3 DEF DurableInv, CampaignOK
<1>5. None \notin DOMAIN version \cup DOMAIN fold \cup complete
  BY NoneHasNoRecord DEF DurableInv
<1>6. SnapshotsOK' /\ RecordsOK'
  BY <1>1, <1>2, <1>4 DEF DurableInv, SnapshotsOK, Sound, RecordsOK
<1>7. CampaignOK'
  BY <1>1, <1>2, <1>4 DEF DurableInv, CampaignOK, Current, Slots
<1>8. PendingOK' /\ Judged'
  BY <1>1, <1>4, <1>5 DEF DurableInv, PendingOK, Judged
<1>9. ControlInv'
  BY <1>1, <1>2, <1>3, <1>4, <1>5
  DEF MemoryOK, PlanningOK, FoldingOK, RestoringOK, BeforeProposals, Folding, Sound,
      DurableInv, SnapshotsOK
<1> QED BY <1>6, <1>7, <1>8, <1>9 DEF DurableInv

LEMMA EndEpochKeeps == ASSUME JudgeInv, EndEpoch PROVE JudgeInv'
<1> USE DEF JudgeInv, ControlInv
<1>1. /\ UNCHANGED <<art, version, complete, intent, proposal, fold, pc, mem>> /\ pc = "loop"
      /\ Unfolded(Current) = {}
      /\ campaign' = [campaign EXCEPT !.active = FALSE, !.epoch = @ + 1]
  BY DEF EndEpoch, files, generation
<1>2. campaign.pending = None /\ None \notin DOMAIN version \cup DOMAIN fold \cup complete
  BY <1>1, NoneHasNoRecord DEF DurableInv, PendingOK
<1>3. /\ DOMAIN campaign' = DOMAIN campaign /\ campaign'.gen = campaign.gen
      /\ campaign'.committed = campaign.committed /\ campaign'.pending = None
      /\ campaign'.epoch = campaign.epoch + 1 /\ campaign'.active = FALSE
      /\ campaign'.folded = campaign.folded
  BY <1>1, <1>2 DEF DurableInv, CampaignOK
<1>4. SnapshotsOK' /\ RecordsOK'
  BY <1>1, <1>3 DEF DurableInv, SnapshotsOK, Sound, RecordsOK
<1>5. CampaignOK' /\ PendingOK' /\ Judged'
  BY <1>1, <1>2, <1>3 DEF DurableInv, CampaignOK, PendingOK, Judged
<1>6. ControlInv'
  BY <1>1, <1>2, <1>3
  DEF MemoryOK, PlanningOK, FoldingOK, RestoringOK, BeforeProposals, Folding
<1> QED BY <1>4, <1>5, <1>6 DEF DurableInv

-----------------------------------------------------------------------------
LEMMA InitJudge == Init => JudgeInv
<1> SUFFICES ASSUME Init PROVE JudgeInv
  OBVIOUS
<1>1. Artifacts(art) /\ Remembers(FreshMemory, {})
  BY DEF Init, Artifacts, Files, Remembers, FreshMemory
<1>2. DOMAIN version = {} /\ DOMAIN proposal = {} /\ DOMAIN fold = {} /\ complete = {}
  BY DEF Init
<1>3. /\ DOMAIN campaign = {"epoch", "active", "committed", "folded", "pending", "gen"}
      /\ campaign.epoch = 0 /\ campaign.active = FALSE /\ campaign.committed = {}
      /\ campaign.pending = None /\ campaign.gen.mem = FreshMemory /\ campaign.gen.art = art
  BY DEF Init
<1>4. DOMAIN intent = {}
  BY DEF Init
<1>5. SnapshotsOK
  BY <1>1, <1>2, <1>3, <1>4 DEF SnapshotsOK, Sound
<1>6. RecordsOK
  <2>1. \E b \in Nat : \A a \in {} : a <= b
    OBVIOUS
  <2> QED BY <1>2, <1>3, <2>1 DEF RecordsOK
<1>7. CampaignOK /\ PendingOK /\ Judged
  <2>1. CampaignOK
    <3>1. campaign.active \in BOOLEAN /\ ~campaign.active
      BY <1>3, Zenon
    <3>2. campaign.epoch \in Nat /\ campaign.committed = {}
      BY <1>3
    <3> QED BY <1>3, <3>1, <3>2, Zenon DEF CampaignOK
  <2>2. PendingOK
    BY <1>3 DEF PendingOK
  <2>3. Judged
    BY <1>2 DEF Judged
  <2> QED BY <2>1, <2>2, <2>3
<1>8. pc = "load" /\ mem = FreshMemory
  BY DEF Init
<1>9. ControlInv
  BY <1>1, <1>2, <1>8
  DEF ControlInv, MemoryOK, PlanningOK, FoldingOK, RestoringOK, BeforeProposals, Folding
<1> QED BY <1>5, <1>6, <1>7, <1>9 DEF JudgeInv, DurableInv

LEMMA StepJudge == JudgeInv /\ [Next]_vars => JudgeInv'
<1> SUFFICES ASSUME JudgeInv, [Next]_vars PROVE JudgeInv'
  OBVIOUS
<1>1. CASE Load \/ RestoreFile \/ FilesRestored
  BY <1>1, LoadKeeps, RestoreFileKeeps, FilesRestoredKeeps
<1>2. CASE \/ ProposeBootstrap \/ PlanningFails \/ WritePlan \/ ReplayPlan
           \/ \E a \in Attempt : Synthesize(a) \/ SynthesisFails(a)
           \/ Settle \/ AllMarked
  BY <1>2, QuietPlanningKeeps
<1>3. CASE PublishIntent \/ ResumeIntent
  BY <1>3, PublishIntentKeeps, ResumeIntentKeeps
<1>4. CASE MarkTried \/ \E mutations \in SUBSET Mutations : ExtractGuards(mutations)
  BY <1>4, GuardsKeep
<1>5. CASE PublishProposal \/ FindProposal \/ SaveEpoch
  BY <1>5, PublishProposalKeeps, FindProposalKeeps, SaveEpochKeeps
<1>6. CASE CommitFailure \/ Commit \/ FoldAgain
  BY <1>6, CommitFailureKeeps, CommitKeeps, FoldAgainKeeps
<1>7. CASE FoldFails \/ \E calls \in {0, 2} : FoldNothing(calls)
  BY <1>7, FoldEndsKeeps
<1>8. CASE \E purpose \in Purposes : StageVersion(purpose)
  BY <1>8, StageVersionKeeps
<1>9. CASE WriteCache \/ WriteTree \/ CompleteVersion
  BY <1>9, WriteKeeps, CompleteVersionKeeps
<1>10. CASE PublishFold \/ Finalize \/ EndEpoch
  BY <1>10, PublishFoldKeeps, FinalizeKeeps, EndEpochKeeps
<1>11. CASE Crash \/ UNCHANGED vars
  BY <1>11, CrashKeeps, StutterKeeps
<1> QED
  BY <1>1, <1>2, <1>3, <1>4, <1>5, <1>6, <1>7, <1>8, <1>9, <1>10, <1>11 DEF Next

\* A fold receipt stands on the files that its fold staged, and completed files have not
\* changed (fold, publish_completed_fold_artifact_version, recover_fold_artifact_version).
THEOREM RunsJudgedOnce == Spec => []JudgedOnce
<1>1. JudgeInv => JudgedOnce
  BY DEF JudgeInv, DurableInv, Judged, JudgedOnce
<1> QED BY InitJudge, StepJudge, <1>1, PTL DEF Spec

-----------------------------------------------------------------------------
(* What a process that plans an epoch finds. Where a restoration is under way, it counts for *)
(* what it leads to: the place it goes on at, and the snapshot it will have restored.       *)

Place == IF pc = "restore" THEN job.then ELSE pc
Heading == IF pc = "restore" THEN [mem |-> job.mem, art |-> job.target] ELSE Snapshot

Memory(m) == m = [cost |-> m.cost, stats |-> m.stats, folded |-> m.folded]
Whole(gen) == gen = [mem |-> gen.mem, art |-> gen.art] /\ Memory(gen.mem)

Published == Slots(Current) \cap DOMAIN proposal

\* The snapshots from which the epoch goes on: of its proposals, or of campaign.json.
Bases == IF Published = {} THEN {campaign.gen} ELSE {proposal[s].gen : s \in Published}

\* The memory of a snapshot taken before the plan, and of one taken when all was synthesized.
Fresh(m) == m.cost = plan[Current].before /\ m.stats = plan[Current].stats
Synthesized == Targeted(Current) \subseteq DOMAIN receipt
Settled(m) ==
  /\ Synthesized
  /\ m.cost = plan[Current].after + RecordedCost(Current) /\ m.stats = StatsAfter(Current)

WholeInv ==
  /\ Whole(campaign.gen)
  /\ \A a \in DOMAIN proposal : Whole(proposal[a].gen)
  /\ \A a \in DOMAIN fold : Whole(fold[a].gen)

\* Proposals and charges belong to the epochs up to the one in hand; its proposals begin at
\* its first slot, and have one snapshot.
EpochsInv ==
  /\ \A a \in DOMAIN proposal : a <= EpochSize * Current + EpochSize - 1
  /\ Uncommitted \subseteq Slots(Current) /\ campaign.folded \subseteq campaign.committed
  /\ ~campaign.active => Slots(Current) \cap campaign.committed = {}
  /\ \A s \in Published : \A r \in Slots(Current) : r < s => r \in DOMAIN proposal
  /\ \A s, r \in Published : proposal[s].gen = proposal[r].gen
  /\ campaign.pending # None => Failures(Current) \subseteq campaign.committed

\* Until the epoch is saved, its records stand on the snapshot in campaign.json.
FrozenInv ==
  /\ ~campaign.active =>
       /\ Current \in DOMAIN intent =>
            intent[Current] = [pre |-> campaign.gen.art, frozen |-> campaign.gen]
       /\ Current \in DOMAIN plan => plan[Current].frozen = campaign.gen
       /\ \A s \in Published : proposal[s].frozen = campaign.gen
       /\ Published # {} /\ Current > 0 => Current \in DOMAIN intent
  /\ DOMAIN plan \subseteq DOMAIN intent /\ DOMAIN intent \subseteq 1 .. Current

\* A plan was made for, or has been carried out by, what its epoch goes on from.
PlanInv ==
  ~campaign.active /\ Current \in DOMAIN plan =>
    \A g \in Bases : Fresh(g.mem) \/ Settled(g.mem)

RecordsInv == WholeInv /\ EpochsInv /\ FrozenInv /\ PlanInv

\* The epoch in hand, wherever it is planned.
EpochInv ==
  Place \in BeforeProposals =>
    /\ work.frozen = campaign.gen
    /\ Place # "slots" => Current > 0
    /\ Current > 0 => Current \in DOMAIN intent

\* The cost and the statistics of the generator, in every place of the planning.
CostInv ==
  /\ Place = "extract" => \A g \in Bases : Heading.mem = g.mem
  /\ Place \in {"extract", "select"} =>
       /\ Current \notin DOMAIN plan
       /\ \A g \in Bases : Heading.mem.stats = g.mem.stats /\ work.before = g.mem.cost
  /\ Place \in {"synthesize", "mark"} => Current \in DOMAIN plan
  /\ Place = "synthesize" =>
       /\ \/ Heading.mem.cost = plan[Current].after
          \/ Synthesized /\ Heading.mem.cost = plan[Current].after + RecordedCost(Current)
       /\ \/ Heading.mem.stats = plan[Current].stats
          \/ Synthesized /\ Heading.mem.stats = StatsAfter(Current)
  /\ Place = "mark" => Settled(Heading.mem)
  /\ Place = "slots" /\ Published = {} /\ Current \in DOMAIN plan => Settled(Heading.mem)

\* What the generator has in memory and on disk, wherever the main thread decides what to do.
AgreeInv ==
  /\ Place = "loop" /\ ~campaign.active => \A g \in Bases : Heading = g
  /\ Place = "loop" /\ campaign.active /\ campaign.pending = None =>
       Heading = campaign.gen \/ ~Slots(Current) \subseteq campaign.committed
  /\ Place = "loop" /\ campaign.active /\ ~Failures(Current) \subseteq campaign.committed =>
       \A s \in Slots(Current) : proposal[s].gen = Heading
  /\ Place = "slots" => \A s \in Slots(Current) : s < cur => proposal[s].gen = Heading
  /\ Place = "extract" => Heading.art = campaign.gen.art

StepsInv == Memory(Heading.mem) /\ EpochInv /\ CostInv /\ AgreeInv

StoryInv == RecordsInv /\ StepsInv

-----------------------------------------------------------------------------
(* Slots and bases of the epoch in hand. *)

LEMMA SlotRange ==
  CampaignOK => /\ Current \in Nat /\ EpochSize * Current \in Nat
                /\ \A s \in Slots(Current) : s \in Nat /\ s >= EpochSize * Current
                /\ Slots(Current) =
                     EpochSize * Current .. EpochSize * Current + EpochSize - 1
<1> SUFFICES ASSUME CampaignOK
             PROVE  /\ Current \in Nat /\ EpochSize * Current \in Nat
                    /\ \A s \in Slots(Current) : s \in Nat /\ s >= EpochSize * Current
                    /\ Slots(Current) =
                         EpochSize * Current .. EpochSize * Current + EpochSize - 1
  OBVIOUS
<1>1. Current \in Nat /\ EpochSize * Current \in Nat
  BY SizeAssumption DEF CampaignOK, Current
<1> QED BY <1>1, SizeAssumption DEF Slots

LEMMA BasesAre ==
  /\ Published = {} => Bases = {campaign.gen}
  /\ Published # {} => Bases = {proposal[s].gen : s \in Published}
  /\ Bases # {}
  BY DEF Bases

\* The epoch is planned on the state frozen in campaign.json.
LEMMA FrozenIsBase ==
  JudgeInv /\ StoryInv /\ Planning =>
    /\ Frozen = campaign.gen /\ Bases = {Snapshot}
    /\ Published = {} => Snapshot = campaign.gen
<1> SUFFICES ASSUME JudgeInv, StoryInv, Planning
             PROVE  /\ Frozen = campaign.gen /\ Bases = {Snapshot}
                    /\ Published = {} => Snapshot = campaign.gen
  OBVIOUS
<1>1. RecordsOK
  BY DEF JudgeInv, DurableInv
<1>2. Bases # {} /\ \A g \in Bases : Snapshot = g
  BY BasesAre DEF StoryInv, StepsInv, AgreeInv, Planning, Place, Heading
<1>3. Bases = {Snapshot}
  BY <1>2
<1>4. CASE Published = {}
  BY <1>1, <1>2, <1>3, <1>4, BasesAre DEF Frozen, Published
<1>5. CASE Published # {}
  <2>1. Published \in SUBSET Nat /\ \E b \in Nat : \A a \in Published : a <= b
    BY <1>1 DEF RecordsOK, Published
  <2>2. Last(Published) \in Published
    BY <1>5, <2>1, LastIsGreatest
  <2>3. proposal[Last(Published)].frozen = campaign.gen
    BY <2>2 DEF StoryInv, RecordsInv, FrozenInv, Planning
  <2> QED BY <1>1, <1>3, <1>5, <2>3 DEF Frozen, Published
<1> QED BY <1>4, <1>5

-----------------------------------------------------------------------------
(* Steps that leave the records alone. *)

LEMMA KeptByRecords ==
  ASSUME UNCHANGED <<generation, records>>
  PROVE  /\ Current' = Current /\ Bases' = Bases /\ Published' = Published
         /\ Slots(Current)' = Slots(Current) /\ Synthesized' = Synthesized
         /\ Targeted(Current)' = Targeted(Current)
         /\ RecordedCost(Current)' = RecordedCost(Current)
         /\ StatsAfter(Current)' = StatsAfter(Current)
  BY DEF generation, records, Current, Bases, Published, Slots, Synthesized, Targeted,
         RecordedCost, StatsAfter, WithResults, Received

LEMMA RecordsKept ==
  ASSUME RecordsInv, UNCHANGED <<generation, records>>
  PROVE  RecordsInv'
<1> USE DEF generation, records
<1>1. WholeInv'
  BY DEF RecordsInv, WholeInv
<1>2. EpochsInv'
  BY DEF RecordsInv, EpochsInv, Uncommitted, Published, Failures, Current
<1>3. FrozenInv'
  BY DEF RecordsInv, FrozenInv, Published, Current
<1>4. PlanInv'
  <2>1. UNCHANGED <<plan, campaign>>
    OBVIOUS
  <2> QED BY <2>1, KeptByRecords DEF RecordsInv, PlanInv, Fresh, Settled
<1> QED BY <1>1, <1>2, <1>3, <1>4 DEF RecordsInv

\* A step to a place where neither an epoch is planned nor the next step is chosen.
LEMMA Elsewhere ==
  ASSUME Memory(Heading.mem)', Place' \notin BeforeProposals \cup {"loop"}
  PROVE  StepsInv'
  BY DEF StepsInv, EpochInv, CostInv, AgreeInv, BeforeProposals

\* What a restoration to a snapshot heads for.
LEMMA HeadsFor ==
  ASSUME NEW gen, NEW then, RestoreExact(gen, then), Whole(gen), then # "restore",
         pc # "restore", art' = art
  PROVE  \/ Place' = then /\ Heading' = gen
         \/ Place' = "refused" /\ Heading'.mem = Heading.mem
<1>1. gen = [mem |-> gen.mem, art |-> gen.art]
  BY DEF Whole
<1>2. CASE pc' = then /\ art = gen.art /\ mem' = gen.mem
  BY <1>1, <1>2 DEF Place, Heading, Snapshot
<1>3. CASE /\ pc' = "restore" /\ mem' = mem
           /\ job' = [target |-> gen.art, left |-> AllFiles, mem |-> gen.mem, then |-> then]
  BY <1>1, <1>3 DEF Place, Heading
<1>4. CASE pc' = "refused" /\ mem' = mem
  BY <1>4 DEF Place, Heading, Snapshot
<1> QED BY <1>2, <1>3, <1>4, ExactCases

LEMMA RecordsKeptBy ==
  ASSUME StoryInv,
         \/ Load \/ RestoreFile \/ FilesRestored \/ ProposeBootstrap \/ PlanningFails
         \/ ReplayPlan \/ ResumeIntent \/ Settle \/ MarkTried \/ AllMarked \/ FindProposal
         \/ FoldAgain \/ FoldFails \/ WriteCache \/ WriteTree \/ CompleteVersion \/ Crash
         \/ \E mutations \in SUBSET Mutations : ExtractGuards(mutations)
         \/ \E calls \in {0, 2} : FoldNothing(calls)
         \/ \E purpose \in Purposes : StageVersion(purpose)
  PROVE  RecordsInv' /\ UNCHANGED <<generation, records>>
<1>1. UNCHANGED <<generation, records>>
  <2>1. CASE Load \/ RestoreFile \/ FilesRestored \/ ProposeBootstrap \/ PlanningFails
             \/ ReplayPlan \/ ResumeIntent \/ Settle \/ Crash
    BY <2>1 DEF Load, RestoreFile, FilesRestored, ProposeBootstrap, PlanningFails,
         ReplayPlan, ResumeIntent, Settle, Crash
  <2>2. CASE MarkTried \/ AllMarked \/ FindProposal \/ FoldAgain \/ FoldFails
    BY <2>2 DEF MarkTried, AllMarked, FindProposal, FoldAgain, FoldFails, records
  <2>3. CASE WriteCache \/ WriteTree \/ CompleteVersion
             \/ \E mutations \in SUBSET Mutations : ExtractGuards(mutations)
             \/ \E calls \in {0, 2} : FoldNothing(calls)
             \/ \E purpose \in Purposes : StageVersion(purpose)
    BY <2>3 DEF WriteCache, WriteTree, CompleteVersion, ExtractGuards, FoldNothing, StageVersion
  <2> QED BY <2>1, <2>2, <2>3
<1> QED BY <1>1, RecordsKept DEF StoryInv

\* What a process finds when no fold is under way is what the epoch goes on from.
LEMMA LoadedIsBase ==
  ASSUME JudgeInv, StoryInv, campaign.pending = None \/ campaign.pending \in DOMAIN fold
  PROVE  /\ Whole(RestoredOnLoad)
         /\ ~campaign.active => \A g \in Bases : RestoredOnLoad = g
         /\ campaign.active /\ campaign.pending = None =>
              /\ RestoredOnLoad = campaign.gen \/ ~Slots(Current) \subseteq campaign.committed
              /\ ~Failures(Current) \subseteq campaign.committed =>
                   \A s \in Slots(Current) : proposal[s].gen = RestoredOnLoad
<1> USE DEF JudgeInv, DurableInv, StoryInv, RecordsInv
<1>1. RecordsOK /\ CampaignOK /\ PendingOK /\ EpochsInv /\ WholeInv
  OBVIOUS
<1>2. CASE campaign.pending # None
  <2>1. campaign.active /\ RestoredOnLoad = fold[campaign.pending].gen
    BY <1>1, <1>2 DEF PendingOK, RestoredOnLoad
  <2> QED BY <1>1, <1>2, <2>1 DEF WholeInv
<1>3. CASE campaign.pending = None /\ Uncommitted # {}
  <2>1. Last(Uncommitted) \in Uncommitted
    BY <1>1, <1>3, LastIsGreatest DEF Uncommitted, RecordsOK
  <2>2. PICK l \in Uncommitted : RestoredOnLoad = proposal[l].gen
    BY <1>3, <2>1 DEF RestoredOnLoad
  <2>3. l \in Published /\ l \in Slots(Current) /\ l \notin campaign.committed
    BY <1>1, <2>2 DEF EpochsInv, Uncommitted, Published
  <2>4. \A s \in Published : proposal[s].gen = RestoredOnLoad
    BY <1>1, <2>2, <2>3 DEF EpochsInv
  <2>5. campaign.active => \A s \in Slots(Current) : s \in Published
    BY <1>1 DEF CampaignOK, Published
  <2>6. \A g \in Bases : RestoredOnLoad = g
    BY <2>3, <2>4, BasesAre
  <2> QED BY <1>1, <1>3, <2>2, <2>3, <2>4, <2>5, <2>6 DEF WholeInv, Uncommitted
<1>4. CASE campaign.pending = None /\ Uncommitted = {}
  <2>1. RestoredOnLoad = campaign.gen
    BY <1>4 DEF RestoredOnLoad
  <2>2. ~campaign.active => Published = {}
    BY <1>1, <1>4 DEF EpochsInv, Published, Uncommitted
  <2>3. campaign.active => Slots(Current) \subseteq campaign.committed
    BY <1>1, <1>4 DEF CampaignOK, Uncommitted
  <2>4. Failures(Current) \subseteq Slots(Current)
    BY DEF Failures
  <2> QED BY <1>1, <1>4, <2>1, <2>2, <2>3, <2>4, BasesAre DEF WholeInv
<1> QED BY <1>2, <1>3, <1>4

\* A place that the main thread decides from, with the snapshot it is to find there.
LEMMA ToLoop ==
  ASSUME UNCHANGED <<generation, records>>, Place' = "loop", Memory(Heading.mem)',
         ~campaign.active => \A g \in Bases : Heading' = g,
         campaign.active /\ campaign.pending = None =>
           Heading' = campaign.gen \/ ~Slots(Current) \subseteq campaign.committed,
         campaign.active /\ ~Failures(Current) \subseteq campaign.committed =>
           \A s \in Slots(Current) : proposal[s].gen = Heading'
  PROVE  StepsInv'
<1> USE DEF generation, records
<1>1. Bases' = Bases
  BY DEF Bases, Published, Current
<1>2. AgreeInv'
  BY <1>1 DEF AgreeInv, Failures, Current
<1> QED BY <1>2 DEF StepsInv, EpochInv, CostInv, BeforeProposals

LEMMA LoadTells == ASSUME JudgeInv, StoryInv, Load PROVE StepsInv'
<1>1. UNCHANGED <<generation, records, art>> /\ pc = "load"
  BY DEF Load, files, records
<1>2. Memory(mem) /\ EpochsInv /\ PendingOK /\ Whole(campaign.gen)
  BY <1>1 DEF StoryInv, StepsInv, RecordsInv, WholeInv, Place, Heading, Snapshot, JudgeInv,
              DurableInv
<1>3. CASE campaign.pending # None /\ campaign.pending \notin DOMAIN fold
  <2>1. RestorePending(campaign.pending)
    BY <1>3 DEF Load
  <2>2. /\ Memory(Heading.mem)'
        /\ Place' \in {"loop", "recovered", "refused"}
    BY <1>2, <2>1 DEF RestorePending, StartRestore, Whole, Place, Heading, Snapshot
  <2>3. campaign.active /\ Failures(Current) \subseteq campaign.committed
    BY <1>2, <1>3 DEF PendingOK, EpochsInv
  <2>4. CASE Place' = "loop"
    BY <1>1, <1>3, <2>2, <2>3, <2>4, ToLoop
  <2>5. CASE Place' \in {"recovered", "refused"}
    BY <2>2, <2>5, Elsewhere DEF BeforeProposals
  <2> QED BY <2>2, <2>4, <2>5
<1>4. CASE ~(campaign.pending # None /\ campaign.pending \notin DOMAIN fold)
  <2>1. RestoreExact(RestoredOnLoad, "loop")
    BY <1>4 DEF Load
  <2>2. \/ Place' = "loop" /\ Heading' = RestoredOnLoad
        \/ Place' = "refused" /\ Heading'.mem = Heading.mem
    BY <1>1, <1>4, <2>1, LoadedIsBase, HeadsFor
  <2>3. campaign.pending # None => Failures(Current) \subseteq campaign.committed
    BY <1>2 DEF EpochsInv
  <2>4. CASE Place' = "loop" /\ Heading' = RestoredOnLoad
    <3>1. Memory(Heading.mem)'
      BY <1>4, <2>4, LoadedIsBase DEF Whole
    <3> QED BY <1>1, <1>4, <2>3, <2>4, <3>1, LoadedIsBase, ToLoop
  <2>5. CASE Place' = "refused" /\ Heading'.mem = Heading.mem
    BY <2>5, Elsewhere DEF BeforeProposals, StoryInv, StepsInv
  <2> QED BY <2>2, <2>4, <2>5
<1> QED BY <1>3, <1>4

\* The place and the snapshot headed for do not change, nor does what the thread works on.
LEMMA StepsKept ==
  ASSUME StepsInv, UNCHANGED <<generation, records, cur, work>>, Place' = Place,
         Heading' = Heading
  PROVE  StepsInv'
<1> USE DEF generation, records
<1>1. Bases' = Bases /\ Published' = Published /\ Current' = Current
  BY DEF Bases, Published, Current
<1>2. EpochInv'
  BY <1>1 DEF StepsInv, EpochInv
<1>3. AgreeInv'
  BY <1>1 DEF StepsInv, AgreeInv, Failures
<1>4. CostInv'
  BY <1>1 DEF StepsInv, CostInv, Settled, Synthesized, Targeted, RecordedCost, StatsAfter,
              WithResults, Received
<1> QED BY <1>2, <1>3, <1>4 DEF StepsInv

LEMMA RestoreFileTells == ASSUME JudgeInv, StoryInv, RestoreFile PROVE StepsInv'
<1>1. /\ UNCHANGED <<generation, records, cur, work, pc, mem>> /\ pc = "restore"
      /\ job' = [job EXCEPT !.left = Tail(job.left)]
  BY DEF RestoreFile
<1>2. DOMAIN job = {"target", "left", "mem", "then"}
  BY <1>1 DEF JudgeInv, ControlInv, RestoringOK
<1>3. job'.then = job.then /\ job'.mem = job.mem /\ job'.target = job.target
  BY <1>1, <1>2
<1>4. Place' = Place /\ Heading' = Heading
  BY <1>1, <1>3 DEF Place, Heading
<1> QED BY <1>1, <1>4, StepsKept DEF StoryInv

LEMMA FilesRestoredTells == ASSUME JudgeInv, StoryInv, FilesRestored PROVE StepsInv'
<1> USE DEF JudgeInv, ControlInv
<1>1. /\ UNCHANGED <<generation, records, cur, work, art>> /\ pc = "restore"
      /\ job.left = <<>> /\ mem' = job.mem
      /\ pc' = IF job.then = "recovered" THEN "loop" ELSE job.then
  BY DEF FilesRestored
<1>2. PICK n \in 0 .. 3 : job.left = Left(n) /\ \A f \in Written(n) : art[f] = job.target[f]
  BY <1>1 DEF RestoringOK
<1>3. Written(n) = Files
  BY <1>1, <1>2 DEF Left, Written, AllFiles
<1>4. art = job.target
  BY <1>1, <1>2, <1>3, SameFiles DEF RestoringOK, DurableInv, SnapshotsOK
<1>5. job.then \in {"recovered", "loop", "extract", "slots"}
  BY <1>1 DEF RestoringOK
<1>6. Place = job.then /\ Place' = pc' /\ Heading' = Heading
  BY <1>1, <1>4, <1>5 DEF Place, Heading, Snapshot
<1>7. CASE job.then = "recovered"
  <2>1. campaign.pending \in DOMAIN version
    BY <1>1, <1>7 DEF RestoringOK
  <2>2. campaign.pending # None /\ campaign.active
    BY <2>1, NoneHasNoRecord DEF DurableInv, PendingOK
  <2>3. Failures(Current) \subseteq campaign.committed
    BY <2>2 DEF StoryInv, RecordsInv, EpochsInv
  <2>4. Memory(Heading.mem)'
    BY <1>6 DEF StoryInv, StepsInv
  <2> QED BY <1>1, <1>6, <1>7, <2>2, <2>3, <2>4, ToLoop
<1>8. CASE job.then # "recovered"
  BY <1>1, <1>6, <1>8, StepsKept DEF StoryInv
<1> QED BY <1>7, <1>8

-----------------------------------------------------------------------------
(* Planning an epoch. *)

\* The main thread comes to the first slot of the epoch.
LEMMA ToFirstSlot ==
  ASSUME CampaignOK, UNCHANGED <<generation, records>>, Place' = "slots",
         cur' = EpochSize * Current, Memory(Heading.mem)',
         work'.frozen = campaign.gen, Current > 0 => Current \in DOMAIN intent,
         Current \in DOMAIN plan => Settled(Heading.mem)'
  PROVE  StepsInv'
<1>1. \A s \in Slots(Current) : ~(s < cur')
  BY SlotRange
<1>2. AgreeInv'
  BY <1>1, KeptByRecords DEF AgreeInv
<1>3. EpochInv'
  BY KeptByRecords DEF EpochInv, generation, records
<1>4. CostInv'
  BY KeptByRecords DEF CostInv, generation
<1> QED BY <1>2, <1>3, <1>4 DEF StepsInv

LEMMA BootstrapTells == ASSUME JudgeInv, StoryInv, ProposeBootstrap PROVE StepsInv'
<1>1. /\ UNCHANGED <<generation, records, mem, art>> /\ pc = "loop" /\ Planning /\ Current = 0
      /\ pc' = "slots" /\ cur' = 0 /\ work'.frozen = Frozen
  BY DEF ProposeBootstrap, Planning, files
<1>2. CampaignOK /\ Frozen = campaign.gen
  BY <1>1, FrozenIsBase DEF JudgeInv, DurableInv
<1>3. Current \notin DOMAIN plan
  BY <1>1 DEF StoryInv, RecordsInv, FrozenInv
<1>4. Place' = "slots" /\ Heading'.mem = Heading.mem
  BY <1>1 DEF Place, Heading, Snapshot
<1>5. Memory(Heading.mem)' /\ cur' = EpochSize * Current
  BY <1>1, <1>4, SizeAssumption DEF StoryInv, StepsInv
<1> QED BY <1>1, <1>2, <1>3, <1>4, <1>5, ToFirstSlot

\* None of the checks that a replay makes of the cost and the frozen state can fail.
LEMMA ReplayIsAccepted ==
  ASSUME JudgeInv, StoryInv, Planning, Current \in DOMAIN plan
  PROVE  ReplayMatches(Current) /\ (Fresh(mem) \/ Settled(mem))
<1>1. Frozen = campaign.gen /\ Bases = {Snapshot} /\ ~campaign.active
  BY FrozenIsBase DEF Planning
<1>2. Snapshot.mem = mem /\ Snapshot \in Bases
  BY <1>1 DEF Snapshot
<1>3. Fresh(mem) \/ Settled(mem)
  BY <1>1, <1>2 DEF StoryInv, RecordsInv, PlanInv
<1>4. plan[Current].frozen = campaign.gen
  BY <1>1 DEF StoryInv, RecordsInv, FrozenInv
<1> QED BY <1>1, <1>3, <1>4 DEF ReplayMatches, Fresh, Settled

LEMMA ReplayPlanTells == ASSUME JudgeInv, StoryInv, ReplayPlan PROVE StepsInv'
<1>1. /\ UNCHANGED <<generation, records, art>> /\ pc = "loop" /\ Planning /\ Current > 0
      /\ Current \in DOMAIN plan
  BY DEF ReplayPlan, Planning, files
<1>2. ReplayMatches(Current) /\ (Fresh(mem) \/ Settled(mem))
  BY <1>1, ReplayIsAccepted
<1>3. /\ mem' = [mem EXCEPT !.cost = CostOnReplay(Current)]
      /\ work'.frozen = Frozen /\ pc' = "synthesize"
  BY <1>2 DEF ReplayPlan
<1>4. Frozen = campaign.gen
  BY <1>1, FrozenIsBase
<1>5. Current \in DOMAIN intent
  BY <1>1 DEF StoryInv, RecordsInv, FrozenInv
<1>6. Memory(mem)
  BY <1>1 DEF StoryInv, StepsInv, Heading, Snapshot
<1>7. /\ mem' = [cost |-> CostOnReplay(Current), stats |-> mem.stats, folded |-> mem.folded]
  BY <1>3, <1>6 DEF Memory
<1>8. Place' = "synthesize" /\ Heading'.mem = mem'
  BY <1>3 DEF Place, Heading, Snapshot
<1>9. \/ CostOnReplay(Current) = plan[Current].after
      \/ Synthesized /\ CostOnReplay(Current) = plan[Current].after + RecordedCost(Current)
  BY <1>2 DEF CostOnReplay, Fresh, Settled
<1>10. mem.stats = plan[Current].stats \/ (Synthesized /\ mem.stats = StatsAfter(Current))
  BY <1>2 DEF Fresh, Settled
<1>11. CostInv'
  BY <1>1, <1>7, <1>8, <1>9, <1>10, KeptByRecords DEF CostInv, generation
<1>12. EpochInv' /\ AgreeInv'
  BY <1>1, <1>3, <1>4, <1>5, <1>8, KeptByRecords DEF EpochInv, AgreeInv, generation, records
<1>13. Memory(Heading.mem)'
  BY <1>7, <1>8 DEF Memory
<1> QED BY <1>11, <1>12, <1>13 DEF StepsInv

LEMMA PublishIntentTells ==
  ASSUME JudgeInv, StoryInv, PublishIntent PROVE StoryInv'
<1>1. /\ UNCHANGED <<plan, receipt, proposal, fold, campaign, art, mem, cur>>
      /\ Planning /\ pc = "loop" /\ Current > 0
      /\ Current \notin DOMAIN plan \cup DOMAIN intent
      /\ intent' = With(intent, Current, [pre |-> art, frozen |-> Frozen])
      /\ work'.frozen = Frozen /\ work'.before = mem.cost /\ pc' = "extract"
  BY DEF PublishIntent, Planning, files, records
<1>2. /\ Frozen = campaign.gen /\ Bases = {Snapshot} /\ ~campaign.active /\ Current \in Nat
      /\ Published = {} => Snapshot = campaign.gen
  BY <1>1, FrozenIsBase, SlotRange DEF Planning, JudgeInv, DurableInv
<1>3. Published = {}
  BY <1>1, <1>2 DEF StoryInv, RecordsInv, FrozenInv
<1>4. art = campaign.gen.art
  BY <1>2, <1>3 DEF Snapshot
<1>5. /\ DOMAIN intent' = DOMAIN intent \cup {Current}
      /\ intent'[Current] = [pre |-> campaign.gen.art, frozen |-> campaign.gen]
  BY <1>1, <1>2, <1>4 DEF With
<1>6. UNCHANGED <<Current, Published, Bases>> /\ Heading' = Heading /\ Place' = "extract"
  BY <1>1 DEF Current, Published, Bases, Slots, Heading, Snapshot, Place
<1>7. WholeInv' /\ EpochsInv'
  BY <1>1, <1>6 DEF StoryInv, RecordsInv, WholeInv, EpochsInv, Uncommitted, Failures, Slots
<1>8. FrozenInv'
  BY <1>1, <1>2, <1>3, <1>5, <1>6 DEF StoryInv, RecordsInv, FrozenInv
<1>9. PlanInv' /\ EpochInv'
  BY <1>1, <1>2, <1>5, <1>6 DEF PlanInv, EpochInv
<1>10. CostInv' /\ AgreeInv'
  BY <1>1, <1>2, <1>4, <1>6 DEF CostInv, AgreeInv, Heading, Snapshot
<1>11. Memory(Heading.mem)'
  BY <1>6 DEF StoryInv, StepsInv
<1> QED BY <1>7, <1>8, <1>9, <1>10, <1>11 DEF StoryInv, RecordsInv, StepsInv

LEMMA ResumeIntentTells == ASSUME JudgeInv, StoryInv, ResumeIntent PROVE StepsInv'
<1>1. /\ UNCHANGED <<generation, records, art>> /\ Planning /\ pc = "loop" /\ Current > 0
      /\ Current \in DOMAIN intent \ DOMAIN plan
      /\ work'.frozen = Frozen /\ work'.before = mem.cost
  BY DEF ResumeIntent, Planning, files
<1>2. Frozen = campaign.gen /\ Bases = {Snapshot} /\ ~campaign.active
  BY <1>1, FrozenIsBase DEF Planning
<1>3. intent[Current] = [pre |-> campaign.gen.art, frozen |-> campaign.gen]
  BY <1>1, <1>2 DEF StoryInv, RecordsInv, FrozenInv
<1>4. Place' = "extract" /\ Heading'.mem = mem /\ Heading'.art = campaign.gen.art
  <2>1. CASE art = intent[Current].pre
    BY <1>1, <1>2, <1>3, <2>1 DEF ResumeIntent, Place, Heading, Snapshot
  <2>2. CASE art # intent[Current].pre
    BY <1>1, <1>2, <1>3, <2>2 DEF ResumeIntent, StartRestore, Place, Heading
  <2> QED BY <2>1, <2>2
<1>5. Memory(Heading.mem)'
  BY <1>1, <1>4 DEF StoryInv, StepsInv, Heading, Snapshot
<1>6. CostInv' /\ AgreeInv'
  BY <1>1, <1>2, <1>4, KeptByRecords DEF CostInv, AgreeInv, Snapshot, generation, records
<1>7. EpochInv'
  BY <1>1, <1>2, <1>4, KeptByRecords DEF EpochInv, generation, records
<1> QED BY <1>5, <1>6, <1>7 DEF StepsInv

\* The epoch, its intent and its frozen state stay what they are while it is planned.
LEMMA EpochKept ==
  ASSUME EpochInv, Place \in BeforeProposals \ {"slots"}, work'.frozen = work.frozen,
         UNCHANGED <<intent, campaign>>
  PROVE  EpochInv'
  BY DEF EpochInv, Current

LEMMA ExtractGuardsTells ==
  ASSUME JudgeInv, StoryInv, NEW mutations \in SUBSET Mutations, ExtractGuards(mutations)
  PROVE  StepsInv'
<1>1. /\ UNCHANGED <<generation, records, work>> /\ pc = "extract" /\ pc' = "select"
      /\ \E cost : mem' = [mem EXCEPT !.cost = cost]
  BY DEF ExtractGuards
<1>2. Place = "extract" /\ Place' = "select" /\ Heading.mem = mem /\ Heading'.mem = mem'
  BY <1>1 DEF Place, Heading, Snapshot
<1>3. mem = [cost |-> mem.cost, stats |-> mem.stats, folded |-> mem.folded]
  BY <1>2 DEF StoryInv, StepsInv, Memory
<1>4. Memory(mem') /\ mem'.stats = mem.stats
  BY <1>1, <1>3 DEF Memory
<1>5. CostInv' /\ AgreeInv'
  BY <1>1, <1>2, <1>4, KeptByRecords DEF StoryInv, StepsInv, CostInv, AgreeInv, generation
<1>6. EpochInv'
  BY <1>1, <1>2, EpochKept DEF StoryInv, StepsInv, BeforeProposals, generation, records
<1> QED BY <1>2, <1>4, <1>5, <1>6 DEF StepsInv

LEMMA PlanningFailsTells == ASSUME JudgeInv, StoryInv, PlanningFails PROVE StepsInv'
<1>1. /\ UNCHANGED <<generation, records, art, mem>> /\ pc \in {"extract", "select"}
      /\ pc' = "slots" /\ cur' = EpochSize * Current /\ work'.frozen = work.frozen
  BY DEF PlanningFails, ToSlots, files
<1>2. Place = pc /\ Place' = "slots" /\ Heading'.mem = Heading.mem
  BY <1>1 DEF Place, Heading, Snapshot
<1>3. /\ work.frozen = campaign.gen /\ Current \in DOMAIN intent
      /\ Current \notin DOMAIN plan /\ Memory(Heading.mem)' /\ CampaignOK
  BY <1>1, <1>2 DEF StoryInv, StepsInv, EpochInv, CostInv, BeforeProposals, JudgeInv,
                    DurableInv
<1> QED BY <1>1, <1>2, <1>3, ToFirstSlot

LEMMA WritePlanTells == ASSUME JudgeInv, StoryInv, WritePlan PROVE StoryInv'
<1> DEFINE after == mem.cost + IF Frontier = {} THEN 0 ELSE 1
<1>1. /\ UNCHANGED <<intent, receipt, proposal, fold, campaign, art, cur, work>>
      /\ pc = "select" /\ pc' = "synthesize" /\ mem' = [mem EXCEPT !.cost = after]
  BY DEF WritePlan, files, records
<1>2. PICK targets :
        plan' = With(plan, Current, [before |-> work.before, after |-> after,
                                     frozen |-> work.frozen, stats |-> mem.stats,
                                     targets |-> targets])
  BY DEF WritePlan
<1> HIDE DEF after
<1>3. Place = "select" /\ Place' = "synthesize" /\ Heading.mem = mem /\ Heading'.mem = mem'
  BY <1>1 DEF Place, Heading, Snapshot
<1>4. /\ work.frozen = campaign.gen /\ Current > 0 /\ Current \in DOMAIN intent
      /\ Current \notin DOMAIN plan
      /\ \A g \in Bases : mem.stats = g.mem.stats /\ work.before = g.mem.cost
  BY <1>3 DEF StoryInv, StepsInv, EpochInv, CostInv, BeforeProposals
<1>5. /\ DOMAIN plan' = DOMAIN plan \cup {Current}
      /\ plan'[Current] = [before |-> work.before, after |-> after, frozen |-> campaign.gen,
                           stats |-> mem.stats, targets |-> targets]
  BY <1>2, <1>4 DEF With
<1>6. UNCHANGED <<Current, Published, Bases>>
  BY <1>1 DEF Current, Published, Bases, Slots
<1>7. WholeInv' /\ EpochsInv'
  BY <1>1, <1>6 DEF StoryInv, RecordsInv, WholeInv, EpochsInv, Uncommitted, Failures, Slots
<1>8. FrozenInv'
  BY <1>1, <1>4, <1>5, <1>6 DEF StoryInv, RecordsInv, FrozenInv
<1>9. PlanInv'
  BY <1>4, <1>5, <1>6 DEF PlanInv, Fresh
<1>10. mem' = [cost |-> after, stats |-> mem.stats, folded |-> mem.folded]
  BY <1>1, <1>3 DEF StoryInv, StepsInv, Memory
<1>11. CostInv' /\ AgreeInv'
  BY <1>3, <1>5, <1>6, <1>10 DEF CostInv, AgreeInv
<1>12. EpochInv'
  BY <1>1, <1>3, EpochKept DEF StoryInv, StepsInv, BeforeProposals
<1>13. Memory(Heading.mem)'
  BY <1>3, <1>10 DEF Memory
<1> QED BY <1>7, <1>8, <1>9, <1>11, <1>12, <1>13 DEF StoryInv, RecordsInv, StepsInv

\* A receipt comes only where one is missing, and nothing but the receipts looks at it.
LEMMA SynthesizeTells ==
  ASSUME JudgeInv, StoryInv, NEW a \in Attempt, Synthesize(a) \/ SynthesisFails(a)
  PROVE  StoryInv'
<1>1. /\ UNCHANGED <<intent, plan, proposal, fold, campaign, art, mem, cur, work, pc>>
      /\ pc = "synthesize" /\ a \in Targeted(Current) \ DOMAIN receipt
  BY DEF Synthesize, SynthesisFails, files, records
<1>2. Place = "synthesize" /\ Place' = "synthesize" /\ Heading' = Heading
  BY <1>1 DEF Place, Heading, Snapshot
<1>3. ~Synthesized /\ Current \in DOMAIN plan /\ ~campaign.active
  BY <1>1, <1>2 DEF Synthesized, StoryInv, StepsInv, CostInv, JudgeInv, ControlInv, PlanningOK,
                    BeforeProposals
<1>4. UNCHANGED <<Current, Published, Bases>>
  BY <1>1 DEF Current, Published, Bases, Slots
<1>5. WholeInv' /\ EpochsInv'
  BY <1>1, <1>4 DEF StoryInv, RecordsInv, WholeInv, EpochsInv, Uncommitted, Failures, Slots
<1>6. FrozenInv'
  BY <1>1, <1>4 DEF StoryInv, RecordsInv, FrozenInv
<1>7. \A g \in Bases : Fresh(g.mem)
  BY <1>3 DEF StoryInv, RecordsInv, PlanInv, Settled
<1>8. PlanInv'
  BY <1>1, <1>4, <1>7 DEF PlanInv, Fresh
<1>9. Heading.mem.cost = plan[Current].after /\ Heading.mem.stats = plan[Current].stats
  BY <1>2, <1>3 DEF StoryInv, StepsInv, CostInv
<1>10. CostInv' /\ AgreeInv'
  BY <1>1, <1>2, <1>3, <1>4, <1>9 DEF CostInv, AgreeInv
<1>11. EpochInv'
  BY <1>1, <1>2, EpochKept DEF StoryInv, StepsInv, BeforeProposals
<1> QED BY <1>2, <1>5, <1>6, <1>8, <1>10, <1>11 DEF StoryInv, RecordsInv, StepsInv

LEMMA SettleIsAccepted ==
  ASSUME StoryInv, pc = "synthesize"
  PROVE  SettleMatches(Current)
<1>1. Place = "synthesize" /\ Heading.mem = mem
  BY DEF Place, Heading, Snapshot
<1> QED BY <1>1 DEF StoryInv, StepsInv, CostInv, SettleMatches

LEMMA SettleTells == ASSUME JudgeInv, StoryInv, Settle PROVE StepsInv'
<1>1. /\ UNCHANGED <<generation, records>> /\ pc = "synthesize"
      /\ Targeted(Current) \subseteq DOMAIN receipt
  BY DEF Settle
<1>2. /\ mem' = [mem EXCEPT !.cost = plan[Current].after + RecordedCost(Current),
                            !.stats = StatsAfter(Current)]
      /\ pc' = "mark" /\ work' = [work EXCEPT !.results = Results(Current)]
  BY <1>1, SettleIsAccepted DEF Settle
<1>3. Place = "synthesize" /\ Place' = "mark" /\ Heading.mem = mem /\ Heading'.mem = mem'
  BY <1>1, <1>2 DEF Place, Heading, Snapshot
<1>4. mem = [cost |-> mem.cost, stats |-> mem.stats, folded |-> mem.folded]
  BY <1>3 DEF StoryInv, StepsInv, Memory
<1>5. mem' = [cost |-> plan[Current].after + RecordedCost(Current),
              stats |-> StatsAfter(Current), folded |-> mem.folded]
  BY <1>2, <1>4
<1>6. Settled(mem') /\ Memory(mem')
  BY <1>1, <1>5 DEF Settled, Synthesized, Memory
<1>7. CostInv' /\ AgreeInv'
  <2>1. Current \in DOMAIN plan /\ plan' = plan
    BY <1>1, <1>3 DEF StoryInv, StepsInv, CostInv, generation
  <2>2. Settled(Heading.mem)'
    BY <1>1, <1>3, <1>6, <2>1, KeptByRecords DEF Settled
  <2> QED BY <1>1, <1>3, <2>1, <2>2, KeptByRecords DEF CostInv, AgreeInv
<1>8. EpochInv'
  <2>1. work'.frozen = work.frozen
    BY <1>2
  <2> QED BY <1>1, <1>3, <2>1, EpochKept DEF StoryInv, StepsInv, BeforeProposals, generation,
                                             records
<1> QED BY <1>3, <1>6, <1>7, <1>8 DEF StepsInv

LEMMA MarkTriedTells == ASSUME JudgeInv, StoryInv, MarkTried PROVE StepsInv'
<1>1. UNCHANGED <<generation, records, pc, cur, mem, work>> /\ pc = "mark"
  BY DEF MarkTried
<1>2. Place = "mark" /\ Place' = "mark" /\ Heading'.mem = Heading.mem
  BY <1>1 DEF Place, Heading, Snapshot
<1>3. CostInv' /\ AgreeInv'
  BY <1>1, <1>2, KeptByRecords
  DEF StoryInv, StepsInv, CostInv, AgreeInv, Settled, generation
<1>4. EpochInv'
  BY <1>1, <1>2, EpochKept DEF StoryInv, StepsInv, BeforeProposals, generation, records
<1> QED BY <1>2, <1>3, <1>4 DEF StoryInv, StepsInv

LEMMA AllMarkedTells == ASSUME JudgeInv, StoryInv, AllMarked PROVE StepsInv'
<1>1. /\ UNCHANGED <<generation, records, art, mem, work>> /\ pc = "mark" /\ pc' = "slots"
      /\ cur' = EpochSize * Current
  BY DEF AllMarked, files
<1>2. Place = "mark" /\ Place' = "slots" /\ Heading' = Heading
  BY <1>1 DEF Place, Heading, Snapshot
<1>3. /\ work.frozen = campaign.gen /\ Current \in DOMAIN intent /\ Settled(Heading.mem)
      /\ Memory(Heading.mem) /\ CampaignOK
  BY <1>1, <1>2 DEF StoryInv, StepsInv, EpochInv, CostInv, BeforeProposals, JudgeInv,
                    DurableInv
<1>4. Settled(Heading.mem)' /\ Memory(Heading.mem)'
  BY <1>1, <1>2, <1>3, KeptByRecords DEF Settled, generation
<1> QED BY <1>1, <1>2, <1>3, <1>4, ToFirstSlot

-----------------------------------------------------------------------------
(* The proposals of an epoch. *)

LEMMA PublishProposalTells == ASSUME JudgeInv, StoryInv, PublishProposal PROVE StoryInv'
<1>1. /\ UNCHANGED <<generation, fold, campaign, art, mem, work, pc>> /\ pc = "slots"
      /\ cur \in Slots(Current) \ DOMAIN proposal /\ cur' = cur + 1
      /\ proposal' = With(proposal, cur, [candidate |-> work.results[cur],
                                          frozen |-> work.frozen, gen |-> Snapshot])
  BY DEF PublishProposal, files
<1>2. Place = "slots" /\ Place' = "slots" /\ Heading = Snapshot /\ Heading' = Snapshot
  BY <1>1 DEF Place, Heading, Snapshot
<1>3. AtSlot /\ ~campaign.active /\ campaign.pending = None /\ CampaignOK /\ RecordsOK
  BY <1>1, PlanningHasNoFold DEF JudgeInv, ControlInv, PlanningOK, DurableInv, AtSlot
<1>4. /\ DOMAIN proposal' = DOMAIN proposal \cup {cur}
      /\ \A a \in DOMAIN proposal : proposal'[a] = proposal[a]
      /\ proposal'[cur].gen = Snapshot /\ proposal'[cur].frozen = work.frozen
  <2>1. cur \notin DOMAIN proposal
    BY <1>1
  <2> QED BY <1>1, <2>1 DEF With
<1>5. UNCHANGED <<Current, Slots(Current)>> /\ Published' = Published \cup {cur}
  BY <1>1, <1>4 DEF Current, Slots, Published
<1>6. \A s \in Published : s < cur /\ proposal[s].gen = Snapshot
  <2>1. \A s \in Slots(Current) : s \in Nat
    BY <1>3, SlotRange
  <2>2. \A s \in Published : s < cur
    BY <1>1, <2>1 DEF StoryInv, RecordsInv, EpochsInv, Published
  <2> QED BY <1>2, <2>2 DEF StoryInv, StepsInv, AgreeInv, Published
<1>7. \A s \in Published' : proposal'[s].gen = Snapshot
  BY <1>4, <1>5, <1>6 DEF Published
<1>8. WholeInv'
  <2>1. Whole(Snapshot)
    BY <1>2 DEF Whole, Snapshot, StoryInv, StepsInv
  <2> QED BY <1>1, <1>4, <2>1 DEF StoryInv, RecordsInv, WholeInv
<1>9. EpochsInv'
  <2>1. cur <= EpochSize * Current + EpochSize - 1
    <3>1. PICK n \in Nat : n = EpochSize * Current /\ Slots(Current) = n .. n + EpochSize - 1
      BY <1>3, SlotRange
    <3> QED BY <1>1, <3>1, SizeAssumption
  <2>2. \A a \in DOMAIN proposal' : a <= (EpochSize * Current + EpochSize - 1)'
    BY <1>4, <1>5, <2>1 DEF StoryInv, RecordsInv, EpochsInv
  <2>3. Uncommitted' \subseteq Slots(Current)'
    BY <1>1, <1>4, <1>5 DEF StoryInv, RecordsInv, EpochsInv, Uncommitted
  <2>4. \A s \in Published' : \A r \in Slots(Current)' : r < s => r \in DOMAIN proposal'
    BY <1>3, <1>4, <1>5 DEF StoryInv, RecordsInv, EpochsInv, AtSlot
  <2> QED BY <1>1, <1>3, <1>5, <1>7, <2>2, <2>3, <2>4 DEF StoryInv, RecordsInv, EpochsInv
<1>10. EpochInv /\ work.frozen = campaign.gen /\ (Current > 0 => Current \in DOMAIN intent)
  BY <1>2 DEF StoryInv, StepsInv, EpochInv, BeforeProposals
<1>11. FrozenInv'
  BY <1>1, <1>4, <1>5, <1>10 DEF StoryInv, RecordsInv, FrozenInv, generation, Published
<1>12. Bases' = {Snapshot}
  BY <1>5, <1>7 DEF Bases
<1>13. Current \in DOMAIN plan => Fresh(mem) \/ Settled(mem)
  <2>1. CASE Published = {}
    BY <1>2, <2>1 DEF StoryInv, StepsInv, CostInv, Snapshot
  <2>2. CASE Published # {}
    <3>1. Snapshot \in Bases
      BY <1>6, <2>2 DEF Bases
    <3> QED BY <1>3, <3>1 DEF StoryInv, RecordsInv, PlanInv, Snapshot
  <2> QED BY <2>1, <2>2
<1>14. PlanInv'
  <2>1. /\ Targeted(Current)' = Targeted(Current) /\ UNCHANGED <<plan, receipt, Current>>
        /\ RecordedCost(Current)' = RecordedCost(Current)
        /\ StatsAfter(Current)' = StatsAfter(Current)
    BY <1>1, <1>5 DEF Targeted, RecordedCost, StatsAfter, WithResults, Received, generation
  <2> QED BY <1>12, <1>13, <2>1 DEF PlanInv, Fresh, Settled, Synthesized, Snapshot
<1>15. AgreeInv'
  <2>1. \A s \in Slots(Current) : s < cur + 1 => s \in Published'
    <3>1. \A s \in Slots(Current) : s \in Nat
      BY <1>3, SlotRange
    <3> QED BY <1>1, <1>3, <1>5, <3>1 DEF AtSlot, Published
  <2> QED BY <1>1, <1>2, <1>5, <1>7, <2>1 DEF AgreeInv
<1>16. CostInv' /\ EpochInv'
  BY <1>1, <1>2, <1>5, <1>10 DEF CostInv, EpochInv, generation
<1> QED BY <1>2, <1>8, <1>9, <1>11, <1>14, <1>15, <1>16 DEF StoryInv, RecordsInv, StepsInv

LEMMA FindProposalTells == ASSUME JudgeInv, StoryInv, FindProposal PROVE StepsInv'
<1>1. /\ UNCHANGED <<generation, records, art, work>> /\ pc = "slots" /\ cur' = cur + 1
      /\ cur \in Published /\ RestoreExact(proposal[cur].gen, "slots")
  BY DEF FindProposal, Published, files
<1>2. AtSlot /\ CampaignOK /\ Whole(proposal[cur].gen)
  BY <1>1 DEF JudgeInv, ControlInv, PlanningOK, DurableInv, StoryInv, RecordsInv, WholeInv,
              Published
<1>3. \/ Place' = "slots" /\ Heading' = proposal[cur].gen
      \/ Place' = "refused" /\ Heading'.mem = Heading.mem
  BY <1>1, <1>2, HeadsFor
<1>4. CASE Place' = "slots" /\ Heading' = proposal[cur].gen
  <2>1. \A s \in Slots(Current) : s < cur + 1 => proposal[s].gen = proposal[cur].gen
    <3>1. \A s \in Slots(Current) : s \in Nat
      BY <1>2, SlotRange
    <3>2. \A s \in Slots(Current) : s < cur + 1 => s \in Published
      BY <1>1, <1>2, <3>1 DEF AtSlot, Published
    <3> QED BY <1>1, <3>2 DEF StoryInv, RecordsInv, EpochsInv
  <2>2. AgreeInv'
    BY <1>1, <1>4, <2>1, KeptByRecords DEF AgreeInv, records
  <2>3. Published' # {}
    BY <1>1, KeptByRecords
  <2>4. EpochInv' /\ CostInv'
    <3>1. Place = "slots"
      BY <1>1 DEF Place
    <3> QED BY <1>1, <1>4, <2>3, <3>1, KeptByRecords
            DEF StoryInv, StepsInv, EpochInv, CostInv, BeforeProposals, generation, records
  <2> QED BY <1>2, <1>4, <2>2, <2>4 DEF StepsInv, Whole
<1>5. CASE Place' = "refused" /\ Heading'.mem = Heading.mem
  BY <1>5, Elsewhere DEF StoryInv, StepsInv, BeforeProposals
<1> QED BY <1>3, <1>4, <1>5

LEMMA SaveEpochTells == ASSUME JudgeInv, StoryInv, SaveEpoch PROVE StoryInv'
<1>1. /\ UNCHANGED <<intent, plan, receipt, proposal, fold, art, mem>> /\ pc = "slots"
      /\ pc' = "loop" /\ cur \notin Slots(Current)
      /\ campaign' = [campaign EXCEPT !.active = TRUE, !.gen = Snapshot]
  BY DEF SaveEpoch, files, generation
<1>2. AtSlot /\ CampaignOK /\ campaign.pending = None
  BY <1>1, PlanningHasNoFold DEF JudgeInv, ControlInv, PlanningOK, DurableInv, AtSlot
<1>3. /\ campaign'.active /\ campaign'.gen = Snapshot /\ campaign'.epoch = campaign.epoch
      /\ campaign'.committed = campaign.committed /\ campaign'.folded = campaign.folded
      /\ campaign'.pending = None
  BY <1>1, <1>2 DEF CampaignOK
<1>4. Heading = Snapshot /\ Heading' = Snapshot /\ Place = "slots" /\ Place' = "loop"
  BY <1>1 DEF Heading, Snapshot, Place
<1>5. \A s \in Slots(Current) : s < cur /\ proposal[s].gen = Snapshot
  <2>1. PICK n \in Nat : n = EpochSize * Current /\ Slots(Current) = n .. n + EpochSize - 1
    BY <1>2, SlotRange
  <2>2. \A s \in Slots(Current) : s < cur
    BY <1>1, <1>2, <2>1, SizeAssumption DEF AtSlot
  <2> QED BY <1>4, <2>2 DEF StoryInv, StepsInv, AgreeInv
<1>6. UNCHANGED <<Current, Slots(Current), Published>>
  BY <1>1, <1>3 DEF Current, Slots, Published
<1>7. WholeInv'
  BY <1>1, <1>3, <1>4 DEF StoryInv, RecordsInv, StepsInv, WholeInv, Whole, Snapshot
<1>8. EpochsInv'
  BY <1>1, <1>3, <1>6 DEF StoryInv, RecordsInv, EpochsInv, Uncommitted
<1>9. FrozenInv' /\ PlanInv'
  BY <1>1, <1>3, <1>6 DEF StoryInv, RecordsInv, FrozenInv, PlanInv
<1>10. AgreeInv'
  BY <1>1, <1>3, <1>4, <1>5, <1>6 DEF AgreeInv
<1>11. EpochInv' /\ CostInv' /\ Memory(Heading.mem)'
  BY <1>4 DEF EpochInv, CostInv, BeforeProposals, StoryInv, StepsInv
<1> QED BY <1>7, <1>8, <1>9, <1>10, <1>11 DEF StoryInv, RecordsInv, StepsInv

-----------------------------------------------------------------------------
(* Reducing the epoch. *)

LEMMA CommitFailureTells == ASSUME JudgeInv, StoryInv, CommitFailure PROVE StoryInv'
<1> DEFINE s == First(Failures(Current) \ campaign.committed)
<1>1. /\ UNCHANGED <<intent, plan, receipt, proposal, fold, art, mem, pc>> /\ pc = "loop"
      /\ campaign.active /\ Failures(Current) \ campaign.committed # {}
      /\ campaign' = [campaign EXCEPT !.committed = @ \cup {s}, !.gen = proposal[s].gen]
  BY DEF CommitFailure, files, generation
<1>2. CampaignOK /\ EpochsInv /\ WholeInv
  BY DEF JudgeInv, DurableInv, StoryInv, RecordsInv
<1>3. s \in Failures(Current) \ campaign.committed
  BY <1>1, <1>2, SlotRange, FirstIsLeast DEF Failures
<1> HIDE DEF s
<1>4. s \in Slots(Current) /\ s \in DOMAIN proposal
  BY <1>1, <1>2, <1>3 DEF Failures, CampaignOK
<1>5. /\ campaign'.active /\ campaign'.gen = proposal[s].gen
      /\ campaign'.epoch = campaign.epoch /\ campaign'.pending = campaign.pending
      /\ campaign'.committed = campaign.committed \cup {s}
      /\ campaign'.folded = campaign.folded
  BY <1>1, <1>2 DEF CampaignOK
<1>6. campaign.pending = None
  BY <1>2, <1>3 DEF EpochsInv
<1>7. Place = "loop" /\ Place' = "loop" /\ Heading' = Heading
  BY <1>1 DEF Place, Heading, Snapshot
<1>8. \A r \in Slots(Current) : proposal[r].gen = Heading
  BY <1>1, <1>3, <1>7 DEF StoryInv, StepsInv, AgreeInv
<1>9. UNCHANGED <<Current, Slots(Current), Published, Failures(Current)>>
  BY <1>1, <1>5 DEF Current, Slots, Published, Failures
<1>10. WholeInv'
  BY <1>1, <1>2, <1>4, <1>5 DEF WholeInv
<1>11. EpochsInv'
  BY <1>1, <1>2, <1>5, <1>6, <1>9 DEF EpochsInv, Uncommitted
<1>12. FrozenInv' /\ PlanInv'
  BY <1>1, <1>5, <1>9 DEF StoryInv, RecordsInv, FrozenInv, PlanInv
<1>13. AgreeInv'
  BY <1>1, <1>4, <1>5, <1>7, <1>8, <1>9 DEF AgreeInv
<1>14. EpochInv' /\ CostInv' /\ Memory(Heading.mem)'
  BY <1>7 DEF EpochInv, CostInv, BeforeProposals, StoryInv, StepsInv
<1> QED BY <1>10, <1>11, <1>12, <1>13, <1>14 DEF StoryInv, RecordsInv, StepsInv

\* A charge moves campaign.json, and the epoch stays the one in hand.
LEMMA CommitTells == ASSUME JudgeInv, StoryInv, Commit PROVE StoryInv'
<1> DEFINE s == First(Unfolded(Current))
<1>1. /\ UNCHANGED <<intent, plan, receipt, proposal, fold, art, mem>> /\ pc = "loop"
      /\ campaign.active /\ Failures(Current) \subseteq campaign.committed
      /\ Unfolded(Current) # {} /\ pc' \in {"finalize", "fold"}
      /\ campaign' = IF s \in campaign.committed THEN campaign
                     ELSE [campaign EXCEPT !.committed = @ \cup {s}, !.pending = s,
                                           !.gen = proposal[s].gen]
  BY DEF Commit, files, generation
<1>2. CampaignOK /\ EpochsInv /\ WholeInv
  BY DEF JudgeInv, DurableInv, StoryInv, RecordsInv
<1>3. s \in Unfolded(Current)
  BY <1>1, <1>2, SlotRange, FirstIsLeast DEF Unfolded
<1> HIDE DEF s
<1>4. s \in Slots(Current) /\ s \in DOMAIN proposal
  BY <1>1, <1>2, <1>3 DEF Unfolded, CampaignOK
<1>5. /\ campaign'.active /\ campaign'.epoch = campaign.epoch
      /\ campaign'.committed = campaign.committed \cup {s}
      /\ campaign'.folded = campaign.folded
      /\ campaign'.gen \in {campaign.gen, proposal[s].gen}
  <2>1. CASE s \in campaign.committed
    BY <1>1, <2>1
  <2>2. CASE s \notin campaign.committed
    BY <1>1, <1>2, <2>2 DEF CampaignOK
  <2> QED BY <2>1, <2>2
<1>6. UNCHANGED <<Current, Slots(Current), Published, Failures(Current)>>
  BY <1>1, <1>5 DEF Current, Slots, Published, Failures
<1>7. WholeInv'
  BY <1>1, <1>2, <1>4, <1>5 DEF WholeInv
<1>8. EpochsInv'
  BY <1>1, <1>2, <1>5, <1>6 DEF EpochsInv, Uncommitted
<1>9. FrozenInv' /\ PlanInv'
  BY <1>1, <1>5, <1>6 DEF StoryInv, RecordsInv, FrozenInv, PlanInv
<1>10. Memory(Heading.mem)' /\ Place' \notin BeforeProposals \cup {"loop"}
  BY <1>1 DEF Place, Heading, Snapshot, BeforeProposals, StoryInv, StepsInv
<1> QED BY <1>7, <1>8, <1>9, <1>10, Elsewhere DEF StoryInv, RecordsInv

LEMMA FoldTells ==
  ASSUME JudgeInv, StoryInv,
         \/ FoldAgain \/ FoldFails \/ WriteCache \/ WriteTree \/ CompleteVersion
         \/ \E calls \in {0, 2} : FoldNothing(calls)
         \/ \E purpose \in Purposes : StageVersion(purpose)
  PROVE  StepsInv'
<1>1. /\ pc \in Folding /\ pc' \in Folding
      /\ \/ mem' = mem
         \/ \E runs : \/ mem' = [mem EXCEPT !.folded = runs]
                      \/ \E cost : mem' = [mem EXCEPT !.folded = runs, !.cost = cost]
  <2>1. CASE FoldAgain
    BY <2>1 DEF FoldAgain, Folding
  <2>2. CASE FoldFails \/ WriteCache \/ WriteTree
    BY <2>2 DEF FoldFails, WriteCache, WriteTree, Folding
  <2>3. CASE CompleteVersion
    BY <2>3 DEF CompleteVersion, Folding
  <2>4. CASE \E calls \in {0, 2} : FoldNothing(calls)
    BY <2>4 DEF FoldNothing, Folding
  <2>5. CASE \E purpose \in Purposes : StageVersion(purpose)
    BY <2>5 DEF StageVersion, Folding
  <2> QED BY <2>1, <2>2, <2>3, <2>4, <2>5
<1>2. mem = [cost |-> mem.cost, stats |-> mem.stats, folded |-> mem.folded]
  BY <1>1 DEF StoryInv, StepsInv, Memory, Heading, Snapshot, Folding
<1>3. Memory(mem')
  BY <1>1, <1>2 DEF Memory
<1>4. Memory(Heading.mem)' /\ Place' \notin BeforeProposals \cup {"loop"}
  BY <1>1, <1>3 DEF Heading, Snapshot, Place, BeforeProposals, Folding
<1> QED BY <1>4, Elsewhere

LEMMA PublishFoldTells == ASSUME JudgeInv, StoryInv, PublishFold PROVE StoryInv'
<1>1. /\ UNCHANGED <<intent, plan, receipt, proposal, campaign, art, mem>>
      /\ pc \in {"folded", "failed"} /\ pc' = "finalize"
      /\ fold' = With(fold, cur, [status |-> pc, gen |-> Snapshot])
  BY DEF PublishFold, files, generation
<1>2. Memory(mem)
  BY <1>1 DEF StoryInv, StepsInv, Heading, Snapshot
<1>3. \A a \in DOMAIN fold' : Whole(fold'[a].gen)
  BY <1>1, <1>2 DEF With, Whole, Snapshot, StoryInv, RecordsInv, WholeInv
<1>4. UNCHANGED <<Current, Slots(Current), Published, Failures(Current), Bases>>
  BY <1>1 DEF Current, Slots, Published, Failures, Bases
<1>5. WholeInv' /\ EpochsInv'
  BY <1>1, <1>3, <1>4 DEF StoryInv, RecordsInv, WholeInv, EpochsInv, Uncommitted
<1>6. FrozenInv'
  BY <1>1, <1>4 DEF StoryInv, RecordsInv, FrozenInv
<1>7. PlanInv'
  BY <1>1, <1>4 DEF StoryInv, RecordsInv, PlanInv, Fresh, Settled, Synthesized, Targeted,
                    RecordedCost, StatsAfter, WithResults, Received
<1>8. Memory(Heading.mem)' /\ Place' \notin BeforeProposals \cup {"loop"}
  BY <1>1, <1>2 DEF Place, Heading, Snapshot, BeforeProposals
<1> QED BY <1>5, <1>6, <1>7, <1>8, Elsewhere DEF StoryInv, RecordsInv

LEMMA FinalizeTells == ASSUME JudgeInv, StoryInv, Finalize PROVE StoryInv'
<1>1. /\ UNCHANGED <<intent, plan, receipt, proposal, fold, art>> /\ pc = "finalize"
      /\ RestoreExact(fold[cur].gen, "loop")
  BY DEF Finalize, files, generation
<1>2. /\ cur = campaign.pending /\ cur # None /\ cur \in DOMAIN fold
      /\ art = fold[cur].gen.art /\ CampaignOK /\ PendingOK /\ Whole(fold[cur].gen)
      /\ EpochsInv
  BY <1>1 DEF JudgeInv, ControlInv, FoldingOK, DurableInv, StoryInv, RecordsInv, WholeInv
<1>3. pc' = "loop" /\ mem' = fold[cur].gen.mem
  BY <1>1, <1>2 DEF RestoreExact
<1>4. campaign' = [campaign EXCEPT !.folded = @ \cup {cur}, !.pending = None,
                                   !.gen = fold[cur].gen]
  BY <1>3 DEF Finalize
<1>5. /\ campaign'.active /\ campaign'.epoch = campaign.epoch
      /\ campaign'.committed = campaign.committed /\ campaign'.pending = None
      /\ campaign'.folded = campaign.folded \cup {cur} /\ campaign'.gen = fold[cur].gen
  BY <1>2, <1>4 DEF CampaignOK, PendingOK
<1>6. Place' = "loop" /\ Heading' = fold[cur].gen
  BY <1>1, <1>2, <1>3 DEF Place, Heading, Snapshot, Whole
<1>7. UNCHANGED <<Current, Slots(Current), Published, Failures(Current)>>
  BY <1>1, <1>5 DEF Current, Slots, Published, Failures
<1>8. WholeInv'
  BY <1>1, <1>2, <1>5 DEF StoryInv, RecordsInv, WholeInv
<1>9. EpochsInv'
  BY <1>1, <1>2, <1>5, <1>7 DEF EpochsInv, Uncommitted, PendingOK
<1>10. FrozenInv' /\ PlanInv'
  BY <1>1, <1>5, <1>7 DEF StoryInv, RecordsInv, FrozenInv, PlanInv
<1>11. AgreeInv'
  BY <1>2, <1>5, <1>6, <1>7 DEF AgreeInv, EpochsInv
<1>12. EpochInv' /\ CostInv' /\ Memory(Heading.mem)'
  BY <1>2, <1>6 DEF EpochInv, CostInv, BeforeProposals, Whole
<1> QED BY <1>8, <1>9, <1>10, <1>11, <1>12 DEF StoryInv, RecordsInv, StepsInv

\* The epoch is over when each of its slots is charged; the next one has no record yet, and
\* the generator is what campaign.json has.
LEMMA EpochIsOver ==
  ASSUME JudgeInv, StoryInv, EndEpoch
  PROVE  /\ CampaignOK /\ campaign.pending = None
         /\ ~campaign'.active /\ campaign'.epoch = campaign.epoch + 1
         /\ campaign'.committed = campaign.committed /\ campaign'.pending = campaign.pending
         /\ campaign'.folded = campaign.folded /\ campaign'.gen = campaign.gen
         /\ Uncommitted = {} /\ Uncommitted' = Uncommitted
         /\ Current' = Current + 1 /\ Current \in Nat
         /\ \A a \in DOMAIN proposal : a \in Nat /\ a < EpochSize * Current'
         /\ EpochSize * Current' = EpochSize * Current + EpochSize
         /\ EpochSize * Current \in Nat
         /\ Slots(Current)' \cap DOMAIN proposal = {}
         /\ Published' = {} /\ Bases' = {campaign.gen}
         /\ Place = "loop" /\ Place' = "loop" /\ Heading' = Heading /\ Heading = campaign.gen
<1>1. /\ UNCHANGED <<intent, plan, receipt, proposal, fold, art, mem, pc>> /\ pc = "loop"
      /\ campaign.active /\ Failures(Current) \subseteq campaign.committed
      /\ Unfolded(Current) = {}
      /\ campaign' = [campaign EXCEPT !.active = FALSE, !.epoch = @ + 1]
  BY DEF EndEpoch, files, generation
<1>2. CampaignOK /\ RecordsOK /\ PendingOK /\ EpochsInv /\ WholeInv
  BY DEF JudgeInv, DurableInv, StoryInv, RecordsInv
<1>3. /\ ~campaign'.active /\ campaign'.epoch = campaign.epoch + 1
      /\ campaign'.committed = campaign.committed /\ campaign'.pending = campaign.pending
      /\ campaign'.folded = campaign.folded /\ campaign'.gen = campaign.gen
  BY <1>1, <1>2 DEF CampaignOK
<1>4. campaign.pending = None
  BY <1>1, <1>2 DEF PendingOK
<1>5. Slots(Current) \subseteq campaign.committed
  BY <1>1, <1>2 DEF Unfolded, EpochsInv
<1>6. Uncommitted = {} /\ Uncommitted' = Uncommitted
  BY <1>1, <1>2, <1>3, <1>5 DEF Uncommitted, EpochsInv
<1>7. /\ Current' = Current + 1 /\ Current \in Nat
      /\ EpochSize * Current' = EpochSize * Current + EpochSize
      /\ EpochSize * Current \in Nat
  BY <1>2, <1>3, SlotRange, SizeAssumption DEF Current
<1>8. \A a \in DOMAIN proposal : a \in Nat /\ a < EpochSize * Current'
  BY <1>2, <1>7, SizeAssumption DEF EpochsInv, RecordsOK
<1>9. \A s \in Slots(Current)' : s >= EpochSize * Current'
  BY <1>7, SizeAssumption DEF Slots
<1>10. Slots(Current)' \cap DOMAIN proposal = {}
  BY <1>8, <1>9, <1>7, SizeAssumption DEF Slots
<1>11. Published' = {} /\ Bases' = {campaign.gen}
  BY <1>1, <1>3, <1>10 DEF Published, Bases
<1>12. Place = "loop" /\ Place' = "loop" /\ Heading' = Heading
  BY <1>1 DEF Place, Heading, Snapshot
<1>13. Heading = campaign.gen
  BY <1>1, <1>4, <1>5, <1>12 DEF StoryInv, StepsInv, AgreeInv
<1> QED BY <1>2, <1>3, <1>4, <1>6, <1>7, <1>8, <1>10, <1>11, <1>12, <1>13

LEMMA EndEpochTells == ASSUME JudgeInv, StoryInv, EndEpoch PROVE StoryInv'
<1>1. UNCHANGED <<intent, plan, receipt, proposal, fold, art, mem, pc>>
  BY DEF EndEpoch, files, generation
<1>2. RecordsOK /\ EpochsInv /\ WholeInv
  BY DEF JudgeInv, DurableInv, StoryInv, RecordsInv
<1>3. /\ ~campaign'.active /\ campaign'.committed = campaign.committed
      /\ campaign'.pending = campaign.pending /\ campaign'.folded = campaign.folded
      /\ campaign'.gen = campaign.gen
  BY EpochIsOver
<1>4. campaign.pending = None
  BY EpochIsOver
<1>6. Uncommitted = {} /\ Uncommitted' = Uncommitted
  BY EpochIsOver
<1>7. /\ Current' = Current + 1 /\ Current \in Nat
      /\ EpochSize * Current' = EpochSize * Current + EpochSize
      /\ EpochSize * Current \in Nat
  BY EpochIsOver
<1>8. \A a \in DOMAIN proposal : a \in Nat /\ a < EpochSize * Current'
  BY EpochIsOver
<1>10. Slots(Current)' \cap DOMAIN proposal = {}
  BY EpochIsOver
<1>11. Published' = {} /\ Bases' = {campaign.gen}
  BY EpochIsOver
<1>12. Place = "loop" /\ Place' = "loop" /\ Heading' = Heading
  BY EpochIsOver
<1>13. Heading = campaign.gen
  BY EpochIsOver
<1>14. WholeInv'
  BY <1>1, <1>2, <1>3 DEF WholeInv
<1>15. EpochsInv'
  <2>1. \A a \in DOMAIN proposal' : a <= (EpochSize * Current + EpochSize - 1)'
    BY <1>1, <1>7, <1>8, SizeAssumption
  <2>2. Slots(Current)' \cap campaign'.committed = {}
    BY <1>2, <1>3, <1>10 DEF RecordsOK
  <2> QED BY <1>2, <1>3, <1>4, <1>6, <1>11, <2>1, <2>2 DEF EpochsInv
<1>16. DOMAIN intent \subseteq 1 .. Current /\ DOMAIN plan \subseteq DOMAIN intent
  BY DEF StoryInv, RecordsInv, FrozenInv
<1>17. Current' \notin DOMAIN intent \cup DOMAIN plan
  BY <1>7, <1>16
<1>18. FrozenInv' /\ PlanInv'
  BY <1>1, <1>7, <1>11, <1>16, <1>17 DEF FrozenInv, PlanInv
<1>19. AgreeInv'
  BY <1>3, <1>11, <1>12, <1>13 DEF AgreeInv
<1>20. EpochInv' /\ CostInv' /\ Memory(Heading.mem)'
  BY <1>12 DEF EpochInv, CostInv, BeforeProposals, StoryInv, StepsInv
<1> QED BY <1>14, <1>15, <1>18, <1>19, <1>20 DEF StoryInv, RecordsInv, StepsInv

LEMMA CrashTells == ASSUME JudgeInv, StoryInv, Crash PROVE StepsInv'
<1>1. pc' = "load" /\ mem' = FreshMemory
  BY DEF Crash
<1>2. Memory(Heading.mem)' /\ Place' = "load"
  BY <1>1 DEF Place, Heading, Snapshot, Memory, FreshMemory
<1> QED BY <1>2, Elsewhere DEF BeforeProposals

LEMMA StutterTells == ASSUME StoryInv, UNCHANGED vars PROVE StoryInv'
<1>1. UNCHANGED <<generation, records, cur, work, pc, job, mem, art>>
  BY DEF vars, files
<1>2. Place' = Place /\ Heading' = Heading
  BY <1>1 DEF Place, Heading, Snapshot
<1> QED BY <1>1, <1>2, RecordsKept, StepsKept DEF StoryInv

-----------------------------------------------------------------------------
LEMMA InitStory == Init => StoryInv
<1> SUFFICES ASSUME Init PROVE StoryInv
  OBVIOUS
<1>1. /\ DOMAIN intent = {} /\ DOMAIN plan = {} /\ DOMAIN proposal = {} /\ DOMAIN fold = {}
      /\ pc = "load" /\ mem = FreshMemory
  BY DEF Init
<1>2. /\ campaign.active = FALSE /\ campaign.committed = {} /\ campaign.folded = {}
      /\ campaign.pending = None
  BY DEF Init
<1>3. Whole(campaign.gen)
  BY DEF Init, Whole, Memory, FreshMemory
<1>4. Published = {} /\ Uncommitted = {}
  BY <1>1 DEF Published, Uncommitted
<1>5. RecordsInv
  BY <1>1, <1>2, <1>3, <1>4 DEF RecordsInv, WholeInv, EpochsInv, FrozenInv, PlanInv
<1>6. StepsInv
  BY <1>1
  DEF StepsInv, EpochInv, CostInv, AgreeInv, Place, Heading, Snapshot, Memory, FreshMemory,
      BeforeProposals
<1> QED BY <1>5, <1>6 DEF StoryInv

LEMMA StepStory == JudgeInv /\ StoryInv /\ [Next]_vars => StoryInv'
<1> SUFFICES ASSUME JudgeInv, StoryInv, [Next]_vars PROVE StoryInv'
  OBVIOUS
<1>1. CASE Load \/ RestoreFile \/ FilesRestored
  BY <1>1, LoadTells, RestoreFileTells, FilesRestoredTells, RecordsKeptBy DEF StoryInv
<1>2. CASE ProposeBootstrap \/ PlanningFails \/ ReplayPlan \/ ResumeIntent
  BY <1>2, BootstrapTells, PlanningFailsTells, ReplayPlanTells, ResumeIntentTells, RecordsKeptBy
  DEF StoryInv
<1>3. CASE PublishIntent \/ WritePlan
  BY <1>3, PublishIntentTells, WritePlanTells
<1>4. CASE \E mutations \in SUBSET Mutations : ExtractGuards(mutations)
  BY <1>4, ExtractGuardsTells, RecordsKeptBy DEF StoryInv
<1>5. CASE \E a \in Attempt : Synthesize(a) \/ SynthesisFails(a)
  BY <1>5, SynthesizeTells
<1>6. CASE Settle \/ MarkTried \/ AllMarked \/ FindProposal
  BY <1>6, SettleTells, MarkTriedTells, AllMarkedTells, FindProposalTells, RecordsKeptBy
  DEF StoryInv
<1>7. CASE PublishProposal \/ SaveEpoch
  BY <1>7, PublishProposalTells, SaveEpochTells
<1>8. CASE CommitFailure \/ Commit
  BY <1>8, CommitFailureTells, CommitTells
<1>9. CASE \/ FoldAgain \/ FoldFails \/ WriteCache \/ WriteTree \/ CompleteVersion
           \/ \E calls \in {0, 2} : FoldNothing(calls)
           \/ \E purpose \in Purposes : StageVersion(purpose)
  BY <1>9, FoldTells, RecordsKeptBy DEF StoryInv
<1>10. CASE PublishFold \/ Finalize \/ EndEpoch
  BY <1>10, PublishFoldTells, FinalizeTells, EndEpochTells
<1>11. CASE Crash \/ UNCHANGED vars
  BY <1>11, CrashTells, RecordsKeptBy, StutterTells DEF StoryInv
<1> QED
  BY <1>1, <1>2, <1>3, <1>4, <1>5, <1>6, <1>7, <1>8, <1>9, <1>10, <1>11 DEF Next

LEMMA StoryAgrees ==
  ASSUME StoryInv, Planning, Slots(Current) \cap DOMAIN proposal = {}
  PROVE  campaign.gen = Snapshot
<1>1. Bases = {campaign.gen}
  BY BasesAre DEF Published
<1>2. \A g \in Bases : Heading = g
  BY DEF StoryInv, StepsInv, AgreeInv, Planning, Place
<1>3. Heading = Snapshot
  BY DEF Planning, Heading
<1> QED BY <1>1, <1>2, <1>3

LEMMA StoryAccepts == JudgeInv /\ StoryInv => ReplayAccepted
<1> SUFFICES ASSUME JudgeInv, StoryInv PROVE ReplayAccepted
  OBVIOUS
<1>1. ASSUME Planning, Current \in DOMAIN plan
      PROVE  ReplayMatches(Current)
  BY <1>1, ReplayIsAccepted
<1>2. ASSUME Planning, Current \in DOMAIN intent
      PROVE  intent[Current].frozen = Frozen
  BY <1>2, FrozenIsBase DEF StoryInv, RecordsInv, FrozenInv, Planning
<1>3. pc = "synthesize" => SettleMatches(Current)
  BY SettleIsAccepted
<1> QED BY <1>1, <1>2, <1>3 DEF ReplayAccepted

\* No slot is ever failed by the checks that a replayed generation makes of the cost, the
\* statistics and the frozen state (_load_or_plan_epoch_targets, propose_epoch).
THEOREM ReplaysAreAccepted == Spec => []ReplayAccepted
<1>1. Init => JudgeInv /\ StoryInv
  BY InitJudge, InitStory
<1>2. JudgeInv /\ StoryInv /\ [Next]_vars => (JudgeInv /\ StoryInv)'
  BY StepJudge, StepStory
<1> QED BY <1>1, <1>2, StoryAccepts, PTL DEF Spec

-----------------------------------------------------------------------------
(* Which mutations have been tried. *)

Tried(artifacts) == artifacts.guards.tried

\* The targets of the epoch in hand.
Targets == {plan[Current].targets[s] : s \in Targeted(Current)}

\* While an epoch is planned nothing that was tried is forgotten, and none of it is aimed at.
SearchInv ==
  ~campaign.active =>
    /\ Tried(campaign.gen.art) \subseteq Tried(art) \cap Tried(Heading.art)
    /\ \A s \in Published : Tried(campaign.gen.art) \subseteq Tried(proposal[s].gen.art)
    /\ Current \in DOMAIN plan => Targets \cap Tried(campaign.gen.art) = {}

\* While it is reduced the guard file does not change.
GuardsInv ==
  campaign.active =>
    /\ campaign.gen.art.guards = art.guards /\ Heading.art.guards = art.guards
    /\ \A s \in Slots(Current) :
         /\ proposal[s].gen.art.guards = art.guards
         /\ s \in DOMAIN fold => fold[s].gen.art.guards = art.guards
         /\ s \in DOMAIN version => version[s].guards = art.guards

\* The proposals that stand for the targets are published after these are marked.
MarkedInv ==
  Current > 0 =>
    /\ Published # {} /\ (\A s \in Published : proposal[s].candidate # "failure") =>
         /\ Current \in DOMAIN plan
         /\ \A s \in Published : Targets \subseteq Tried(proposal[s].gen.art)
    /\ Place = "slots" =>
         \/ \A s \in Slots(Current) : work.results[s] = "failure"
         \/ Current \in DOMAIN plan /\ (Published = {} => Targets \subseteq Tried(Heading.art))

\* What earlier epochs aimed at has been tried, once.
SpentInv ==
  /\ \A e \in Epoch : e < Current => Aimed(e) \subseteq Tried(campaign.gen.art)
  /\ EachMutationOnce

TriedInv == SearchInv /\ GuardsInv /\ MarkedInv /\ SpentInv

LEMMA AimedKept ==
  ASSUME UNCHANGED <<plan, proposal>>
  PROVE  (\A e \in Epoch : Aimed(e)' = Aimed(e)) /\ EachMutationOnce' = EachMutationOnce
<1>1. ASSUME NEW e \in Epoch PROVE Aimed(e)' = Aimed(e)
  BY DEF Aimed, Slots, Targeted
<1> QED BY <1>1, Zenon DEF EachMutationOnce

\* A step that moves nothing but the files, the memory and the records of a fold.
LEMMA MoveKeeps ==
  ASSUME TriedInv, UNCHANGED <<plan, proposal, campaign>>,
         ~campaign.active =>
           Tried(campaign.gen.art) \subseteq Tried(art') \cap Tried(Heading'.art),
         campaign.active =>
           /\ art'.guards = art.guards /\ Heading'.art.guards = art.guards
           /\ \A s \in Slots(Current) :
                /\ s \in DOMAIN fold' => fold'[s].gen.art.guards = art.guards
                /\ s \in DOMAIN version' => version'[s].guards = art.guards,
         Place' = "slots" /\ Current > 0 =>
           \/ \A s \in Slots(Current) : work'.results[s] = "failure"
           \/ /\ Current \in DOMAIN plan
              /\ Published = {} => Targets \subseteq Tried(Heading'.art)
  PROVE  TriedInv'
<1>1. /\ Current' = Current /\ Published' = Published /\ Slots(Current)' = Slots(Current)
      /\ Targets' = Targets
  BY DEF Current, Published, Slots, Targets, Targeted
<1>2. SearchInv'
  BY <1>1 DEF TriedInv, SearchInv, Tried
<1>3. GuardsInv'
  BY <1>1 DEF TriedInv, GuardsInv
<1>4. MarkedInv'
  BY <1>1 DEF TriedInv, MarkedInv, Tried
<1>5. SpentInv'
  BY <1>1, AimedKept DEF TriedInv, SpentInv, Tried
<1> QED BY <1>2, <1>3, <1>4, <1>5 DEF TriedInv

\* A step that leaves the files alone, and the thread where it is or away from the slots.
LEMMA StillKeeps ==
  ASSUME TriedInv, UNCHANGED <<plan, proposal, campaign, version, fold, art>>,
         Heading'.art \in {art, Heading.art},
         Place' = "slots" /\ Current > 0 => \A s \in Slots(Current) : work'.results[s] = "failure"
  PROVE  TriedInv'
<1>1. ~campaign.active =>
        Tried(campaign.gen.art) \subseteq Tried(art') \cap Tried(Heading'.art)
  BY DEF TriedInv, SearchInv
<1>2. campaign.active =>
        /\ art'.guards = art.guards /\ Heading'.art.guards = art.guards
        /\ \A s \in Slots(Current) :
             /\ s \in DOMAIN fold' => fold'[s].gen.art.guards = art.guards
             /\ s \in DOMAIN version' => version'[s].guards = art.guards
  BY DEF TriedInv, GuardsInv
<1> QED BY <1>1, <1>2, MoveKeeps

LEMMA QuietStepsTry ==
  ASSUME JudgeInv, StoryInv, TriedInv,
         \/ ProposeBootstrap \/ PlanningFails \/ ReplayPlan \/ PublishIntent \/ Settle
         \/ \E a \in Attempt : Synthesize(a) \/ SynthesisFails(a)
         \/ FoldFails \/ \E calls \in {0, 2} : FoldNothing(calls)
         \/ CompleteVersion \/ Crash
  PROVE  TriedInv'
<1>1. UNCHANGED <<plan, proposal, campaign, version, fold, art>>
  <2>1. CASE ProposeBootstrap \/ PlanningFails \/ ReplayPlan \/ PublishIntent \/ Settle
    BY <2>1 DEF ProposeBootstrap, PlanningFails, ReplayPlan, PublishIntent, Settle, files,
                generation, records
  <2>2. CASE \E a \in Attempt : Synthesize(a) \/ SynthesisFails(a)
    BY <2>2 DEF Synthesize, SynthesisFails, files, generation, records
  <2>3. CASE \/ FoldFails \/ \E calls \in {0, 2} : FoldNothing(calls)
             \/ CompleteVersion \/ Crash
    BY <2>3 DEF FoldFails, FoldNothing, CompleteVersion, Crash, files, generation, records
  <2> QED BY <2>1, <2>2, <2>3
<1>2. /\ pc' # "restore"
      /\ pc' = "slots" /\ Current > 0 => \A s \in Slots(Current) : work'.results[s] = "failure"
  <2>1. CASE ProposeBootstrap
    BY <2>1 DEF ProposeBootstrap
  <2>2. CASE PlanningFails
    BY <2>2 DEF PlanningFails, ToSlots, AllFail
  <2>3. CASE ReplayPlan
    BY <2>3, ReplayIsAccepted DEF ReplayPlan
  <2>4. CASE Settle
    BY <2>4, SettleIsAccepted DEF Settle
  <2>5. CASE PublishIntent \/ \E a \in Attempt : Synthesize(a) \/ SynthesisFails(a)
    BY <2>5 DEF PublishIntent, Synthesize, SynthesisFails
  <2>6. CASE \/ FoldFails \/ \E calls \in {0, 2} : FoldNothing(calls)
             \/ CompleteVersion \/ Crash
    BY <2>6 DEF FoldFails, FoldNothing, CompleteVersion, Crash
  <2> QED BY <2>1, <2>2, <2>3, <2>4, <2>5, <2>6
<1>3. Heading'.art = art /\ Place' = pc'
  BY <1>1, <1>2 DEF Heading, Snapshot, Place
<1> QED BY <1>1, <1>2, <1>3, StillKeeps

LEMMA AllMarkedTries == ASSUME JudgeInv, StoryInv, TriedInv, AllMarked PROVE TriedInv'
<1>1. /\ UNCHANGED <<plan, proposal, campaign, version, fold, art>> /\ pc = "mark"
      /\ pc' = "slots" /\ Unmarked = {}
  BY DEF AllMarked, ToMark, files, generation, records
<1>2. Place = "mark" /\ Heading'.art = art /\ Heading.art = art
  BY <1>1 DEF Place, Heading, Snapshot
<1>3. Targets \subseteq Tried(art)
  BY <1>1 DEF Unmarked, Targets, Tried
<1>4. Current \in DOMAIN plan /\ ~campaign.active
  BY <1>1, <1>2 DEF StoryInv, StepsInv, CostInv, JudgeInv, ControlInv, PlanningOK,
                    BeforeProposals
<1>5. Tried(campaign.gen.art) \subseteq Tried(art') \cap Tried(Heading'.art)
  BY <1>1, <1>2, <1>4 DEF TriedInv, SearchInv
<1> QED BY <1>1, <1>2, <1>3, <1>4, <1>5, MoveKeeps

LEMMA SavedGuardsAre ==
  ASSUME Artifacts(art), NEW known, NEW tried
  PROVE  Tried(SavedGuards(known, tried)) = tried
  BY DEF Artifacts, Files, SavedGuards, Tried

LEMMA GuardStepsTry ==
  ASSUME JudgeInv, StoryInv, TriedInv,
         MarkTried \/ \E mutations \in SUBSET Mutations : ExtractGuards(mutations)
  PROVE  TriedInv'
<1>1. /\ UNCHANGED <<plan, proposal, campaign, version, fold>> /\ pc \in {"extract", "mark"}
      /\ pc' \in {"select", "mark"}
      /\ art' = art \/ \E known, more : art' = SavedGuards(known, art.guards.tried \cup more)
  <2>1. CASE MarkTried
    BY <2>1 DEF MarkTried, generation, records
  <2>2. ASSUME NEW mutations \in SUBSET Mutations, ExtractGuards(mutations)
        PROVE  <1>1!:
    <3>1. art.guards.tried = art.guards.tried \cup {}
      OBVIOUS
    <3> QED BY <2>2, <3>1 DEF ExtractGuards, generation, records
  <2> QED BY <2>1, <2>2
<1>2. Heading'.art = art' /\ Place' = pc' /\ ~campaign.active
  BY <1>1 DEF Heading, Snapshot, Place, JudgeInv, ControlInv, PlanningOK, BeforeProposals
<1>3. Tried(art) \subseteq Tried(art')
  <2>1. Artifacts(art)
    BY DEF JudgeInv, DurableInv, SnapshotsOK
  <2>2. ASSUME NEW known, NEW more, art' = SavedGuards(known, art.guards.tried \cup more)
        PROVE  Tried(art') = Tried(art) \cup more
    <3>1. Tried(SavedGuards(known, art.guards.tried \cup more)) = art.guards.tried \cup more
      BY <2>1, SavedGuardsAre
    <3> QED BY <2>2, <3>1 DEF Tried
  <2> QED BY <1>1, <2>2
<1>4. Tried(campaign.gen.art) \subseteq Tried(art') \cap Tried(Heading'.art)
  BY <1>2, <1>3 DEF TriedInv, SearchInv
<1> QED BY <1>1, <1>2, <1>4, MoveKeeps

\* A run folded again, staged or recorded: what is kept of it has the guards of the files.
LEMMA FoldStepsTry ==
  ASSUME JudgeInv, TriedInv,
         FoldAgain \/ PublishFold \/ \E purpose \in Purposes : StageVersion(purpose)
  PROVE  TriedInv'
<1>1. /\ UNCHANGED <<plan, proposal, campaign, art>> /\ pc \in Folding /\ pc' # "restore"
      /\ pc' # "slots"
      /\ version' = version \/ \E v : version' = With(version, cur, v) /\ v.guards = art.guards
      /\ fold' = fold \/ \E f : fold' = With(fold, cur, f) /\ f.gen.art.guards = art.guards
  <2>1. CASE FoldAgain
    BY <2>1 DEF FoldAgain, Folding, generation, records
  <2>2. CASE PublishFold
    <3>1. fold' = With(fold, cur, [status |-> pc, gen |-> Snapshot])
      BY <2>2 DEF PublishFold
    <3>2. [status |-> pc, gen |-> Snapshot].gen.art.guards = art.guards
      BY DEF Snapshot
    <3> QED BY <2>2, <3>1, <3>2 DEF PublishFold, Folding, files, generation
  <2>3. ASSUME NEW purpose \in Purposes, StageVersion(purpose)
        PROVE  <1>1!:
    <3> DEFINE v == [art EXCEPT !.tree = TreeAfter(cur, purpose),
                                !.cache = JudgmentsAfter(purpose)]
    <3>1. v.guards = art.guards
      BY DEF JudgeInv, DurableInv, SnapshotsOK, Artifacts, Files
    <3>2. version' = With(version, cur, v)
      BY <2>3 DEF StageVersion
    <3> QED BY <2>3, <3>1, <3>2 DEF StageVersion, Folding, generation, records
  <2> QED BY <2>1, <2>2, <2>3
<1>2. Heading'.art = art /\ Place' = pc' /\ campaign.active
  <2>1. campaign.pending # None
    BY <1>1 DEF JudgeInv, ControlInv, FoldingOK
  <2> QED BY <1>1, <2>1 DEF Heading, Snapshot, Place, JudgeInv, DurableInv, PendingOK
<1>3. \A s \in Slots(Current) :
        /\ s \in DOMAIN fold' => fold'[s].gen.art.guards = art.guards
        /\ s \in DOMAIN version' => version'[s].guards = art.guards
  BY <1>1, <1>2 DEF TriedInv, GuardsInv, With
<1> QED BY <1>1, <1>2, <1>3, MoveKeeps

LEMMA WriteStepsTry ==
  ASSUME JudgeInv, TriedInv, WriteCache \/ WriteTree
  PROVE  TriedInv'
<1>1. /\ UNCHANGED <<plan, proposal, campaign, version, fold>> /\ pc \in Folding
      /\ pc' \in Folding
      /\ \E x : art' = [art EXCEPT !.cache = x] \/ art' = [art EXCEPT !.tree = x]
  BY DEF WriteCache, WriteTree, Folding, generation, records
<1>2. art'.guards = art.guards
  BY <1>1 DEF JudgeInv, DurableInv, SnapshotsOK, Artifacts, Files
<1>3. Heading'.art = art' /\ Place' = pc' /\ pc' # "slots" /\ campaign.active
  <2>1. campaign.pending # None
    BY <1>1 DEF JudgeInv, ControlInv, FoldingOK
  <2> QED BY <1>1, <2>1 DEF Heading, Snapshot, Place, JudgeInv, DurableInv, PendingOK, Folding
<1> QED BY <1>1, <1>2, <1>3, MoveKeeps DEF TriedInv, GuardsInv

-----------------------------------------------------------------------------
(* Restorations. *)

\* A restoration begins: the files are as they were, and the snapshot headed for has the
\* guards it should have.
LEMMA HeadingKeeps ==
  ASSUME TriedInv, UNCHANGED <<plan, proposal, campaign, version, fold, art>>,
         ~campaign.active => Tried(campaign.gen.art) \subseteq Tried(Heading'.art),
         campaign.active => Heading'.art.guards = art.guards,
         Place' = "slots" => Published # {} /\ (Current > 0 => Place = "slots" /\ work' = work)
  PROVE  TriedInv'
<1>1. ~campaign.active =>
        Tried(campaign.gen.art) \subseteq Tried(art') \cap Tried(Heading'.art)
  BY DEF TriedInv, SearchInv
<1>2. campaign.active =>
        /\ art'.guards = art.guards /\ Heading'.art.guards = art.guards
        /\ \A s \in Slots(Current) :
             /\ s \in DOMAIN fold' => fold'[s].gen.art.guards = art.guards
             /\ s \in DOMAIN version' => version'[s].guards = art.guards
  BY DEF TriedInv, GuardsInv
<1>3. Place' = "slots" /\ Current > 0 =>
        \/ \A s \in Slots(Current) : work'.results[s] = "failure"
        \/ /\ Current \in DOMAIN plan
           /\ Published = {} => Targets \subseteq Tried(Heading'.art)
  BY DEF TriedInv, MarkedInv
<1> QED BY <1>1, <1>2, <1>3, MoveKeeps

LEMMA LoadTries == ASSUME JudgeInv, StoryInv, TriedInv, Load PROVE TriedInv'
<1>1. /\ UNCHANGED <<plan, proposal, campaign, version, fold, art>> /\ pc = "load"
  BY DEF Load, files, generation, records
<1>2. Heading.art = art
  BY <1>1 DEF Heading, Snapshot
<1>3. CASE campaign.pending # None /\ campaign.pending \notin DOMAIN fold
  <2> DEFINE a == campaign.pending
  <2>1. campaign.active /\ a \in Slots(Current)
    BY <1>3 DEF JudgeInv, DurableInv, PendingOK, Unfolded
  <2>2. RestorePending(a)
    BY <1>3 DEF Load
  <2>3. /\ Heading'.art \in {campaign.gen.art, art}
           \/ (a \in DOMAIN version /\ Heading'.art = version[a])
        /\ Place' # "slots"
    BY <1>1, <2>2 DEF RestorePending, StartRestore, Heading, Snapshot, Place
  <2>4. Heading'.art.guards = art.guards
    BY <2>1, <2>3 DEF TriedInv, GuardsInv
  <2> QED BY <1>1, <2>1, <2>3, <2>4, HeadingKeeps
<1>4. CASE ~(campaign.pending # None /\ campaign.pending \notin DOMAIN fold)
  <2> DEFINE gen == RestoredOnLoad
  <2>1. RestoreExact(gen, "loop") /\ Whole(gen)
    BY <1>4, LoadedIsBase DEF Load
  <2>2. \/ gen = campaign.gen
        \/ \E s \in Slots(Current) : s \in DOMAIN fold /\ gen = fold[s].gen /\ campaign.active
        \/ \E s \in Published : gen = proposal[s].gen
    <3>1. CASE campaign.pending # None
      BY <1>4, <3>1 DEF RestoredOnLoad, JudgeInv, DurableInv, PendingOK, Unfolded
    <3>2. CASE campaign.pending = None /\ Uncommitted # {}
      <4>1. Last(Uncommitted) \in Uncommitted
        BY <3>2, LastIsGreatest DEF Uncommitted, JudgeInv, DurableInv, RecordsOK
      <4>2. Last(Uncommitted) \in Published
        BY <4>1 DEF StoryInv, RecordsInv, EpochsInv, Uncommitted, Published
      <4> QED BY <3>2, <4>2 DEF RestoredOnLoad
    <3>3. CASE campaign.pending = None /\ Uncommitted = {}
      BY <3>3 DEF RestoredOnLoad
    <3> QED BY <3>1, <3>2, <3>3
  <2> HIDE DEF gen
  <2>3. \/ Place' = "loop" /\ Heading' = gen
        \/ Place' = "refused" /\ Heading'.art = art
    <3>1. CASE pc' = "refused"
      BY <1>1, <3>1 DEF Place, Heading, Snapshot
    <3>2. CASE pc' # "refused"
      BY <1>1, <2>1, <3>2, HeadsFor, ExactCases DEF Place
    <3> QED BY <3>1, <3>2
  <2>4. ~campaign.active => Tried(campaign.gen.art) \subseteq Tried(Heading'.art)
    BY <2>2, <2>3 DEF TriedInv, SearchInv
  <2>5. campaign.active => Heading'.art.guards = art.guards
    BY <2>2, <2>3 DEF TriedInv, GuardsInv, Published
  <2> QED BY <1>1, <2>3, <2>4, <2>5, HeadingKeeps
<1> QED BY <1>3, <1>4

LEMMA ResumeIntentTries ==
  ASSUME JudgeInv, StoryInv, TriedInv, ResumeIntent
  PROVE  TriedInv'
<1>1. /\ UNCHANGED <<plan, proposal, campaign, version, fold, art>> /\ Planning
      /\ Current \in DOMAIN intent /\ ~campaign.active
  BY DEF ResumeIntent, Planning, files, generation, records
<1>2. Frozen = campaign.gen
  BY <1>1, FrozenIsBase
<1>3. intent[Current] = [pre |-> campaign.gen.art, frozen |-> campaign.gen]
  BY <1>1 DEF StoryInv, RecordsInv, FrozenInv
<1>4. Place' = "extract" /\ Heading'.art = campaign.gen.art
  <2>1. CASE art = intent[Current].pre
    BY <1>1, <1>2, <1>3, <2>1 DEF ResumeIntent, Place, Heading, Snapshot
  <2>2. CASE art # intent[Current].pre
    BY <1>1, <1>2, <1>3, <2>2 DEF ResumeIntent, StartRestore, Place, Heading
  <2> QED BY <2>1, <2>2
<1> QED BY <1>1, <1>4, HeadingKeeps

LEMMA FindProposalTries ==
  ASSUME JudgeInv, StoryInv, TriedInv, FindProposal
  PROVE  TriedInv'
<1>1. /\ UNCHANGED <<plan, proposal, campaign, version, fold, art, work>> /\ pc = "slots"
      /\ cur \in Published /\ RestoreExact(proposal[cur].gen, "slots")
  BY DEF FindProposal, Published, files, generation, records
<1>2. ~campaign.active /\ Whole(proposal[cur].gen)
  BY <1>1 DEF JudgeInv, ControlInv, PlanningOK, BeforeProposals, StoryInv, RecordsInv,
              WholeInv, Published
<1>3. \/ Heading' = proposal[cur].gen
      \/ Place' = "refused" /\ Heading'.art = art
  <2>1. CASE pc' = "refused"
    BY <1>1, <2>1 DEF Place, Heading, Snapshot
  <2>2. CASE pc' # "refused"
    BY <1>1, <1>2, <2>2, HeadsFor, ExactCases DEF Place
  <2> QED BY <2>1, <2>2
<1>4. Tried(campaign.gen.art) \subseteq Tried(Heading'.art)
  BY <1>1, <1>2, <1>3 DEF TriedInv, SearchInv
<1>5. Place = "slots"
  BY <1>1 DEF Place
<1> QED BY <1>1, <1>2, <1>4, <1>5, HeadingKeeps

LEMMA RestoreStepsTry ==
  ASSUME JudgeInv, TriedInv, RestoreFile \/ FilesRestored
  PROVE  TriedInv'
<1>1. UNCHANGED <<plan, proposal, campaign, version, fold, work>> /\ pc = "restore"
  BY DEF RestoreFile, FilesRestored, generation, records
<1>2. /\ DOMAIN job = {"target", "left", "mem", "then"}
      /\ Artifacts(job.target) /\ Artifacts(art)
      /\ job.then \in {"recovered", "loop", "extract", "slots"}
      /\ \E n \in 0 .. 3 : job.left = Left(n) /\ \A f \in Written(n) : art[f] = job.target[f]
  BY <1>1 DEF JudgeInv, ControlInv, RestoringOK, DurableInv, SnapshotsOK
<1>3. /\ Heading' = Heading \/ Heading'.art = Heading.art
      /\ Place' = Place \/ Place' = "loop"
      /\ art'.guards \in {art.guards, Heading.art.guards}
  <2>1. CASE RestoreFile
    <3>1. /\ pc' = "restore" /\ job' = [job EXCEPT !.left = Tail(job.left)]
          /\ art' = [art EXCEPT ![Head(job.left)] = job.target[Head(job.left)]]
      BY <1>1, <2>1 DEF RestoreFile
    <3>2. job'.target = job.target /\ job'.mem = job.mem /\ job'.then = job.then
      BY <1>2, <3>1
    <3>3. art'.guards \in {art.guards, job.target.guards}
      BY <1>2, <3>1 DEF Artifacts, Files
    <3> QED BY <1>1, <3>1, <3>2, <3>3 DEF Heading, Place
  <2>2. CASE FilesRestored
    <3>1. /\ job.left = <<>> /\ mem' = job.mem /\ art' = art
          /\ pc' = IF job.then = "recovered" THEN "loop" ELSE job.then
      BY <2>2 DEF FilesRestored
    <3>2. PICK n \in 0 .. 3 : /\ job.left = Left(n)
                              /\ \A f \in Written(n) : art[f] = job.target[f]
      BY <1>2
    <3>3. Written(n) = Files
      BY <3>1, <3>2 DEF Left, Written, AllFiles
    <3>4. art = job.target
      BY <1>2, <3>2, <3>3, SameFiles
    <3>5. pc' # "restore"
      BY <1>2, <3>1
    <3> QED BY <1>1, <1>2, <3>1, <3>4, <3>5 DEF Heading, Snapshot, Place
  <2> QED BY <2>1, <2>2
<1>4. Heading'.art = Heading.art
  BY <1>3
<1>5. ~campaign.active =>
        Tried(campaign.gen.art) \subseteq Tried(art') \cap Tried(Heading'.art)
  BY <1>3, <1>4 DEF TriedInv, SearchInv, Tried
<1>6. campaign.active => art'.guards = art.guards /\ Heading'.art.guards = art.guards
  BY <1>3, <1>4 DEF TriedInv, GuardsInv
<1>7. campaign.active =>
        \A s \in Slots(Current) :
          /\ s \in DOMAIN fold' => fold'[s].gen.art.guards = art.guards
          /\ s \in DOMAIN version' => version'[s].guards = art.guards
  BY <1>1 DEF TriedInv, GuardsInv
<1>8. Place' = "slots" /\ Current > 0 =>
        \/ \A s \in Slots(Current) : work'.results[s] = "failure"
        \/ /\ Current \in DOMAIN plan
           /\ Published = {} => Targets \subseteq Tried(Heading'.art)
  BY <1>1, <1>3, <1>4 DEF TriedInv, MarkedInv
<1> QED BY <1>1, <1>5, <1>6, <1>7, <1>8, MoveKeeps

-----------------------------------------------------------------------------
(* Steps of the records: the plan, the proposals and the campaign. *)

LEMMA SlotsApart ==
  ASSUME NEW e \in Nat, NEW f \in Nat, e < f
  PROVE  Slots(e) \cap Slots(f) = {}
<1>1. EpochSize \in Nat
  BY SizeAssumption
<1>2. PICK d \in Nat : f = e + 1 + d
  <2>1. f - e - 1 \in Nat /\ f = e + 1 + (f - e - 1)
    OBVIOUS
  <2> QED BY <2>1
<1>3. EpochSize * (e + 1 + d) = EpochSize * e + EpochSize + EpochSize * d
  BY <1>1
<1>4. EpochSize * e \in Nat /\ EpochSize * d \in Nat /\ EpochSize * f \in Nat
  BY <1>1
<1>5. EpochSize * f >= EpochSize * e + EpochSize
  BY <1>1, <1>2, <1>3, <1>4
<1> QED BY <1>1, <1>4, <1>5 DEF Slots

LEMMA EarlierSlots ==
  ASSUME CampaignOK, NEW e \in Epoch, e < Current
  PROVE  Slots(e) \cap Slots(Current) = {}
<1>1. e \in Nat /\ Current \in Nat
  BY SlotRange DEF Epoch
<1> QED BY <1>1, SlotsApart

LEMMA OtherSlots ==
  ASSUME CampaignOK, NEW e \in Epoch, e # Current
  PROVE  Slots(e) \cap Slots(Current) = {}
<1>1. e \in Nat /\ Current \in Nat /\ (e < Current \/ Current < e)
  BY SlotRange DEF Epoch
<1> QED BY <1>1, SlotsApart

\* The epoch in hand aims at nothing that an earlier one has spent.
LEMMA OnceExtends ==
  ASSUME CampaignOK, SpentInv, Current' = Current, SearchInv', ~campaign'.active,
         campaign'.gen = campaign.gen,
         \A e \in Epoch : e < Current => Aimed(e)' = Aimed(e),
         \A e \in Epoch : e > Current => Aimed(e)' = {}
  PROVE  SpentInv'
<1>1. \A e \in Epoch : e < Current => Aimed(e)' \subseteq Tried(campaign.gen.art)
  BY DEF SpentInv
<1>2. Current \in Epoch => Aimed(Current)' \cap Tried(campaign.gen.art) = {}
  <2>1. Current \in DOMAIN plan' => Targets' \cap Tried(campaign.gen.art) = {}
    BY DEF SearchInv, Tried
  <2>2. Aimed(Current)' \subseteq Targets' /\ (Aimed(Current)' # {} => Current \in DOMAIN plan')
    BY DEF Aimed, Targets
  <2> QED BY <2>1, <2>2
<1>3. ASSUME NEW e \in Epoch, NEW f \in Epoch, e < f
      PROVE  Aimed(e)' \cap Aimed(f)' = {}
  <2>1. e \in Int /\ f \in Int /\ Current \in Int
    BY SlotRange DEF Epoch
  <2>2. CASE f < Current
    BY <1>3, <2>1, <2>2 DEF SpentInv, EachMutationOnce
  <2>3. CASE f = Current
    BY <1>1, <1>2, <1>3, <2>3
  <2>4. CASE f > Current
    BY <2>4
  <2> QED BY <2>1, <2>2, <2>3, <2>4
<1>4. \A e, f \in Epoch : e # f => e < f \/ f < e
  BY DEF Epoch
<1>5. EachMutationOnce'
  BY <1>3, <1>4 DEF EachMutationOnce
<1>6. Tried(campaign.gen.art)' = Tried(campaign.gen.art)
  BY DEF Tried
<1> QED BY <1>1, <1>5, <1>6 DEF SpentInv

LEMMA UnplannedAimNowhere ==
  ASSUME StoryInv, CampaignOK, NEW e \in Epoch, e > Current
  PROVE  e \notin DOMAIN plan /\ Aimed(e) = {}
  BY SlotRange DEF StoryInv, RecordsInv, FrozenInv, Aimed, Epoch

LEMMA WritePlanTries == ASSUME JudgeInv, StoryInv, TriedInv, WritePlan PROVE TriedInv'
<1>1. /\ UNCHANGED <<proposal, campaign, art>> /\ pc = "select" /\ pc' = "synthesize"
  BY DEF WritePlan, files, records
<1>2. PICK new :
        /\ new.targets \in DiverseTargets(Slots(Current), Frontier)
        /\ plan' = With(plan, Current, new)
  BY DEF WritePlan
<1>3. ~campaign.active /\ CampaignOK
  BY <1>1 DEF JudgeInv, ControlInv, PlanningOK, BeforeProposals, DurableInv
<1>4. Current \notin DOMAIN plan
  BY <1>1 DEF StoryInv, StepsInv, CostInv, Place
<1>5. /\ DOMAIN plan' = DOMAIN plan \cup {Current}
      /\ plan'[Current].targets = new.targets
      /\ \A e \in DOMAIN plan : plan'[e] = plan[e]
  BY <1>2, <1>4 DEF With
<1>6. /\ Current' = Current /\ Slots(Current)' = Slots(Current) /\ Published' = Published
  BY <1>1 DEF Current, Slots, Published
<1>7. /\ Place' = "synthesize" /\ Heading'.art = art
  BY <1>1 DEF Place, Heading, Snapshot
<1>8. Targets' \cap Tried(art) = {}
  <2>1. \A s \in Slots(Current) : new.targets[s] \in Frontier \cup {Fallback}
    BY <1>2 DEF DiverseTargets
  <2>2. Targets' \subseteq Frontier
    BY <1>5, <1>6, <2>1 DEF Targets, Targeted
  <2>3. Frontier \cap Tried(art) = {}
    BY DEF Frontier, Untried, Tried
  <2> QED BY <2>2, <2>3
<1>9. SearchInv'
  BY <1>1, <1>3, <1>6, <1>7, <1>8 DEF TriedInv, SearchInv, Tried
<1>10. GuardsInv'
  BY <1>1, <1>3 DEF GuardsInv
<1>11. MarkedInv'
  BY <1>1, <1>4, <1>6, <1>7 DEF TriedInv, MarkedInv
<1>12. \A e \in Epoch : e # Current => Aimed(e)' = Aimed(e)
  <2>1. ASSUME NEW e \in Epoch, e # Current PROVE Aimed(e)' = Aimed(e)
    <3>1. e \in DOMAIN plan' <=> e \in DOMAIN plan
      BY <1>5, <2>1
    <3>2. CASE e \in DOMAIN plan
      <4>1. plan'[e] = plan[e]
        BY <1>5, <3>2
      <4> QED BY <1>1, <3>1, <4>1 DEF Aimed, Slots, Targeted
    <3>3. CASE e \notin DOMAIN plan
      BY <1>1, <3>1, <3>3 DEF Aimed
    <3> QED BY <3>2, <3>3
  <2> QED BY <2>1
<1>13. SpentInv'
  <2>1. \A e \in Epoch : e < Current => Aimed(e)' = Aimed(e)
    BY <1>3, <1>12, SlotRange DEF Epoch
  <2>2. \A e \in Epoch : e > Current => e # Current
    BY <1>3, SlotRange DEF Epoch
  <2>3. \A e \in Epoch : e > Current => Aimed(e)' = {}
    BY <1>3, <1>12, <2>2, UnplannedAimNowhere
  <2> QED BY <1>1, <1>3, <1>6, <1>9, <2>1, <2>3, OnceExtends DEF TriedInv
<1> QED BY <1>9, <1>10, <1>11, <1>13 DEF TriedInv

LEMMA PublishProposalTries ==
  ASSUME JudgeInv, StoryInv, TriedInv, PublishProposal
  PROVE  TriedInv'
<1>1. /\ UNCHANGED <<plan, campaign, art, work>> /\ pc = "slots" /\ pc' = "slots"
      /\ cur \in Slots(Current) \ DOMAIN proposal
      /\ proposal' = With(proposal, cur, [candidate |-> work.results[cur],
                                          frozen |-> work.frozen, gen |-> Snapshot])
  BY DEF PublishProposal, files, generation
<1>2. /\ Place = "slots" /\ Place' = "slots" /\ Heading = Snapshot /\ Heading'.art = art
      /\ Heading.art = art
  BY <1>1 DEF Place, Heading, Snapshot
<1>3. AtSlot /\ ~campaign.active /\ CampaignOK
  BY <1>1 DEF JudgeInv, ControlInv, PlanningOK, DurableInv, AtSlot
<1>4. /\ DOMAIN proposal' = DOMAIN proposal \cup {cur}
      /\ \A a \in DOMAIN proposal : proposal'[a] = proposal[a]
      /\ proposal'[cur].gen.art = art /\ proposal'[cur].candidate = work.results[cur]
  <2>1. cur \notin DOMAIN proposal
    BY <1>1
  <2> QED BY <1>1, <2>1 DEF With, Snapshot
<1>5. /\ Current' = Current /\ Slots(Current)' = Slots(Current) /\ Targets' = Targets
      /\ Published' = Published \cup {cur}
  BY <1>1, <1>4 DEF Current, Slots, Published, Targets, Targeted
<1>6. \A s \in Published : proposal[s].gen.art = art
  <2>1. \A s \in Slots(Current) : s \in Nat
    BY <1>3, SlotRange
  <2>2. \A s \in Published : s < cur
    BY <1>1, <1>3, <2>1 DEF StoryInv, RecordsInv, EpochsInv, Published, AtSlot
  <2> QED BY <1>2, <2>2 DEF StoryInv, StepsInv, AgreeInv, Published, Snapshot
<1>7. \A s \in Published' : proposal'[s].gen.art = art
  BY <1>4, <1>5, <1>6 DEF Published
<1>8. SearchInv'
  BY <1>1, <1>2, <1>3, <1>5, <1>7 DEF TriedInv, SearchInv, Tried
<1>9. GuardsInv'
  BY <1>1, <1>3 DEF GuardsInv
<1>10. MarkedInv'
  <2>1. ASSUME Current > 0, \A s \in Published' : proposal'[s].candidate # "failure"
        PROVE  Current \in DOMAIN plan /\ Targets \subseteq Tried(art)
    <3>1. work.results[cur] # "failure"
      BY <1>4, <1>5, <2>1
    <3>2. Current \in DOMAIN plan /\ (Published = {} => Targets \subseteq Tried(art))
      BY <1>1, <1>2, <2>1, <3>1 DEF TriedInv, MarkedInv
    <3>3. \A s \in Published : proposal[s].candidate # "failure"
      BY <1>4, <1>5, <2>1 DEF Published
    <3>4. Published # {} => Targets \subseteq Tried(art)
      BY <1>6, <2>1, <3>3 DEF TriedInv, MarkedInv
    <3> QED BY <3>2, <3>4
  <2>2. Published' # {}
    BY <1>5
  <2>3. Current > 0 /\ Place' = "slots" =>
          \/ \A s \in Slots(Current) : work.results[s] = "failure"
          \/ Current \in DOMAIN plan
    BY <1>2 DEF TriedInv, MarkedInv
  <2> QED BY <1>1, <1>5, <1>7, <2>1, <2>2, <2>3 DEF MarkedInv, Tried
<1>11. \A e \in Epoch : e < Current => Aimed(e)' = Aimed(e)
  <2>1. ASSUME NEW e \in Epoch, e < Current PROVE Aimed(e)' = Aimed(e)
    <3>1. cur \notin Slots(e)
      BY <1>1, <1>3, <2>1, EarlierSlots
    <3>2. Slots(e) \subseteq DOMAIN proposal' <=> Slots(e) \subseteq DOMAIN proposal
      BY <1>4, <3>1
    <3>3. Slots(e) \subseteq DOMAIN proposal =>
            \A s \in Slots(e) : proposal'[s] = proposal[s]
      BY <1>4
    <3> QED BY <1>1, <3>2, <3>3 DEF Aimed, Slots, Targeted
  <2> QED BY <2>1
<1>12. \A e \in Epoch : e > Current => Aimed(e)' = {}
  BY <1>1, <1>3, UnplannedAimNowhere DEF Aimed
<1>13. SpentInv'
  BY <1>1, <1>3, <1>5, <1>8, <1>11, <1>12, OnceExtends DEF TriedInv
<1> QED BY <1>8, <1>9, <1>10, <1>13 DEF TriedInv

\* A step of campaign.json within an epoch, to a snapshot with the guards of the files.
LEMMA CampaignKeeps ==
  ASSUME TriedInv, UNCHANGED <<plan, proposal, version, fold, art>>, campaign'.active,
         campaign'.epoch = campaign.epoch, campaign'.gen.art.guards = art.guards,
         Heading'.art.guards = art.guards, Place' # "slots",
         Tried(campaign.gen.art) \subseteq Tried(art),
         \A s \in Slots(Current) :
           /\ proposal[s].gen.art.guards = art.guards
           /\ s \in DOMAIN fold => fold[s].gen.art.guards = art.guards
           /\ s \in DOMAIN version => version[s].guards = art.guards
  PROVE  TriedInv'
<1>1. /\ Current' = Current /\ Slots(Current)' = Slots(Current) /\ Published' = Published
      /\ Targets' = Targets
  BY DEF Current, Slots, Published, Targets, Targeted
<1>2. SearchInv' /\ GuardsInv'
  BY <1>1 DEF SearchInv, GuardsInv
<1>3. MarkedInv'
  BY <1>1 DEF TriedInv, MarkedInv, Tried
<1>4. Tried(campaign.gen.art)' = Tried(art)
  BY DEF Tried
<1>5. SpentInv'
  BY <1>1, <1>4, AimedKept DEF TriedInv, SpentInv
<1> QED BY <1>2, <1>3, <1>5 DEF TriedInv

LEMMA SaveEpochTries == ASSUME JudgeInv, StoryInv, TriedInv, SaveEpoch PROVE TriedInv'
<1>1. /\ UNCHANGED <<plan, proposal, version, fold, art, mem>> /\ pc = "slots"
      /\ pc' = "loop" /\ cur \notin Slots(Current)
      /\ campaign' = [campaign EXCEPT !.active = TRUE, !.gen = Snapshot]
  BY DEF SaveEpoch, files, generation
<1>2. AtSlot /\ CampaignOK /\ RecordsOK /\ EpochsInv /\ ~campaign.active
  BY <1>1 DEF JudgeInv, ControlInv, PlanningOK, DurableInv, AtSlot, StoryInv, RecordsInv
<1>3. /\ campaign'.active /\ campaign'.gen.art = art /\ campaign'.epoch = campaign.epoch
  BY <1>1, <1>2 DEF CampaignOK, Snapshot
<1>4. Heading = Snapshot /\ Heading'.art = art /\ Place = "slots" /\ Place' = "loop"
  BY <1>1 DEF Heading, Snapshot, Place
<1>5. \A s \in Slots(Current) : proposal[s].gen.art = art
  <2>1. PICK n \in Nat : n = EpochSize * Current /\ Slots(Current) = n .. n + EpochSize - 1
    BY <1>2, SlotRange
  <2>2. \A s \in Slots(Current) : s < cur
    BY <1>1, <1>2, <2>1, SizeAssumption DEF AtSlot
  <2> QED BY <1>4, <2>2 DEF StoryInv, StepsInv, AgreeInv, Snapshot
<1>6. \A s \in Slots(Current) : s \notin DOMAIN fold \cup DOMAIN version
  BY <1>2 DEF RecordsOK, EpochsInv
<1>7. Tried(campaign.gen.art) \subseteq Tried(art)
  BY <1>2 DEF TriedInv, SearchInv
<1> QED BY <1>1, <1>3, <1>4, <1>5, <1>6, <1>7, CampaignKeeps

LEMMA CommitStepsTry ==
  ASSUME JudgeInv, StoryInv, TriedInv, CommitFailure \/ Commit \/ Finalize
  PROVE  TriedInv'
<1>1. CampaignOK /\ PendingOK
  BY DEF JudgeInv, DurableInv
<1>2. /\ UNCHANGED <<plan, proposal, version, fold, art>> /\ pc # "restore"
      /\ campaign.active /\ pc' \notin {"restore", "slots"}
      /\ campaign'.active /\ campaign'.epoch = campaign.epoch
      /\ \/ campaign'.gen = campaign.gen
         \/ \E s \in Slots(Current) : \/ campaign'.gen = proposal[s].gen
                                      \/ s \in DOMAIN fold /\ campaign'.gen = fold[s].gen
  <2>1. CASE CommitFailure
    <3> DEFINE s == First(Failures(Current) \ campaign.committed)
    <3>1. /\ UNCHANGED <<plan, proposal, version, fold, art, pc>> /\ pc = "loop"
          /\ campaign.active /\ Failures(Current) \ campaign.committed # {}
          /\ campaign' = [campaign EXCEPT !.committed = @ \cup {s}, !.gen = proposal[s].gen]
      BY <2>1 DEF CommitFailure, files, generation
    <3>2. s \in Slots(Current)
      BY <1>1, <3>1, SlotRange, FirstIsLeast DEF Failures
    <3> HIDE DEF s
    <3> QED BY <1>1, <3>1, <3>2 DEF CampaignOK
  <2>2. CASE Commit
    <3> DEFINE s == First(Unfolded(Current))
    <3>1. /\ UNCHANGED <<plan, proposal, version, fold, art>> /\ pc = "loop"
          /\ campaign.active /\ Unfolded(Current) # {} /\ pc' \in {"finalize", "fold"}
          /\ \/ campaign' = campaign
             \/ campaign' = [campaign EXCEPT !.committed = @ \cup {s}, !.pending = s,
                                             !.gen = proposal[s].gen]
      BY <2>2 DEF Commit, files, generation
    <3>2. s \in Slots(Current)
      BY <1>1, <3>1, SlotRange, FirstIsLeast DEF Unfolded
    <3> HIDE DEF s
    <3> QED BY <1>1, <3>1, <3>2 DEF CampaignOK
  <2>3. CASE Finalize
    <3>1. /\ UNCHANGED <<plan, proposal, version, fold, art>> /\ pc = "finalize"
          /\ RestoreExact(fold[cur].gen, "loop")
      BY <2>3 DEF Finalize, files, generation
    <3>2. /\ cur = campaign.pending /\ cur # None /\ cur \in DOMAIN fold
          /\ art = fold[cur].gen.art
      BY <3>1 DEF JudgeInv, ControlInv, FoldingOK
    <3>3. pc' = "loop"
      BY <3>1, <3>2 DEF RestoreExact
    <3>4. campaign' = [campaign EXCEPT !.folded = @ \cup {cur}, !.pending = None,
                                       !.gen = fold[cur].gen]
      BY <2>3, <3>3 DEF Finalize
    <3>5. cur \in Slots(Current) /\ campaign.active
      BY <1>1, <3>2 DEF PendingOK, Unfolded
    <3> QED BY <1>1, <3>1, <3>2, <3>3, <3>4, <3>5 DEF CampaignOK
  <2> QED BY <2>1, <2>2, <2>3
<1>3. Heading'.art = art /\ Place' = pc'
  BY <1>2 DEF Heading, Snapshot, Place
<1>4. campaign'.gen.art.guards = art.guards /\ Tried(campaign.gen.art) \subseteq Tried(art)
  BY <1>2 DEF TriedInv, GuardsInv, Tried
<1> QED BY <1>2, <1>3, <1>4, CampaignKeeps DEF TriedInv, GuardsInv

LEMMA EndEpochTries == ASSUME JudgeInv, StoryInv, TriedInv, EndEpoch PROVE TriedInv'
<1>1. /\ UNCHANGED <<plan, proposal, art, pc, mem>> /\ pc = "loop" /\ campaign.active
      /\ campaign' = [campaign EXCEPT !.active = FALSE, !.epoch = @ + 1]
  BY DEF EndEpoch, files, generation
<1>2. CampaignOK /\ StoryInv' /\ RecordsOK
  BY EndEpochTells DEF JudgeInv, DurableInv
<1>3. /\ ~campaign'.active /\ campaign'.gen = campaign.gen /\ Current' = Current + 1
      /\ Current \in Nat /\ campaign'.committed = campaign.committed
  BY <1>1, <1>2, SlotRange DEF CampaignOK, Current
<1>4. Heading = Snapshot /\ Heading'.art = art /\ Place' = "loop"
  BY <1>1 DEF Heading, Snapshot, Place
<1>5. Published' = {}
  <2>1. Slots(Current)' \cap DOMAIN proposal' \cap campaign'.committed = {}
    BY <1>2, <1>3 DEF StoryInv, RecordsInv, EpochsInv
  <2>2. Uncommitted = {}
    <3>1. Slots(Current) \subseteq campaign.committed
      BY <1>2 DEF EndEpoch, Unfolded, StoryInv, RecordsInv, EpochsInv
    <3> QED BY <3>1 DEF StoryInv, RecordsInv, EpochsInv, Uncommitted
  <2>3. DOMAIN proposal' \subseteq campaign'.committed
    BY <1>1, <1>3, <2>2 DEF Uncommitted
  <2> QED BY <2>1, <2>3 DEF Published
<1>6. Current' \notin DOMAIN plan'
  BY <1>1, <1>3 DEF StoryInv, RecordsInv, FrozenInv
<1>7. campaign.gen.art.guards = art.guards
  BY <1>1 DEF TriedInv, GuardsInv
<1>8. SearchInv' /\ GuardsInv'
  BY <1>1, <1>3, <1>4, <1>5, <1>6, <1>7 DEF SearchInv, GuardsInv, Tried
<1>9. MarkedInv'
  BY <1>4, <1>5 DEF MarkedInv
<1>10. Aimed(Current) \subseteq Tried(campaign.gen.art)
  <2> SUFFICES ASSUME Aimed(Current) # {} PROVE Aimed(Current) \subseteq Tried(campaign.gen.art)
    OBVIOUS
  <2>1. /\ Current \in DOMAIN plan /\ Slots(Current) \subseteq DOMAIN proposal
        /\ \A s \in Slots(Current) : proposal[s].candidate # "failure"
        /\ Aimed(Current) = Targets
    BY DEF Aimed, Targets
  <2>2. Current > 0
    BY <1>3, <2>1 DEF StoryInv, RecordsInv, FrozenInv
  <2>3. PICK s \in Published : TRUE
    <3>1. EpochSize * Current \in Slots(Current)
      BY <1>2, SlotRange, SizeAssumption
    <3> QED BY <2>1, <3>1 DEF Published
  <2>4. Targets \subseteq Tried(proposal[s].gen.art)
    BY <2>1, <2>2, <2>3 DEF TriedInv, MarkedInv, Published
  <2>5. proposal[s].gen.art.guards = art.guards
    BY <1>1, <2>3 DEF TriedInv, GuardsInv, Published
  <2> QED BY <1>7, <2>1, <2>4, <2>5 DEF Tried
<1>11. SpentInv'
  <2>1. \A e \in Epoch : e < Current + 1 => Aimed(e) \subseteq Tried(campaign.gen.art)
    <3>1. \A e \in Epoch : e < Current + 1 => e < Current \/ e = Current
      BY <1>3 DEF Epoch
    <3> QED BY <1>10, <3>1 DEF TriedInv, SpentInv
  <2>2. Tried(campaign.gen.art)' = Tried(campaign.gen.art)
    BY <1>3 DEF Tried
  <2> QED BY <1>1, <1>3, <2>1, <2>2, AimedKept DEF TriedInv, SpentInv
<1> QED BY <1>8, <1>9, <1>11 DEF TriedInv

-----------------------------------------------------------------------------
LEMMA InitTried == Init => TriedInv
<1> SUFFICES ASSUME Init PROVE TriedInv
  OBVIOUS
<1>1. /\ DOMAIN plan = {} /\ DOMAIN proposal = {} /\ pc = "load" /\ ~campaign.active
      /\ campaign.gen.art = art /\ campaign.epoch = 0
  <2>1. DOMAIN plan = {} /\ DOMAIN proposal = {} /\ pc = "load"
    BY DEF Init
  <2>2. campaign.gen.art = art /\ campaign.epoch = 0
    BY DEF Init
  <2>3. campaign.active = FALSE
    BY DEF Init
  <2> QED BY <2>1, <2>2, <2>3
<1>2. Published = {} /\ Heading.art = art /\ Place = "load"
  BY <1>1 DEF Published, Heading, Snapshot, Place
<1>3. SearchInv /\ GuardsInv /\ MarkedInv
  BY <1>1, <1>2 DEF SearchInv, GuardsInv, MarkedInv
<1>4. \A e \in Epoch : Aimed(e) = {}
  BY <1>1 DEF Aimed
<1> QED BY <1>3, <1>4 DEF TriedInv, SpentInv, EachMutationOnce

LEMMA StutterTries == ASSUME TriedInv, UNCHANGED vars PROVE TriedInv'
<1>1. /\ UNCHANGED <<plan, proposal, campaign, version, fold, art, work>>
      /\ Heading' = Heading /\ Place' = Place
  BY DEF vars, files, generation, records, Heading, Snapshot, Place
<1>2. ~campaign.active => Tried(campaign.gen.art) \subseteq Tried(art') \cap Tried(Heading'.art)
  BY <1>1 DEF TriedInv, SearchInv
<1>3. campaign.active =>
        /\ art'.guards = art.guards /\ Heading'.art.guards = art.guards
        /\ \A s \in Slots(Current) :
             /\ s \in DOMAIN fold' => fold'[s].gen.art.guards = art.guards
             /\ s \in DOMAIN version' => version'[s].guards = art.guards
  BY <1>1 DEF TriedInv, GuardsInv
<1>4. Place' = "slots" /\ Current > 0 =>
        \/ \A s \in Slots(Current) : work'.results[s] = "failure"
        \/ /\ Current \in DOMAIN plan
           /\ Published = {} => Targets \subseteq Tried(Heading'.art)
  BY <1>1 DEF TriedInv, MarkedInv
<1> QED BY <1>1, <1>2, <1>3, <1>4, MoveKeeps

LEMMA StepTried == JudgeInv /\ StoryInv /\ TriedInv /\ [Next]_vars => TriedInv'
<1> SUFFICES ASSUME JudgeInv, StoryInv, TriedInv, [Next]_vars PROVE TriedInv'
  OBVIOUS
<1>1. CASE Load \/ RestoreFile \/ FilesRestored
  BY <1>1, LoadTries, RestoreStepsTry
<1>2. CASE \/ ProposeBootstrap \/ PlanningFails \/ ReplayPlan \/ PublishIntent \/ Settle
           \/ \E a \in Attempt : Synthesize(a) \/ SynthesisFails(a)
           \/ FoldFails \/ \E calls \in {0, 2} : FoldNothing(calls)
           \/ CompleteVersion \/ Crash
  BY <1>2, QuietStepsTry
<1>3. CASE ResumeIntent \/ WritePlan \/ AllMarked
  BY <1>3, ResumeIntentTries, WritePlanTries, AllMarkedTries
<1>4. CASE MarkTried \/ \E mutations \in SUBSET Mutations : ExtractGuards(mutations)
  BY <1>4, GuardStepsTry
<1>5. CASE PublishProposal \/ FindProposal \/ SaveEpoch
  BY <1>5, PublishProposalTries, FindProposalTries, SaveEpochTries
<1>6. CASE FoldAgain \/ PublishFold \/ \E purpose \in Purposes : StageVersion(purpose)
  BY <1>6, FoldStepsTry
<1>7. CASE WriteCache \/ WriteTree
  BY <1>7, WriteStepsTry
<1>8. CASE CommitFailure \/ Commit \/ Finalize
  BY <1>8, CommitStepsTry
<1>9. CASE EndEpoch \/ UNCHANGED vars
  BY <1>9, EndEpochTries, StutterTries
<1> QED BY <1>1, <1>2, <1>3, <1>4, <1>5, <1>6, <1>7, <1>8, <1>9 DEF Next

\* A mutation is aimed at by one epoch only: it is marked before the proposals that stand
\* for it, and what is put back never holds fewer marks (mark_tried, restore).
THEOREM MutationsAreSpentOnce == Spec => []EachMutationOnce
<1>1. Init => JudgeInv /\ StoryInv /\ TriedInv
  BY InitJudge, InitStory, InitTried
<1>2. JudgeInv /\ StoryInv /\ TriedInv /\ [Next]_vars => (JudgeInv /\ StoryInv /\ TriedInv)'
  BY StepJudge, StepStory, StepTried
<1>3. TriedInv => EachMutationOnce
  BY DEF TriedInv, SpentInv
<1> QED BY <1>1, <1>2, <1>3, PTL DEF Spec

-----------------------------------------------------------------------------
(* What becomes of the runs that are recorded. *)

\* The attempts whose fold receipt says that the run was taken in.
Ran == {a \in DOMAIN fold : fold[a].status = "folded"}

Memorized(gen) == gen.mem.folded
InTree(artifacts) == artifacts.tree.runs

\* A snapshot holds what is recorded, and its tree what its memory says it holds.
Grounded(gen) ==
  /\ Memorized(gen) \subseteq Ran
  /\ InTree(gen.art) \subseteq Ran \cap DOMAIN version
  /\ Memorized(gen) \cap DOMAIN version \subseteq InTree(gen.art)

\* Of the runs of an epoch a memory keeps the last ones; one it lost is followed by another
\* candidate of the epoch.
LaterIn(e, kept) ==
  \A a \in (Slots(e) \cap Ran) \ kept :
    /\ \E b \in Slots(e) \cap DOMAIN proposal : proposal[b].candidate = "case" /\ a < b
    /\ \A c \in Slots(e) \cap kept : a < c

Later(kept) == \A e \in Epoch : LaterIn(e, kept)

\* Folds are recorded one by one, in the order of the slots, after the failures.
OrderInv ==
  /\ campaign.folded \subseteq DOMAIN fold
  /\ DOMAIN fold \subseteq campaign.folded \cup {campaign.pending}
  /\ \A a \in campaign.folded \cap Slots(Current) : \A r \in Unfolded(Current) : a < r
  /\ campaign.folded \cap Slots(Current) # {} => Failures(Current) \subseteq campaign.committed
  /\ \A e \in Epoch : e < Current =>
       \A b \in Slots(e) \cap DOMAIN proposal :
         proposal[b].candidate = "case" => b \in campaign.folded

\* The snapshot of the record that campaign.json names last.
Latest == IF campaign.pending \in DOMAIN fold THEN fold[campaign.pending].gen ELSE campaign.gen

\* Every snapshot on disk is grounded. An epoch is planned without folding a run; the
\* snapshots it is reduced with hold what its proposals held, and these none of its runs.
StoredInv ==
  /\ Grounded(campaign.gen)
  /\ \A a \in DOMAIN proposal : Grounded(proposal[a].gen)
  /\ \A a \in DOMAIN fold : Grounded(fold[a].gen)
  /\ \A a \in DOMAIN version : InTree(version[a]) \subseteq (Ran \cap DOMAIN version) \cup {a}
  /\ campaign.pending \in DOMAIN version \ DOMAIN fold =>
       Memorized(campaign.gen) \cap DOMAIN version \subseteq InTree(version[campaign.pending])
  /\ Later(Memorized(Latest))
  /\ ~campaign.active => \A s \in Published :
       /\ Memorized(proposal[s].gen) = Memorized(campaign.gen)
       /\ InTree(proposal[s].gen.art) = InTree(campaign.gen.art)
  /\ campaign.active => \A s \in Slots(Current) :
       /\ Memorized(proposal[s].gen) \subseteq Memorized(campaign.gen) \cap Memorized(Latest)
       /\ Memorized(proposal[s].gen) \cap Slots(Current) = {}
       /\ \A e \in Epoch : e # Current => LaterIn(e, Memorized(proposal[s].gen))

\* The same of the generator, once it is restored.
LiveInv ==
  /\ crashes \in Nat
  /\ Place = "load" => Memorized(Heading) = {}
  /\ crashes = 0 => Ran \subseteq Memorized(Heading)
  /\ Place \notin {"load", "refused"} =>
       /\ Memorized(Heading) \subseteq Ran \cup IF Place = "folded" THEN {cur} ELSE {}
       /\ Place = "folded" => cur \in Memorized(Heading)
       /\ InTree(Heading.art) \subseteq (Ran \cup {campaign.pending}) \cap DOMAIN version
       /\ Memorized(Heading) \cap DOMAIN version \subseteq InTree(Heading.art)
       /\ Later(Memorized(Heading))
       /\ ~campaign.active =>
            /\ Memorized(Heading) = Memorized(campaign.gen)
            /\ InTree(Heading.art) = InTree(campaign.gen.art)
       /\ campaign.active => \A s \in Slots(Current) :
            Memorized(proposal[s].gen) \subseteq Memorized(Heading)
       /\ campaign.pending # None /\ campaign.pending \notin DOMAIN fold =>
            Memorized(campaign.gen) \subseteq Memorized(Heading)
       /\ campaign.pending \in DOMAIN fold =>
            Memorized(Heading) = Memorized(fold[campaign.pending].gen)
       /\ Place \in {"cache", "tree"} =>
            /\ cur \in DOMAIN version
            /\ Memorized(Heading) \cap DOMAIN version \subseteq InTree(version[cur])

KeptInv == OrderInv /\ StoredInv /\ LiveInv

-----------------------------------------------------------------------------
(* Steps that leave the stored part alone. *)

SameVersions ==
  DOMAIN version' = DOMAIN version /\ \A a \in DOMAIN version : version'[a] = version[a]

LEMMA StoredKept ==
  ASSUME OrderInv, StoredInv, UNCHANGED <<proposal, fold, campaign>>, SameVersions
  PROVE  /\ OrderInv' /\ StoredInv' /\ Ran' = Ran /\ Current' = Current
         /\ Slots(Current)' = Slots(Current)
         /\ \A S : Later(S)' = Later(S)
<1>1. /\ Ran' = Ran /\ Current' = Current /\ Slots(Current)' = Slots(Current)
      /\ Published' = Published /\ Failures(Current)' = Failures(Current)
      /\ Unfolded(Current)' = Unfolded(Current)
  BY DEF Ran, Current, Slots, Published, Failures, Unfolded
<1>2. \A e, S : LaterIn(e, S)' = LaterIn(e, S)
  BY <1>1 DEF LaterIn, Slots
<1>3. \A S : Later(S)' = Later(S)
  BY <1>2 DEF Later
<1>4. OrderInv'
  BY <1>1 DEF OrderInv, Slots
<1>5. Latest' = Latest
  BY DEF Latest
<1>6. /\ Grounded(campaign.gen)'
      /\ \A a \in DOMAIN proposal' : Grounded(proposal[a].gen)'
      /\ \A a \in DOMAIN fold' : Grounded(fold[a].gen)'
  BY <1>1 DEF StoredInv, Grounded, SameVersions, Memorized, InTree
<1>7. /\ \A a \in DOMAIN version' :
           InTree(version[a])' \subseteq (Ran' \cap DOMAIN version') \cup {a}
      /\ campaign'.pending \in DOMAIN version' \ DOMAIN fold' =>
           Memorized(campaign.gen)' \cap DOMAIN version'
             \subseteq InTree(version[campaign.pending])'
  BY <1>1 DEF StoredInv, SameVersions, Memorized, InTree
<1>8. Later(Memorized(Latest))'
  BY <1>2, <1>5 DEF StoredInv, Later, Memorized
<1>9. \A e \in Epoch : \A s \in Slots(Current) :
        LaterIn(e, Memorized(proposal[s].gen))' = LaterIn(e, Memorized(proposal[s].gen))
  BY <1>2 DEF Memorized
<1>10. StoredInv'
  BY <1>1, <1>5, <1>6, <1>7, <1>8, <1>9 DEF StoredInv, Memorized, InTree
<1> QED BY <1>1, <1>3, <1>4, <1>10

\* The generator goes on with the runs it holds, whichever place it comes to.
LEMMA HeldKept ==
  ASSUME KeptInv, UNCHANGED <<proposal, fold, campaign, crashes>>, SameVersions,
         Memorized(Heading') = Memorized(Heading), InTree(Heading'.art) = InTree(Heading.art),
         Place' = "load" => Place = "load",
         Place \in {"load", "refused"} => Place' \in {"load", "refused"},
         Place = "folded" \/ Place' = "folded" => Place' \in {Place, "refused"} /\ cur' = cur,
         Place' \in {"cache", "tree"} => Place \in {"cache", "tree"} /\ cur' = cur
  PROVE  KeptInv'
<1>1. /\ OrderInv' /\ StoredInv' /\ Ran' = Ran /\ Slots(Current)' = Slots(Current)
      /\ \A S : Later(S)' = Later(S)
  BY StoredKept DEF KeptInv
<1>2. Later(Memorized(Heading))' = Later(Memorized(Heading))
  BY <1>1 DEF Memorized
<1>3. /\ Memorized(Heading)' = Memorized(Heading) /\ InTree(Heading.art)' = InTree(Heading.art)
      /\ Memorized(campaign.gen)' = Memorized(campaign.gen)
      /\ InTree(campaign.gen.art)' = InTree(campaign.gen.art)
      /\ Memorized(fold[campaign.pending].gen)' = Memorized(fold[campaign.pending].gen)
      /\ \A s : Memorized(proposal[s].gen)' = Memorized(proposal[s].gen)
  BY DEF Memorized, InTree
<1>4. Place' \notin {"load", "refused"} => Place \notin {"load", "refused"}
  OBVIOUS
<1>5. Place' \in {"cache", "tree"} =>
        /\ Memorized(Heading) \cap DOMAIN version \subseteq InTree(version[cur])
        /\ cur \in DOMAIN version /\ InTree(version[cur])' = InTree(version[cur])
  BY <1>4 DEF KeptInv, LiveInv, SameVersions, InTree
<1>6. LiveInv'
  BY <1>1, <1>2, <1>3, <1>4, <1>5 DEF KeptInv, LiveInv, SameVersions
<1> QED BY <1>1, <1>6 DEF KeptInv

LEMMA QuietStepsKeep ==
  ASSUME JudgeInv, StoryInv, KeptInv,
         \/ ProposeBootstrap \/ PlanningFails \/ ReplayPlan \/ PublishIntent \/ WritePlan
         \/ Settle \/ AllMarked \/ FoldFails
         \/ \E a \in Attempt : Synthesize(a) \/ SynthesisFails(a)
  PROVE  KeptInv'
<1>1. UNCHANGED <<proposal, fold, campaign, crashes, version, art>>
  <2>1. CASE ProposeBootstrap \/ PlanningFails \/ ReplayPlan \/ PublishIntent \/ WritePlan
    BY <2>1 DEF ProposeBootstrap, PlanningFails, ReplayPlan, PublishIntent, WritePlan, files,
                generation, records, bounds
  <2>2. CASE \/ Settle \/ AllMarked \/ FoldFails
             \/ \E a \in Attempt : Synthesize(a) \/ SynthesisFails(a)
    BY <2>2 DEF Settle, AllMarked, FoldFails, Synthesize, SynthesisFails, files, generation,
                records, bounds
  <2> QED BY <2>1, <2>2
<1>2. /\ pc \in BeforeProposals \cup {"loop", "fold"}
      /\ pc' \in BeforeProposals \cup {"failed"}
      /\ mem' = mem \/ \E cost, stats : mem' = [mem EXCEPT !.cost = cost, !.stats = stats]
                    \/ mem' = [mem EXCEPT !.cost = cost]
  <2>1. CASE ProposeBootstrap \/ PlanningFails \/ PublishIntent \/ AllMarked \/ FoldFails
    BY <2>1 DEF ProposeBootstrap, PlanningFails, PublishIntent, AllMarked, FoldFails, Planning,
                ToSlots, BeforeProposals
  <2>2. CASE ReplayPlan
    BY <2>2, ReplayIsAccepted DEF ReplayPlan, Planning, BeforeProposals
  <2>3. CASE Settle
    BY <2>3, SettleIsAccepted DEF Settle, BeforeProposals
  <2>4. CASE WritePlan
    BY <2>4 DEF WritePlan, BeforeProposals
  <2>5. CASE \E a \in Attempt : Synthesize(a) \/ SynthesisFails(a)
    BY <2>5 DEF Synthesize, SynthesisFails, BeforeProposals
  <2> QED BY <2>1, <2>2, <2>3, <2>4, <2>5
<1>3. Place = pc /\ Place' = pc' /\ Heading = Snapshot /\ Heading' = Snapshot'
  BY <1>2 DEF Place, Heading, BeforeProposals
<1>4. mem = [cost |-> mem.cost, stats |-> mem.stats, folded |-> mem.folded]
  BY <1>3 DEF StoryInv, StepsInv, Memory, Snapshot
<1>5. mem'.folded = mem.folded
  BY <1>2, <1>4
<1>6. Memorized(Heading') = Memorized(Heading) /\ InTree(Heading'.art) = InTree(Heading.art)
  BY <1>1, <1>3, <1>5 DEF Memorized, InTree, Snapshot
<1> QED BY <1>1, <1>2, <1>3, <1>6, HeldKept DEF SameVersions, BeforeProposals

\* The guard file is no part of what is held, nor is the judgment cache.
LEMMA FileStepsKeep ==
  ASSUME JudgeInv, StoryInv, KeptInv,
         MarkTried \/ WriteCache \/ \E mutations \in SUBSET Mutations : ExtractGuards(mutations)
  PROVE  KeptInv'
<1>1. /\ UNCHANGED <<proposal, fold, campaign, crashes, version, cur>>
      /\ \/ pc \in {"extract", "mark"} /\ pc' \in {"select", "mark"}
         \/ pc = "cache" /\ pc' = "tree"
      /\ mem' = mem \/ \E cost : mem' = [mem EXCEPT !.cost = cost]
      /\ art' = art \/ \E x : art' = [art EXCEPT !.guards = x] \/ art' = [art EXCEPT !.cache = x]
  <2>1. CASE MarkTried
    BY <2>1 DEF MarkTried, SavedGuards, generation, records, bounds
  <2>2. CASE WriteCache
    BY <2>2 DEF WriteCache, generation, records, bounds
  <2>3. CASE \E mutations \in SUBSET Mutations : ExtractGuards(mutations)
    BY <2>3 DEF ExtractGuards, SavedGuards, generation, records, bounds
  <2> QED BY <2>1, <2>2, <2>3
<1>2. Place = pc /\ Place' = pc' /\ Heading = Snapshot /\ Heading' = Snapshot'
  BY <1>1 DEF Place, Heading
<1>3. mem = [cost |-> mem.cost, stats |-> mem.stats, folded |-> mem.folded]
  BY <1>2 DEF StoryInv, StepsInv, Memory, Snapshot
<1>4. mem'.folded = mem.folded
  BY <1>1, <1>3
<1>5. art'.tree = art.tree
  BY <1>1 DEF JudgeInv, DurableInv, SnapshotsOK, Artifacts, Files
<1>6. Memorized(Heading') = Memorized(Heading) /\ InTree(Heading'.art) = InTree(Heading.art)
  BY <1>2, <1>4, <1>5 DEF Memorized, InTree, Snapshot
<1> QED BY <1>1, <1>2, <1>6, HeldKept DEF SameVersions

LEMMA RestoreStepsKeep ==
  ASSUME JudgeInv, KeptInv, RestoreFile \/ FilesRestored
  PROVE  KeptInv'
<1>1. UNCHANGED <<proposal, fold, campaign, crashes, version, cur>> /\ pc = "restore"
  BY DEF RestoreFile, FilesRestored, generation, records, bounds
<1>2. /\ DOMAIN job = {"target", "left", "mem", "then"}
      /\ Artifacts(job.target) /\ Artifacts(art)
      /\ job.then \in {"recovered", "loop", "extract", "slots"}
      /\ \E n \in 0 .. 3 : job.left = Left(n) /\ \A f \in Written(n) : art[f] = job.target[f]
  BY <1>1 DEF JudgeInv, ControlInv, RestoringOK, DurableInv, SnapshotsOK
<1>3. Heading'.mem = Heading.mem /\ Heading'.art = Heading.art /\ Place' \in {Place, "loop"}
  <2>1. CASE RestoreFile
    <3>1. pc' = "restore" /\ job' = [job EXCEPT !.left = Tail(job.left)]
      BY <1>1, <2>1 DEF RestoreFile
    <3>2. job'.target = job.target /\ job'.mem = job.mem /\ job'.then = job.then
      BY <1>2, <3>1
    <3> QED BY <1>1, <3>1, <3>2 DEF Heading, Place
  <2>2. CASE FilesRestored
    <3>1. /\ job.left = <<>> /\ mem' = job.mem /\ art' = art
          /\ pc' = IF job.then = "recovered" THEN "loop" ELSE job.then
      BY <2>2 DEF FilesRestored
    <3>2. PICK n \in 0 .. 3 : /\ job.left = Left(n)
                              /\ \A f \in Written(n) : art[f] = job.target[f]
      BY <1>2
    <3>3. Written(n) = Files
      BY <3>1, <3>2 DEF Left, Written, AllFiles
    <3>4. art = job.target
      BY <1>2, <3>2, <3>3, SameFiles
    <3>5. pc' # "restore"
      BY <1>2, <3>1
    <3> QED BY <1>1, <1>2, <3>1, <3>4, <3>5 DEF Heading, Snapshot, Place
  <2> QED BY <2>1, <2>2
<1>4. Place \in {"recovered", "loop", "extract", "slots"}
  BY <1>1, <1>2 DEF Place
<1>5. Memorized(Heading') = Memorized(Heading) /\ InTree(Heading'.art) = InTree(Heading.art)
  BY <1>3 DEF Memorized, InTree
<1> QED BY <1>1, <1>3, <1>4, <1>5, HeldKept DEF SameVersions

LEMMA StutterKeepsRuns == ASSUME KeptInv, UNCHANGED vars PROVE KeptInv'
<1>1. /\ UNCHANGED <<proposal, fold, campaign, crashes, version, cur>>
      /\ Heading' = Heading /\ Place' = Place
  BY DEF vars, files, records, bounds, Heading, Snapshot, Place
<1> QED BY <1>1, HeldKept DEF SameVersions, Memorized, InTree

-----------------------------------------------------------------------------
(* Restorations. *)

\* What a process may restore holds what is needed to go on with it.
LEMMA RestoredKeeps ==
  ASSUME KeptInv, UNCHANGED <<proposal, fold, campaign, version, crashes>>,
         Place' \in {"loop", "recovered", "extract", "slots"},
         crashes = 0 => Ran \subseteq Memorized(Heading'),
         Memorized(Heading') \subseteq Ran,
         InTree(Heading'.art) \subseteq (Ran \cup {campaign.pending}) \cap DOMAIN version,
         Memorized(Heading') \cap DOMAIN version \subseteq InTree(Heading'.art),
         Later(Memorized(Heading')),
         ~campaign.active =>
           /\ Memorized(Heading') = Memorized(campaign.gen)
           /\ InTree(Heading'.art) = InTree(campaign.gen.art),
         campaign.active => \A s \in Slots(Current) :
           Memorized(proposal[s].gen) \subseteq Memorized(Heading'),
         campaign.pending # None /\ campaign.pending \notin DOMAIN fold =>
           Memorized(campaign.gen) \subseteq Memorized(Heading'),
         campaign.pending \in DOMAIN fold =>
           Memorized(Heading') = Memorized(fold[campaign.pending].gen)
  PROVE  KeptInv'
<1>1. SameVersions
  BY DEF SameVersions
<1>2. /\ OrderInv' /\ StoredInv' /\ Ran' = Ran /\ Slots(Current)' = Slots(Current)
      /\ \A S : Later(S)' = Later(S)
  BY <1>1, StoredKept DEF KeptInv
<1>3. /\ Memorized(Heading)' = Memorized(Heading') /\ InTree(Heading.art)' = InTree(Heading'.art)
      /\ Memorized(campaign.gen)' = Memorized(campaign.gen)
      /\ InTree(campaign.gen.art)' = InTree(campaign.gen.art)
      /\ Memorized(fold[campaign.pending].gen)' = Memorized(fold[campaign.pending].gen)
      /\ \A s : Memorized(proposal[s].gen)' = Memorized(proposal[s].gen)
  BY DEF Memorized, InTree
<1>4. Later(Memorized(Heading))'
  BY <1>2, <1>3
<1>5. LiveInv'
  BY <1>2, <1>3, <1>4 DEF KeptInv, LiveInv
<1> QED BY <1>2, <1>5 DEF KeptInv

\* A restoration that is refused leaves the generator with what it holds.
LEMMA RefusedKeeps ==
  ASSUME KeptInv, UNCHANGED <<proposal, fold, campaign, version, crashes>>,
         Place' = "refused", crashes = 0 => Ran \subseteq Memorized(Heading')
  PROVE  KeptInv'
<1>1. SameVersions
  BY DEF SameVersions
<1>2. OrderInv' /\ StoredInv' /\ Ran' = Ran
  BY <1>1, StoredKept DEF KeptInv
<1>3. LiveInv'
  BY <1>2 DEF KeptInv, LiveInv, Memorized
<1> QED BY <1>2, <1>3 DEF KeptInv

\* The proposal of a slot that is still to be charged leaves all that was folded in its
\* epoch to be followed: by the slot itself, when it is not a failure.
LEMMA ProposalIsLater ==
  ASSUME JudgeInv, StoryInv, KeptInv, campaign.active, campaign.pending = None,
         NEW s \in Slots(Current), s \notin campaign.committed
  PROVE  Later(Memorized(proposal[s].gen))
<1> DEFINE kept == Memorized(proposal[s].gen)
<1>1. /\ CampaignOK /\ RecordsOK /\ None \notin DOMAIN fold /\ s \in DOMAIN proposal
      /\ campaign.folded \subseteq campaign.committed
  BY NoneHasNoRecord DEF JudgeInv, DurableInv, CampaignOK, StoryInv, RecordsInv, EpochsInv
<1>2. kept \cap Slots(Current) = {} /\ \A e \in Epoch : e # Current => LaterIn(e, kept)
  BY DEF KeptInv, StoredInv
<1>3. ASSUME NEW a \in Slots(Current) \cap Ran
      PROVE  proposal[s].candidate = "case" /\ a < s
  <2>1. a \in campaign.folded \cap Slots(Current)
    BY <1>1, <1>3 DEF KeptInv, OrderInv, Ran
  <2>2. s \notin Failures(Current) /\ s \in Unfolded(Current)
    BY <1>1, <2>1 DEF KeptInv, OrderInv, Unfolded
  <2> QED BY <2>1, <2>2 DEF KeptInv, OrderInv, Failures
<1>4. LaterIn(Current, kept)
  BY <1>1, <1>2, <1>3 DEF LaterIn
<1> HIDE DEF kept
<1>5. Later(kept)
  BY <1>2, <1>4 DEF Later
<1> QED BY <1>5 DEF kept

\* The snapshot of an uncharged proposal is one to go on with.
LEMMA UnchargedIsBase ==
  ASSUME JudgeInv, StoryInv, KeptInv, campaign.pending = None, NEW l \in Published,
         l \notin campaign.committed
  PROVE  /\ Later(Memorized(proposal[l].gen))
         /\ ~campaign.active =>
              /\ Memorized(proposal[l].gen) = Memorized(campaign.gen)
              /\ InTree(proposal[l].gen.art) = InTree(campaign.gen.art)
         /\ campaign.active => \A s \in Slots(Current) :
              Memorized(proposal[s].gen) = Memorized(proposal[l].gen)
<1>1. l \in Slots(Current) /\ None \notin DOMAIN fold
  BY NoneHasNoRecord DEF Published, JudgeInv, DurableInv
<1>2. CASE campaign.active
  <2>1. Later(Memorized(proposal[l].gen))
    BY <1>1, <1>2, ProposalIsLater
  <2>2. \A s \in Slots(Current) : s \in Published
    BY <1>2 DEF JudgeInv, DurableInv, CampaignOK, Published
  <2>3. \A s \in Slots(Current) : proposal[s].gen = proposal[l].gen
    BY <1>1, <2>2 DEF StoryInv, RecordsInv, EpochsInv
  <2> QED BY <1>2, <2>1, <2>3
<1>3. CASE ~campaign.active
  <2>1. /\ Memorized(proposal[l].gen) = Memorized(campaign.gen)
        /\ InTree(proposal[l].gen.art) = InTree(campaign.gen.art)
    BY <1>3 DEF KeptInv, StoredInv
  <2>2. Latest = campaign.gen
    BY <1>1 DEF Latest
  <2> QED BY <1>3, <2>1, <2>2 DEF KeptInv, StoredInv
<1> QED BY <1>2, <1>3

LEMMA LoadKeepsRuns == ASSUME JudgeInv, StoryInv, KeptInv, Load PROVE KeptInv'
<1>1. /\ UNCHANGED <<proposal, fold, campaign, version, crashes, art>> /\ pc = "load"
      /\ None \notin DOMAIN fold \cup DOMAIN version
  BY NoneHasNoRecord DEF Load, files, generation, records, bounds, JudgeInv, DurableInv
<1>2. Heading = Snapshot /\ (crashes = 0 => Ran = {}) /\ Memorized(Heading) = {}
  BY <1>1 DEF Place, Heading, KeptInv, LiveInv
<1>3. CASE campaign.pending # None /\ campaign.pending \notin DOMAIN fold
  <2> DEFINE a == campaign.pending
  <2>1. campaign.active
    BY <1>3 DEF JudgeInv, DurableInv, PendingOK
  <2>2. RestorePending(a)
    BY <1>3 DEF Load
  <2>3. /\ Place' \in {"loop", "recovered", "refused"} /\ Heading'.mem = campaign.gen.mem
        /\ Place' # "refused" =>
             \/ Heading'.art = campaign.gen.art
             \/ a \in DOMAIN version /\ Heading'.art = version[a]
    BY <1>1, <2>2 DEF RestorePending, StartRestore, Heading, Snapshot, Place
  <2>4. Latest = campaign.gen /\ Memorized(Heading') = Memorized(campaign.gen)
    BY <1>3, <2>3 DEF Latest, Memorized
  <2>5. CASE Place' = "refused"
    BY <1>1, <1>2, <2>5, RefusedKeeps
  <2>6. CASE Place' # "refused"
    <3>1. /\ InTree(Heading'.art) \subseteq (Ran \cup {a}) \cap DOMAIN version
          /\ Memorized(Heading') \cap DOMAIN version \subseteq InTree(Heading'.art)
      <4>1. CASE Heading'.art = campaign.gen.art
        BY <2>4, <4>1 DEF KeptInv, StoredInv, Grounded, InTree
      <4>2. CASE a \in DOMAIN version /\ Heading'.art = version[a]
        BY <1>3, <2>4, <4>2 DEF KeptInv, StoredInv, InTree
      <4> QED BY <2>3, <2>6, <4>1, <4>2
    <3>2. /\ Memorized(Heading') \subseteq Ran /\ Later(Memorized(Heading'))
          /\ \A s \in Slots(Current) : Memorized(proposal[s].gen) \subseteq Memorized(Heading')
      BY <2>1, <2>4 DEF KeptInv, StoredInv, Grounded
    <3> QED BY <1>1, <1>2, <1>3, <2>1, <2>3, <2>4, <2>6, <3>1, <3>2, RestoredKeeps
  <2> QED BY <2>5, <2>6
<1>4. CASE ~(campaign.pending # None /\ campaign.pending \notin DOMAIN fold)
  <2> DEFINE gen == RestoredOnLoad
  <2>1. RestoreExact(gen, "loop") /\ Whole(gen)
    BY <1>4, LoadedIsBase DEF Load
  <2>2. /\ Grounded(gen) /\ Later(Memorized(gen))
        /\ ~campaign.active =>
             /\ Memorized(gen) = Memorized(campaign.gen)
             /\ InTree(gen.art) = InTree(campaign.gen.art)
        /\ campaign.active => \A s \in Slots(Current) :
             Memorized(proposal[s].gen) \subseteq Memorized(gen)
        /\ campaign.pending \in DOMAIN fold => gen = fold[campaign.pending].gen
    <3>1. CASE campaign.pending # None
      <4>1. gen = fold[campaign.pending].gen /\ gen = Latest /\ campaign.active
        BY <1>4, <3>1 DEF RestoredOnLoad, Latest, JudgeInv, DurableInv, PendingOK
      <4> HIDE DEF gen
      <4> QED BY <1>4, <3>1, <4>1 DEF KeptInv, StoredInv
    <3>2. CASE campaign.pending = None /\ Uncommitted # {}
      <4>1. Last(Uncommitted) \in Uncommitted
        BY <3>2, LastIsGreatest DEF Uncommitted, JudgeInv, DurableInv, RecordsOK
      <4>2. PICK l \in Published : l \notin campaign.committed /\ gen = proposal[l].gen
        BY <3>2, <4>1 DEF StoryInv, RecordsInv, EpochsInv, Uncommitted, Published, RestoredOnLoad
      <4>3. Grounded(proposal[l].gen)
        BY DEF KeptInv, StoredInv, Published
      <4> HIDE DEF gen
      <4> QED BY <1>1, <3>2, <4>2, <4>3, UnchargedIsBase
    <3>3. CASE campaign.pending = None /\ Uncommitted = {}
      <4>1. gen = campaign.gen /\ Latest = campaign.gen
        BY <1>1, <3>3 DEF RestoredOnLoad, Latest
      <4> HIDE DEF gen
      <4> QED BY <1>1, <3>3, <4>1 DEF KeptInv, StoredInv
    <3> QED BY <3>1, <3>2, <3>3
  <2> HIDE DEF gen
  <2>3. \/ Place' = "loop" /\ Heading' = gen
        \/ Place' = "refused" /\ Heading'.mem = Heading.mem
    BY <1>1, <2>1, HeadsFor
  <2>4. CASE Place' = "loop" /\ Heading' = gen
    <3>1. /\ Memorized(Heading') = Memorized(gen) /\ InTree(Heading'.art) = InTree(gen.art)
          /\ Memorized(gen) \subseteq Ran /\ InTree(gen.art) \subseteq Ran \cap DOMAIN version
          /\ Memorized(gen) \cap DOMAIN version \subseteq InTree(gen.art)
      BY <2>2, <2>4 DEF Grounded
    <3>2. campaign.pending \in DOMAIN fold =>
            Memorized(gen) = Memorized(fold[campaign.pending].gen)
      BY <2>2
    <3> QED BY <1>1, <1>2, <1>4, <2>2, <2>4, <3>1, <3>2, RestoredKeeps
  <2>5. CASE Place' = "refused" /\ Heading'.mem = Heading.mem
    BY <1>1, <1>2, <2>5, RefusedKeeps
  <2> QED BY <2>3, <2>4, <2>5
<1> QED BY <1>3, <1>4

LEMMA ResumeIntentKeepsRuns ==
  ASSUME JudgeInv, StoryInv, KeptInv, ResumeIntent
  PROVE  KeptInv'
<1>1. /\ UNCHANGED <<proposal, fold, campaign, version, crashes, art>> /\ Planning
      /\ Current \in DOMAIN intent /\ ~campaign.active /\ pc = "loop"
  BY DEF ResumeIntent, Planning, files, generation, records, bounds
<1>2. Frozen = campaign.gen
  BY <1>1, FrozenIsBase
<1>3. intent[Current] = [pre |-> campaign.gen.art, frozen |-> campaign.gen]
  BY <1>1 DEF StoryInv, RecordsInv, FrozenInv
<1>4. Place' = "extract" /\ Heading'.art = campaign.gen.art /\ Heading'.mem = mem
  <2>1. CASE art = intent[Current].pre
    BY <1>1, <1>2, <1>3, <2>1 DEF ResumeIntent, Place, Heading, Snapshot
  <2>2. CASE art # intent[Current].pre
    BY <1>1, <1>2, <1>3, <2>2 DEF ResumeIntent, StartRestore, Place, Heading
  <2> QED BY <2>1, <2>2
<1>5. Place = "loop" /\ Heading = Snapshot
  BY <1>1 DEF Place, Heading
<1>6. InTree(Heading.art) = InTree(campaign.gen.art)
  BY <1>1, <1>5 DEF KeptInv, LiveInv
<1>7. Memorized(Heading') = Memorized(Heading) /\ InTree(Heading'.art) = InTree(Heading.art)
  BY <1>4, <1>5, <1>6 DEF Memorized, InTree, Snapshot
<1> QED BY <1>1, <1>4, <1>5, <1>7, HeldKept DEF SameVersions

LEMMA FindProposalKeepsRuns ==
  ASSUME JudgeInv, StoryInv, KeptInv, FindProposal
  PROVE  KeptInv'
<1>1. /\ UNCHANGED <<proposal, fold, campaign, version, crashes, art>> /\ pc = "slots"
      /\ cur \in Published /\ RestoreExact(proposal[cur].gen, "slots")
  BY DEF FindProposal, Published, files, generation, records, bounds
<1>2. ~campaign.active /\ Whole(proposal[cur].gen) /\ Place = "slots"
  BY <1>1 DEF JudgeInv, ControlInv, PlanningOK, BeforeProposals, StoryInv, RecordsInv,
              WholeInv, Published, Place
<1>3. \/ Place' = "slots" /\ Heading' = proposal[cur].gen
      \/ Place' = "refused" /\ Heading'.mem = Heading.mem
  BY <1>1, <1>2, HeadsFor
<1>4. CASE Place' = "slots" /\ Heading' = proposal[cur].gen
  <2>1. Memorized(Heading') = Memorized(Heading) /\ InTree(Heading'.art) = InTree(Heading.art)
    BY <1>1, <1>2, <1>4 DEF KeptInv, StoredInv, LiveInv
  <2> QED BY <1>1, <1>2, <1>4, <2>1, HeldKept DEF SameVersions
<1>5. CASE Place' = "refused" /\ Heading'.mem = Heading.mem
  <2>1. crashes = 0 => Ran \subseteq Memorized(Heading')
    BY <1>5 DEF KeptInv, LiveInv, Memorized
  <2> QED BY <1>1, <1>5, <2>1, RefusedKeeps
<1> QED BY <1>3, <1>4, <1>5

\* The generator dies, and what is on disk is what it was.
LEMMA CrashKeepsRuns == ASSUME KeptInv, Crash PROVE KeptInv'
<1>1. /\ UNCHANGED <<proposal, fold, campaign, version>> /\ crashes' = crashes + 1
      /\ pc' = "load" /\ mem' = FreshMemory
  BY DEF Crash, files, generation, records
<1>2. SameVersions
  BY <1>1 DEF SameVersions
<1>3. OrderInv' /\ StoredInv'
  BY <1>1, <1>2, StoredKept DEF KeptInv
<1>4. Place' = "load" /\ Memorized(Heading)' = {}
  BY <1>1 DEF Place, Heading, Snapshot, Memorized, FreshMemory
<1>5. crashes' \in Nat /\ crashes' # 0
  BY <1>1 DEF KeptInv, LiveInv
<1>6. LiveInv'
  BY <1>4, <1>5 DEF LiveInv
<1> QED BY <1>3, <1>6 DEF KeptInv

-----------------------------------------------------------------------------
(* The proposals of an epoch, and its charges. *)

\* A snapshot with the runs of another one is as grounded.
LEMMA GroundedAlike ==
  ASSUME NEW g, NEW h, Grounded(g), Memorized(h) = Memorized(g), InTree(h.art) = InTree(g.art)
  PROVE  Grounded(h)
  BY DEF Grounded

LEMMA PublishProposalKeepsRuns ==
  ASSUME JudgeInv, StoryInv, KeptInv, PublishProposal
  PROVE  KeptInv'
<1>1. /\ UNCHANGED <<fold, campaign, version, crashes, art, mem>> /\ pc = "slots"
      /\ pc' = "slots" /\ cur \in Slots(Current) \ DOMAIN proposal
      /\ proposal' = With(proposal, cur, [candidate |-> work.results[cur],
                                          frozen |-> work.frozen, gen |-> Snapshot])
  BY DEF PublishProposal, files, generation, bounds
<1>2. /\ ~campaign.active /\ CampaignOK /\ RecordsOK /\ campaign.pending = None
      /\ campaign.folded \cap Slots(Current) = {} /\ None \notin DOMAIN fold
      /\ None \notin DOMAIN version
  BY <1>1, PlanningHasNoFold, NoneHasNoRecord
  DEF JudgeInv, ControlInv, PlanningOK, DurableInv, BeforeProposals, StoryInv, RecordsInv,
      EpochsInv
<1>3. Place = "slots" /\ Place' = "slots" /\ Heading = Snapshot /\ Heading' = Snapshot
  BY <1>1 DEF Place, Heading, Snapshot
<1>4. /\ DOMAIN proposal' = DOMAIN proposal \cup {cur}
      /\ \A a \in DOMAIN proposal : proposal'[a] = proposal[a]
      /\ proposal'[cur].gen = Snapshot
  <2>1. cur \notin DOMAIN proposal
    BY <1>1
  <2> QED BY <1>1, <2>1 DEF With
<1>5. /\ Current' = Current /\ Slots(Current)' = Slots(Current) /\ Ran' = Ran
      /\ Published' = Published \cup {cur} /\ Latest' = Latest
  BY <1>1, <1>4 DEF Current, Slots, Ran, Published, Latest
<1>6. /\ Memorized(Snapshot) = Memorized(campaign.gen)
      /\ InTree(Snapshot.art) = InTree(campaign.gen.art)
  BY <1>2, <1>3 DEF KeptInv, LiveInv
<1>7. \A S : Later(S) => Later(S)'
  <2>1. ASSUME NEW e \in Epoch, NEW S, LaterIn(e, S) PROVE LaterIn(e, S)'
    BY <1>1, <1>4, <1>5, <2>1 DEF LaterIn, Slots
  <2> QED BY <2>1 DEF Later
<1>8. OrderInv'
  <2>1. \A e \in Epoch : e < Current => cur \notin Slots(e)
    BY <1>1, <1>2, EarlierSlots
  <2> QED BY <1>1, <1>2, <1>4, <1>5, <2>1 DEF KeptInv, OrderInv, Slots
<1>9. \A a \in DOMAIN proposal' : Grounded(proposal[a].gen)'
  <2>1. Grounded(campaign.gen) /\ \A a \in DOMAIN proposal : Grounded(proposal[a].gen)
    BY DEF KeptInv, StoredInv
  <2>2. Grounded(Snapshot)
    BY <1>6, <2>1, GroundedAlike
  <2>3. \A a \in DOMAIN proposal' : Grounded(proposal'[a].gen)
    BY <1>4, <2>1, <2>2
  <2> QED BY <1>1, <1>5, <2>3 DEF Grounded, Memorized, InTree
<1>10. Grounded(campaign.gen)' /\ \A a \in DOMAIN fold' : Grounded(fold[a].gen)'
  BY <1>1, <1>5 DEF KeptInv, StoredInv, Grounded, Memorized, InTree
<1>11. \A a \in DOMAIN version' : InTree(version[a])' \subseteq (Ran' \cap DOMAIN version') \cup {a}
  BY <1>1, <1>5 DEF KeptInv, StoredInv, InTree
<1>12. Later(Memorized(Latest))'
  BY <1>5, <1>7 DEF KeptInv, StoredInv, Memorized
<1>13. \A s \in Published' :
         /\ Memorized(proposal[s].gen)' = Memorized(campaign.gen)'
         /\ InTree(proposal[s].gen.art)' = InTree(campaign.gen.art)'
  BY <1>1, <1>2, <1>4, <1>5, <1>6 DEF KeptInv, StoredInv, Published, Memorized, InTree
<1>14. StoredInv'
  BY <1>1, <1>2, <1>9, <1>10, <1>11, <1>12, <1>13 DEF StoredInv
<1>15. /\ Memorized(Heading)' = Memorized(Heading) /\ InTree(Heading.art)' = InTree(Heading.art)
       /\ Memorized(campaign.gen)' = Memorized(campaign.gen)
       /\ InTree(campaign.gen.art)' = InTree(campaign.gen.art)
  BY <1>1, <1>3 DEF Memorized, InTree
<1>16. Later(Memorized(Heading))'
  BY <1>3, <1>7, <1>15 DEF KeptInv, LiveInv
<1>17. LiveInv'
  BY <1>1, <1>2, <1>3, <1>5, <1>15, <1>16 DEF KeptInv, LiveInv
<1> QED BY <1>8, <1>14, <1>17 DEF KeptInv

\* campaign.json takes the snapshot of a proposal in, in an epoch that goes on.
LEMMA ChargeKeeps ==
  ASSUME JudgeInv, KeptInv, UNCHANGED <<proposal, fold, version, crashes, art, mem>>,
         Place = pc, Place' = pc', Heading = Snapshot, Heading' = Snapshot,
         pc \notin {"load", "refused", "folded"}, pc' \in {"loop", "fold"},
         campaign'.active, campaign'.epoch = campaign.epoch,
         campaign'.folded = campaign.folded, campaign.committed \subseteq campaign'.committed,
         campaign.pending = None, campaign'.pending \notin DOMAIN fold \cup DOMAIN version,
         Grounded(campaign'.gen), Later(Memorized(campaign'.gen)),
         \A s \in Slots(Current) :
           /\ Memorized(proposal[s].gen) = Memorized(campaign'.gen)
           /\ Memorized(proposal[s].gen) \cap Slots(Current) = {}
           /\ \A e \in Epoch : e # Current => LaterIn(e, Memorized(proposal[s].gen)),
         Memorized(campaign'.gen) \subseteq Memorized(Snapshot)
  PROVE  KeptInv'
<1>1. /\ Current' = Current /\ Slots(Current)' = Slots(Current) /\ Ran' = Ran
      /\ Unfolded(Current)' = Unfolded(Current) /\ Failures(Current)' = Failures(Current)
      /\ None \notin DOMAIN fold /\ None \notin DOMAIN version
  BY NoneHasNoRecord DEF Current, Slots, Ran, Unfolded, Failures, JudgeInv, DurableInv
<1>2. \A e, S : LaterIn(e, S)' = LaterIn(e, S)
  BY <1>1 DEF LaterIn, Slots
<1>3. \A S : Later(S)' = Later(S)
  BY <1>2 DEF Later
<1>4. OrderInv'
  BY <1>1 DEF KeptInv, OrderInv, Slots
<1>5. /\ Memorized(campaign.gen)' = Memorized(campaign'.gen)
      /\ InTree(campaign.gen.art)' = InTree(campaign'.gen.art)
      /\ \A s : Memorized(proposal[s].gen)' = Memorized(proposal[s].gen)
      /\ Memorized(Heading)' = Memorized(Heading) /\ InTree(Heading.art)' = InTree(Heading.art)
      /\ Latest' = campaign'.gen
  BY DEF Memorized, InTree, Latest
<1>6. /\ Grounded(campaign.gen)'
      /\ \A a \in DOMAIN proposal' : Grounded(proposal[a].gen)'
      /\ \A a \in DOMAIN fold' : Grounded(fold[a].gen)'
  BY <1>1 DEF KeptInv, StoredInv, Grounded, Memorized, InTree
<1>7. \A a \in DOMAIN version' : InTree(version[a])' \subseteq (Ran' \cap DOMAIN version') \cup {a}
  BY <1>1 DEF KeptInv, StoredInv, InTree
<1>8. Memorized(Latest)' = Memorized(campaign'.gen)
  BY <1>5 DEF Memorized
<1>9. Later(Memorized(Latest))'
  BY <1>3, <1>8
<1>10. StoredInv'
  BY <1>1, <1>2, <1>5, <1>6, <1>7, <1>8, <1>9 DEF StoredInv
<1>11. Later(Memorized(Heading))'
  BY <1>3, <1>5 DEF KeptInv, LiveInv
<1>12. LiveInv'
  BY <1>1, <1>5, <1>11 DEF KeptInv, LiveInv
<1> QED BY <1>4, <1>10, <1>12 DEF KeptInv

LEMMA SaveEpochKeepsRuns == ASSUME JudgeInv, StoryInv, KeptInv, SaveEpoch PROVE KeptInv'
<1>1. /\ UNCHANGED <<proposal, fold, version, crashes, art, mem>> /\ pc = "slots"
      /\ pc' = "loop" /\ cur \notin Slots(Current)
      /\ campaign' = [campaign EXCEPT !.active = TRUE, !.gen = Snapshot]
  BY DEF SaveEpoch, files, generation, bounds
<1>2. /\ AtSlot /\ CampaignOK /\ RecordsOK /\ EpochsInv /\ ~campaign.active
      /\ campaign.pending = None /\ None \notin DOMAIN fold \cup DOMAIN version
  BY <1>1, PlanningHasNoFold, NoneHasNoRecord
  DEF JudgeInv, ControlInv, PlanningOK, DurableInv, AtSlot, StoryInv, RecordsInv
<1>3. /\ campaign'.active /\ campaign'.gen = Snapshot /\ campaign'.epoch = campaign.epoch
      /\ campaign'.committed = campaign.committed /\ campaign'.folded = campaign.folded
      /\ campaign'.pending = None
  BY <1>1, <1>2 DEF CampaignOK
<1>4. Heading = Snapshot /\ Heading' = Snapshot /\ Place = "slots" /\ Place' = "loop"
  BY <1>1 DEF Heading, Snapshot, Place
<1>5. \A s \in Slots(Current) : proposal[s].gen = Snapshot
  <2>1. PICK n \in Nat : n = EpochSize * Current /\ Slots(Current) = n .. n + EpochSize - 1
    BY <1>2, SlotRange
  <2>2. \A s \in Slots(Current) : s < cur
    BY <1>1, <1>2, <2>1, SizeAssumption DEF AtSlot
  <2> QED BY <1>4, <2>2 DEF StoryInv, StepsInv, AgreeInv
<1>6. /\ Memorized(Snapshot) = Memorized(campaign.gen)
      /\ InTree(Snapshot.art) = InTree(campaign.gen.art) /\ Later(Memorized(Snapshot))
  BY <1>2, <1>4 DEF KeptInv, LiveInv
<1>7. Grounded(Snapshot)
  <2>1. Grounded(campaign.gen)
    BY DEF KeptInv, StoredInv
  <2> QED BY <1>6, <2>1, GroundedAlike
<1>8. Memorized(Snapshot) \cap Slots(Current) = {}
  BY <1>2, <1>7 DEF Grounded, Ran, EpochsInv, RecordsOK
<1>9. \A e \in Epoch : LaterIn(e, Memorized(Snapshot))
  BY <1>6 DEF Later
<1> QED BY <1>1, <1>2, <1>3, <1>4, <1>5, <1>6, <1>7, <1>8, <1>9, ChargeKeeps

LEMMA CommitFailureKeepsRuns ==
  ASSUME JudgeInv, StoryInv, KeptInv, CommitFailure
  PROVE  KeptInv'
<1> DEFINE s == First(Failures(Current) \ campaign.committed)
<1>1. /\ UNCHANGED <<proposal, fold, version, crashes, art, mem, pc>> /\ pc = "loop"
      /\ campaign.active /\ Failures(Current) \ campaign.committed # {}
      /\ campaign' = [campaign EXCEPT !.committed = @ \cup {s}, !.gen = proposal[s].gen]
  BY DEF CommitFailure, files, generation, bounds
<1>2. CampaignOK /\ EpochsInv /\ None \notin DOMAIN fold \cup DOMAIN version
  BY NoneHasNoRecord DEF JudgeInv, DurableInv, StoryInv, RecordsInv
<1>3. s \in Failures(Current) \ campaign.committed
  BY <1>1, <1>2, SlotRange, FirstIsLeast DEF Failures
<1> HIDE DEF s
<1>4. s \in Slots(Current) /\ s \in DOMAIN proposal /\ s \notin campaign.committed
  BY <1>1, <1>2, <1>3 DEF Failures, CampaignOK
<1>5. /\ campaign'.active /\ campaign'.gen = proposal[s].gen
      /\ campaign'.epoch = campaign.epoch /\ campaign'.pending = campaign.pending
      /\ campaign'.committed = campaign.committed \cup {s}
      /\ campaign'.folded = campaign.folded /\ campaign.pending = None
  BY <1>1, <1>2, <1>3 DEF CampaignOK, EpochsInv
<1>6. Place = pc /\ Place' = pc' /\ Heading = Snapshot /\ Heading' = Snapshot
  BY <1>1 DEF Place, Heading, Snapshot
<1>7. Later(Memorized(proposal[s].gen)) /\ Grounded(proposal[s].gen)
  BY <1>1, <1>4, <1>5, ProposalIsLater DEF KeptInv, StoredInv
<1>8. \A r \in Slots(Current) :
        /\ Memorized(proposal[r].gen) = Memorized(proposal[s].gen)
        /\ Memorized(proposal[r].gen) \cap Slots(Current) = {}
        /\ \A e \in Epoch : e # Current => LaterIn(e, Memorized(proposal[r].gen))
  <2>1. \A r \in Slots(Current) : r \in Published
    BY <1>1, <1>2 DEF CampaignOK, Published
  <2>2. \A r \in Slots(Current) : proposal[r].gen = proposal[s].gen
    BY <1>2, <1>4, <2>1 DEF EpochsInv
  <2> QED BY <1>1, <2>2 DEF KeptInv, StoredInv
<1>9. Memorized(proposal[s].gen) \subseteq Memorized(Snapshot)
  BY <1>1, <1>4, <1>6 DEF KeptInv, LiveInv
<1> QED BY <1>1, <1>2, <1>5, <1>6, <1>7, <1>8, <1>9, ChargeKeeps

LEMMA CommitKeepsRuns == ASSUME JudgeInv, StoryInv, KeptInv, Commit PROVE KeptInv'
<1> DEFINE s == First(Unfolded(Current))
<1>1. /\ UNCHANGED <<proposal, fold, version, crashes, art, mem>> /\ pc = "loop"
      /\ campaign.active /\ Unfolded(Current) # {}
      /\ pc' = IF s \in DOMAIN fold THEN "finalize" ELSE "fold"
      /\ campaign' = IF s \in campaign.committed THEN campaign
                     ELSE [campaign EXCEPT !.committed = @ \cup {s}, !.pending = s,
                                           !.gen = proposal[s].gen]
  BY DEF Commit, files, generation, bounds
<1>2. /\ CampaignOK /\ EpochsInv /\ RecordsOK /\ PendingOK
      /\ None \notin DOMAIN fold \cup DOMAIN version
  BY NoneHasNoRecord DEF JudgeInv, DurableInv, StoryInv, RecordsInv
<1>3. s \in Unfolded(Current) /\ \A r \in Unfolded(Current) : s <= r
  <2>1. Unfolded(Current) \in SUBSET Nat
    BY <1>2, SlotRange DEF Unfolded
  <2> QED BY <1>1, <2>1, FirstIsLeast
<1> HIDE DEF s
<1>4. Place = pc /\ Place' = pc' /\ Heading = Snapshot /\ Heading' = Snapshot
  BY <1>1 DEF Place, Heading, Snapshot
<1>5. CASE s \in campaign.committed
  <2>1. Memorized(Heading') = Memorized(Heading) /\ InTree(Heading'.art) = InTree(Heading.art)
    BY <1>4
  <2> QED BY <1>1, <1>4, <1>5, <2>1, HeldKept DEF SameVersions
<1>6. CASE s \notin campaign.committed
  <2>1. s \in Slots(Current) /\ s \in DOMAIN proposal
    BY <1>1, <1>2, <1>3 DEF Unfolded, CampaignOK
  <2>2. campaign.pending = None
    <3>1. campaign.pending # None => campaign.pending = s
      <4>1. \A r \in Slots(Current) : r \in Nat
        BY <1>2, SlotRange
      <4> QED BY <1>2, <1>3, <4>1 DEF PendingOK, Unfolded
    <3> QED BY <1>2, <1>6, <3>1 DEF PendingOK
  <2>3. /\ campaign'.active /\ campaign'.epoch = campaign.epoch
        /\ campaign'.committed = campaign.committed \cup {s} /\ campaign'.pending = s
        /\ campaign'.folded = campaign.folded /\ campaign'.gen = proposal[s].gen
    BY <1>1, <1>2, <1>6 DEF CampaignOK
  <2>4. s \notin DOMAIN fold \cup DOMAIN version
    BY <1>2, <1>6 DEF RecordsOK
  <2>5. Later(Memorized(proposal[s].gen)) /\ Grounded(proposal[s].gen)
    BY <1>1, <1>6, <2>1, <2>2, ProposalIsLater DEF KeptInv, StoredInv
  <2>6. \A r \in Slots(Current) :
          /\ Memorized(proposal[r].gen) = Memorized(proposal[s].gen)
          /\ Memorized(proposal[r].gen) \cap Slots(Current) = {}
          /\ \A e \in Epoch : e # Current => LaterIn(e, Memorized(proposal[r].gen))
    <3>1. \A r \in Slots(Current) : r \in Published
      BY <1>1, <1>2 DEF CampaignOK, Published
    <3>2. \A r \in Slots(Current) : proposal[r].gen = proposal[s].gen
      BY <1>2, <2>1, <3>1 DEF EpochsInv
    <3> QED BY <1>1, <3>2 DEF KeptInv, StoredInv
  <2>7. Memorized(proposal[s].gen) \subseteq Memorized(Snapshot)
    BY <1>1, <1>4, <2>1 DEF KeptInv, LiveInv
  <2> QED BY <1>1, <1>4, <2>2, <2>3, <2>4, <2>5, <2>6, <2>7, ChargeKeeps
<1> QED BY <1>5, <1>6

-----------------------------------------------------------------------------
(* The fold of a run. *)

\* The open fold is the least that its epoch owes, and its run is in no record yet.
LEMMA OpenFoldIsNext ==
  ASSUME JudgeInv, KeptInv, pc \in Folding
  PROVE  /\ cur = campaign.pending /\ cur # None /\ cur \notin DOMAIN fold /\ cur \notin Ran
         /\ campaign.active /\ cur \in Slots(Current)
         /\ \A a \in Slots(Current) \cap Ran : a < cur
         /\ \A e \in Epoch : e # Current => cur \notin Slots(e)
<1>1. /\ cur = campaign.pending /\ cur # None /\ cur \notin DOMAIN fold
      /\ CampaignOK /\ PendingOK
  BY OpenFold DEF JudgeInv, DurableInv
<1>2. campaign.active /\ cur \in Slots(Current) /\ cur \in Unfolded(Current)
  BY <1>1 DEF PendingOK, Unfolded
<1>3. \A a \in Slots(Current) \cap Ran : a < cur
  BY <1>1, <1>2 DEF KeptInv, OrderInv, Ran
<1> QED BY <1>1, <1>2, <1>3, OtherSlots DEF Ran

\* The generator has the run of the open fold in memory, and in the tree if it is staged.
LEMMA TakenInKeeps ==
  ASSUME JudgeInv, KeptInv, UNCHANGED <<proposal, fold, campaign, crashes, art, cur>>,
         SameVersions, pc \in Folding, pc' = "folded", mem'.folded = mem.folded \cup {cur},
         cur \in DOMAIN version => cur \in InTree(art)
  PROVE  KeptInv'
<1>1. /\ OrderInv' /\ StoredInv' /\ Ran' = Ran /\ Slots(Current)' = Slots(Current)
      /\ \A S : Later(S)' = Later(S)
  BY StoredKept DEF KeptInv
<1>2. /\ cur = campaign.pending /\ cur \notin DOMAIN fold /\ campaign.active
      /\ \A a \in Slots(Current) \cap Ran : a < cur
      /\ \A e \in Epoch : e # Current => cur \notin Slots(e)
  BY OpenFoldIsNext
<1>3. /\ Place = pc /\ Place \notin {"load", "refused"} /\ Heading = Snapshot
      /\ Place' = "folded" /\ Heading' = Snapshot'
  BY DEF Place, Heading, Folding
<1>4. /\ Memorized(Heading') = Memorized(Heading) \cup {cur}
      /\ InTree(Heading'.art) = InTree(Heading.art) /\ InTree(Heading.art) = InTree(art)
  BY <1>3 DEF Memorized, InTree, Snapshot
<1>5. ASSUME NEW S, Later(S) PROVE Later(S \cup {cur})
  <2>1. ASSUME NEW e \in Epoch PROVE LaterIn(e, S \cup {cur})
    <3>1. LaterIn(e, S)
      BY <1>5 DEF Later
    <3>2. CASE e = Current
      BY <1>2, <3>1, <3>2 DEF LaterIn
    <3>3. CASE e # Current
      BY <1>2, <3>1, <3>3 DEF LaterIn
    <3> QED BY <3>2, <3>3
  <2> QED BY <2>1 DEF Later
<1>6. Later(Memorized(Heading) \cup {cur})
  BY <1>3, <1>5 DEF KeptInv, LiveInv
<1>7. /\ Memorized(Heading)' = Memorized(Heading') /\ InTree(Heading.art)' = InTree(Heading'.art)
      /\ Memorized(campaign.gen)' = Memorized(campaign.gen)
      /\ \A s : Memorized(proposal[s].gen)' = Memorized(proposal[s].gen)
  BY DEF Memorized, InTree
<1>8. Later(Memorized(Heading))'
  BY <1>1, <1>4, <1>6, <1>7
<1>9. LiveInv'
  BY <1>1, <1>2, <1>3, <1>4, <1>7, <1>8 DEF KeptInv, LiveInv, SameVersions
<1> QED BY <1>1, <1>9 DEF KeptInv

LEMMA FoldEndsKeepsRuns ==
  ASSUME JudgeInv, StoryInv, KeptInv,
         FoldAgain \/ CompleteVersion \/ \E calls \in {0, 2} : FoldNothing(calls)
  PROVE  KeptInv'
<1>1. UNCHANGED <<proposal, fold, campaign, crashes, art, cur>> /\ pc \in Folding /\ pc' = "folded"
      /\ \/ mem' = [mem EXCEPT !.folded = @ \cup {cur}]
         \/ \E cost : mem' = [mem EXCEPT !.folded = @ \cup {cur}, !.cost = cost]
  BY DEF FoldAgain, CompleteVersion, FoldNothing, generation, files, records, bounds, Folding
<1>2. Place = pc /\ Heading = Snapshot
  BY <1>1 DEF Place, Heading, Folding
<1>3. mem = [cost |-> mem.cost, stats |-> mem.stats, folded |-> mem.folded]
  BY <1>2 DEF StoryInv, StepsInv, Memory, Snapshot
<1>4. mem'.folded = mem.folded \cup {cur}
  BY <1>1, <1>3
<1>5. /\ cur = campaign.pending /\ cur \notin Ran
  BY <1>1, OpenFoldIsNext
<1>6. SameVersions /\ (cur \in DOMAIN version => cur \in InTree(art))
  <2>1. CASE FoldAgain
    <3>1. /\ pc = "fold" /\ cur \in art.tree.runs \cup mem.folded
          /\ version' = With(version, cur, art)
      BY <2>1 DEF FoldAgain
    <3>2. Memorized(Heading) \subseteq Ran /\ InTree(Heading.art) \subseteq DOMAIN version \cup Ran
      BY <1>2, <3>1 DEF KeptInv, LiveInv
    <3>3. /\ InTree(art) \subseteq (Ran \cup {cur}) \cap DOMAIN version
          /\ mem.folded \subseteq Ran
      BY <1>2, <1>5, <3>1, <3>2 DEF KeptInv, LiveInv, Memorized, InTree, Snapshot
    <3>4. cur \in InTree(art) /\ cur \in DOMAIN version
      BY <1>5, <3>1, <3>3 DEF InTree
    <3> QED BY <3>1, <3>4 DEF SameVersions, With
  <2>2. CASE CompleteVersion
    <3>1. pc = "complete" /\ art = version[cur] /\ version' = version
      BY <2>2 DEF CompleteVersion
    <3>2. cur \in DOMAIN version /\ cur \in version[cur].tree.runs
      BY <3>1 DEF JudgeInv, ControlInv, FoldingOK, DurableInv, SnapshotsOK
    <3> QED BY <3>1, <3>2 DEF SameVersions, InTree
  <2>3. CASE \E calls \in {0, 2} : FoldNothing(calls)
    <3>1. pc = "fold" /\ cur \notin art.tree.runs /\ version' = version
      BY <2>3 DEF FoldNothing, files
    <3>2. cur \in DOMAIN version => art = version[cur] /\ cur \in version[cur].tree.runs
      BY <1>5, <3>1 DEF JudgeInv, ControlInv, FoldingOK, DurableInv, SnapshotsOK
    <3> QED BY <3>1, <3>2 DEF SameVersions, InTree
  <2> QED BY <1>1, <2>1, <2>2, <2>3
<1> QED BY <1>1, <1>4, <1>6, TakenInKeeps

LEMMA StageVersionKeepsRuns ==
  ASSUME JudgeInv, KeptInv, NEW purpose, StageVersion(purpose)
  PROVE  KeptInv'
<1> DEFINE content == [art EXCEPT !.tree = TreeAfter(cur, purpose),
                                  !.cache = JudgmentsAfter(purpose)]
<1>1. /\ UNCHANGED <<proposal, fold, campaign, crashes, art, cur, mem>> /\ pc = "fold"
      /\ pc' = "cache" /\ cur \notin DOMAIN version /\ version' = With(version, cur, content)
  BY DEF StageVersion, generation, records, bounds
<1>2. /\ cur = campaign.pending /\ cur \notin DOMAIN fold /\ cur \notin Ran /\ campaign.active
  BY <1>1, OpenFoldIsNext DEF Folding
<1>3. InTree(content) = InTree(art) \cup {cur}
  BY DEF JudgeInv, DurableInv, SnapshotsOK, Artifacts, Files, InTree, TreeAfter
<1> HIDE DEF content
<1>4. /\ DOMAIN version' = DOMAIN version \cup {cur} /\ version'[cur] = content
      /\ \A a \in DOMAIN version : version'[a] = version[a]
  BY <1>1 DEF With
<1>5. /\ Ran' = Ran /\ Current' = Current /\ Slots(Current)' = Slots(Current)
      /\ Published' = Published /\ Failures(Current)' = Failures(Current)
      /\ Unfolded(Current)' = Unfolded(Current) /\ Latest' = Latest
  BY <1>1 DEF Ran, Current, Slots, Published, Failures, Unfolded, Latest
<1>6. \A e, S : LaterIn(e, S)' = LaterIn(e, S)
  BY <1>1, <1>5 DEF LaterIn, Slots
<1>7. \A S : Later(S)' = Later(S)
  BY <1>6 DEF Later
<1>8. Place = "fold" /\ Place' = "cache" /\ Heading = Snapshot /\ Heading' = Snapshot
  BY <1>1 DEF Place, Heading, Snapshot
<1>9. /\ Memorized(Heading)' = Memorized(Heading) /\ InTree(Heading.art)' = InTree(Heading.art)
      /\ Memorized(campaign.gen)' = Memorized(campaign.gen)
      /\ InTree(campaign.gen.art)' = InTree(campaign.gen.art)
      /\ \A s : Memorized(proposal[s].gen)' = Memorized(proposal[s].gen)
      /\ \A s : InTree(proposal[s].gen.art)' = InTree(proposal[s].gen.art)
      /\ \A s : Memorized(fold[s].gen)' = Memorized(fold[s].gen)
      /\ \A s : InTree(fold[s].gen.art)' = InTree(fold[s].gen.art)
      /\ \A a : InTree(version[a])' = InTree(version'[a])
      /\ InTree(Heading.art) = InTree(art) /\ Memorized(Latest)' = Memorized(Latest)
  BY <1>1, <1>5, <1>8 DEF Memorized, InTree, Snapshot
<1>10. OrderInv'
  BY <1>1, <1>5 DEF KeptInv, OrderInv, Slots
<1>11. /\ Grounded(campaign.gen)'
       /\ \A a \in DOMAIN proposal' : Grounded(proposal[a].gen)'
       /\ \A a \in DOMAIN fold' : Grounded(fold[a].gen)'
  BY <1>1, <1>2, <1>4, <1>5, <1>9 DEF KeptInv, StoredInv, Grounded
<1>12. /\ Memorized(Heading) \subseteq Ran
       /\ InTree(art) \subseteq (Ran \cup {cur}) \cap DOMAIN version
       /\ Memorized(Heading) \cap DOMAIN version \subseteq InTree(art)
       /\ Memorized(campaign.gen) \subseteq Memorized(Heading)
  <2>1. campaign.pending # None
    BY <1>1, OpenFoldIsNext DEF Folding
  <2> QED BY <1>2, <1>8, <1>9, <2>1 DEF KeptInv, LiveInv
<1>13. \A a \in DOMAIN version' : InTree(version[a])' \subseteq (Ran' \cap DOMAIN version') \cup {a}
  BY <1>3, <1>4, <1>5, <1>9, <1>12 DEF KeptInv, StoredInv
<1>14. Memorized(Heading) \cap DOMAIN version' \subseteq InTree(version'[cur])
  BY <1>2, <1>3, <1>4, <1>12
<1>15. Later(Memorized(Latest))'
  BY <1>7, <1>9 DEF KeptInv, StoredInv
<1>16. \A e \in Epoch : \A s \in Slots(Current) :
         LaterIn(e, Memorized(proposal[s].gen))' = LaterIn(e, Memorized(proposal[s].gen))
  BY <1>6, <1>9
<1>17. StoredInv'
  BY <1>1, <1>2, <1>5, <1>9, <1>11, <1>12, <1>13, <1>14, <1>15, <1>16 DEF KeptInv, StoredInv
<1>18. Later(Memorized(Heading))'
  BY <1>7, <1>8, <1>9 DEF KeptInv, LiveInv
<1>19. Memorized(Heading) \cap DOMAIN version' \subseteq InTree(art)
  BY <1>2, <1>4, <1>12
<1>20. LiveInv'
  BY <1>1, <1>2, <1>4, <1>5, <1>8, <1>9, <1>12, <1>14, <1>18, <1>19 DEF KeptInv, LiveInv
<1> QED BY <1>10, <1>17, <1>20 DEF KeptInv

LEMMA WriteTreeKeepsRuns == ASSUME JudgeInv, KeptInv, WriteTree PROVE KeptInv'
<1>1. /\ UNCHANGED <<proposal, fold, campaign, crashes, version, cur, mem>> /\ pc = "tree"
      /\ pc' = "complete" /\ art' = [art EXCEPT !.tree = version[cur].tree]
  BY DEF WriteTree, generation, records, bounds
<1>2. SameVersions
  BY <1>1 DEF SameVersions
<1>3. /\ OrderInv' /\ StoredInv' /\ Ran' = Ran /\ Slots(Current)' = Slots(Current)
      /\ \A S : Later(S)' = Later(S)
  BY <1>1, <1>2, StoredKept DEF KeptInv
<1>4. /\ cur = campaign.pending /\ cur \notin DOMAIN fold /\ campaign.active
      /\ cur \in DOMAIN version
  BY <1>1, OpenFoldIsNext DEF Folding, JudgeInv, ControlInv, FoldingOK
<1>5. Place = "tree" /\ Place' = "complete" /\ Heading = Snapshot /\ Heading' = Snapshot'
  BY <1>1 DEF Place, Heading
<1>6. InTree(art') = InTree(version[cur])
  BY <1>1 DEF JudgeInv, DurableInv, SnapshotsOK, Artifacts, Files, InTree
<1>7. /\ Memorized(Heading)' = Memorized(Heading) /\ InTree(Heading.art)' = InTree(version[cur])
      /\ Memorized(campaign.gen)' = Memorized(campaign.gen)
      /\ \A s : Memorized(proposal[s].gen)' = Memorized(proposal[s].gen)
  BY <1>1, <1>5, <1>6 DEF Memorized, InTree, Snapshot
<1>8. /\ InTree(version[cur]) \subseteq (Ran \cup {cur}) \cap DOMAIN version
      /\ Memorized(Heading) \cap DOMAIN version \subseteq InTree(version[cur])
  BY <1>4, <1>5 DEF KeptInv, StoredInv, LiveInv
<1>9. Later(Memorized(Heading))'
  BY <1>3, <1>5, <1>7 DEF KeptInv, LiveInv
<1>10. LiveInv'
  BY <1>1, <1>3, <1>4, <1>5, <1>7, <1>8, <1>9 DEF KeptInv, LiveInv
<1> QED BY <1>3, <1>10 DEF KeptInv

\* The receipt of the open fold takes its run in, when there is one.
LEMMA PublishFoldKeepsRuns == ASSUME JudgeInv, KeptInv, PublishFold PROVE KeptInv'
<1>1. /\ UNCHANGED <<proposal, campaign, crashes, version, art, cur, mem>>
      /\ pc \in {"folded", "failed"} /\ pc' = "finalize"
      /\ fold' = With(fold, cur, [status |-> pc, gen |-> Snapshot])
  BY DEF PublishFold, files, generation, bounds
<1>2. /\ cur = campaign.pending /\ cur # None /\ cur \notin DOMAIN fold /\ cur \notin Ran
      /\ campaign.active /\ \A e \in Epoch : e # Current => cur \notin Slots(e)
  BY <1>1, OpenFoldIsNext DEF Folding
<1>3. /\ DOMAIN fold' = DOMAIN fold \cup {cur}
      /\ fold'[cur] = [status |-> pc, gen |-> Snapshot]
      /\ \A a \in DOMAIN fold : fold'[a] = fold[a]
  BY <1>1, <1>2 DEF With
<1>4. /\ Current' = Current /\ Slots(Current)' = Slots(Current) /\ Published' = Published
      /\ Failures(Current)' = Failures(Current) /\ Unfolded(Current)' = Unfolded(Current)
  BY <1>1 DEF Current, Slots, Published, Failures, Unfolded
<1>5. Ran' = Ran \cup IF pc = "folded" THEN {cur} ELSE {}
  <2>1. fold'[cur].status = pc
    BY <1>3
  <2> QED BY <1>1, <1>2, <1>3, <2>1 DEF Ran
<1>6. Latest' = Snapshot
  BY <1>1, <1>2, <1>3 DEF Latest
<1>7. Place = pc /\ Place' = "finalize" /\ Heading = Snapshot /\ Heading' = Snapshot
  BY <1>1 DEF Place, Heading, Snapshot
<1>8. /\ Memorized(Heading)' = Memorized(Snapshot) /\ InTree(Heading.art)' = InTree(Snapshot.art)
      /\ Memorized(campaign.gen)' = Memorized(campaign.gen)
      /\ InTree(campaign.gen.art)' = InTree(campaign.gen.art)
      /\ \A s : Memorized(proposal[s].gen)' = Memorized(proposal[s].gen)
      /\ \A s : InTree(proposal[s].gen.art)' = InTree(proposal[s].gen.art)
      /\ \A a : InTree(version[a])' = InTree(version[a])
      /\ Memorized(Latest)' = Memorized(Snapshot)
      /\ Memorized(fold[campaign.pending].gen)' = Memorized(Snapshot)
  BY <1>1, <1>2, <1>3, <1>6, <1>7 DEF Memorized, InTree
<1>9. /\ Memorized(Snapshot) \subseteq Ran'
      /\ InTree(Snapshot.art) \subseteq (Ran \cup {cur}) \cap DOMAIN version
      /\ Memorized(Snapshot) \cap DOMAIN version \subseteq InTree(Snapshot.art)
      /\ pc = "folded" => cur \in Memorized(Snapshot)
      /\ Later(Memorized(Snapshot))
      /\ \A s \in Slots(Current) : Memorized(proposal[s].gen) \subseteq Memorized(Snapshot)
      /\ Memorized(campaign.gen) \subseteq Memorized(Snapshot)
  <2>1. Place \notin {"load", "refused"}
    BY <1>1, <1>7
  <2> QED BY <1>2, <1>5, <1>7, <2>1 DEF KeptInv, LiveInv
<1>10. cur \in DOMAIN version => pc = "folded"
  BY <1>1 DEF JudgeInv, ControlInv, FoldingOK
<1>11. InTree(Snapshot.art) \subseteq Ran' \cap DOMAIN version
  BY <1>5, <1>9, <1>10
<1>12. \A S : Later(S) /\ (pc = "folded" => cur \in S) => Later(S)'
  <2>1. ASSUME NEW S, NEW e \in Epoch, LaterIn(e, S), pc = "folded" => cur \in S
        PROVE  LaterIn(e, S)'
    BY <1>1, <1>5, <2>1 DEF LaterIn, Slots
  <2> QED BY <2>1 DEF Later
<1>13. \A S : \A e \in Epoch : e # Current /\ LaterIn(e, S) => LaterIn(e, S)'
  BY <1>1, <1>2, <1>5 DEF LaterIn, Slots
<1>14. Later(Memorized(Heading))' /\ Later(Memorized(Latest))'
  BY <1>8, <1>9, <1>12
<1>15. OrderInv'
  BY <1>1, <1>2, <1>3, <1>4 DEF KeptInv, OrderInv, Slots
<1>16. /\ Grounded(campaign.gen)' /\ \A a \in DOMAIN proposal' : Grounded(proposal[a].gen)'
  BY <1>1, <1>5, <1>8 DEF KeptInv, StoredInv, Grounded
<1>17. \A a \in DOMAIN fold' : Grounded(fold[a].gen)'
  <2>1. ASSUME NEW a \in DOMAIN fold PROVE Grounded(fold[a].gen)'
    BY <1>1, <1>3, <1>5 DEF KeptInv, StoredInv, Grounded, Memorized, InTree
  <2>2. Grounded(fold[cur].gen)'
    <3>1. Memorized(fold[cur].gen)' = Memorized(Snapshot)
      BY <1>1, <1>3 DEF Memorized
    <3>2. InTree(fold[cur].gen.art)' = InTree(Snapshot.art)
      BY <1>1, <1>3 DEF InTree
    <3> QED BY <1>1, <1>9, <1>11, <3>1, <3>2 DEF Grounded
  <2>3. fold'[cur].gen = Snapshot /\ cur' = cur
    BY <1>1, <1>3
  <2>4. \A a \in DOMAIN fold' : a \in DOMAIN fold \/ a = cur'
    BY <1>3, <2>3
  <2> QED BY <2>1, <2>2, <2>4
<1>18. \A a \in DOMAIN version' : InTree(version[a])' \subseteq (Ran' \cap DOMAIN version') \cup {a}
  BY <1>1, <1>5, <1>8 DEF KeptInv, StoredInv
<1>20. \A e \in Epoch : \A s \in Slots(Current) : e # Current =>
         LaterIn(e, Memorized(proposal[s].gen))'
  BY <1>2, <1>8, <1>13 DEF KeptInv, StoredInv
<1>21. StoredInv'
  BY <1>1, <1>2, <1>3, <1>4, <1>8, <1>9, <1>14, <1>16, <1>17, <1>18, <1>20 DEF KeptInv, StoredInv
<1>22. crashes = 0 => Ran' \subseteq Memorized(Snapshot)
  BY <1>5, <1>7, <1>9 DEF KeptInv, LiveInv
<1>24. LiveInv'
  BY <1>1, <1>2, <1>3, <1>4, <1>7, <1>8, <1>9, <1>11, <1>14, <1>22 DEF KeptInv, LiveInv
<1> QED BY <1>15, <1>21, <1>24 DEF KeptInv

LEMMA FinalizeKeepsRuns == ASSUME JudgeInv, StoryInv, KeptInv, Finalize PROVE KeptInv'
<1>1. /\ UNCHANGED <<proposal, fold, version, art, crashes>> /\ pc = "finalize"
      /\ RestoreExact(fold[cur].gen, "loop")
  BY DEF Finalize, files, generation, bounds
<1>2. /\ cur = campaign.pending /\ cur # None /\ cur \in DOMAIN fold
      /\ art = fold[cur].gen.art /\ CampaignOK /\ PendingOK /\ Whole(fold[cur].gen)
      /\ EpochsInv /\ None \notin DOMAIN fold \cup DOMAIN version
  BY <1>1, NoneHasNoRecord
  DEF JudgeInv, ControlInv, FoldingOK, DurableInv, StoryInv, RecordsInv, WholeInv
<1>3. pc' = "loop" /\ mem' = fold[cur].gen.mem
  BY <1>1, <1>2 DEF RestoreExact
<1>4. campaign' = [campaign EXCEPT !.folded = @ \cup {cur}, !.pending = None,
                                   !.gen = fold[cur].gen]
  BY <1>3 DEF Finalize
<1> DEFINE gen == fold[cur].gen
<1>5. /\ campaign'.active /\ campaign.active /\ campaign'.epoch = campaign.epoch
      /\ campaign'.committed = campaign.committed /\ campaign'.pending = None
      /\ campaign'.folded = campaign.folded \cup {cur} /\ campaign'.gen = gen
  BY <1>2, <1>4 DEF CampaignOK, PendingOK
<1>6. /\ Place = "finalize" /\ Heading = Snapshot /\ Place' = "loop" /\ Heading' = gen
      /\ Latest = gen /\ Latest' = gen
  BY <1>1, <1>2, <1>3, <1>5 DEF Place, Heading, Snapshot, Whole, Latest
<1>7. /\ Current' = Current /\ Slots(Current)' = Slots(Current) /\ Published' = Published
      /\ Failures(Current)' = Failures(Current) /\ Ran' = Ran
      /\ Unfolded(Current)' = Unfolded(Current) \ {cur}
  BY <1>1, <1>5 DEF Current, Slots, Published, Failures, Ran, Unfolded
<1>8. /\ cur \in Unfolded(Current) /\ \A r \in Unfolded(Current) : cur <= r
      /\ Failures(Current) \subseteq campaign.committed
  BY <1>2 DEF PendingOK, EpochsInv
<1>9. \A r \in Slots(Current) : r \in Nat
  BY <1>2, SlotRange
<1>10. Grounded(gen)
  BY <1>2 DEF KeptInv, StoredInv
<1> HIDE DEF gen
<1>11. \A e, S : LaterIn(e, S)' = LaterIn(e, S)
  BY <1>1, <1>7 DEF LaterIn, Slots
<1>12. \A S : Later(S)' = Later(S)
  BY <1>11 DEF Later
<1>13. OrderInv'
  <2>1. campaign'.folded \subseteq DOMAIN fold' /\ DOMAIN fold' \subseteq campaign'.folded
    BY <1>1, <1>2, <1>5 DEF KeptInv, OrderInv
  <2>2. \A a \in campaign'.folded \cap Slots(Current) : \A r \in Unfolded(Current)' : a < r
    <3>1. \A r \in Unfolded(Current)' : r \in Nat /\ cur < r /\ cur \in Nat
      BY <1>7, <1>8, <1>9 DEF Unfolded
    <3> QED BY <1>5, <1>7, <3>1 DEF KeptInv, OrderInv
  <2>3. \A e \in Epoch : e < Current =>
          \A b \in Slots(e) \cap DOMAIN proposal :
            proposal[b].candidate = "case" => b \in campaign'.folded
    BY <1>5 DEF KeptInv, OrderInv
  <2> QED BY <1>1, <1>5, <1>7, <1>8, <2>1, <2>2, <2>3 DEF OrderInv, Slots
<1>14. /\ Memorized(campaign.gen)' = Memorized(gen)
       /\ InTree(campaign.gen.art)' = InTree(gen.art)
       /\ \A s : Memorized(proposal[s].gen)' = Memorized(proposal[s].gen)
       /\ \A s : InTree(proposal[s].gen.art)' = InTree(proposal[s].gen.art)
       /\ \A s : Memorized(fold[s].gen)' = Memorized(fold[s].gen)
       /\ \A s : InTree(fold[s].gen.art)' = InTree(fold[s].gen.art)
       /\ \A a : InTree(version[a])' = InTree(version[a])
       /\ Memorized(Heading)' = Memorized(gen) /\ InTree(Heading.art)' = InTree(gen.art)
       /\ Memorized(Latest)' = Memorized(gen)
  BY <1>1, <1>5, <1>6 DEF Memorized, InTree
<1>15. /\ Grounded(campaign.gen)'
       /\ \A a \in DOMAIN proposal' : Grounded(proposal[a].gen)'
       /\ \A a \in DOMAIN fold' : Grounded(fold[a].gen)'
  BY <1>1, <1>7, <1>10, <1>14 DEF KeptInv, StoredInv, Grounded
<1>16. \A a \in DOMAIN version' : InTree(version[a])' \subseteq (Ran' \cap DOMAIN version') \cup {a}
  BY <1>1, <1>7, <1>14 DEF KeptInv, StoredInv
<1>17. Later(Memorized(gen))
  BY <1>6 DEF KeptInv, StoredInv
<1>18. Later(Memorized(Latest))' /\ Later(Memorized(Heading))'
  BY <1>12, <1>14, <1>17
<1>19. \A e \in Epoch : \A s \in Slots(Current) :
         LaterIn(e, Memorized(proposal[s].gen))' = LaterIn(e, Memorized(proposal[s].gen))
  BY <1>11, <1>14
<1>20. \A s \in Slots(Current) :
         /\ Memorized(proposal[s].gen) \subseteq Memorized(gen)
         /\ Memorized(proposal[s].gen) \cap Slots(Current) = {}
         /\ \A e \in Epoch : e # Current => LaterIn(e, Memorized(proposal[s].gen))
  BY <1>5, <1>6 DEF KeptInv, StoredInv
<1>21. StoredInv'
  BY <1>1, <1>2, <1>5, <1>7, <1>14, <1>15, <1>16, <1>18, <1>19, <1>20 DEF StoredInv
<1>22. crashes = 0 => Ran \subseteq Memorized(gen)
  BY <1>2, <1>6 DEF KeptInv, LiveInv, gen
<1>23. LiveInv'
  BY <1>1, <1>2, <1>5, <1>6, <1>7, <1>10, <1>14, <1>18, <1>20, <1>22
  DEF KeptInv, LiveInv, Grounded
<1> QED BY <1>13, <1>21, <1>23 DEF KeptInv

LEMMA EndEpochKeepsRuns == ASSUME JudgeInv, StoryInv, KeptInv, EndEpoch PROVE KeptInv'
<1>1. /\ UNCHANGED <<proposal, fold, version, crashes, art, mem, pc>> /\ pc = "loop"
      /\ Unfolded(Current) = {}
  BY DEF EndEpoch, files, generation, bounds
<1>2. /\ CampaignOK /\ campaign.pending = None
      /\ ~campaign'.active /\ campaign'.epoch = campaign.epoch + 1
      /\ campaign'.committed = campaign.committed /\ campaign'.pending = None
      /\ campaign'.folded = campaign.folded /\ campaign'.gen = campaign.gen
      /\ Slots(Current)' \cap DOMAIN proposal = {} /\ Heading = campaign.gen
  BY EpochIsOver DEF JudgeInv, DurableInv
<1>3. RecordsOK /\ None \notin DOMAIN fold \cup DOMAIN version
  BY NoneHasNoRecord DEF JudgeInv, DurableInv
<1>4. /\ Ran' = Ran /\ Published' = {} /\ Latest' = Latest
      /\ Current' = Current + 1 /\ Current \in Nat
      /\ Place = "loop" /\ Place' = "loop" /\ Heading = Snapshot /\ Heading' = Snapshot
  BY <1>1, <1>2, SlotRange DEF Ran, Published, Latest, Current, Place, Heading, Snapshot
<1>5. \A e, S : LaterIn(e, S)' = LaterIn(e, S)
  BY <1>1, <1>4 DEF LaterIn, Slots
<1>6. \A S : Later(S)' = Later(S)
  BY <1>5 DEF Later
<1>7. OrderInv'
  <2>1. campaign'.folded \cap Slots(Current)' = {}
    BY <1>2, <1>3 DEF KeptInv, OrderInv, RecordsOK
  <2>2. \A e \in Epoch : e < Current' =>
          \A b \in Slots(e) \cap DOMAIN proposal :
            proposal[b].candidate = "case" => b \in campaign'.folded
    <3>1. ASSUME NEW e \in Epoch, e < Current', NEW b \in Slots(e) \cap DOMAIN proposal,
                 proposal[b].candidate = "case"
          PROVE  b \in campaign.folded
      <4>1. CASE e = Current
        BY <1>1, <3>1, <4>1 DEF Unfolded, Failures
      <4>2. CASE e # Current
        <5>1. e < Current
          BY <1>4, <3>1, <4>2 DEF Epoch
        <5> QED BY <3>1, <5>1 DEF KeptInv, OrderInv
      <4> QED BY <4>1, <4>2
    <3> QED BY <1>2, <3>1
  <2> QED BY <1>1, <1>2, <2>1, <2>2 DEF KeptInv, OrderInv, Slots
<1>8. /\ Memorized(campaign.gen)' = Memorized(campaign.gen)
      /\ InTree(campaign.gen.art)' = InTree(campaign.gen.art)
      /\ \A s : Memorized(proposal[s].gen)' = Memorized(proposal[s].gen)
      /\ \A s : InTree(proposal[s].gen.art)' = InTree(proposal[s].gen.art)
      /\ \A s : Memorized(fold[s].gen)' = Memorized(fold[s].gen)
      /\ \A s : InTree(fold[s].gen.art)' = InTree(fold[s].gen.art)
      /\ \A a : InTree(version[a])' = InTree(version[a])
      /\ Memorized(Heading)' = Memorized(campaign.gen)
      /\ InTree(Heading.art)' = InTree(campaign.gen.art)
      /\ Memorized(Latest)' = Memorized(Latest) /\ Latest = campaign.gen
  BY <1>1, <1>2, <1>3, <1>4 DEF Memorized, InTree, Latest
<1>9. /\ Grounded(campaign.gen)'
      /\ \A a \in DOMAIN proposal' : Grounded(proposal[a].gen)'
      /\ \A a \in DOMAIN fold' : Grounded(fold[a].gen)'
  BY <1>1, <1>4, <1>8 DEF KeptInv, StoredInv, Grounded
<1>10. \A a \in DOMAIN version' : InTree(version[a])' \subseteq (Ran' \cap DOMAIN version') \cup {a}
  BY <1>1, <1>4, <1>8 DEF KeptInv, StoredInv
<1>11. Later(Memorized(Latest))' /\ Later(Memorized(Heading))'
  BY <1>6, <1>8 DEF KeptInv, StoredInv
<1>12. StoredInv'
  BY <1>1, <1>2, <1>3, <1>4, <1>9, <1>10, <1>11 DEF StoredInv
<1>13. /\ crashes = 0 => Ran \subseteq Memorized(campaign.gen)
       /\ Memorized(campaign.gen) \subseteq Ran
       /\ InTree(campaign.gen.art) \subseteq Ran \cap DOMAIN version
       /\ Memorized(campaign.gen) \cap DOMAIN version \subseteq InTree(campaign.gen.art)
  BY <1>2 DEF KeptInv, StoredInv, LiveInv, Grounded
<1>14. LiveInv'
  BY <1>1, <1>2, <1>3, <1>4, <1>8, <1>11, <1>13 DEF KeptInv, LiveInv
<1> QED BY <1>7, <1>12, <1>14 DEF KeptInv

-----------------------------------------------------------------------------
LEMMA InitKept == Init => KeptInv
<1> SUFFICES ASSUME Init PROVE KeptInv
  OBVIOUS
<1>1. /\ DOMAIN version = {} /\ DOMAIN proposal = {} /\ DOMAIN fold = {}
      /\ pc = "load" /\ mem = FreshMemory /\ crashes = 0
      /\ campaign.folded = {} /\ campaign.active = FALSE
  BY DEF Init
<1>2. Memorized(campaign.gen) = {} /\ InTree(campaign.gen.art) = {}
  BY DEF Init, Memorized, InTree, FreshMemory, EmptyTree
<1>3. /\ Ran = {} /\ Published = {} /\ Latest = campaign.gen
      /\ Place = "load" /\ Memorized(Heading) = {}
  BY <1>1 DEF Ran, Published, Latest, Place, Heading, Snapshot, Memorized, FreshMemory
<1>4. \A S : Later(S)
  BY <1>3 DEF Later, LaterIn
<1>5. OrderInv
  BY <1>1 DEF OrderInv
<1>6. StoredInv
  BY <1>1, <1>2, <1>3, <1>4 DEF StoredInv, Grounded
<1>7. LiveInv
  BY <1>1, <1>3 DEF LiveInv
<1> QED BY <1>5, <1>6, <1>7 DEF KeptInv

LEMMA StepKept == JudgeInv /\ StoryInv /\ KeptInv /\ [Next]_vars => KeptInv'
<1> SUFFICES ASSUME JudgeInv, StoryInv, KeptInv, [Next]_vars PROVE KeptInv'
  OBVIOUS
<1>1. CASE Load \/ RestoreFile \/ FilesRestored
  BY <1>1, LoadKeepsRuns, RestoreStepsKeep
<1>2. CASE \/ ProposeBootstrap \/ PlanningFails \/ ReplayPlan \/ PublishIntent \/ WritePlan
           \/ Settle \/ AllMarked \/ FoldFails
           \/ \E a \in Attempt : Synthesize(a) \/ SynthesisFails(a)
  BY <1>2, QuietStepsKeep
<1>3. CASE MarkTried \/ WriteCache \/ \E mutations \in SUBSET Mutations : ExtractGuards(mutations)
  BY <1>3, FileStepsKeep
<1>4. CASE ResumeIntent \/ PublishProposal \/ FindProposal \/ SaveEpoch
  BY <1>4, ResumeIntentKeepsRuns, PublishProposalKeepsRuns, FindProposalKeepsRuns,
     SaveEpochKeepsRuns
<1>5. CASE CommitFailure \/ Commit
  BY <1>5, CommitFailureKeepsRuns, CommitKeepsRuns
<1>6. CASE FoldAgain \/ CompleteVersion \/ \E calls \in {0, 2} : FoldNothing(calls)
  BY <1>6, FoldEndsKeepsRuns
<1>7. CASE WriteTree \/ \E purpose \in Purposes : StageVersion(purpose)
  BY <1>7, WriteTreeKeepsRuns, StageVersionKeepsRuns
<1>8. CASE PublishFold \/ Finalize \/ EndEpoch
  BY <1>8, PublishFoldKeepsRuns, FinalizeKeepsRuns, EndEpochKeepsRuns
<1>9. CASE Crash \/ UNCHANGED vars
  BY <1>9, CrashKeepsRuns, StutterKeepsRuns
<1> QED BY <1>1, <1>2, <1>3, <1>4, <1>5, <1>6, <1>7, <1>8, <1>9 DEF Next

\* No slot of an epoch to come has been proposed.
LEMMA LaterSlotsAreEmpty ==
  ASSUME CampaignOK, EpochsInv, RecordsOK, NEW e \in Epoch, Current < e
  PROVE  Slots(e) \cap DOMAIN proposal = {}
<1>1. EpochSize \in Nat /\ e \in Nat /\ Current \in Nat
  BY SizeAssumption, SlotRange DEF Epoch
<1>2. PICK d \in Nat : e = Current + 1 + d
  <2>1. e - Current - 1 \in Nat /\ e = Current + 1 + (e - Current - 1)
    BY <1>1
  <2> QED BY <2>1
<1>3. EpochSize * (Current + 1 + d) = EpochSize * Current + EpochSize + EpochSize * d
  BY <1>1
<1>4. EpochSize * Current \in Nat /\ EpochSize * d \in Nat /\ EpochSize * e \in Nat
  BY <1>1
<1>5. EpochSize * e >= EpochSize * Current + EpochSize
  BY <1>1, <1>2, <1>3, <1>4
<1>6. \A a \in DOMAIN proposal : a \in Nat /\ a <= EpochSize * Current + EpochSize - 1
  BY DEF EpochsInv, RecordsOK
<1> QED BY <1>1, <1>4, <1>5, <1>6 DEF Slots

LEMMA KeptAgrees == JudgeInv /\ StoryInv /\ KeptInv => ArtifactsAgree
<1> SUFFICES ASSUME JudgeInv, StoryInv, KeptInv, Planning,
                    Slots(Current) \cap DOMAIN proposal = {}
             PROVE  /\ campaign.gen = Snapshot
                    /\ mem.folded \subseteq Reduced
                    /\ art.tree.runs \subseteq Reduced \cap DOMAIN version
                    /\ mem.folded \cap DOMAIN version \subseteq art.tree.runs
                    /\ \A e \in Epoch : \A a \in (Slots(e) \cap Reduced) \ mem.folded :
                         /\ crashes > 0
                         /\ \E b \in Slots(e) \cap campaign.folded : a < b
                         /\ \A c \in Slots(e) \cap mem.folded : a < c
  BY DEF ArtifactsAgree
<1>1. campaign.gen = Snapshot
  BY StoryAgrees
<1>2. /\ CampaignOK /\ RecordsOK /\ EpochsInv /\ campaign.pending = None
      /\ None \notin DOMAIN fold \cup DOMAIN version
  BY PlanningHasNoFold, NoneHasNoRecord
  DEF Planning, JudgeInv, DurableInv, StoryInv, RecordsInv
<1>3. Reduced = Ran
  BY <1>2 DEF KeptInv, OrderInv, Reduced, Ran
<1>4. /\ Place = "loop" /\ Heading = Snapshot
      /\ mem.folded = Memorized(Heading) /\ art.tree.runs = InTree(Heading.art)
  BY DEF Planning, Place, Heading, Snapshot, Memorized, InTree
<1>5. /\ Memorized(Heading) \subseteq Ran
      /\ InTree(Heading.art) \subseteq Ran \cap DOMAIN version
      /\ Memorized(Heading) \cap DOMAIN version \subseteq InTree(Heading.art)
      /\ Later(Memorized(Heading))
      /\ crashes \in Nat /\ (crashes = 0 => Ran \subseteq Memorized(Heading))
  BY <1>2, <1>4 DEF KeptInv, LiveInv
<1>6. ASSUME NEW e \in Epoch, NEW a \in (Slots(e) \cap Ran) \ Memorized(Heading)
      PROVE  /\ crashes > 0
             /\ \E b \in Slots(e) \cap campaign.folded : a < b
             /\ \A c \in Slots(e) \cap Memorized(Heading) : a < c
  <2>1. /\ \E b \in Slots(e) \cap DOMAIN proposal : proposal[b].candidate = "case" /\ a < b
        /\ \A c \in Slots(e) \cap Memorized(Heading) : a < c
    <3>1. LaterIn(e, Memorized(Heading))
      BY <1>5 DEF Later
    <3>2. a \in (Slots(e) \cap Ran) \ Memorized(Heading)
      OBVIOUS
    <3> QED BY <3>1, <3>2, Zenon DEF LaterIn
  <2>2. PICK b \in Slots(e) \cap DOMAIN proposal : proposal[b].candidate = "case" /\ a < b
    BY <2>1
  <2>3. e < Current
    <3>1. e \in Nat /\ Current \in Nat
      BY <1>2, SlotRange DEF Epoch
    <3>2. e # Current
      BY <2>2, Zenon
    <3>3. ~(Current < e)
      BY <1>2, <2>2, LaterSlotsAreEmpty
    <3> QED BY <3>1, <3>2, <3>3
  <2>4. b \in campaign.folded
    BY <2>2, <2>3 DEF KeptInv, OrderInv
  <2> QED BY <1>5, <2>1, <2>2, <2>4
<1> QED BY <1>1, <1>3, <1>4, <1>5, <1>6

\* An epoch is planned on the files, the memory and the snapshot that campaign.json has;
\* these hold no run that is not recorded, and miss none but the runs that were folded, in
\* the order of the slots, before one that a dead process was at in the same epoch
\* (_load_or_create, restore, restore_for_pending_fold, the loop over the reductions).
THEOREM FilesAndCampaignAgree == Spec => []ArtifactsAgree
<1>1. Init => JudgeInv /\ StoryInv /\ KeptInv
  BY InitJudge, InitStory, InitKept
<1>2. JudgeInv /\ StoryInv /\ KeptInv /\ [Next]_vars => (JudgeInv /\ StoryInv /\ KeptInv)'
  BY StepJudge, StepStory, StepKept
<1> QED BY <1>1, <1>2, KeptAgrees, PTL DEF Spec

=============================================================================
