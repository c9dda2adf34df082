---------------------------- MODULE ImageCleanup ----------------------------
(***************************************************************************)
(* cleanup_candidate_image and its two callers in campaign_engine.py: the  *)
(* images of executed attempts, which are cleaned before the attempt is    *)
(* committed, and the images of candidates a generator built ahead and     *)
(* never used, which are drained when the campaign finishes. The intent,   *)
(* every removal attempt and the final receipt are files; the process may  *)
(* die between any two steps and the remover may fail.                     *)
(***************************************************************************)
EXTENDS Naturals, Sequences, FiniteSets

CONSTANTS
  None,
  Attempts,     \* images of candidates that were executed
  Unused,       \* images of candidates left in a generator's buffer
  Owned,        \* the images the campaign owns; the others it must not touch
  MaxFaults     \* bound: crashes and Docker failures together

Image == Attempts \cup Unused

ASSUME ImageAssumption ==
  IsFiniteSet(Image) /\ Owned \subseteq Image /\ Attempts \cap Unused = {}
ASSUME FaultAssumption == MaxFaults \in Nat
ASSUME NoneAssumption == None \notin Nat \cup Image \cup {"clean", "error"}

VARIABLES
  exists,      \* images present in Docker
  intent,      \* images with cleanup.intent.json
  history,     \* image -> statuses of cleanup.attempts/v0000.json, v0001.json, ...
  receipt,     \* image -> attempt_count of cleanup.json, or None
  committed,   \* attempts committed to campaign.json
  complete,    \* campaign.json says complete
  pc, cur, status,   \* volatile: control point, image and report status
  drained,     \* volatile: unused images already taken from the buffer
  faults

files == <<intent, history, receipt, committed, complete>>
cleanupVars == <<exists, files, pc, cur, status, drained, faults>>

CleanupInit ==
  /\ exists = Image
  /\ intent = {}
  /\ history = [i \in Image |-> <<>>]
  /\ receipt = [i \in Image |-> None]
  /\ committed = {} /\ complete = FALSE
  /\ pc = "idle" /\ cur = None /\ status = None
  /\ drained = {}
  /\ faults = 0

\* Faulty variant of PointAfterIntent: a recovered cleanup removes without looking.
RemoveAfterIntent(i, found) == IF i \in Owned THEN "remove" ELSE "publish"

\* Faulty variant of PointAfterIntent: an intent found on disk is taken for done.
PublishAfterIntent(i, found) == IF i \in Owned /\ ~found THEN "remove" ELSE "publish"

\* What follows the intent: an image of its own is removed, after an inspection when
\* the intent was already on disk; any other image is left alone.
PointAfterIntent(i, found) ==
  CASE i \notin Owned -> "publish"
    [] i \in Owned /\ found -> "inspect"
    [] OTHER -> "remove"

\* The next image: those of the attempts in turn, then, when the campaign finishes,
\* those of the generator's buffer.
Due(i) ==
  \/ i \in Attempts \ committed
  \/ Attempts \subseteq committed /\ i \in Unused \ drained /\ ~complete

\* A call of cleanup_candidate_image: read the receipt back, or publish the intent.
Begin(i) ==
  /\ pc = "idle" /\ Due(i)
  /\ cur' = i
  /\ IF receipt[i] # None
     THEN pc' = "return" /\ status' = "clean" /\ UNCHANGED intent
     ELSE /\ pc' = PointAfterIntent(i, i \in intent)
          /\ status' = IF i \in Owned THEN None ELSE "clean"
          /\ intent' = intent \cup {i}
  /\ UNCHANGED <<exists, history, receipt, committed, complete, drained, faults>>

\* The recovery of an interrupted or failed cleanup looks at Docker first.
Inspect ==
  /\ pc = "inspect"
  /\ IF cur \in exists THEN pc' = "remove" /\ UNCHANGED status
                       ELSE pc' = "record" /\ status' = "clean"
  /\ UNCHANGED <<exists, files, cur, drained, faults>>

\* The inspection fails: CleanupRecoveryError ends the process, whoever called.
InspectError ==
  /\ pc = "inspect" /\ faults < MaxFaults
  /\ faults' = faults + 1
  /\ pc' = "down" /\ cur' = None /\ status' = None /\ drained' = {}
  /\ UNCHANGED <<exists, files>>

RemoveImage ==
  /\ pc = "remove"
  /\ exists' = exists \ {cur}
  /\ status' = "clean"
  /\ pc' = "record"
  /\ UNCHANGED <<files, cur, drained, faults>>

\* The remover raises (a timeout, a busy image), with or without effect.
RemoveError(effect) ==
  /\ pc = "remove" /\ faults < MaxFaults
  /\ faults' = faults + 1
  /\ exists' = IF effect THEN exists \ {cur} ELSE exists
  /\ status' = "error"
  /\ pc' = "record"
  /\ UNCHANGED <<files, cur, drained>>

\* The attempt is recorded under the next ordinal; only a clean one is final.
RecordAttempt ==
  /\ pc = "record"
  /\ history' = [history EXCEPT ![cur] = Append(@, status)]
  /\ pc' = IF status = "clean" THEN "publish" ELSE "return"
  /\ UNCHANGED <<exists, intent, receipt, committed, complete, cur, status, drained, faults>>

\* cleanup.json binds the attempts made so far.
PublishReceipt ==
  /\ pc = "publish"
  /\ receipt' = [receipt EXCEPT ![cur] = Len(history[cur])]
  /\ pc' = "return"
  /\ UNCHANGED <<exists, intent, history, committed, complete, cur, status, drained, faults>>

\* _ensure_cleanup and _commit_attempt: an error ends the process, a success commits.
ReturnToAttempt ==
  /\ pc = "return" /\ cur \in Attempts
  /\ IF status = "error" THEN pc' = "down" /\ UNCHANGED committed
                         ELSE pc' = "idle" /\ committed' = committed \cup {cur}
  /\ cur' = None /\ status' = None
  /\ UNCHANGED <<exists, intent, history, receipt, complete, drained, faults>>

\* Faulty variant of DrainedAfter: what was drained is not remembered.
DrainedNever(i) == drained

DrainedAfter(i) == drained \cup {i}

\* _drain_unused_images: the report is not looked at.
ReturnToDrain ==
  /\ pc = "return" /\ cur \in Unused
  /\ drained' = DrainedAfter(cur)
  /\ pc' = "idle" /\ cur' = None /\ status' = None
  /\ UNCHANGED <<exists, files, faults>>

\* _finish_campaign saves the completed state, with the generator's empty buffer.
Save ==
  /\ pc = "idle" /\ ~complete
  /\ Attempts \subseteq committed /\ Unused \subseteq drained
  /\ complete' = TRUE
  /\ UNCHANGED <<exists, intent, history, receipt, committed, pc, cur, status, drained, faults>>

Crash ==
  /\ pc # "down" /\ ~complete /\ faults < MaxFaults
  /\ faults' = faults + 1
  /\ pc' = "down" /\ cur' = None /\ status' = None /\ drained' = {}
  /\ UNCHANGED <<exists, files>>

Restart ==
  /\ pc = "down"
  /\ pc' = "idle"
  /\ UNCHANGED <<exists, files, cur, status, drained, faults>>

\* A completed campaign is never entered again.
Terminated == complete /\ pc = "idle" /\ UNCHANGED cleanupVars

CleanupStep ==
  \/ \E i \in Image : Begin(i)
  \/ Inspect \/ InspectError \/ RemoveImage \/ (\E effect \in BOOLEAN : RemoveError(effect))
  \/ RecordAttempt \/ PublishReceipt \/ ReturnToAttempt \/ ReturnToDrain \/ Save

CleanupNext == CleanupStep \/ Crash \/ Restart \/ Terminated

CleanupSpec == CleanupInit /\ [][CleanupNext]_cleanupVars
CleanupFairSpec == CleanupSpec /\ WF_cleanupVars(CleanupStep) /\ WF_cleanupVars(Restart)

-----------------------------------------------------------------------------
CleanupTypeOK ==
  /\ exists \subseteq Image /\ intent \subseteq Image
  /\ history \in [Image -> Seq({"clean", "error"})]
  /\ receipt \in [Image -> Nat \cup {None}]
  /\ committed \subseteq Attempts /\ complete \in BOOLEAN
  /\ pc \in {"idle", "inspect", "remove", "record", "publish", "return", "down"}
  /\ cur \in Image \cup {None} /\ status \in {None, "clean", "error"}
  /\ drained \subseteq Unused /\ faults \in 0 .. MaxFaults

\* However often the cleanup is interrupted and resumed, the remover is never invoked on an
\* image that is already gone. A receipt says what Docker shows: an owned image is gone,
\* another one untouched. An attempt is committed only with its receipt. The history reads
\* as one: once an attempt found or made the image absent no later one fails, and nothing is
\* added behind the receipt, which binds the history's length.
RecordsTellTruth ==
  /\ CleanupTypeOK
  /\ pc = "remove" => cur \in exists
  /\ \A i \in committed : receipt[i] # None
  /\ \A i \in Image :
       /\ receipt[i] # None =>
            /\ i \in exists <=> i \notin Owned
            /\ receipt[i] = Len(history[i])
       /\ \A j, k \in 1 .. Len(history[i]) :
            j < k /\ history[i][j] = "clean" => history[i][k] = "clean"

\* Claimed of the code, and false of it: a completed campaign leaves no image of its
\* own behind ("their images aren't orphaned").
NoOrphanedImages == complete => exists \cap Owned = {}

\* The campaign finishes once failures stop.
EventuallyComplete == <>complete
=============================================================================
