---------------------------- MODULE Rq3Pipeline ----------------------------
(***************************************************************************)
(* The RQ3 pipeline of one scenario: search campaigns, reruns that confirm *)
(* their findings, feedback, blind revisions, the barrier that seals this  *)
(* public phase, and the hidden exam. Every process walks the whole plan   *)
(* from its first step and passes over what is on disk already; a paid     *)
(* action (a rerun, a revision, a hidden test) has a start record before   *)
(* it, a result and a receipt after it. Processes die anywhere and are     *)
(* started again by an operator.                                           *)
(***************************************************************************)
EXTENDS Integers, SequencesExt

CONSTANTS
  Methods,      \* PRODUCERS, in their order
  Suspects,     \* for each method the clusters of its suspected findings, in order
  Tests,        \* hidden executions, one for each condition and test, in order
  MaxFaults,    \* bound: crashes, failing builds and failing campaigns
  None

ASSUME MethodsAssumption == Methods \in Seq(ToSet(Methods)) /\ Methods # <<>>
ASSUME SuspectsAssumption ==
  /\ DOMAIN Suspects = ToSet(Methods)
  /\ \A m \in ToSet(Methods) : Suspects[m] \in Seq(ToSet(Suspects[m]))
  /\ \A m, n \in ToSet(Methods) : m # n => ToSet(Suspects[m]) \cap ToSet(Suspects[n]) = {}
ASSUME TestsAssumption == Tests \in Seq(ToSet(Tests))
ASSUME FaultsAssumption == MaxFaults \in Nat

Confirmation(c) == <<"confirm", c>>
Revision(m) == <<"revise", m>>
Hidden(t) == <<"hidden", t>>

Producers == ToSet(Methods)
Confirmations(m) == {Confirmation(c) : c \in ToSet(Suspects[m])}
HiddenJobs == {Hidden(t) : t \in ToSet(Tests)}
Jobs == (UNION {Confirmations(m) : m \in Producers})
        \cup {Revision(m) : m \in Producers} \cup HiddenJobs

VARIABLES
  inputs,       \* published public inputs: the stage, the work directory, the base image
  campaign,     \* campaign.json of each method
  costs,        \* rq3-costs.json: the state of the campaign it was derived from
  started,      \* jobs with a start record
  result,       \* their results
  receipt,      \* their receipts: written at once, or recovered by a later process
  ledger,       \* confirmation.json: the outcome of each cluster
  feedback,     \* envelopes: the evidence they were projected from
  leaked,       \* hidden material is in some public artifact
  barrier,      \* public-phase-complete.json
  manifest,     \* rq3-manifest.json
  status,       \* of the process: running, down, refused or verified
  at,           \* its step in the plan
  sub,          \* how far it is in this step
  answer,       \* what the job under way answered, in memory
  rows,         \* its rows of the manifest, in memory
  ran,          \* observer: how often each job was carried out
  faults

disk == <<inputs, campaign, costs, started, result, receipt, ledger, feedback, leaked,
          barrier, manifest>>
vars == <<disk, status, at, sub, answer, rows, ran, faults>>

-----------------------------------------------------------------------------
(* The plan, and the identity of what it has produced. *)

Each(kind, subjects) == [i \in DOMAIN subjects |-> <<kind, subjects[i]>>]

MethodSteps(m) ==
  <<<<"campaign", m>>, <<"check", m>>>> \o Each("confirm", Suspects[m])
    \o <<<<"ledger", m>>>>

PublicSteps ==
  Each("input", <<"stage", "work", "base">>)
    \o FlattenSeq([i \in DOMAIN Methods |-> MethodSteps(Methods[i])])
    \o Each("project", Methods) \o Each("revise", Methods)

\* Faulty variant of Plan: the exam is set up before the public phase is sealed.
PlanUnsealed ==
  PublicSteps \o <<<<"exam", None>>>> \o Each("hidden", Tests)
    \o <<<<"barrier", None>>, <<"summary", None>>, <<"verify", None>>>>

Plan ==
  PublicSteps \o <<<<"barrier", None>>, <<"exam", None>>>> \o Each("hidden", Tests)
    \o <<<<"summary", None>>, <<"verify", None>>>>

MethodOf(c) == CHOOSE m \in Producers : c \in ToSet(Suspects[m])

\* What an envelope is a function of.
Evidence(m) == [campaign |-> campaign[m], ledger |-> ledger[m]]

\* The record of the barrier links every public artifact by its hash.
PublicRecord ==
  [m \in Producers |-> [evidence |-> feedback[m], revision |-> result[Revision(m)]]]

\* A campaign is taken if it is complete, each counted execution has a run manifest of an
\* agent that began, and the costs were derived from this very state.
Plausible(m) == campaign[m] \in {"complete", "unreplayable"} /\ costs[m] = campaign[m]

\* Each counted violation has a readable verdict, a failure signature, the identity of the
\* run that showed it, and a task and an environment: what a cluster is made from.
Replayable(m) == campaign[m] # "unreplayable"

\* The scenario's own public files may already quote a hidden test.
Init ==
  /\ inputs = {} /\ leaked \in BOOLEAN /\ started = {}
  /\ campaign = [m \in Producers |-> "absent"]
  /\ costs = [m \in Producers |-> None]
  /\ ledger = [m \in Producers |-> None]
  /\ feedback = [m \in Producers |-> None]
  /\ result = [j \in Jobs |-> None]
  /\ receipt = [j \in Jobs |-> None]
  /\ barrier = None /\ manifest = None /\ rows = None /\ answer = None
  /\ status = "down" /\ at = 0 /\ sub = "enter"
  /\ ran = [j \in Jobs |-> 0]
  /\ faults = 0

-----------------------------------------------------------------------------
(* The process. *)

Step(kind) == status = "running" /\ Plan[at][1] = kind
Subject == Plan[at][2]

Advance ==
  /\ at' = at + 1 /\ sub' = "enter" /\ answer' = None
  /\ UNCHANGED status

\* An exception ends the process; what it wrote stays.
Refuse ==
  /\ status' = "refused" /\ at' = 0 /\ sub' = "enter" /\ answer' = None /\ rows' = None
  /\ UNCHANGED <<disk, ran>>

Start ==
  /\ status # "running"
  /\ status' = "running" /\ at' = 1
  /\ UNCHANGED <<disk, sub, answer, rows, ran, faults>>

\* A public input is made if it is missing, and validated if it is there.
PublishInput(name) ==
  /\ Step("input") /\ Subject = name
  /\ inputs' = inputs \cup {name}
  /\ Advance
  /\ UNCHANGED <<campaign, costs, started, result, receipt, ledger, feedback, leaked, barrier,
                 manifest, rows, ran, faults>>

\* Stage and work directory appear by a rename; a base image may be built again as long as
\* its receipt is missing, and the build may fail.
StagePublicScenario == PublishInput("stage")
MaterializePublicWork == PublishInput("work")
EnsureBaseImage == PublishInput("base")

BuildFails ==
  /\ Step("input") /\ Subject = "base" /\ "base" \notin inputs
  /\ faults < MaxFaults /\ faults' = faults + 1
  /\ Refuse

\* The campaign runs in a child, only if campaign.json does not exist; the child dies with
\* its parent.
LaunchCampaign ==
  /\ Step("campaign") /\ sub = "enter"
  /\ sub' = IF campaign[Subject] = "absent" THEN "calling" ELSE "returned"
  /\ UNCHANGED <<disk, status, at, answer, rows, ran, faults>>

CampaignBegins ==
  /\ Step("campaign") /\ sub = "calling" /\ campaign[Subject] = "absent"
  /\ campaign' = [campaign EXCEPT ![Subject] = "partial"]
  /\ UNCHANGED <<inputs, costs, started, result, receipt, ledger, feedback, leaked, barrier,
                 manifest, status, at, sub, answer, rows, ran, faults>>

\* What a campaign that has run to its end is worth. uncosted: an execution was charged whose
\* cost was lost; unmanifested: the raw run of an execution is missing or not the one it
\* names; unreplayable: a violation was counted that no rerun can be made from. Its traces may
\* contain what a hidden test contains.
Ends == {"complete", "uncosted", "unmanifested", "unreplayable"}

CampaignEnds ==
  /\ Step("campaign") /\ sub = "calling" /\ campaign[Subject] = "partial"
  /\ \E end \in Ends : campaign' = [campaign EXCEPT ![Subject] = end]
  /\ leaked' \in {leaked, TRUE}
  /\ sub' = "returned"
  /\ UNCHANGED <<inputs, costs, started, result, receipt, ledger, feedback, barrier, manifest,
                 status, at, answer, rows, ran, faults>>

CampaignFails ==
  /\ Step("campaign") /\ sub = "calling"
  /\ faults < MaxFaults /\ faults' = faults + 1
  /\ Refuse

\* rq3-costs.json is written once, for whatever state the campaign is in; it needs a cost
\* receipt for each counted execution.
DeriveCosts ==
  /\ Step("campaign") /\ sub = "returned"
  /\ LET m == Subject IN
     IF campaign[m] # "uncosted" /\ costs[m] \in {None, campaign[m]}
     THEN /\ costs' = [costs EXCEPT ![m] = campaign[m]]
          /\ Advance
          /\ UNCHANGED <<inputs, campaign, started, result, receipt, ledger, feedback, leaked,
                         barrier, manifest, rows, ran>>
     ELSE Refuse
  /\ UNCHANGED faults

\* The campaign is validated, and its findings are clustered unless that was done before.
CheckCampaign ==
  /\ Step("check")
  /\ IF Plausible(Subject) /\ (ledger[Subject] # None \/ Replayable(Subject))
     THEN Advance /\ UNCHANGED <<disk, rows, ran>>
     ELSE Refuse
  /\ UNCHANGED faults

-----------------------------------------------------------------------------
(* A job that is carried out once: rerun of a finding, revision, hidden test. *)

JobSteps == {"confirm", "revise", "hidden"}
Job == Plan[at]
AtJob == status = "running" /\ Plan[at][1] \in JobSteps

\* With a ledger on disk the clusters are not looked at again.
Closed == Job[1] = "confirm" /\ ledger[MethodOf(Job[2])] # None

\* Faulty variant of Uncertain: a start without a result is taken for no start.
UncertainNever(j) == FALSE

\* Faulty variant of Uncertain: a job without a receipt is taken for lost.
UncertainWithoutReceipt(j) == j \in started /\ receipt[j] = None

\* UncertainExternalOutcomeError: the job was begun and nothing tells how it ended.
Uncertain(j) == j \in started /\ result[j] = None

\* Faulty variant of Unbacked: raw evidence is not looked at.
UnbackedNever(j) == FALSE

\* A hidden result whose raw evidence (launch, run, verdicts, cost) is not complete.
Unbacked(j) == j[1] = "hidden" /\ result[j] = "bare"

\* The ledger is what the files of its clusters say.
LedgerHolds(m) ==
  \A c \in DOMAIN ledger[m] :
    /\ Confirmation(c) \in started /\ receipt[Confirmation(c)] # None
    /\ ledger[m][c] = result[Confirmation(c)]

BeginJob ==
  /\ AtJob /\ sub = "enter" /\ ~ Closed /\ ~ Uncertain(Job) /\ result[Job] = None
  /\ started' = started \cup {Job}
  /\ sub' = "started"
  /\ UNCHANGED <<inputs, campaign, costs, result, receipt, ledger, feedback, leaked, barrier,
                 manifest, status, at, answer, rows, ran, faults>>

RefuseJob ==
  /\ AtJob /\ sub = "enter"
  /\ IF Closed THEN ~ LedgerHolds(MethodOf(Subject)) ELSE Uncertain(Job) \/ Unbacked(Job)
  /\ Refuse /\ UNCHANGED faults

PassOver ==
  /\ AtJob /\ sub = "enter" /\ Closed /\ LedgerHolds(MethodOf(Subject))
  /\ Advance /\ UNCHANGED <<disk, rows, ran, faults>>

\* Exceptions of an executor become terminal results of reruns and of hidden tests. A rerun
\* that failed before its launch was recorded is unlaunched, a hidden test that failed
\* before it left its raw evidence is bare.
RerunAnswers == {"confirmed", "not-reproduced", "error", "unlaunched"}
RevisionAnswers == {"revised"}
HiddenAnswers == {"graded", "bare"}

\* What is on disk is told apart from nothing.
Ledgers == UNION {[ToSet(Suspects[m]) -> RerunAnswers] : m \in Producers}
Evidences == [campaign : {"complete"}, ledger : Ledgers]
PublicRecords ==
  [Producers -> [evidence : Evidences, revision : RevisionAnswers]]
Exams ==
  [public : PublicRecords, rows : [ToSet(Tests) -> HiddenAnswers \cup {None}],
   summary : BOOLEAN]
ASSUME NoRecordAssumption ==
  /\ None \notin RerunAnswers \cup RevisionAnswers \cup HiddenAnswers
                  \cup {"written", "recovered"}
  /\ None \notin Ledgers /\ None \notin Evidences
  /\ None \notin PublicRecords /\ None \notin Exams

CarryOut(kind, answers) ==
  /\ AtJob /\ Job[1] = kind /\ sub = "started"
  /\ answer' \in answers
  /\ ran' = [ran EXCEPT ![Job] = @ + 1]
  /\ sub' = "answered"
  /\ UNCHANGED <<disk, status, at, rows, faults>>

Rerun == CarryOut("confirm", RerunAnswers)
Revise == CarryOut("revise", RevisionAnswers)
RunHiddenTest == CarryOut("hidden", HiddenAnswers)

\* A provider of a revision that fails or returns no skill raises, and so does an answer of
\* any job that cannot be normalised; the job keeps its start record.
JobFails ==
  /\ AtJob /\ sub = "started"
  /\ status' = "refused" /\ at' = 0 /\ sub' = "enter" /\ answer' = None /\ rows' = None
  /\ ran' = [ran EXCEPT ![Job] = @ + 1]
  /\ UNCHANGED <<disk, faults>>

\* A rerun leaves its traces among the public artifacts, a revision its package; either may
\* contain what a hidden test contains. Hidden tests leave theirs apart.
RecordResult ==
  /\ AtJob /\ sub = "answered"
  /\ result' = [result EXCEPT ![Job] = answer]
  /\ leaked' \in IF Job[1] = "hidden" THEN {leaked} ELSE {leaked, TRUE}
  /\ sub' = "recorded"
  /\ UNCHANGED <<inputs, campaign, costs, started, receipt, ledger, feedback, barrier, manifest,
                 status, at, answer, rows, ran, faults>>

\* A result found without its receipt gets one, which for a hidden test says so. Reruns and
\* revisions are then done; the row of a hidden test is still to be updated.
WriteReceipt ==
  /\ AtJob
  /\ \/ sub = "recorded"
     \/ sub = "enter" /\ ~ Closed /\ result[Job] # None /\ ~ Uncertain(Job) /\ ~ Unbacked(Job)
  /\ LET fresh == IF sub = "enter" /\ Job[1] = "hidden" THEN "recovered" ELSE "written"
         changed == sub = "recorded" \/ receipt[Job] = None
     IN  /\ receipt' = IF receipt[Job] = None THEN [receipt EXCEPT ![Job] = fresh] ELSE receipt
         /\ IF Job[1] = "hidden"
            THEN /\ rows' = [rows EXCEPT ![Subject] = result[Job]]
                 /\ sub' = IF changed THEN "row" ELSE "enter"
                 /\ at' = IF changed THEN at ELSE at + 1
                 /\ answer' = None /\ UNCHANGED status
            ELSE Advance /\ UNCHANGED rows
  /\ UNCHANGED <<inputs, campaign, costs, started, result, ledger, feedback, leaked, barrier,
                 manifest, ran, faults>>

\* The manifest is written after each hidden test that was carried out or recovered.
WriteRow ==
  /\ AtJob /\ sub = "row"
  /\ manifest' = [manifest EXCEPT !.rows = rows]
  /\ Advance
  /\ UNCHANGED <<inputs, campaign, costs, started, result, receipt, ledger, feedback, leaked,
                 barrier, rows, ran, faults>>

-----------------------------------------------------------------------------
(* What closes each phase. *)

\* Faulty variant of Confirmed: clusters whose rerun failed are left out.
ConfirmedWithoutErrors(m) ==
  [c \in {d \in ToSet(Suspects[m]) : result[Confirmation(d)] # "error"} |->
     result[Confirmation(c)]]

Confirmed(m) == [c \in ToSet(Suspects[m]) |-> result[Confirmation(c)]]

WriteLedger ==
  /\ Step("ledger")
  /\ ledger' = IF ledger[Subject] = None THEN [ledger EXCEPT ![Subject] = Confirmed(Subject)]
                                         ELSE ledger
  /\ Advance
  /\ UNCHANGED <<inputs, campaign, costs, started, result, receipt, feedback, leaked, barrier,
                 manifest, rows, ran, faults>>

\* An envelope is projected again by each process and must be what is on disk.
Project ==
  /\ Step("project")
  /\ LET m == Subject IN
     IF Plausible(m) /\ feedback[m] \in {None, Evidence(m)}
     THEN /\ feedback' = [feedback EXCEPT ![m] = Evidence(m)]
          /\ Advance
          /\ UNCHANGED <<inputs, campaign, costs, started, result, receipt, ledger, leaked,
                         barrier, manifest, rows, ran>>
     ELSE Refuse
  /\ UNCHANGED faults

\* The record of the barrier links the launch record of every rerun.
Launched(m) == \A c \in DOMAIN ledger[m] : ledger[m][c] # "unlaunched"

\* The barrier is written, or must equal what a new one would say; then every public
\* artifact (stage, work, campaigns, reruns, envelopes, revisions) is searched for hidden
\* material, and searched again before the exam and at the end.
SealPublicPhase ==
  /\ Step("barrier") /\ sub = "enter"
  /\ IF (\A m \in Producers : Launched(m)) /\ barrier \in {None, PublicRecord}
     THEN /\ barrier' = PublicRecord /\ sub' = "audit"
          /\ UNCHANGED <<inputs, campaign, costs, started, result, receipt, ledger, feedback,
                         leaked, manifest, status, at, answer, rows, ran>>
     ELSE Refuse
  /\ UNCHANGED faults

Audit ==
  /\ Step("barrier") /\ sub = "audit"
  /\ IF ~ leaked THEN Advance /\ UNCHANGED <<disk, rows, ran>> ELSE Refuse
  /\ UNCHANGED faults

FreshRows == [t \in ToSet(Tests) |-> None]

\* A revision has its package and the provenance of its one model call.
RevisionHolds(m) == Revision(m) \in started /\ result[Revision(m)] # None

\* The records of campaigns, envelopes and revisions belong together.
InputsHold ==
  \A m \in Producers :
    Plausible(m) /\ feedback[m].campaign = campaign[m] /\ RevisionHolds(m)

SameExam == manifest.public = PublicRecord

\* The manifest is created, or must be about the same public artifacts.
OpenExam ==
  /\ Step("exam")
  /\ IF InputsHold /\ ~ leaked /\ (manifest = None \/ SameExam)
     THEN /\ manifest' = IF manifest = None
                         THEN [public |-> PublicRecord, rows |-> FreshRows, summary |-> FALSE]
                         ELSE manifest
          /\ rows' = manifest'.rows
          /\ Advance
          /\ UNCHANGED <<inputs, campaign, costs, started, result, receipt, ledger, feedback,
                         leaked, barrier, ran>>
     ELSE Refuse
  /\ UNCHANGED faults

Summarize ==
  /\ Step("summary")
  /\ manifest' = [manifest EXCEPT !.rows = rows, !.summary = TRUE]
  /\ Advance
  /\ UNCHANGED <<inputs, campaign, costs, started, result, receipt, ledger, feedback, leaked,
                 barrier, rows, ran, faults>>

\* Every link is followed again: grades are recomputed from raw evidence, campaigns,
\* ledgers, envelopes and revisions validated, the barrier compared.
HiddenHolds(j) ==
  /\ j \in started /\ result[j] # None /\ receipt[j] # None /\ ~ Unbacked(j)
  /\ manifest.rows[j[2]] = result[j]

ExamHolds == manifest.summary /\ InputsHold /\ \A j \in HiddenJobs : HiddenHolds(j)

PublicHolds ==
  /\ SameExam /\ barrier = PublicRecord /\ ~ leaked
  /\ \A m \in Producers : /\ Plausible(m) /\ LedgerHolds(m) /\ feedback[m] = Evidence(m)
                          /\ RevisionHolds(m) /\ receipt[Revision(m)] # None

Verify ==
  /\ Step("verify")
  /\ IF ExamHolds /\ PublicHolds
     THEN /\ status' = "verified" /\ at' = 0 /\ rows' = None
          /\ UNCHANGED <<disk, sub, answer, ran>>
     ELSE Refuse
  /\ UNCHANGED faults

Crash ==
  /\ status = "running" /\ faults < MaxFaults
  /\ faults' = faults + 1
  /\ status' = "down" /\ at' = 0 /\ sub' = "enter" /\ answer' = None /\ rows' = None
  /\ UNCHANGED <<disk, ran>>

-----------------------------------------------------------------------------
Proceed ==
  \/ Start \/ StagePublicScenario \/ MaterializePublicWork \/ EnsureBaseImage \/ BuildFails
  \/ LaunchCampaign \/ CampaignBegins \/ CampaignEnds \/ CampaignFails
  \/ DeriveCosts \/ CheckCampaign
  \/ BeginJob \/ RefuseJob \/ PassOver
  \/ Rerun \/ Revise \/ RunHiddenTest \/ JobFails \/ RecordResult \/ WriteReceipt \/ WriteRow
  \/ WriteLedger \/ Project \/ SealPublicPhase \/ Audit \/ OpenExam \/ Summarize \/ Verify

Next == Proceed \/ Crash

Spec == Init /\ [][Next]_vars

\* A pipeline that has not ended is started again, agents and providers answer or time out.
FairSpec == Spec /\ WF_vars(Proceed)

-----------------------------------------------------------------------------
(* What must hold. *)

TypeOK ==
  /\ inputs \subseteq {"stage", "work", "base"} /\ started \subseteq Jobs
  /\ \A m \in Producers : /\ campaign[m] \in {"absent", "partial"} \cup Ends
                          /\ costs[m] \in {None, "partial"} \cup Ends
  /\ \A j \in Jobs : /\ result[j] \in RerunAnswers \cup RevisionAnswers \cup HiddenAnswers
                                      \cup {None}
                     /\ receipt[j] \in {None, "written", "recovered"}
  /\ leaked \in BOOLEAN
  /\ status \in {"running", "down", "refused", "verified"}
  /\ at \in 0 .. Len(Plan) /\ (status = "running") = (at > 0)
  /\ sub \in {"enter", "calling", "returned", "started", "answered", "recorded", "row",
              "audit"}
  /\ faults \in 0 .. MaxFaults

\* A hidden test is begun only when the public phase has been sealed: campaigns accepted,
\* every finding rerun, envelopes projected from them, revisions made, and no public artifact
\* with hidden material; and from then on what was sealed never changes, whichever process
\* looks at it (run_rq3_scenario, _write_or_validate_public_barrier,
\* assert_no_hidden_material).
HiddenAfterSeal ==
  (started \cap HiddenJobs # {}) =>
    /\ barrier # None /\ barrier = PublicRecord /\ ~ leaked
    /\ \A m \in Producers :
         /\ Plausible(m) /\ Replayable(m) /\ ledger[m] # None /\ feedback[m] = Evidence(m)
         /\ receipt[Revision(m)] # None

\* No rerun, revision or hidden test is carried out twice, wherever a process died, and
\* each was announced (confirm_campaign_findings, revise_feedback_set,
\* evaluate_hidden_scenario).
CarriedOutOnce == \A j \in Jobs : ran[j] <= 1 /\ (ran[j] = 1 => j \in started)

\* Records never run ahead of what they are about: a receipt has a result, a result an
\* execution; a ledger has the outcome of every cluster, failed reruns included; an envelope
\* comes from a complete campaign and its ledger; a row of the manifest has its receipt.
\* And what is verified is whole: every job was carried out and has its evidence.
EvidenceAgrees ==
  /\ TypeOK
  /\ \A j \in Jobs : /\ receipt[j] # None => result[j] # None
                     /\ result[j] # None => j \in started /\ ran[j] = 1
  /\ \A m \in Producers :
       /\ ledger[m] # None =>
            \A c \in ToSet(Suspects[m]) :
               /\ c \in DOMAIN ledger[m] /\ ledger[m][c] = result[Confirmation(c)]
               /\ receipt[Confirmation(c)] # None
       /\ feedback[m] # None =>
            feedback[m].campaign = "complete" /\ feedback[m].ledger = ledger[m]
  /\ manifest # None =>
       \A t \in ToSet(Tests) :
          manifest.rows[t] # None =>
            manifest.rows[t] = result[Hidden(t)] /\ receipt[Hidden(t)] # None
  /\ status = "verified" =>
       /\ ~ leaked /\ \A m \in Producers : campaign[m] = "complete"
       /\ \A j \in Jobs : ran[j] = 1 /\ receipt[j] # None /\ result[j] # "bare"

UnderWay(j) == AtJob /\ Job = j /\ sub \in {"started", "answered"}

\* The campaign of the child that runs now.
InChild(m) == status = "running" /\ Plan[at] = <<"campaign", m>> /\ sub = "calling"

\* The outcomes, among those the model tells apart, from which no later process can reach
\* the end: nothing writes what they lack.
Hopeless ==
  \/ \E j \in started : result[j] = None /\ ~ UnderWay(j)
  \/ \E j \in Jobs : result[j] \in {"unlaunched", "bare"}
  \/ leaked
  \/ \E m \in Producers : \/ campaign[m] \in Ends \ {"complete"}
                          \/ campaign[m] = "partial" /\ ~ InChild(m)

\* Wherever processes die, the pipeline is verified in the end, except for an action whose
\* outcome is unknown, a campaign that was cut short or whose costs, raw runs or findings
\* cannot be used, a rerun without a launch record, a hidden result without raw evidence, and
\* hidden material in any public artifact: a record that is merely missing is made good by
\* the next process (run_rq3_scenario).
VerifiedUnlessHopeless == <>(status = "verified" \/ Hopeless)
=============================================================================
