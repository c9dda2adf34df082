------------------------- MODULE Rq3PipelineProofs -------------------------
(***************************************************************************)
(* The safety of the pipeline, for any methods, findings and hidden tests  *)
(* and any number of faults. That no paid action is carried out twice uses *)
(* nothing of the plan: an action is carried out only by the process that  *)
(* has just written its start record, and no process writes a start record *)
(* for an action that has one. What the exam and the records rest on uses  *)
(* the order of the plan: every step comes after the steps it needs, a     *)
(* process leaves behind each step what that step is for, and no later     *)
(* step, of this process or another, takes it away.                        *)
(***************************************************************************)
EXTENDS Rq3Pipeline, TLAPS, WellFoundedInduction

-----------------------------------------------------------------------------
(* Paid actions: a start record is written once, an action follows it.     *)

\* How often the actions have been carried out, and that all of these were announced.
Announced ==
  /\ ran \in [Jobs -> {0, 1}]
  /\ \A j \in Jobs : ran[j] = 1 => j \in started

\* Between the start record and the action, nothing has been carried out yet.
ReadyToRun ==
  sub = "started" => AtJob /\ Job \in started /\ (Job \in Jobs => ran[Job] = 0)

IInv == Announced /\ ReadyToRun

LEMMA InitIInv == Init => IInv
  BY DEF Init, IInv, Announced, ReadyToRun

\* The only step that announces: what it announces was not announced before.
LEMMA BeginKeeps == IInv /\ BeginJob => IInv'
<1> SUFFICES ASSUME IInv, BeginJob PROVE IInv'
  OBVIOUS
<1> USE DEF IInv, Announced, ReadyToRun, BeginJob
<1>1. Job \notin started
  BY DEF Uncertain
<1>2. Job \in Jobs => ran[Job] = 0
  BY <1>1
<1>3. Job' = Job /\ AtJob'
  BY DEF Job, AtJob
<1>4. Announced'
  OBVIOUS
<1>5. ReadyToRun'
  BY <1>2, <1>3
<1> QED BY <1>4, <1>5

\* The steps that carry an action out.
LEMMA CarryOutKeeps ==
  ASSUME IInv, AtJob, sub = "started", sub' # "started", UNCHANGED started,
         ran' = [ran EXCEPT ![Job] = @ + 1]
  PROVE  IInv'
<1> USE DEF IInv, Announced, ReadyToRun
<1>1. Job \in Jobs => ran[Job] = 0 /\ Job \in started
  OBVIOUS
<1>2. ran' \in [Jobs -> {0, 1}]
  <2>1. DOMAIN ran' = Jobs /\ ran' = [j \in Jobs |-> ran'[j]]
    OBVIOUS
  <2>2. \A j \in Jobs : ran'[j] = IF j = Job THEN 1 ELSE ran[j]
    BY <1>1
  <2>3. \A j \in Jobs : ran'[j] \in {0, 1}
    BY <2>2
  <2> QED BY <2>1, <2>3
<1>3. \A j \in Jobs : ran'[j] = 1 => j \in started
  BY <1>1
<1> QED BY <1>2, <1>3

\* Every other step keeps the counts and does not make an action ready.
LEMMA OthersKeep ==
  ASSUME IInv, UNCHANGED <<started, ran>>, sub' # "started"
  PROVE  IInv'
  BY DEF IInv, Announced, ReadyToRun

LEMMA StepIInv == IInv /\ [Next]_vars => IInv'
<1> SUFFICES ASSUME IInv, [Next]_vars PROVE IInv'
  OBVIOUS
<1>1. CASE BeginJob
  BY <1>1, BeginKeeps
<1>2. CASE Rerun \/ Revise \/ RunHiddenTest \/ JobFails
  BY <1>2, CarryOutKeeps DEF Rerun, Revise, RunHiddenTest, CarryOut, JobFails, disk
<1>3. CASE Start
  BY <1>3, OthersKeep DEF Start, disk, IInv, ReadyToRun, AtJob
<1>4. CASE StagePublicScenario \/ MaterializePublicWork \/ EnsureBaseImage \/ BuildFails
  BY <1>4, OthersKeep
  DEF StagePublicScenario, MaterializePublicWork, EnsureBaseImage, PublishInput, BuildFails,
      Advance, Refuse, disk
<1>5. CASE LaunchCampaign \/ CampaignEnds \/ CampaignFails
  BY <1>5, OthersKeep DEF LaunchCampaign, CampaignEnds, CampaignFails, Refuse, disk
<1>18. CASE CampaignBegins
  BY <1>18, OthersKeep DEF CampaignBegins, ReadyToRun, IInv, AtJob, Job, Step, JobSteps
<1>6. CASE DeriveCosts \/ CheckCampaign
  BY <1>6, OthersKeep DEF DeriveCosts, CheckCampaign, Advance, Refuse, disk
<1>7. CASE RefuseJob \/ PassOver
  BY <1>7, OthersKeep DEF RefuseJob, PassOver, Advance, Refuse, disk
<1>8. CASE RecordResult
  BY <1>8, OthersKeep DEF RecordResult
<1>9. CASE WriteReceipt
  <2>1. UNCHANGED <<started, ran>>
    BY <1>9 DEF WriteReceipt
  <2>2. sub' # "started"
    BY <1>9 DEF WriteReceipt, Advance
  <2> QED BY <2>1, <2>2, OthersKeep
<1>10. CASE WriteRow
  BY <1>10, OthersKeep DEF WriteRow, Advance
<1>11. CASE WriteLedger \/ Project
  BY <1>11, OthersKeep DEF WriteLedger, Project, Advance, Refuse, disk
<1>12. CASE SealPublicPhase \/ Audit
  BY <1>12, OthersKeep DEF SealPublicPhase, Audit, Advance, Refuse, disk
<1>13. CASE OpenExam
  BY <1>13, OthersKeep DEF OpenExam, Advance, Refuse, disk
<1>14. CASE Summarize
  BY <1>14, OthersKeep DEF Summarize, Advance
<1>15. CASE Verify
  <2>1. sub # "started"
    BY <1>15 DEF Verify, Step, IInv, ReadyToRun, AtJob, JobSteps
  <2> QED BY <1>15, <2>1, OthersKeep DEF Verify, Refuse, disk
<1>16. CASE Crash
  BY <1>16, OthersKeep DEF Crash, disk
<1>17. CASE UNCHANGED vars
  <2>1. AtJob' = AtJob /\ Job' = Job
    BY <1>17 DEF vars, AtJob, Job
  <2> QED BY <1>17, <2>1 DEF vars, disk, IInv, Announced, ReadyToRun
<1> QED
  BY <1>1, <1>2, <1>3, <1>4, <1>5, <1>6, <1>7, <1>8, <1>9, <1>10, <1>11, <1>12, <1>13, <1>14,
     <1>15, <1>16, <1>17, <1>18
  DEF Next, Proceed

\* No rerun, revision or hidden test is carried out twice, wherever processes die and however
\* often the pipeline is started again (confirm_campaign_findings, revise_feedback_set,
\* evaluate_hidden_scenario).
THEOREM PaidActionsOnce == Spec => []CarriedOutOnce
<1>1. IInv => CarriedOutOnce
  BY DEF IInv, Announced, CarriedOutOnce
<1> QED BY InitIInv, StepIInv, <1>1, PTL DEF Spec

-----------------------------------------------------------------------------
(* The plan: what a step needs comes before it. *)

\* The steps a step relies on.
Needs(step) ==
  IF step[1] = "ledger" THEN Confirmations(step[2]) \cup {<<"check", step[2]>>}
  ELSE IF step[1] = "project" THEN {<<"ledger", step[2]>>}
  ELSE IF step[1] = "barrier" THEN {<<"project", m>> : m \in Producers}
                                   \cup {<<"revise", m>> : m \in Producers}
  ELSE IF step[1] = "exam" THEN {<<"barrier", None>>}
  ELSE IF step[1] \in {"hidden", "summary", "verify"} THEN {<<"exam", None>>}
  ELSE {}

LEMMA JoinSequences ==
  ASSUME NEW X, NEW s \in Seq(X), NEW t \in Seq(X)
  PROVE  /\ s \o t \in Seq(X)
         /\ Len(s \o t) = Len(s) + Len(t)
         /\ \A i \in 1 .. Len(s) : (s \o t)[i] = s[i]
         /\ \A i \in 1 .. Len(t) : (s \o t)[Len(s) + i] = t[i]
         /\ \A i \in Len(s) + 1 .. Len(s) + Len(t) : (s \o t)[i] = t[i - Len(s)]
  OBVIOUS

\* The elements of a sequence.
Of(s) == {s[i] : i \in 1 .. Len(s)}

\* Each element of s has what it needs in done or before it.
Follows(done, s) ==
  \A i \in 1 .. Len(s) : \A x \in Needs(s[i]) : x \in done \/ \E k \in 1 .. i - 1 : s[k] = x

LEMMA JoinFollows ==
  ASSUME NEW X, NEW s \in Seq(X), NEW t \in Seq(X), NEW done, NEW more,
         Follows(done, s), Follows(more, t), more \subseteq done \cup Of(s)
  PROVE  Follows(done, s \o t)
<1> DEFINE u == s \o t
<1>1. /\ u \in Seq(X) /\ Len(u) = Len(s) + Len(t)
      /\ \A i \in 1 .. Len(s) : u[i] = s[i]
      /\ \A i \in 1 .. Len(t) : u[Len(s) + i] = t[i]
      /\ \A i \in Len(s) + 1 .. Len(s) + Len(t) : u[i] = t[i - Len(s)]
  BY JoinSequences
<1>2. Len(s) \in Nat /\ Len(t) \in Nat
  OBVIOUS
<1> HIDE DEF u
<1> SUFFICES ASSUME NEW i \in 1 .. Len(u), NEW x \in Needs(u[i]), x \notin done
             PROVE  \E k \in 1 .. i - 1 : u[k] = x
  BY DEF Follows, u
<1>3. CASE i <= Len(s)
  <2>1. i \in 1 .. Len(s) /\ u[i] = s[i]
    BY <1>1, <1>2, <1>3
  <2>2. PICK k \in 1 .. i - 1 : s[k] = x
    BY <2>1 DEF Follows
  <2>3. k \in 1 .. Len(s)
    BY <2>1, <1>2
  <2> QED BY <2>2, <2>3, <1>1
<1>4. CASE i > Len(s)
  <2>1. /\ i \in Len(s) + 1 .. Len(s) + Len(t) /\ i - Len(s) \in 1 .. Len(t)
    BY <1>1, <1>2, <1>4
  <2>2. u[i] = t[i - Len(s)]
    BY <2>1, <1>1
  <2>3. CASE x \in more
    <3>1. PICK k \in 1 .. Len(s) : s[k] = x
      BY <2>3 DEF Of
    <3>2. k \in 1 .. i - 1 /\ u[k] = x
      BY <3>1, <1>1, <1>2, <1>4
    <3> QED BY <3>2
  <2>4. CASE x \notin more
    <3>1. PICK k \in 1 .. (i - Len(s)) - 1 : t[k] = x
      BY <2>1, <2>2, <2>4 DEF Follows
    <3>2. k \in 1 .. Len(t) /\ Len(s) + k \in 1 .. i - 1
      BY <3>1, <2>1, <1>2
    <3>3. u[Len(s) + k] = x
      BY <3>1, <3>2, <1>1
    <3> QED BY <3>2, <3>3
  <2> QED BY <2>3, <2>4
<1> QED BY <1>1, <1>2, <1>3, <1>4

LEMMA JoinOf ==
  ASSUME NEW X, NEW s \in Seq(X), NEW t \in Seq(X)
  PROVE  Of(s \o t) = Of(s) \cup Of(t)
<1> DEFINE u == s \o t
<1>1. /\ u \in Seq(X) /\ Len(u) = Len(s) + Len(t)
      /\ \A i \in 1 .. Len(s) : u[i] = s[i]
      /\ \A i \in 1 .. Len(t) : u[Len(s) + i] = t[i]
      /\ \A i \in Len(s) + 1 .. Len(s) + Len(t) : u[i] = t[i - Len(s)]
  BY JoinSequences
<1>2. Len(s) \in Nat /\ Len(t) \in Nat
  OBVIOUS
<1> HIDE DEF u
<1>3. ASSUME NEW x \in Of(u) PROVE x \in Of(s) \cup Of(t)
  <2>1. PICK i \in 1 .. Len(u) : u[i] = x
    BY DEF Of
  <2>2. CASE i <= Len(s)
    <3>1. i \in 1 .. Len(s)
      BY <2>2, <1>2
    <3> QED BY <3>1, <2>1, <1>1 DEF Of
  <2>3. CASE i > Len(s)
    <3>1. i \in Len(s) + 1 .. Len(s) + Len(t) /\ i - Len(s) \in 1 .. Len(t)
      BY <2>3, <1>1, <1>2
    <3>2. t[i - Len(s)] = x
      BY <3>1, <2>1, <1>1
    <3> QED BY <3>1, <3>2 DEF Of
  <2> QED BY <2>2, <2>3, <1>1, <1>2
<1>4. Of(s) \subseteq Of(u)
  BY <1>1, <1>2 DEF Of
<1>5. ASSUME NEW x \in Of(t) PROVE x \in Of(u)
  <2>1. PICK i \in 1 .. Len(t) : t[i] = x
    BY DEF Of
  <2>2. Len(s) + i \in 1 .. Len(u) /\ u[Len(s) + i] = x
    BY <2>1, <1>1, <1>2
  <2> QED BY <2>2 DEF Of
<1> QED BY <1>3, <1>4, <1>5 DEF u

\* A set of naturals has a least element, the first place where an induction would break.
LEMMA LeastNatural ==
  ASSUME NEW S \in SUBSET Nat, S # {}
  PROVE  \E s \in S : \A r \in S : s <= r
<1>1. \E s \in S : \A r \in S : ~ (<<r, s>> \in OpToRel(<, Nat))
  BY NatLessThanWellFounded, WFMin, Zenon
<1>2. \A r, s \in Nat : r < s => <<r, s>> \in OpToRel(<, Nat)
  BY DEF OpToRel
<1>3. \E s \in S : \A r \in S : ~ (r < s)
  BY <1>1, <1>2, Zenon
<1> QED BY <1>3

\* f joins the first k sequences of q, one after the other.
Joins(f, q, k) == f = [i \in 1 .. k |-> IF i = 1 THEN q[i] ELSE f[i - 1] \o q[i]]

LEMMA JoinsExist ==
  ASSUME NEW q, NEW n \in Nat
  PROVE  \E f : Joins(f, q, n)
<1> DEFINE Bad == {k \in Nat : ~ \E f : Joins(f, q, k)}
<1>1. SUFFICES ASSUME Bad # {} PROVE FALSE
  OBVIOUS
<1>2. PICK k \in Bad : \A r \in Bad : k <= r
  <2> HIDE DEF Bad
  <2>1. Bad \in SUBSET Nat
    BY DEF Bad
  <2> QED BY <1>1, <2>1, LeastNatural
<1>3. CASE k = 0
  <2> DEFINE f == [i \in 1 .. 0 |-> 0]
  <2>1. Joins(f, q, 0)
    BY DEF Joins
  <2> QED BY <2>1, <1>3
<1>4. CASE k # 0
  <2>1. k \in Nat /\ k - 1 \in Nat /\ k - 1 \notin Bad
    BY <1>2, <1>4
  <2>2. PICK g : Joins(g, q, k - 1)
    BY <2>1
  <2> DEFINE f == [i \in 1 .. k |-> IF i = k THEN (IF i = 1 THEN q[i] ELSE g[i - 1] \o q[i])
                                     ELSE g[i]]
  <2>3. \A i \in 1 .. k - 1 : g[i] = IF i = 1 THEN q[i] ELSE g[i - 1] \o q[i]
    BY <2>2 DEF Joins
  <2>4. ASSUME NEW i \in 1 .. k PROVE f[i] = IF i = 1 THEN q[i] ELSE f[i - 1] \o q[i]
    <3>1. i # 1 => i - 1 \in 1 .. k /\ i - 1 # k
      BY <2>1
    <3>2. i # 1 => f[i - 1] = g[i - 1]
      BY <3>1
    <3>3. CASE i = k
      <4>1. f[i] = IF i = 1 THEN q[i] ELSE g[i - 1] \o q[i]
        BY <3>3
      <4> HIDE DEF f
      <4> QED BY <4>1, <3>2
    <3>4. CASE i # k
      <4>1. f[i] = g[i]
        BY <3>4
      <4>2. i \in 1 .. k - 1
        BY <3>4, <2>1
      <4> HIDE DEF f
      <4> QED BY <4>1, <4>2, <2>3, <3>2
    <3> QED BY <3>3, <3>4
  <2>5. f = [i \in 1 .. k |-> f[i]]
    OBVIOUS
  <2>6. Joins(f, q, k)
    <3> HIDE DEF f
    <3> QED BY <2>4, <2>5 DEF Joins
  <2> QED BY <2>6
<1> QED BY <1>3, <1>4

\* What holds of the parts of a joined sequence holds of all of it.
LEMMA FlattenFollows ==
  ASSUME NEW X, NEW q \in Seq(Seq(X)), q # <<>>, \A i \in 1 .. Len(q) : Follows({}, q[i])
  PROVE  /\ FlattenSeq(q) \in Seq(X) /\ Follows({}, FlattenSeq(q))
         /\ \A i \in 1 .. Len(q) : Of(q[i]) \subseteq Of(FlattenSeq(q))
<1> DEFINE n == Len(q)
<1> DEFINE f == CHOOSE g : Joins(g, q, n)
<1>1. n \in Nat /\ n # 0
  OBVIOUS
<1>2. FlattenSeq(q) = f[n]
  BY <1>1 DEF FlattenSeq, Joins
<1>3. Joins(f, q, n)
  BY <1>1, JoinsExist
<1> DEFINE Good(i) == /\ f[i] \in Seq(X) /\ Follows({}, f[i])
                      /\ \A j \in 1 .. i : Of(q[j]) \subseteq Of(f[i])
<1> DEFINE Bad == {i \in 1 .. n : ~ Good(i)}
<1> HIDE DEF f
<1>4. \A i \in 1 .. n : f[i] = IF i = 1 THEN q[i] ELSE f[i - 1] \o q[i]
  BY <1>3 DEF Joins
<1>5. ASSUME Bad # {} PROVE FALSE
  <2>1. PICK k \in Bad : \A r \in Bad : k <= r
    <3>1. Bad \in SUBSET Nat
      BY <1>1
    <3> HIDE DEF Bad
    <3> QED BY <1>5, <3>1, LeastNatural
  <2>2. k \in 1 .. n /\ q[k] \in Seq(X) /\ Follows({}, q[k])
    OBVIOUS
  <2>3. CASE k = 1
    <3>1. f[k] = q[k]
      BY <1>4, <2>2, <2>3
    <3>2. Good(k)
      BY <3>1, <2>2, <2>3
    <3> QED BY <3>2
  <2>4. CASE k # 1
    <3>1. k - 1 \in 1 .. n /\ k - 1 \notin Bad
      <4>1. k - 1 \in 1 .. n /\ ~ (k <= k - 1)
        BY <2>2, <2>4, <1>1
      <4> HIDE DEF Bad
      <4> QED BY <4>1, <2>1
    <3>2. Good(k - 1)
      BY <3>1
    <3>3. f[k] = f[k - 1] \o q[k]
      BY <1>4, <2>2, <2>4
    <3>4. f[k] \in Seq(X) /\ Of(f[k]) = Of(f[k - 1]) \cup Of(q[k])
      BY <3>2, <3>3, <2>2, JoinOf, JoinSequences
    <3>5. Follows({}, f[k])
      <4>1. Follows({}, f[k - 1]) /\ f[k - 1] \in Seq(X)
        BY <3>2
      <4>2. Follows({}, f[k - 1] \o q[k])
        BY <4>1, <2>2, JoinFollows
      <4> QED BY <4>2, <3>3
    <3>6. \A j \in 1 .. k : Of(q[j]) \subseteq Of(f[k])
      <4>1. \A j \in 1 .. k : j = k \/ j \in 1 .. k - 1
        BY <2>2
      <4> QED BY <4>1, <3>2, <3>4
    <3>7. Good(k)
      BY <3>4, <3>5, <3>6
    <3> QED BY <3>7
  <2> QED BY <2>3, <2>4
<1>6. n \in 1 .. n
  BY <1>1
<1>7. Good(n)
  BY <1>5, <1>6
<1> QED BY <1>2, <1>7

Clusters == UNION {ToSet(Suspects[m]) : m \in Producers}
PublicInputs == {"stage", "work", "base"}
MethodKinds == {"campaign", "check", "ledger", "project", "revise"}
Kinds == MethodKinds \cup {"input", "confirm", "barrier", "exam", "hidden", "summary", "verify"}

Steps ==
  {x \in Kinds \X (PublicInputs \cup Producers \cup Clusters \cup ToSet(Tests) \cup {None}) :
     /\ x[1] \in MethodKinds => x[2] \in Producers
     /\ x[1] = "input" => x[2] \in PublicInputs
     /\ x[1] = "confirm" => x[2] \in Clusters
     /\ x[1] = "hidden" => x[2] \in ToSet(Tests)
     /\ x[1] \in {"barrier", "exam", "summary", "verify"} => x[2] = None}

Named(kind, subjects) == {<<kind, x>> : x \in subjects}

LEMMA EachSteps ==
  ASSUME NEW kind, NEW S, NEW s \in Seq(S), \A x \in Of(s) : <<kind, x>> \in Steps
  PROVE  /\ Each(kind, s) \in Seq(Steps) /\ Len(Each(kind, s)) = Len(s)
         /\ Of(Each(kind, s)) = Named(kind, Of(s))
         /\ \A i \in 1 .. Len(s) : Each(kind, s)[i] = <<kind, s[i]>>
<1> DEFINE e == Each(kind, s)
<1>1. DOMAIN s = 1 .. Len(s) /\ Len(s) \in Nat
  OBVIOUS
<1>2. e = [i \in 1 .. Len(s) |-> <<kind, s[i]>>]
  BY <1>1 DEF Each
<1> HIDE DEF e
<1>3. \A i \in 1 .. Len(s) : e[i] = <<kind, s[i]>> /\ e[i] \in Steps
  BY <1>2 DEF Of
<1>4. e \in Seq(Steps) /\ Len(e) = Len(s)
  BY <1>1, <1>2, <1>3
<1>5. Of(e) = Named(kind, Of(s))
  BY <1>3, <1>4 DEF Of, Named
<1> QED BY <1>3, <1>4, <1>5 DEF e

LEMMA EachFollows ==
  ASSUME NEW kind, NEW S, NEW s \in Seq(S), \A x \in Of(s) : <<kind, x>> \in Steps,
         NEW done, \A x \in Of(s) : Needs(<<kind, x>>) \subseteq done
  PROVE  Follows(done, Each(kind, s))
<1> DEFINE e == Each(kind, s)
<1>1. Len(e) = Len(s) /\ \A i \in 1 .. Len(s) : e[i] = <<kind, s[i]>>
  BY EachSteps
<1> HIDE DEF e
<1>2. \A i \in 1 .. Len(e) : s[i] \in Of(s) /\ e[i] = <<kind, s[i]>>
  BY <1>1 DEF Of
<1>3. \A i \in 1 .. Len(e) : Needs(e[i]) \subseteq done
  BY <1>2
<1>4. Follows(done, e)
  BY <1>3 DEF Follows
<1> QED BY <1>4 DEF e

LEMMA SubjectsAreSteps ==
  /\ \A m \in Producers, k \in MethodKinds : <<k, m>> \in Steps
  /\ \A x \in PublicInputs : <<"input", x>> \in Steps
  /\ \A m \in Producers : \A c \in ToSet(Suspects[m]) : <<"confirm", c>> \in Steps
  /\ \A t \in ToSet(Tests) : <<"hidden", t>> \in Steps
  /\ \A k \in {"barrier", "exam", "summary", "verify"} : <<k, None>> \in Steps
<1>1. \A m \in Producers : \A c \in ToSet(Suspects[m]) : c \in Clusters
  BY DEF Clusters
<1> QED BY <1>1 DEF Steps, Kinds, MethodKinds

LEMMA NeedsOf ==
  /\ \A m : Needs(<<"ledger", m>>) = Confirmations(m) \cup {<<"check", m>>}
  /\ \A m : Needs(<<"project", m>>) = {<<"ledger", m>>}
  /\ Needs(<<"barrier", None>>) = Named("project", Producers) \cup Named("revise", Producers)
  /\ Needs(<<"exam", None>>) = {<<"barrier", None>>}
  /\ \A t : Needs(<<"hidden", t>>) = {<<"exam", None>>}
  /\ Needs(<<"summary", None>>) = {<<"exam", None>>}
  /\ Needs(<<"verify", None>>) = {<<"exam", None>>}
  /\ \A x : Needs(<<"input", x>>) = {} /\ Needs(<<"campaign", x>>) = {}
            /\ Needs(<<"check", x>>) = {} /\ Needs(<<"confirm", x>>) = {}
            /\ Needs(<<"revise", x>>) = {}
<1>1. \A k, x : <<k, x>>[1] = k /\ <<k, x>>[2] = x
  OBVIOUS
<1>2. \A m : Needs(<<"ledger", m>>) = Confirmations(m) \cup {<<"check", m>>}
  BY <1>1 DEF Needs
<1>3. \A m : Needs(<<"project", m>>) = {<<"ledger", m>>}
  BY <1>1 DEF Needs
<1>4. Needs(<<"barrier", None>>) = Named("project", Producers) \cup Named("revise", Producers)
  BY <1>1 DEF Needs, Named
<1>5. /\ Needs(<<"exam", None>>) = {<<"barrier", None>>}
      /\ \A t : Needs(<<"hidden", t>>) = {<<"exam", None>>}
      /\ Needs(<<"summary", None>>) = {<<"exam", None>>}
      /\ Needs(<<"verify", None>>) = {<<"exam", None>>}
  BY <1>1 DEF Needs
<1>6. \A x : /\ Needs(<<"input", x>>) = {} /\ Needs(<<"campaign", x>>) = {}
             /\ Needs(<<"check", x>>) = {} /\ Needs(<<"confirm", x>>) = {}
             /\ Needs(<<"revise", x>>) = {}
  <2>1. \A k, x : k \notin {"ledger", "project", "barrier", "exam", "hidden", "summary",
                              "verify"} => Needs(<<k, x>>) = {}
    BY <1>1 DEF Needs
  <2> HIDE DEF Needs
  <2> QED BY <2>1
<1> QED BY <1>2, <1>3, <1>4, <1>5, <1>6

LEMMA ElementsOf ==
  ASSUME NEW X, NEW s \in Seq(X)
  PROVE  Of(s) = ToSet(s)
<1>1. DOMAIN s = 1 .. Len(s)
  OBVIOUS
<1> QED BY <1>1 DEF Of, ToSet

LEMMA ConstantLists ==
  /\ Methods \in Seq(Producers) /\ Of(Methods) = Producers /\ Methods # <<>>
  /\ Tests \in Seq(ToSet(Tests)) /\ Of(Tests) = ToSet(Tests)
  /\ \A m \in Producers : /\ Suspects[m] \in Seq(ToSet(Suspects[m]))
                          /\ Of(Suspects[m]) = ToSet(Suspects[m])
<1>1. Methods \in Seq(Producers) /\ Methods # <<>>
  BY MethodsAssumption DEF Producers
<1>2. Tests \in Seq(ToSet(Tests))
  BY TestsAssumption
<1>3. \A m \in Producers : Suspects[m] \in Seq(ToSet(Suspects[m]))
  BY SuspectsAssumption DEF Producers
<1>4. \A m \in Producers : Of(Suspects[m]) = ToSet(Suspects[m])
  BY <1>3, ElementsOf
<1> QED BY <1>1, <1>2, <1>3, <1>4, ElementsOf DEF Producers

\* A list of steps that need nothing.
LEMMA FreeFollows ==
  ASSUME NEW s \in Seq(Steps), NEW done, \A i \in 1 .. Len(s) : Needs(s[i]) \subseteq done
  PROVE  Follows(done, s)
  BY DEF Follows

LEMMA MethodStepsFollow ==
  ASSUME NEW m \in Producers
  PROVE  /\ MethodSteps(m) \in Seq(Steps) /\ Follows({}, MethodSteps(m))
         /\ <<"ledger", m>> \in Of(MethodSteps(m))
<1> DEFINE first == <<<<"campaign", m>>, <<"check", m>>>>
           reruns == Each("confirm", Suspects[m])
           last == <<<<"ledger", m>>>>
<1>1. /\ <<"campaign", m>> \in Steps /\ <<"check", m>> \in Steps /\ <<"ledger", m>> \in Steps
      /\ \A c \in Of(Suspects[m]) : <<"confirm", c>> \in Steps
  BY SubjectsAreSteps, ConstantLists DEF MethodKinds
<1>2. /\ Suspects[m] \in Seq(ToSet(Suspects[m])) /\ Of(Suspects[m]) = ToSet(Suspects[m])
  BY ConstantLists
<1>3. first \in Seq(Steps) /\ last \in Seq(Steps) /\ Len(first) = 2 /\ Len(last) = 1
  BY <1>1
<1>4. reruns \in Seq(Steps) /\ Of(reruns) = Named("confirm", ToSet(Suspects[m]))
  BY <1>1, <1>2, EachSteps
<1>5. Follows({}, reruns)
  BY <1>1, <1>2, NeedsOf, EachFollows
<1>6. Follows({}, first)
  <2>1. \A i \in 1 .. 2 : Needs(first[i]) = {}
    <3>1. first[1] = <<"campaign", m>> /\ first[2] = <<"check", m>>
      OBVIOUS
    <3> HIDE DEF first
    <3>2. Needs(first[1]) = {} /\ Needs(first[2]) = {}
      BY <3>1, NeedsOf
    <3>3. \A i \in 1 .. 2 : i = 1 \/ i = 2
      OBVIOUS
    <3> QED BY <3>2, <3>3
  <2> HIDE DEF first
  <2> QED BY <1>3, <2>1, FreeFollows
<1>7. Named("confirm", ToSet(Suspects[m])) = Confirmations(m)
  BY DEF Named, Confirmations, Confirmation
<1> DEFINE needed == Confirmations(m) \cup {<<"check", m>>}
<1>8. Follows(needed, last)
  <2>1. Needs(last[1]) = needed
    BY NeedsOf
  <2> HIDE DEF last, needed
  <2>2. \A i \in 1 .. Len(last) : Needs(last[i]) \subseteq needed
    BY <1>3, <2>1
  <2> QED BY <1>3, <2>2, FreeFollows
<1>9. <<"ledger", m>> \in Of(last) /\ <<"check", m>> \in Of(first)
  <2>1. first[2] = <<"check", m>> /\ last[1] = <<"ledger", m>>
    OBVIOUS
  <2> HIDE DEF first, last
  <2> QED BY <1>3, <2>1 DEF Of
<1>10. MethodSteps(m) = (first \o reruns) \o last
  BY DEF MethodSteps
<1> HIDE DEF first, reruns, last
<1> DEFINE front == first \o reruns
<1>11. front \in Seq(Steps) /\ Follows({}, front) /\ Of(front) = Of(first) \cup Of(reruns)
  BY <1>3, <1>4, <1>5, <1>6, JoinSequences, JoinFollows, JoinOf
<1>12. needed \subseteq {} \cup Of(front)
  BY <1>11, <1>4, <1>7, <1>9
<1>13. MethodSteps(m) = front \o last
  BY <1>10
<1> HIDE DEF front, needed
<1>14. front \o last \in Seq(Steps) /\ Of(front \o last) = Of(front) \cup Of(last)
  BY <1>11, <1>3, JoinSequences, JoinOf
<1>15. Follows({}, front \o last)
  BY <1>11, <1>3, <1>8, <1>12, JoinFollows
<1> QED BY <1>9, <1>13, <1>14, <1>15

\* One more part of a plan: what it needs is in the part before it.
LEMMA Extend ==
  ASSUME NEW s \in Seq(Steps), NEW t \in Seq(Steps), Follows({}, s), Follows(Of(s), t)
  PROVE  /\ s \o t \in Seq(Steps) /\ Follows({}, s \o t) /\ Of(s \o t) = Of(s) \cup Of(t)
         /\ Len(s \o t) = Len(s) + Len(t)
         /\ \A i \in 1 .. Len(t) : (s \o t)[Len(s) + i] = t[i]
<1>1. Of(s) \subseteq {} \cup Of(s)
  OBVIOUS
<1>2. Follows({}, s \o t)
  BY <1>1, JoinFollows
<1> QED BY <1>2, JoinSequences, JoinOf

\* Two steps of which the second may need the first.
LEMMA Two ==
  ASSUME NEW x \in Steps, NEW y \in Steps, NEW done,
         Needs(x) \subseteq done, Needs(y) \subseteq {x} \cup done
  PROVE  /\ <<x, y>> \in Seq(Steps) /\ Follows(done, <<x, y>>) /\ Of(<<x, y>>) = {x, y}
         /\ Len(<<x, y>>) = 2 /\ <<x, y>>[2] = y
<1> DEFINE s == <<x, y>>
<1>1. s \in Seq(Steps) /\ Len(s) = 2 /\ s[1] = x /\ s[2] = y
  OBVIOUS
<1> HIDE DEF s
<1>2. \A i \in 1 .. 2 : i = 1 \/ (i = 2 /\ 1 \in 1 .. i - 1)
  OBVIOUS
<1>3. Of(s) = {x, y}
  BY <1>1, <1>2 DEF Of
<1>4. Follows(done, s)
  <2> SUFFICES ASSUME NEW i \in 1 .. 2, NEW z \in Needs(s[i]), z \notin done
               PROVE  \E k \in 1 .. i - 1 : s[k] = z
    BY <1>1 DEF Follows
  <2> QED BY <1>1, <1>2
<1> QED BY <1>1, <1>3, <1>4 DEF s

\* The plan is a list of steps, each after the steps it needs, and verification is the last.
LEMMA PlanIsOrdered ==
  /\ Plan \in Seq(Steps) /\ Follows({}, Plan)
  /\ Len(Plan) >= 1 /\ Plan[Len(Plan)] = <<"verify", None>>
<1> DEFINE inputsteps == Each("input", <<"stage", "work", "base">>)
           parts == [i \in DOMAIN Methods |-> MethodSteps(Methods[i])]
           searches == FlattenSeq(parts)
           projections == Each("project", Methods)
           revisions == Each("revise", Methods)
           seal == <<<<"barrier", None>>, <<"exam", None>>>>
           tests == Each("hidden", Tests)
           end == <<<<"summary", None>>, <<"verify", None>>>>
<1>1. inputsteps \in Seq(Steps) /\ Follows({}, inputsteps)
  <2>1. <<"stage", "work", "base">> \in Seq(PublicInputs)
    BY DEF PublicInputs
  <2> DEFINE names == <<"stage", "work", "base">>
  <2> HIDE DEF names
  <2>2. \A x \in Of(names) : x \in PublicInputs
    BY <2>1 DEF Of, names
  <2>3. \A x \in Of(names) : <<"input", x>> \in Steps /\ Needs(<<"input", x>>) \subseteq {}
    BY <2>2, SubjectsAreSteps, NeedsOf
  <2>4. names \in Seq(PublicInputs)
    BY <2>1 DEF names
  <2>5. Each("input", names) \in Seq(Steps) /\ Follows({}, Each("input", names))
    BY <2>3, <2>4, EachSteps, EachFollows
  <2> QED BY <2>5 DEF names
<1>2. /\ searches \in Seq(Steps) /\ Follows({}, searches)
      /\ \A m \in Producers : <<"ledger", m>> \in Of(searches)
  <2>1. /\ DOMAIN Methods = 1 .. Len(Methods) /\ Len(Methods) \in Nat /\ Len(Methods) # 0
        /\ \A i \in 1 .. Len(Methods) : Methods[i] \in Producers
    BY ConstantLists
  <2>2. \A i \in 1 .. Len(Methods) :
          /\ MethodSteps(Methods[i]) \in Seq(Steps) /\ Follows({}, MethodSteps(Methods[i]))
          /\ <<"ledger", Methods[i]>> \in Of(MethodSteps(Methods[i]))
    BY <2>1, MethodStepsFollow
  <2>3. /\ parts \in Seq(Seq(Steps)) /\ Len(parts) = Len(Methods) /\ parts # <<>>
        /\ \A i \in 1 .. Len(Methods) : parts[i] = MethodSteps(Methods[i])
    <3>1. \A i \in 1 .. Len(Methods) : parts[i] = MethodSteps(Methods[i])
      BY <2>1
    <3>2. DOMAIN parts = 1 .. Len(Methods) /\ parts = [i \in 1 .. Len(Methods) |-> parts[i]]
      BY <2>1
    <3> HIDE DEF parts
    <3>3. parts \in [1 .. Len(Methods) -> Seq(Steps)]
      BY <3>1, <3>2, <2>2
    <3>4. parts \in Seq(Seq(Steps)) /\ Len(parts) = Len(Methods)
      BY <3>2, <3>3, <2>1
    <3> QED BY <3>1, <3>4, <2>1
  <2> HIDE DEF parts
  <2>4. \A i \in 1 .. Len(parts) : Follows({}, parts[i])
    BY <2>2, <2>3
  <2>5. /\ FlattenSeq(parts) \in Seq(Steps) /\ Follows({}, FlattenSeq(parts))
        /\ \A i \in 1 .. Len(parts) : Of(parts[i]) \subseteq Of(FlattenSeq(parts))
    BY <2>3, <2>4, FlattenFollows
  <2>6. ASSUME NEW m \in Producers PROVE <<"ledger", m>> \in Of(FlattenSeq(parts))
    <3>1. PICK i \in 1 .. Len(Methods) : Methods[i] = m
      BY ConstantLists DEF Of
    <3> QED BY <3>1, <2>2, <2>3, <2>5
  <2> QED BY <2>5, <2>6
<1>3. /\ projections \in Seq(Steps) /\ Of(projections) = Named("project", Producers)
      /\ Follows(Named("ledger", Producers), projections)
  <2>1. \A m \in Of(Methods) : /\ <<"project", m>> \in Steps
                               /\ Needs(<<"project", m>>) \subseteq Named("ledger", Producers)
    <3>1. \A m \in Producers : <<"project", m>> \in Steps
      BY SubjectsAreSteps DEF MethodKinds
    <3>2. \A m \in Producers : {<<"ledger", m>>} \subseteq Named("ledger", Producers)
      BY DEF Named
    <3>3. \A m \in Producers : Needs(<<"project", m>>) = {<<"ledger", m>>}
      BY NeedsOf
    <3>4. Of(Methods) = Producers
      BY ConstantLists
    <3> QED BY <3>1, <3>2, <3>3, <3>4
  <2> QED BY <2>1, ConstantLists, EachSteps, EachFollows
<1>4. /\ revisions \in Seq(Steps) /\ Of(revisions) = Named("revise", Producers)
      /\ \A done : Follows(done, revisions)
  <2>1. \A m \in Of(Methods) : /\ <<"revise", m>> \in Steps
                               /\ \A done : Needs(<<"revise", m>>) \subseteq done
    BY ConstantLists, SubjectsAreSteps, NeedsOf DEF MethodKinds
  <2> QED BY <2>1, ConstantLists, EachSteps, EachFollows
<1>5. /\ seal \in Seq(Steps) /\ Of(seal) = {<<"barrier", None>>, <<"exam", None>>}
      /\ Follows(Named("project", Producers) \cup Named("revise", Producers), seal)
  <2>1. <<"barrier", None>> \in Steps /\ <<"exam", None>> \in Steps
    BY SubjectsAreSteps
  <2> QED BY <2>1, NeedsOf, Two
<1>6. /\ tests \in Seq(Steps) /\ Follows({<<"exam", None>>}, tests)
  <2>1. \A t \in Of(Tests) : /\ <<"hidden", t>> \in Steps
                             /\ Needs(<<"hidden", t>>) \subseteq {<<"exam", None>>}
    BY ConstantLists, SubjectsAreSteps, NeedsOf
  <2> QED BY <2>1, ConstantLists, EachSteps, EachFollows
<1>7. /\ end \in Seq(Steps) /\ Follows({<<"exam", None>>}, end)
      /\ Len(end) = 2 /\ end[2] = <<"verify", None>>
  <2>1. <<"summary", None>> \in Steps /\ <<"verify", None>> \in Steps
    BY SubjectsAreSteps
  <2> QED BY <2>1, NeedsOf, Two
<1>8. Plan = ((((((inputsteps \o searches) \o projections) \o revisions) \o seal) \o tests)
              \o end)
  BY DEF Plan, PublicSteps
<1> HIDE DEF inputsteps, parts, searches, projections, revisions, seal, tests, end
<1>9. \A done, more, s : done \subseteq more /\ Follows(done, s) => Follows(more, s)
  BY DEF Follows
<1> DEFINE p1 == inputsteps \o searches
<1>11. /\ p1 \in Seq(Steps) /\ Follows({}, p1) /\ Of(p1) = Of(inputsteps) \cup Of(searches)
  BY <1>1, <1>2, <1>9, Extend
<1> HIDE DEF p1
<1> DEFINE p2 == p1 \o projections
<1>12. /\ p2 \in Seq(Steps) /\ Follows({}, p2) /\ Of(p2) = Of(p1) \cup Of(projections)
  <2>1. Named("ledger", Producers) \subseteq Of(p1)
    BY <1>2, <1>11 DEF Named
  <2> QED BY <1>11, <1>3, <2>1, <1>9, Extend
<1> HIDE DEF p2
<1> DEFINE p3 == p2 \o revisions
<1>13. /\ p3 \in Seq(Steps) /\ Follows({}, p3) /\ Of(p3) = Of(p2) \cup Of(revisions)
  BY <1>12, <1>4, Extend
<1> HIDE DEF p3
<1> DEFINE p4 == p3 \o seal
<1>14. /\ p4 \in Seq(Steps) /\ Follows({}, p4) /\ Of(p4) = Of(p3) \cup Of(seal)
  <2>1. Named("project", Producers) \cup Named("revise", Producers) \subseteq Of(p3)
    BY <1>3, <1>4, <1>12, <1>13
  <2> QED BY <1>13, <1>5, <2>1, <1>9, Extend
<1> HIDE DEF p4
<1>15. {<<"exam", None>>} \subseteq Of(p4)
  BY <1>14, <1>5
<1> DEFINE p5 == p4 \o tests
<1>16. /\ p5 \in Seq(Steps) /\ Follows({}, p5) /\ Of(p5) = Of(p4) \cup Of(tests)
  BY <1>14, <1>15, <1>6, <1>9, Extend
<1> HIDE DEF p5
<1> DEFINE p6 == p5 \o end
<1>17. Follows(Of(p5), end)
  BY <1>7, <1>9, <1>15, <1>16
<1>18. /\ p6 \in Seq(Steps) /\ Follows({}, p6) /\ Len(p6) = Len(p5) + Len(end)
       /\ \A i \in 1 .. Len(end) : p6[Len(p5) + i] = end[i]
  BY <1>16, <1>7, <1>17, Extend
<1>19. Plan = p6
  BY <1>8 DEF p1, p2, p3, p4, p5
<1> HIDE DEF p6
<1>20. Len(p6) = Len(p5) + 2 /\ Len(p5) \in Nat /\ 2 \in 1 .. Len(end)
  BY <1>16, <1>18, <1>7
<1> QED BY <1>7, <1>18, <1>19, <1>20

-----------------------------------------------------------------------------
(* What is on disk, and what the process has behind it. *)

Outcomes(kind) ==
  IF kind = "confirm" THEN RerunAnswers
  ELSE IF kind = "revise" THEN RevisionAnswers
  ELSE HiddenAnswers

Typed ==
  /\ inputs \subseteq PublicInputs /\ started \subseteq Jobs /\ leaked \in BOOLEAN
  /\ campaign \in [Producers -> {"absent", "partial"} \cup Ends]
  /\ costs \in [Producers -> {None, "partial"} \cup Ends]
  /\ result = [j \in Jobs |-> result[j]]
  /\ receipt \in [Jobs -> {None, "written", "recovered"}]
  /\ ledger = [m \in Producers |-> ledger[m]]
  /\ feedback = [m \in Producers |-> feedback[m]]

\* A result is of an announced job that ran, a receipt of a result.
Recorded ==
  /\ \A j \in Jobs : /\ result[j] \in Outcomes(j[1]) \cup {None}
                     /\ receipt[j] # None => result[j] # None
                     /\ result[j] # None => j \in started /\ ran[j] = 1

\* Findings are rerun for a campaign that can be used only.
Ledgered ==
  \A m \in Producers : ledger[m] # None =>
    /\ campaign[m] = "complete"
    /\ ledger[m] \in [ToSet(Suspects[m]) -> RerunAnswers]
    /\ \A c \in ToSet(Suspects[m]) : /\ ledger[m][c] = result[Confirmation(c)]
                                     /\ receipt[Confirmation(c)] # None

\* A campaign that is taken and whose findings can be rerun.
Settled(m) == campaign[m] = "complete" /\ costs[m] = campaign[m]

Enveloped ==
  \A m \in Producers : feedback[m] # None =>
    feedback[m] = Evidence(m) /\ Settled(m) /\ ledger[m] # None

Sealed ==
  barrier # None =>
    /\ barrier = PublicRecord /\ barrier \in PublicRecords
    /\ \A m \in Producers : feedback[m] # None /\ receipt[Revision(m)] # None

\* A row of the exam, in memory or on disk, says what the files of its test say.
RowsHold(r) ==
  /\ r \in [ToSet(Tests) -> HiddenAnswers \cup {None}]
  /\ \A t \in ToSet(Tests) :
       r[t] # None => r[t] = result[Hidden(t)] /\ receipt[Hidden(t)] # None

Opened ==
  manifest # None =>
    barrier # None /\ ~ leaked /\ manifest \in Exams /\ RowsHold(manifest.rows)

Examined == started \cap HiddenJobs # {} => manifest # None

\* Where the process is, and what it has in hand.
Control ==
  /\ status \in {"running", "down", "refused", "verified"}
  /\ IF status = "running" THEN at \in 1 .. Len(Plan) ELSE at = 0 /\ sub = "enter"
  /\ sub \in {"enter", "calling", "returned", "started", "answered", "recorded", "row", "audit"}
  /\ sub = "calling" => Step("campaign") /\ campaign[Subject] \in {"absent", "partial"}
  /\ sub = "returned" => Step("campaign") /\ campaign[Subject] # "absent"
  /\ sub \in {"started", "answered"} => AtJob /\ Job \in started /\ result[Job] = None
  /\ sub = "answered" => ran[Job] = 1 /\ answer \in Outcomes(Job[1])
  /\ sub = "recorded" => AtJob /\ result[Job] # None
  /\ sub = "row" => AtJob /\ Job[1] = "hidden"
  /\ sub = "audit" => Step("barrier") /\ barrier # None

\* What a step leaves behind for the steps after it.
Done(x) ==
  /\ x[1] = "check" => campaign[x[2]] = "complete"
  /\ x[1] \in {"confirm", "revise"} => receipt[x] # None
  /\ x[1] = "ledger" => ledger[x[2]] # None
  /\ x[1] = "project" => feedback[x[2]] # None
  /\ x[1] = "barrier" => barrier # None /\ ~ leaked
  /\ x[1] = "exam" => manifest # None /\ RowsHold(rows)

Behind == \A i \in 1 .. Len(Plan) : i < at => Done(Plan[i])

Whole ==
  status = "verified" =>
    /\ ~ leaked /\ \A m \in Producers : campaign[m] = "complete"
    /\ \A j \in Jobs : ran[j] = 1 /\ receipt[j] # None /\ result[j] # "bare"

Durable == Typed /\ Recorded /\ Ledgered /\ Enveloped /\ Sealed /\ Opened /\ Examined

Rest == faults \in 0 .. MaxFaults /\ Durable /\ Control /\ Behind /\ Whole

-----------------------------------------------------------------------------
(* Steps that leave what a part is about alone. *)

LEMMA RecordedStays == Recorded /\ UNCHANGED <<started, result, receipt, ran>> => Recorded'
  BY DEF Recorded

LEMMA LedgeredStays ==
  Ledgered /\ UNCHANGED <<ledger, campaign, result, receipt>> => Ledgered'
  BY DEF Ledgered

LEMMA EnvelopedStays ==
  Enveloped /\ UNCHANGED <<feedback, campaign, costs, ledger>> => Enveloped'
  BY DEF Enveloped, Evidence, Settled

LEMMA SealedStays ==
  Sealed /\ UNCHANGED <<barrier, feedback, result, receipt>> => Sealed'
  BY DEF Sealed, PublicRecord

LEMMA OpenedStays ==
  Opened /\ UNCHANGED <<manifest, barrier, leaked, result, receipt>> => Opened'
  BY DEF Opened, RowsHold

LEMMA ExaminedStays == Examined /\ UNCHANGED <<started, manifest>> => Examined'
  BY DEF Examined

LEMMA DurableStays == Durable /\ UNCHANGED <<disk, ran>> => Durable'
<1> SUFFICES ASSUME Durable, UNCHANGED <<disk, ran>> PROVE Durable'
  OBVIOUS
<1>1. Typed'
  BY DEF Durable, Typed, disk
<1> QED
  BY <1>1, RecordedStays, LedgeredStays, EnvelopedStays, SealedStays, OpenedStays, ExaminedStays
  DEF Durable, disk

LEMMA DoneStays ==
  ASSUME NEW x, Done(x),
         UNCHANGED <<campaign, result, receipt, ledger, feedback, leaked, barrier, manifest,
                     rows>>
  PROVE  Done(x)'
  BY DEF Done, RowsHold

-----------------------------------------------------------------------------
(* The place in the plan. *)

LEMMA PlanStep ==
  ASSUME NEW i \in 1 .. Len(Plan)
  PROVE  /\ Plan[i] \in Steps
         /\ \A x \in Needs(Plan[i]) : \E k \in 1 .. Len(Plan) : k < i /\ Plan[k] = x
         /\ Plan[i][1] # "verify" => i + 1 \in 1 .. Len(Plan)
<1>1. Plan \in Seq(Steps) /\ Follows({}, Plan) /\ Plan[Len(Plan)] = <<"verify", None>>
  BY PlanIsOrdered
<1> DEFINE p == Plan
<1> HIDE DEF p
<1>2. p \in Seq(Steps) /\ Follows({}, p) /\ p[Len(p)] = <<"verify", None>>
  BY <1>1 DEF p
<1>3. i \in 1 .. Len(p) /\ Len(p) \in Nat
  BY <1>2 DEF p
<1>4. p[i] \in Steps
  BY <1>2, <1>3
<1>5. \A x \in Needs(p[i]) : \E k \in 1 .. i - 1 : p[k] = x
  BY <1>2, <1>3 DEF Follows
<1>6. \A x \in Needs(p[i]) : \E k \in 1 .. Len(p) : k < i /\ p[k] = x
  BY <1>3, <1>5
<1>7. p[i][1] # "verify" => i + 1 \in 1 .. Len(p)
  BY <1>2, <1>3
<1> QED BY <1>4, <1>6, <1>7 DEF p

\* What the step under way needs has been done.
LEMMA NeedsAreDone ==
  ASSUME Control, Behind, status = "running", NEW x \in Needs(Plan[at])
  PROVE  Done(x)
<1>1. at \in 1 .. Len(Plan)
  BY DEF Control
<1>2. PICK k \in 1 .. Len(Plan) : k < at /\ Plan[k] = x
  BY <1>1, PlanStep
<1> QED BY <1>2 DEF Behind

LEMMA StepFacts ==
  ASSUME Control, status = "running"
  PROVE  /\ at \in 1 .. Len(Plan) /\ Plan[at] = <<Plan[at][1], Subject>>
         /\ Plan[at][1] \in MethodKinds => Subject \in Producers
         /\ Plan[at][1] = "input" => Subject \in PublicInputs
         /\ Plan[at][1] = "confirm" => Subject \in Clusters
         /\ Plan[at][1] = "hidden" => Subject \in ToSet(Tests)
         /\ Plan[at][1] \in {"barrier", "exam", "summary", "verify"} => Subject = None
<1>1. at \in 1 .. Len(Plan)
  BY DEF Control
<1>2. Plan[at] \in Steps
  BY <1>1, PlanStep
<1> DEFINE x == Plan[at]
<1> HIDE DEF x
<1>3. x \in Steps
  BY <1>2 DEF x
<1>4. /\ x = <<x[1], x[2]>>
      /\ x[1] \in MethodKinds => x[2] \in Producers
      /\ x[1] = "input" => x[2] \in PublicInputs
      /\ x[1] = "confirm" => x[2] \in Clusters
      /\ x[1] = "hidden" => x[2] \in ToSet(Tests)
      /\ x[1] \in {"barrier", "exam", "summary", "verify"} => x[2] = None
  BY <1>3 DEF Steps
<1> QED BY <1>1, <1>4 DEF x, Subject

LEMMA JobsAre ==
  /\ \A t \in ToSet(Tests) : Hidden(t) \in Jobs
  /\ \A m \in Producers : Revision(m) \in Jobs
  /\ \A m \in Producers : \A c \in ToSet(Suspects[m]) : Confirmation(c) \in Jobs
  /\ \A c \in Clusters : Confirmation(c) \in Jobs
<1>1. \A m \in Producers : \A c \in ToSet(Suspects[m]) : Confirmation(c) \in Jobs
  BY DEF Jobs, Confirmations
<1>2. \A c \in Clusters : Confirmation(c) \in Jobs
  BY <1>1 DEF Clusters
<1>3. \A t \in ToSet(Tests) : Hidden(t) \in Jobs
  BY DEF Jobs, HiddenJobs
<1>4. \A m \in Producers : Revision(m) \in Jobs
  BY DEF Jobs
<1> QED BY <1>1, <1>2, <1>3, <1>4

LEMMA JobCases ==
  ASSUME NEW j \in Jobs
  PROVE  \/ \E m \in Producers : \E c \in ToSet(Suspects[m]) : j = Confirmation(c)
         \/ \E m \in Producers : j = Revision(m)
         \/ \E t \in ToSet(Tests) : j = Hidden(t)
<1>1. \/ \E m \in Producers : j \in Confirmations(m)
      \/ \E m \in Producers : j = Revision(m)
      \/ \E t \in ToSet(Tests) : j = Hidden(t)
  BY DEF Jobs, HiddenJobs
<1>2. \A m \in Producers :
        j \in Confirmations(m) => \E c \in ToSet(Suspects[m]) : j = Confirmation(c)
  BY DEF Confirmations
<1> QED BY <1>1, <1>2

LEMMA JobFacts ==
  ASSUME Control, AtJob
  PROVE  /\ at \in 1 .. Len(Plan) /\ Job \in Jobs /\ Job = <<Job[1], Subject>>
         /\ Job[1] \in {"confirm", "revise", "hidden"}
         /\ Job[1] = "confirm" => /\ MethodOf(Subject) \in Producers
                                  /\ Subject \in ToSet(Suspects[MethodOf(Subject)])
         /\ Job[1] = "revise" => Subject \in Producers /\ Job = Revision(Subject)
         /\ Job[1] = "hidden" => Subject \in ToSet(Tests) /\ Job = Hidden(Subject)
<1>1. /\ status = "running" /\ Job = Plan[at] /\ Job[1] \in {"confirm", "revise", "hidden"}
  BY DEF AtJob, Job, JobSteps
<1>2. /\ at \in 1 .. Len(Plan) /\ Job = <<Job[1], Subject>>
      /\ Job[1] = "confirm" => Subject \in Clusters
      /\ Job[1] = "revise" => Subject \in Producers
      /\ Job[1] = "hidden" => Subject \in ToSet(Tests)
  BY <1>1, StepFacts DEF MethodKinds
<1> DEFINE s == Subject
<1> HIDE DEF s
<1>3. s \in Clusters => MethodOf(s) \in Producers /\ s \in ToSet(Suspects[MethodOf(s)])
  BY DEF Clusters, MethodOf
<1>4. /\ s \in ToSet(Tests) => Hidden(s) \in Jobs
      /\ s \in Producers => Revision(s) \in Jobs
      /\ s \in Clusters => Confirmation(s) \in Jobs
  BY JobsAre
<1>5. /\ Confirmation(s) = <<"confirm", s>> /\ Revision(s) = <<"revise", s>>
      /\ Hidden(s) = <<"hidden", s>>
  BY DEF Confirmation, Revision, Hidden
<1> DEFINE j == Job
<1> HIDE DEF j
<1>6. /\ j = <<j[1], s>> /\ j[1] \in {"confirm", "revise", "hidden"}
      /\ j[1] = "confirm" => s \in Clusters
      /\ j[1] = "revise" => s \in Producers
      /\ j[1] = "hidden" => s \in ToSet(Tests)
  BY <1>1, <1>2 DEF s, j
<1>7. /\ j[1] = "confirm" => j \in Jobs
      /\ j[1] = "revise" => j \in Jobs /\ j = Revision(s)
      /\ j[1] = "hidden" => j \in Jobs /\ j = Hidden(s)
  BY <1>4, <1>5, <1>6
<1> QED BY <1>2, <1>3, <1>6, <1>7 DEF s, j

-----------------------------------------------------------------------------
(* How a process goes on: it ends, takes the next step, or stays at this one. *)

LEMMA EndKeeps ==
  ASSUME Rest, UNCHANGED <<disk, ran>>, at' = 0, sub' = "enter", status' \in {"down", "refused"},
         faults' \in 0 .. MaxFaults
  PROVE  Rest'
<1>1. Durable'
  BY DurableStays DEF Rest
<1>2. Control'
  BY DEF Control
<1>3. Behind'
  <2>1. \A i \in 1 .. Len(Plan) : ~ (i < 0)
    OBVIOUS
  <2> QED BY <2>1 DEF Behind
<1>4. Whole'
  BY DEF Whole
<1> QED BY <1>1, <1>2, <1>3, <1>4 DEF Rest

LEMMA AdvanceKeeps ==
  ASSUME Rest, status = "running", Plan[at][1] # "verify", Advance, faults' = faults, Durable',
         \A x \in Steps : Done(x) => Done(x)',
         NEW here \in Steps, here = Plan[at], Done(here)'
  PROVE  Rest'
<1>1. at \in 1 .. Len(Plan) /\ at + 1 \in 1 .. Len(Plan)
  <2>1. at \in 1 .. Len(Plan)
    BY DEF Rest, Control
  <2> QED BY <2>1, PlanStep
<1>2. Control'
  BY <1>1 DEF Control, Advance, Rest
<1>3. Behind'
  <2> SUFFICES ASSUME NEW i \in 1 .. Len(Plan), i < at + 1 PROVE Done(Plan[i])'
    BY DEF Behind, Advance
  <2>1. CASE i < at
    <3>1. Done(Plan[i]) /\ Plan[i] \in Steps
      BY <2>1, PlanStep DEF Rest, Behind
    <3> DEFINE x == Plan[i]
    <3> HIDE DEF x
    <3>2. Done(x)'
      BY <3>1 DEF x
    <3> QED BY <3>2 DEF x
  <2>2. CASE i = at
    <3>1. here = Plan[i]
      BY <2>2
    <3> QED BY <3>1
  <2> QED BY <2>1, <2>2, <1>1
<1>4. Whole'
  BY DEF Whole, Advance
<1> QED BY <1>2, <1>3, <1>4 DEF Rest

LEMMA StayKeeps ==
  ASSUME Rest, status = "running", UNCHANGED <<status, at>>, faults' = faults, Durable', Control',
         \A x \in Steps : Done(x) => Done(x)'
  PROVE  Rest'
<1>1. Behind'
  <2> SUFFICES ASSUME NEW i \in 1 .. Len(Plan), i < at PROVE Done(Plan[i])'
    BY DEF Behind
  <2>1. Done(Plan[i]) /\ Plan[i] \in Steps
    BY PlanStep DEF Rest, Behind
  <2> DEFINE x == Plan[i]
  <2> HIDE DEF x
  <2>2. Done(x)'
    BY <2>1 DEF x
  <2> QED BY <2>2 DEF x
<1>2. Whole'
  BY DEF Whole
<1> QED BY <1>1, <1>2 DEF Rest

-----------------------------------------------------------------------------
(* The steps, one after the other. *)

LEMMA StartKeeps == Rest /\ Start => Rest'
<1> SUFFICES ASSUME Rest, Start PROVE Rest'
  OBVIOUS
<1>1. Durable'
  BY DurableStays DEF Rest, Start
<1>2. 1 \in 1 .. Len(Plan)
  BY PlanIsOrdered
<1>3. Control'
  BY <1>2 DEF Rest, Start, Control
<1>4. Behind'
  <2>1. \A i \in 1 .. Len(Plan) : ~ (i < 1)
    OBVIOUS
  <2> QED BY <2>1 DEF Behind, Start
<1>5. Whole'
  BY DEF Whole, Start
<1> QED BY <1>1, <1>3, <1>4, <1>5 DEF Rest, Start

LEMMA RefuseKeeps == Rest /\ Refuse /\ faults' \in 0 .. MaxFaults => Rest'
  BY EndKeeps DEF Refuse

LEMMA CrashKeeps == Rest /\ Crash => Rest'
<1> SUFFICES ASSUME Rest, Crash PROVE Rest'
  OBVIOUS
<1>1. faults' \in 0 .. MaxFaults
  BY FaultsAssumption DEF Crash, Rest
<1> QED BY <1>1, EndKeeps DEF Crash

LEMMA HereIsAStep ==
  ASSUME Rest, status = "running"
  PROVE  at \in 1 .. Len(Plan) /\ Plan[at] \in Steps
<1>1. at \in 1 .. Len(Plan)
  BY DEF Rest, Control
<1> QED BY <1>1, PlanStep

LEMMA PublishKeeps ==
  ASSUME Rest, NEW name \in PublicInputs, PublishInput(name)
  PROVE  Rest'
<1>1. Durable'
  <2>1. Typed'
    BY DEF Rest, Durable, Typed, PublishInput
  <2> QED
    BY <2>1, RecordedStays, LedgeredStays, EnvelopedStays, SealedStays, OpenedStays, ExaminedStays
    DEF Rest, Durable, PublishInput
<1>2. \A x \in Steps : Done(x) => Done(x)'
  BY DoneStays DEF PublishInput
<1>3. PICK here \in Steps : here = Plan[at]
  BY HereIsAStep DEF PublishInput, Step
<1>4. Done(here)'
  BY <1>3 DEF Done, PublishInput, Step
<1> QED BY <1>1, <1>2, <1>3, <1>4, AdvanceKeeps DEF PublishInput, Step

LEMMA BuildFailsKeeps == Rest /\ BuildFails => Rest'
<1> SUFFICES ASSUME Rest, BuildFails PROVE Rest'
  OBVIOUS
<1>1. faults' \in 0 .. MaxFaults
  BY FaultsAssumption DEF BuildFails, Rest
<1> QED BY <1>1, RefuseKeeps DEF BuildFails

\* The campaign of one method goes on, long before the seal; a complete one stays.
LEMMA CampaignKeeps ==
  ASSUME Durable, NEW m \in Producers, campaign[m] \in {"absent", "partial"},
         NEW end \in {"absent", "partial"} \cup Ends,
         campaign' = [campaign EXCEPT ![m] = end], leaked' \in BOOLEAN,
         UNCHANGED <<inputs, costs, started, result, receipt, ledger, feedback, barrier,
                     manifest, rows, ran>>
  PROVE  Durable' /\ \A x \in Steps : Done(x) => Done(x)'
<1>1. Typed'
  BY DEF Durable, Typed
<1>2. /\ campaign[m] # "complete"
      /\ \A n \in Producers : n # m => campaign'[n] = campaign[n]
  BY DEF Durable, Typed
<1>3. barrier = None /\ manifest = None
  <2>1. feedback[m] = None
    BY <1>2 DEF Durable, Enveloped, Settled
  <2> QED BY <2>1 DEF Durable, Sealed, Opened
<1>4. Ledgered'
  BY <1>2 DEF Durable, Ledgered
<1>5. Enveloped'
  <2> SUFFICES ASSUME NEW n \in Producers, feedback[n] # None
               PROVE  (feedback[n] = Evidence(n) /\ Settled(n) /\ ledger[n] # None)'
    BY DEF Enveloped
  <2>1. feedback[n] = Evidence(n) /\ Settled(n) /\ ledger[n] # None
    BY DEF Durable, Enveloped
  <2>2. campaign'[n] = campaign[n]
    BY <1>2, <2>1 DEF Settled
  <2> QED BY <2>1, <2>2 DEF Evidence, Settled
<1>6. Sealed' /\ Opened'
  BY <1>3 DEF Sealed, Opened
<1>7. Durable'
  BY <1>1, <1>4, <1>5, <1>6, RecordedStays, ExaminedStays DEF Durable
<1>8. \A x \in Steps : Done(x) => Done(x)'
  <2>1. \A x \in Steps : x[1] = "check" => x[2] \in Producers
    BY DEF Steps, MethodKinds
  <2> QED BY <1>2, <1>3, <2>1 DEF Done, RowsHold
<1> QED BY <1>7, <1>8

LEMMA LaunchKeeps == Rest /\ LaunchCampaign => Rest'
<1> SUFFICES ASSUME Rest, LaunchCampaign PROVE Rest'
  OBVIOUS
<1>1. Subject \in Producers /\ status = "running"
  BY StepFacts DEF LaunchCampaign, Step, Rest, MethodKinds
<1>2. Durable'
  BY DurableStays DEF LaunchCampaign, Rest
<1>3. Control'
  <2>1. Subject' = Subject /\ Step("campaign")' /\ campaign' = campaign
    BY DEF LaunchCampaign, Subject, Step, disk
  <2>2. \/ sub' = "calling" /\ campaign[Subject] = "absent"
        \/ sub' = "returned" /\ campaign[Subject] # "absent"
    BY DEF LaunchCampaign
  <2> QED BY <2>1, <2>2, <1>1 DEF Control, Rest, LaunchCampaign
<1>4. \A x \in Steps : Done(x) => Done(x)'
  BY DoneStays DEF LaunchCampaign, disk
<1> QED BY <1>1, <1>2, <1>3, <1>4, StayKeeps DEF LaunchCampaign

LEMMA CampaignBeginsKeeps == Rest /\ CampaignBegins => Rest'
<1> SUFFICES ASSUME Rest, CampaignBegins PROVE Rest'
  OBVIOUS
<1>1. Subject \in Producers /\ status = "running" /\ campaign[Subject] = "absent"
  BY StepFacts DEF CampaignBegins, Step, Rest, MethodKinds
<1>2. Durable' /\ \A x \in Steps : Done(x) => Done(x)'
  <2> DEFINE m == Subject
  <2> HIDE DEF m
  <2>1. PICK n \in Producers : n = m
    BY <1>1 DEF m
  <2>2. leaked' \in BOOLEAN
    BY DEF CampaignBegins, Rest, Durable, Typed
  <2> QED BY <2>1, <2>2, <1>1, CampaignKeeps DEF m, CampaignBegins, Rest
<1>3. Control'
  <2>1. Subject' = Subject /\ Step("campaign")'
    BY DEF CampaignBegins, Subject, Step
  <2>2. campaign'[Subject] = "partial"
    BY <1>1 DEF CampaignBegins, Rest, Durable, Typed
  <2> QED BY <2>1, <2>2, <1>1 DEF Control, Rest, CampaignBegins
<1> QED BY <1>1, <1>2, <1>3, StayKeeps DEF CampaignBegins

LEMMA CampaignEndsKeeps == Rest /\ CampaignEnds => Rest'
<1> SUFFICES ASSUME Rest, CampaignEnds PROVE Rest'
  OBVIOUS
<1>1. Subject \in Producers /\ status = "running" /\ campaign[Subject] = "partial"
  BY StepFacts DEF CampaignEnds, Step, Rest, MethodKinds
<1>2. PICK end \in Ends : campaign' = [campaign EXCEPT ![Subject] = end]
  BY DEF CampaignEnds
<1>3. Durable' /\ \A x \in Steps : Done(x) => Done(x)'
  <2> DEFINE m == Subject
  <2> HIDE DEF m
  <2>1. PICK n \in Producers : n = m
    BY <1>1 DEF m
  <2>2. leaked' \in BOOLEAN
    BY DEF CampaignEnds, Rest, Durable, Typed
  <2> QED BY <2>1, <2>2, <1>1, <1>2, CampaignKeeps DEF m, CampaignEnds, Rest
<1>4. Control'
  <2>1. Subject' = Subject /\ Step("campaign")'
    BY DEF CampaignEnds, Subject, Step
  <2>2. campaign'[Subject] # "absent"
    BY <1>1, <1>2 DEF Rest, Durable, Typed, Ends
  <2> QED BY <2>1, <2>2, <1>1 DEF Control, Rest, CampaignEnds
<1> QED BY <1>1, <1>3, <1>4, StayKeeps DEF CampaignEnds

LEMMA CampaignFailsKeeps == Rest /\ CampaignFails => Rest'
<1> SUFFICES ASSUME Rest, CampaignFails PROVE Rest'
  OBVIOUS
<1>1. faults' \in 0 .. MaxFaults
  BY FaultsAssumption DEF CampaignFails, Rest
<1> QED BY <1>1, RefuseKeeps DEF CampaignFails

LEMMA DeriveCostsKeeps == Rest /\ DeriveCosts => Rest'
<1> SUFFICES ASSUME Rest, DeriveCosts PROVE Rest'
  OBVIOUS
<1>1. Subject \in Producers /\ status = "running" /\ campaign[Subject] # "absent"
  BY StepFacts DEF DeriveCosts, Step, Rest, Control, MethodKinds
<1>2. CASE campaign[Subject] # "uncosted" /\ costs[Subject] \in {None, campaign[Subject]}
  <2>1. /\ costs' = [costs EXCEPT ![Subject] = campaign[Subject]] /\ Advance /\ faults' = faults
        /\ UNCHANGED <<inputs, campaign, started, result, receipt, ledger, feedback, leaked,
                       barrier, manifest, rows, ran>>
    BY <1>2 DEF DeriveCosts
  <2>2. costs \in [Producers -> {None, "partial"} \cup Ends]
        /\ campaign[Subject] \in {"partial"} \cup Ends
    BY <1>1, <1>2 DEF Rest, Durable, Typed
  <2>3. \A n \in Producers : costs'[n] = IF n = Subject THEN campaign[n] ELSE costs[n]
    BY <2>1, <2>2
  <2>4. costs' \in [Producers -> {None, "partial"} \cup Ends]
    BY <2>1, <2>2
  <2>5. Typed'
    BY <2>1, <2>4 DEF Rest, Durable, Typed
  <2>6. Enveloped'
    <3> SUFFICES ASSUME NEW n \in Producers, feedback[n] # None
                 PROVE  (feedback[n] = Evidence(n) /\ Settled(n) /\ ledger[n] # None)'
      BY <2>1 DEF Enveloped
    <3>1. feedback[n] = Evidence(n) /\ Settled(n) /\ ledger[n] # None
      BY DEF Rest, Durable, Enveloped
    <3>2. costs'[n] = costs[n]
      BY <2>3, <3>1 DEF Settled
    <3> QED BY <2>1, <3>1, <3>2 DEF Evidence, Settled
  <2>7. Durable'
    BY <2>1, <2>5, <2>6, RecordedStays, LedgeredStays, SealedStays, OpenedStays, ExaminedStays
    DEF Rest, Durable
  <2>8. \A x \in Steps : Done(x) => Done(x)'
    BY <2>1, DoneStays
  <2>9. PICK here \in Steps : here = Plan[at]
    BY <1>1, HereIsAStep
  <2>10. here[1] = "campaign"
    BY <2>9 DEF DeriveCosts, Step
  <2>11. Done(here)'
    BY <2>10 DEF Done
  <2>12. Plan[at][1] # "verify"
    BY <2>9, <2>10
  <2> QED BY <1>1, <2>1, <2>7, <2>8, <2>9, <2>11, <2>12, AdvanceKeeps
<1>3. CASE ~ (campaign[Subject] # "uncosted" /\ costs[Subject] \in {None, campaign[Subject]})
  BY <1>3, RefuseKeeps DEF DeriveCosts, Rest
<1> QED BY <1>2, <1>3

\* A step that leaves the disk as it is, and that nothing waits for.
LEMMA PassKeeps ==
  ASSUME Rest, status = "running", Plan[at][1] # "verify", Advance, faults' = faults,
         UNCHANGED <<disk, rows, ran>>, NEW here \in Steps, here = Plan[at], Done(here)
  PROVE  Rest'
<1>1. Durable'
  BY DurableStays DEF Rest
<1>2. \A x \in Steps : Done(x) => Done(x)'
  BY DoneStays DEF disk
<1> QED BY <1>1, <1>2, AdvanceKeeps

LEMMA CheckCampaignKeeps == Rest /\ CheckCampaign => Rest'
<1> SUFFICES ASSUME Rest, CheckCampaign PROVE Rest'
  OBVIOUS
<1> DEFINE Fit == Plausible(Subject) /\ (ledger[Subject] # None \/ Replayable(Subject))
<1>1. CASE Fit
  <2>1. PICK here \in Steps : here = Plan[at]
    BY HereIsAStep DEF CheckCampaign, Step
  <2>2. here[1] = "check" /\ here[2] = Subject /\ status = "running"
    BY <2>1 DEF CheckCampaign, Step, Subject
  <2>3. Subject \in Producers
    BY StepFacts DEF CheckCampaign, Step, Rest, MethodKinds
  <2>4. campaign[Subject] = "complete"
    BY <1>1, <2>3 DEF Plausible, Replayable, Rest, Durable, Ledgered
  <2>5. Done(here)
    BY <2>2, <2>4 DEF Done
  <2> QED BY <1>1, <2>1, <2>2, <2>5, PassKeeps DEF CheckCampaign
<1>2. CASE ~ Fit
  BY <1>2, RefuseKeeps DEF CheckCampaign, Rest
<1> QED BY <1>1, <1>2

LEMMA BeginJobKeeps == Rest /\ BeginJob => Rest'
<1> SUFFICES ASSUME Rest, BeginJob PROVE Rest'
  OBVIOUS
<1>1. AtJob /\ status = "running" /\ Job \in Jobs /\ result[Job] = None
  BY JobFacts DEF BeginJob, AtJob, Rest
<1>2. started' = started \cup {Job}
  BY DEF BeginJob
<1>3. Typed'
  BY <1>1, <1>2 DEF Rest, Durable, Typed, BeginJob
<1>4. Recorded'
  BY <1>2 DEF Rest, Durable, Recorded, BeginJob
<1>5. Examined'
  <2>1. CASE Job[1] = "hidden"
    <3>1. PICK t : Plan[at] = <<"hidden", t>>
      BY <1>1, <2>1, JobFacts DEF Job, Rest
    <3>2. <<"exam", None>> \in Needs(Plan[at])
      BY <3>1, NeedsOf
    <3>3. Done(<<"exam", None>>)
      BY <3>2, <1>1, NeedsAreDone DEF Rest
    <3>4. manifest # None
      BY <3>3 DEF Done
    <3> QED BY <3>4 DEF Examined, BeginJob
  <2>2. CASE Job[1] # "hidden"
    <3>1. \A h \in HiddenJobs : h[1] = "hidden"
      BY DEF HiddenJobs, Hidden
    <3>2. started' \cap HiddenJobs = started \cap HiddenJobs
      BY <1>2, <2>2, <3>1
    <3> QED BY <3>2 DEF Examined, Rest, Durable, BeginJob
  <2> QED BY <2>1, <2>2
<1>6. Durable'
  BY <1>3, <1>4, <1>5, LedgeredStays, EnvelopedStays, SealedStays, OpenedStays
  DEF Rest, Durable, BeginJob
<1>7. Control'
  <2>1. Job' = Job /\ AtJob'
    BY <1>1 DEF BeginJob, Job, AtJob
  <2> QED BY <1>1, <1>2, <2>1 DEF Control, Rest, BeginJob
<1>8. \A x \in Steps : Done(x) => Done(x)'
  BY DoneStays DEF BeginJob
<1> QED BY <1>1, <1>6, <1>7, <1>8, StayKeeps DEF BeginJob

LEMMA RefuseJobKeeps == Rest /\ RefuseJob => Rest'
  BY RefuseKeeps DEF RefuseJob, Rest

\* A cluster whose ledger is on disk has its receipt.
LEMMA PassOverKeeps == Rest /\ PassOver => Rest'
<1> SUFFICES ASSUME Rest, PassOver PROVE Rest'
  OBVIOUS
<1>1. AtJob /\ status = "running" /\ Job[1] = "confirm" /\ ledger[MethodOf(Subject)] # None
  BY DEF PassOver, AtJob, Closed, Job, Subject
<1>2. /\ MethodOf(Subject) \in Producers /\ Subject \in ToSet(Suspects[MethodOf(Subject)])
      /\ Job = <<"confirm", Subject>>
  BY <1>1, JobFacts DEF Rest
<1>3. receipt[Confirmation(Subject)] # None
  BY <1>1, <1>2 DEF Rest, Durable, Ledgered
<1>4. PICK here \in Steps : here = Plan[at]
  BY <1>1, HereIsAStep
<1>5. here = Confirmation(Subject) /\ here[1] = "confirm"
  BY <1>1, <1>2, <1>4 DEF Confirmation, Job
<1>6. Done(here)
  BY <1>3, <1>5 DEF Done
<1>7. Plan[at][1] # "verify"
  BY <1>4, <1>5
<1> QED BY <1>1, <1>4, <1>6, <1>7, PassKeeps DEF PassOver

LEMMA RanKeepsRecorded ==
  ASSUME IInv, Durable, AtJob, Job \in Jobs, result[Job] = None, UNCHANGED disk,
         ran' = [ran EXCEPT ![Job] = @ + 1]
  PROVE  Durable'
<1>1. \A j \in Jobs : j # Job => ran'[j] = ran[j]
  BY DEF IInv, Announced
<1>2. Recorded'
  BY <1>1 DEF Durable, Recorded, disk
<1>3. Typed'
  BY DEF Durable, Typed, disk
<1> QED
  BY <1>2, <1>3, LedgeredStays, EnvelopedStays, SealedStays, OpenedStays, ExaminedStays
  DEF Durable, disk

LEMMA CarryOutKeepsRest ==
  ASSUME IInv, Rest, NEW kind, NEW answers, answers = Outcomes(kind), CarryOut(kind, answers)
  PROVE  Rest'
<1>1. /\ AtJob /\ status = "running" /\ Job \in Jobs /\ Job \in started /\ result[Job] = None
      /\ ran[Job] = 0
  BY JobFacts DEF CarryOut, AtJob, Rest, Control, IInv, ReadyToRun
<1>2. Durable'
  BY <1>1, RanKeepsRecorded DEF Rest, CarryOut
<1>3. ran'[Job] = 1
  BY <1>1 DEF CarryOut, IInv, Announced
<1>4. Control'
  <2>1. Job' = Job /\ AtJob' /\ answer' \in Outcomes(Job[1])
    BY <1>1 DEF CarryOut, Job, AtJob
  <2> QED BY <1>1, <1>3, <2>1 DEF Control, Rest, CarryOut, disk
<1>5. \A x \in Steps : Done(x) => Done(x)'
  BY DoneStays DEF CarryOut, disk
<1> QED BY <1>1, <1>2, <1>4, <1>5, StayKeeps DEF CarryOut

LEMMA RunKeeps == IInv /\ Rest /\ (Rerun \/ Revise \/ RunHiddenTest) => Rest'
<1> SUFFICES ASSUME IInv, Rest, Rerun \/ Revise \/ RunHiddenTest PROVE Rest'
  OBVIOUS
<1>1. /\ Outcomes("confirm") = RerunAnswers /\ Outcomes("revise") = RevisionAnswers
      /\ Outcomes("hidden") = HiddenAnswers
  BY DEF Outcomes
<1>2. CASE Rerun
  BY <1>1, <1>2, CarryOutKeepsRest DEF Rerun
<1>3. CASE Revise
  BY <1>1, <1>3, CarryOutKeepsRest DEF Revise
<1>4. CASE RunHiddenTest
  BY <1>1, <1>4, CarryOutKeepsRest DEF RunHiddenTest
<1> QED BY <1>2, <1>3, <1>4

LEMMA JobFailsKeeps == IInv /\ Rest /\ JobFails => Rest'
<1> SUFFICES ASSUME IInv, Rest, JobFails PROVE Rest'
  OBVIOUS
<1>1. AtJob /\ Job \in Jobs /\ result[Job] = None
  BY JobFacts DEF JobFails, Rest, Control
<1>2. Durable'
  BY <1>1, RanKeepsRecorded DEF Rest, JobFails
<1>3. Control'
  BY DEF Control, JobFails
<1>4. Behind'
  <2>1. \A i \in 1 .. Len(Plan) : ~ (i < 0)
    OBVIOUS
  <2> QED BY <2>1 DEF Behind, JobFails
<1>5. Whole'
  BY DEF Whole, JobFails
<1> QED BY <1>2, <1>3, <1>4, <1>5 DEF Rest, JobFails

LEMMA JobNames ==
  \A m, n, c, t : /\ Revision(m) # Confirmation(c) /\ Revision(m) # Hidden(t)
                  /\ Hidden(t) # Confirmation(c) /\ (Revision(m) = Revision(n) => m = n)
                  /\ Revision(m)[1] = "revise" /\ Hidden(t)[1] = "hidden"
                  /\ Confirmation(c)[1] = "confirm"
  BY DEF Revision, Confirmation, Hidden

\* A result that is there stays.
LEMMA ResultIsNew ==
  ASSUME Rest, RecordResult
  PROVE  /\ AtJob /\ status = "running" /\ Job \in Jobs /\ Job \in started
         /\ result[Job] = None /\ receipt[Job] = None /\ ran[Job] = 1
         /\ answer \in Outcomes(Job[1]) /\ answer # None /\ result'[Job] = answer
         /\ result' = [j \in Jobs |-> result'[j]]
         /\ \A j \in Jobs : j # Job => result'[j] = result[j]
<1>1. /\ AtJob /\ status = "running" /\ Job \in Jobs /\ Job \in started /\ result[Job] = None
      /\ ran[Job] = 1 /\ answer \in Outcomes(Job[1])
  BY JobFacts DEF RecordResult, Rest, Control, AtJob
<1>2. answer # None
  BY <1>1, NoRecordAssumption DEF Outcomes
<1>3. receipt[Job] = None
  BY <1>1 DEF Rest, Durable, Recorded
<1>4. /\ result'[Job] = answer /\ result' = [j \in Jobs |-> result'[j]]
      /\ \A j \in Jobs : j # Job => result'[j] = result[j]
  BY <1>1 DEF RecordResult, Rest, Durable, Typed
<1> QED BY <1>1, <1>2, <1>3, <1>4

\* What a job leaves in public is there before the seal.
LEMMA LeaksAreEarly ==
  ASSUME Rest, RecordResult
  PROVE  leaked' \in BOOLEAN /\ (barrier # None => leaked' = leaked)
<1>1. AtJob /\ Job \in Jobs /\ receipt[Job] = None
  BY ResultIsNew
<1>2. leaked' \in BOOLEAN
  BY DEF RecordResult, Rest, Durable, Typed
<1>3. Job[1] = "hidden" => leaked' = leaked
  BY DEF RecordResult
<1>4. CASE Job[1] = "revise"
  <2>1. Subject \in Producers /\ Job = Revision(Subject)
    BY <1>1, <1>4, JobFacts DEF Rest
  <2>2. barrier = None
    BY <1>1, <2>1 DEF Rest, Durable, Sealed
  <2> QED BY <1>2, <2>2
<1>5. CASE Job[1] = "confirm"
  <2>1. /\ MethodOf(Subject) \in Producers /\ Subject \in ToSet(Suspects[MethodOf(Subject)])
        /\ Job = <<"confirm", Subject>>
    BY <1>1, <1>5, JobFacts DEF Rest
  <2>2. Job = Confirmation(Subject)
    BY <2>1 DEF Confirmation
  <2>3. ledger[MethodOf(Subject)] = None
    BY <1>1, <2>1, <2>2 DEF Rest, Durable, Ledgered
  <2>4. barrier = None
    BY <2>1, <2>3 DEF Rest, Durable, Sealed, Enveloped
  <2> QED BY <1>2, <2>4
<1>6. Job[1] \in {"confirm", "revise", "hidden"}
  BY <1>1, JobFacts DEF Rest
<1> QED BY <1>2, <1>3, <1>4, <1>5, <1>6

LEMMA RecordResultKeeps == Rest /\ RecordResult => Rest'
<1> SUFFICES ASSUME Rest, RecordResult PROVE Rest'
  OBVIOUS
<1>1. /\ AtJob /\ status = "running" /\ Job \in Jobs /\ Job \in started
      /\ result[Job] = None /\ receipt[Job] = None /\ ran[Job] = 1
      /\ answer \in Outcomes(Job[1]) /\ answer # None /\ result'[Job] = answer
      /\ result' = [j \in Jobs |-> result'[j]]
      /\ \A j \in Jobs : j # Job => result'[j] = result[j]
  BY ResultIsNew
<1>2. leaked' \in BOOLEAN /\ (barrier # None => leaked' = leaked)
  BY LeaksAreEarly
<1>3. UNCHANGED <<inputs, campaign, costs, started, receipt, ledger, feedback, barrier, manifest,
                  status, at, answer, rows, ran, faults>>
  BY DEF RecordResult
<1>4. \A j \in Jobs : receipt[j] # None => result'[j] = result[j]
  BY <1>1
<1>5. Typed'
  BY <1>1, <1>2, <1>3 DEF Rest, Durable, Typed
<1>6. Recorded'
  <2>1. ASSUME NEW j \in Jobs
        PROVE  (/\ result[j] \in Outcomes(j[1]) \cup {None}
                /\ receipt[j] # None => result[j] # None
                /\ result[j] # None => j \in started /\ ran[j] = 1)'
    <3>1. CASE j = Job
      BY <1>1, <1>3, <3>1 DEF Outcomes
    <3>2. CASE j # Job
      BY <1>1, <1>3, <3>2 DEF Rest, Durable, Recorded, Outcomes
    <3> QED BY <3>1, <3>2
  <2> QED BY <2>1 DEF Recorded
<1>7. Ledgered'
  <2>1. \A m \in Producers : \A c \in ToSet(Suspects[m]) : Confirmation(c) \in Jobs
    BY JobsAre
  <2> QED BY <2>1, <1>3, <1>4 DEF Rest, Durable, Ledgered
<1>8. Sealed'
  <2> SUFFICES ASSUME barrier # None
               PROVE  (/\ barrier = PublicRecord /\ barrier \in PublicRecords
                       /\ \A m \in Producers : feedback[m] # None /\ receipt[Revision(m)] # None)'
    BY <1>3 DEF Sealed
  <2>1. /\ barrier = PublicRecord /\ barrier \in PublicRecords
        /\ \A m \in Producers : feedback[m] # None /\ receipt[Revision(m)] # None
    BY DEF Rest, Durable, Sealed
  <2>2. \A m \in Producers : result'[Revision(m)] = result[Revision(m)]
    BY <1>4, <2>1, JobsAre
  <2>3. PublicRecord' = PublicRecord
    BY <1>2, <1>3, <2>2 DEF PublicRecord
  <2> QED BY <1>3, <2>1, <2>3
<1>9. Opened'
  <2>1. \A r : RowsHold(r) => RowsHold(r)'
    <3>1. \A t \in ToSet(Tests) : Hidden(t) \in Jobs
      BY JobsAre
    <3> QED BY <3>1, <1>3, <1>4 DEF RowsHold
  <2> QED BY <2>1, <1>2, <1>3 DEF Rest, Durable, Opened
<1>10. Durable'
  BY <1>3, <1>5, <1>6, <1>7, <1>8, <1>9, EnvelopedStays, ExaminedStays DEF Rest, Durable
<1>11. Control'
  <2>1. Job' = Job /\ AtJob'
    BY <1>1, <1>3 DEF Job, AtJob
  <2>2. result'[Job] # None /\ sub' = "recorded"
    BY <1>1 DEF RecordResult
  <2> QED BY <1>1, <1>3, <2>1, <2>2 DEF Control, Rest
<1>12. \A x \in Steps : Done(x) => Done(x)'
  <2>1. RowsHold(rows) => RowsHold(rows)'
    <3>1. \A t \in ToSet(Tests) : Hidden(t) \in Jobs
      BY JobsAre
    <3> QED BY <3>1, <1>3, <1>4 DEF RowsHold
  <2> QED BY <2>1, <1>2, <1>3 DEF Done
<1> QED BY <1>1, <1>3, <1>10, <1>11, <1>12, StayKeeps

LEMMA ExamIsBehind ==
  ASSUME Rest, status = "running", Plan[at][1] \in {"hidden", "summary", "verify"}
  PROVE  manifest # None /\ RowsHold(rows)
<1>1. Plan[at] = <<Plan[at][1], Subject>>
      /\ (Plan[at][1] \in {"summary", "verify"} => Subject = None)
  BY StepFacts DEF Rest
<1> DEFINE x == Plan[at]
<1> HIDE DEF x
<1>2. x = <<x[1], x[2]>> /\ x[1] \in {"hidden", "summary", "verify"}
      /\ (x[1] \in {"summary", "verify"} => x[2] = None)
  BY <1>1 DEF x, Subject
<1>3. <<"exam", None>> \in Needs(x)
  BY <1>2, NeedsOf
<1>4. Done(<<"exam", None>>)
  BY <1>3, NeedsAreDone DEF x, Rest
<1> QED BY <1>4 DEF Done

LEMMA ReceiptIsBacked ==
  ASSUME Rest, WriteReceipt
  PROVE  /\ AtJob /\ status = "running" /\ Job \in Jobs /\ result[Job] # None
         /\ receipt'[Job] # None /\ receipt' \in [Jobs -> {None, "written", "recovered"}]
         /\ \A j \in Jobs : j # Job => receipt'[j] = receipt[j]
<1>1. AtJob /\ status = "running" /\ Job \in Jobs /\ result[Job] # None
  BY JobFacts DEF WriteReceipt, Rest, Control, AtJob
<1>2. PICK fresh \in {"written", "recovered"} :
        receipt' = IF receipt[Job] = None THEN [receipt EXCEPT ![Job] = fresh] ELSE receipt
  BY DEF WriteReceipt
<1>3. fresh # None
  BY NoRecordAssumption
<1> QED BY <1>1, <1>2, <1>3 DEF Rest, Durable, Typed

LEMMA WriteReceiptKeeps == Rest /\ WriteReceipt => Rest'
<1> SUFFICES ASSUME Rest, WriteReceipt PROVE Rest'
  OBVIOUS
<1>1. /\ AtJob /\ status = "running" /\ Job \in Jobs /\ result[Job] # None
      /\ receipt'[Job] # None /\ receipt' \in [Jobs -> {None, "written", "recovered"}]
      /\ \A j \in Jobs : j # Job => receipt'[j] = receipt[j]
  BY ReceiptIsBacked
<1>2. UNCHANGED <<inputs, campaign, costs, started, result, ledger, feedback, leaked, barrier,
                  manifest, ran, faults>>
  BY DEF WriteReceipt
<1>3. \A j \in Jobs : receipt[j] # None => receipt'[j] # None
  BY <1>1
<1>4. Typed'
  BY <1>1, <1>2 DEF Rest, Durable, Typed
<1>5. Recorded'
  BY <1>1, <1>2 DEF Rest, Durable, Recorded
<1>6. Ledgered'
  BY <1>2, <1>3, JobsAre DEF Rest, Durable, Ledgered
<1>7. Sealed'
  <2>1. PublicRecord' = PublicRecord
    BY <1>2 DEF PublicRecord
  <2>2. barrier # None => \A m \in Producers : receipt'[Revision(m)] # None
    BY <1>3, JobsAre DEF Rest, Durable, Sealed
  <2> QED BY <1>2, <2>1, <2>2 DEF Rest, Durable, Sealed
<1>8. \A r : RowsHold(r) => RowsHold(r)'
  BY <1>2, <1>3, JobsAre DEF RowsHold
<1>9. Opened'
  BY <1>2, <1>8 DEF Rest, Durable, Opened
<1>10. Durable'
  BY <1>2, <1>4, <1>5, <1>6, <1>7, <1>9, EnvelopedStays, ExaminedStays DEF Rest, Durable
<1>11. \A x \in Steps : x[1] \in {"confirm", "revise"} => x \in Jobs
  <2>1. \A x \in Steps : /\ x = <<x[1], x[2]>> /\ (x[1] = "confirm" => x[2] \in Clusters)
                         /\ (x[1] = "revise" => x[2] \in Producers)
    BY DEF Steps, MethodKinds
  <2>2. \A c \in Clusters : <<"confirm", c>> \in Jobs
    BY JobsAre DEF Confirmation
  <2>3. \A m \in Producers : <<"revise", m>> \in Jobs
    BY JobsAre DEF Revision
  <2> QED BY <2>1, <2>2, <2>3
<1>12. RowsHold(rows)' => \A x \in Steps : Done(x) => Done(x)'
  BY <1>2, <1>3, <1>11 DEF Done
<1>13. PICK here \in Steps : here = Plan[at]
  BY <1>1, HereIsAStep
<1>14. here = Job /\ here[1] \in {"confirm", "revise", "hidden"} /\ Plan[at][1] # "verify"
  BY <1>1, <1>13 DEF Job, AtJob, JobSteps
<1>15. Done(here)'
  BY <1>1, <1>14 DEF Done
<1>16. CASE Job[1] = "hidden"
  <2>1. rows' = [rows EXCEPT ![Subject] = result[Job]]
    BY <1>16 DEF WriteReceipt
  <2>2. RowsHold(rows) /\ Subject \in ToSet(Tests) /\ Job = Hidden(Subject)
    BY <1>1, <1>16, ExamIsBehind, JobFacts DEF Rest, Job
  <2>3. result[Job] \in HiddenAnswers \cup {None}
    BY <1>1, <1>16 DEF Rest, Durable, Recorded, Outcomes
  <2>4. RowsHold(rows)'
    <3> DEFINE s == Subject
    <3>1. rows' = [rows EXCEPT ![s] = result[Hidden(s)]] /\ s \in ToSet(Tests)
          /\ result[Hidden(s)] \in HiddenAnswers \cup {None} /\ receipt'[Hidden(s)] # None
      BY <1>1, <2>1, <2>2, <2>3
    <3> HIDE DEF s
    <3>2. rows' \in [ToSet(Tests) -> HiddenAnswers \cup {None}]
      BY <2>2, <3>1 DEF RowsHold
    <3>3. \A t \in ToSet(Tests) : rows'[t] = IF t = s THEN result[Hidden(s)] ELSE rows[t]
      BY <2>2, <3>1 DEF RowsHold
    <3>4. \A t \in ToSet(Tests) :
            rows'[t] # None => rows'[t] = result[Hidden(t)] /\ receipt'[Hidden(t)] # None
      BY <1>3, <2>2, <3>1, <3>3, JobsAre DEF RowsHold
    <3> QED BY <1>2, <3>2, <3>4 DEF RowsHold
  <2>5. \A x \in Steps : Done(x) => Done(x)'
    BY <1>12, <2>4
  <2>6. CASE sub' = "row" /\ at' = at
    <3>1. UNCHANGED <<status, at>>
      BY <1>16, <2>6 DEF WriteReceipt
    <3>2. Control'
      <4>1. Job' = Job /\ AtJob'
        BY <1>1, <3>1 DEF Job, AtJob
      <4> QED BY <1>1, <1>16, <2>6, <3>1, <4>1 DEF Control, Rest
    <3> QED BY <1>1, <1>2, <1>10, <2>5, <3>1, <3>2, StayKeeps
  <2>7. CASE sub' = "enter" /\ at' = at + 1
    <3>1. Advance
      BY <1>16, <2>7 DEF WriteReceipt, Advance
    <3> QED BY <1>1, <1>2, <1>10, <1>13, <1>14, <1>15, <2>5, <3>1, AdvanceKeeps
  <2>8. (sub' = "row" /\ at' = at) \/ (sub' = "enter" /\ at' = at + 1)
    BY <1>16 DEF WriteReceipt
  <2> QED BY <2>6, <2>7, <2>8
<1>17. CASE Job[1] # "hidden"
  <2>1. Advance /\ UNCHANGED rows
    BY <1>17 DEF WriteReceipt
  <2>2. RowsHold(rows) => RowsHold(rows)'
    BY <1>8, <2>1 DEF RowsHold
  <2>3. \A x \in Steps : Done(x) => Done(x)'
    BY <1>2, <1>3, <1>11, <2>2 DEF Done
  <2> QED BY <1>1, <1>2, <1>10, <1>13, <1>14, <1>15, <2>1, <2>3, AdvanceKeeps
<1> QED BY <1>16, <1>17

LEMMA WriteRowKeeps == Rest /\ WriteRow => Rest'
<1> SUFFICES ASSUME Rest, WriteRow PROVE Rest'
  OBVIOUS
<1>1. AtJob /\ status = "running" /\ Job[1] = "hidden"
  BY DEF WriteRow, Rest, Control, AtJob
<1>2. UNCHANGED <<inputs, campaign, costs, started, result, receipt, ledger, feedback, leaked,
                  barrier, rows, ran, faults>>
  BY DEF WriteRow
<1>3. manifest # None /\ RowsHold(rows)
  BY <1>1, ExamIsBehind DEF Job
<1>4. manifest \in Exams /\ barrier # None /\ ~ leaked
  BY <1>3 DEF Rest, Durable, Opened
<1>5. manifest' \in Exams /\ manifest'.rows = rows
  BY <1>3, <1>4 DEF WriteRow, Exams, RowsHold
<1>6. manifest' # None
  BY <1>5, NoRecordAssumption
<1>7. RowsHold(manifest.rows)'
  BY <1>2, <1>3, <1>5 DEF RowsHold
<1>8. Opened'
  BY <1>2, <1>4, <1>5, <1>7 DEF Opened
<1>9. Typed'
  BY <1>2 DEF Rest, Durable, Typed
<1>10. Examined'
  BY <1>6 DEF Examined
<1>11. Durable'
  BY <1>2, <1>8, <1>9, <1>10, RecordedStays, LedgeredStays, EnvelopedStays, SealedStays
  DEF Rest, Durable
<1>12. \A x \in Steps : Done(x) => Done(x)'
  BY <1>2, <1>6 DEF Done, RowsHold
<1>13. PICK here \in Steps : here = Plan[at]
  BY <1>1, HereIsAStep
<1>14. here[1] = "hidden" /\ Plan[at][1] # "verify"
  BY <1>1, <1>13 DEF Job
<1>15. Done(here)'
  BY <1>14 DEF Done
<1>16. Advance
  BY DEF WriteRow
<1> QED BY <1>1, <1>2, <1>11, <1>12, <1>13, <1>14, <1>15, <1>16, AdvanceKeeps

LEMMA LedgerIsWhole ==
  ASSUME Rest, WriteLedger, NEW m \in Producers, m = Subject
  PROVE  /\ campaign[m] = "complete"
         /\ Confirmed(m) \in [ToSet(Suspects[m]) -> RerunAnswers] /\ Confirmed(m) # None
         /\ \A c \in ToSet(Suspects[m]) : /\ Confirmed(m)[c] = result[Confirmation(c)]
                                          /\ receipt[Confirmation(c)] # None
<1>1. status = "running" /\ Plan[at] = <<"ledger", m>>
  BY StepFacts DEF WriteLedger, Step, Rest
<1>2. \A c \in ToSet(Suspects[m]) : Done(Confirmation(c))
  <2>1. Confirmations(m) \subseteq Needs(Plan[at])
    BY <1>1, NeedsOf
  <2> SUFFICES ASSUME NEW c \in ToSet(Suspects[m]) PROVE Done(Confirmation(c))
    OBVIOUS
  <2>2. Confirmation(c) \in Needs(Plan[at])
    BY <2>1 DEF Confirmations
  <2> QED BY <1>1, <2>2, NeedsAreDone DEF Rest
<1>3. \A c \in ToSet(Suspects[m]) : receipt[Confirmation(c)] # None
  BY <1>2, JobNames DEF Done
<1>4. \A c \in ToSet(Suspects[m]) : result[Confirmation(c)] \in RerunAnswers
  <2> SUFFICES ASSUME NEW c \in ToSet(Suspects[m]) PROVE result[Confirmation(c)] \in RerunAnswers
    OBVIOUS
  <2>1. Confirmation(c) \in Jobs /\ Confirmation(c)[1] = "confirm"
    BY JobsAre, JobNames
  <2>2. result[Confirmation(c)] # None
        /\ result[Confirmation(c)] \in Outcomes("confirm") \cup {None}
    BY <1>3, <2>1 DEF Rest, Durable, Recorded
  <2> QED BY <2>2 DEF Outcomes
<1>5. Confirmed(m) \in [ToSet(Suspects[m]) -> RerunAnswers]
  BY <1>4 DEF Confirmed
<1>6. Confirmed(m) # None
  BY <1>5, NoRecordAssumption DEF Ledgers
<1>7. \A c \in ToSet(Suspects[m]) : Confirmed(m)[c] = result[Confirmation(c)]
  BY DEF Confirmed
<1>8. campaign[m] = "complete"
  <2>1. <<"check", m>> \in Needs(Plan[at])
    BY <1>1, NeedsOf
  <2>2. Done(<<"check", m>>)
    BY <1>1, <2>1, NeedsAreDone DEF Rest
  <2> QED BY <2>2 DEF Done
<1> QED BY <1>3, <1>5, <1>6, <1>7, <1>8

LEMMA WriteLedgerKeeps == Rest /\ WriteLedger => Rest'
<1> SUFFICES ASSUME Rest, WriteLedger PROVE Rest'
  OBVIOUS
<1>1. status = "running" /\ Subject \in Producers /\ Plan[at][1] = "ledger"
  BY StepFacts DEF WriteLedger, Step, Rest, MethodKinds
<1>2. PICK m \in Producers : m = Subject
  BY <1>1
<1>3. UNCHANGED <<inputs, campaign, costs, started, result, receipt, feedback, leaked, barrier,
                  manifest, rows, ran, faults>>
  BY DEF WriteLedger
<1>4. ledger' = IF ledger[m] = None THEN [ledger EXCEPT ![m] = Confirmed(m)] ELSE ledger
  BY <1>2 DEF WriteLedger
<1>5. /\ campaign[m] = "complete"
      /\ Confirmed(m) \in [ToSet(Suspects[m]) -> RerunAnswers] /\ Confirmed(m) # None
      /\ \A c \in ToSet(Suspects[m]) : /\ Confirmed(m)[c] = result[Confirmation(c)]
                                       /\ receipt[Confirmation(c)] # None
  BY <1>2, LedgerIsWhole
<1>6. /\ ledger' = [n \in Producers |-> ledger'[n]]
      /\ \A n \in Producers : ledger[n] # None => ledger'[n] = ledger[n]
      /\ ledger[m] = None => ledger'[m] = Confirmed(m)
      /\ \A n \in Producers : n # m => ledger'[n] = ledger[n]
  BY <1>4 DEF Rest, Durable, Typed
<1>7. Typed'
  BY <1>3, <1>6 DEF Rest, Durable, Typed
<1>8. Ledgered'
  <2> SUFFICES ASSUME NEW n \in Producers, ledger'[n] # None
               PROVE  /\ campaign[n] = "complete"
                      /\ ledger'[n] \in [ToSet(Suspects[n]) -> RerunAnswers]
                      /\ \A c \in ToSet(Suspects[n]) : /\ ledger'[n][c] = result[Confirmation(c)]
                                                       /\ receipt[Confirmation(c)] # None
    BY <1>3 DEF Ledgered
  <2>1. CASE n = m /\ ledger[n] = None
    BY <2>1, <1>5, <1>6
  <2>2. CASE ledger[n] # None
    <3>1. ledger'[n] = ledger[n]
      BY <2>2, <1>6
    <3> QED BY <2>2, <3>1 DEF Rest, Durable, Ledgered
  <2>3. n # m /\ ledger[n] = None => ledger'[n] = None
    BY <1>6
  <2> QED BY <2>1, <2>2, <2>3
<1>9. Enveloped'
  BY <1>3, <1>6 DEF Rest, Durable, Enveloped, Evidence, Settled
<1>10. Durable'
  BY <1>3, <1>7, <1>8, <1>9, RecordedStays, SealedStays, OpenedStays, ExaminedStays
  DEF Rest, Durable
<1>11. \A x \in Steps : Done(x) => Done(x)'
  <2>1. \A x \in Steps : x[1] = "ledger" => x[2] \in Producers
    BY DEF Steps, MethodKinds
  <2> QED BY <1>3, <1>6, <2>1 DEF Done, RowsHold
<1>12. PICK here \in Steps : here = Plan[at]
  BY <1>1, HereIsAStep
<1>13. here[1] = "ledger" /\ here[2] = m /\ Plan[at][1] # "verify"
  BY <1>1, <1>2, <1>12 DEF Subject
<1>14. Done(here)'
  BY <1>5, <1>6, <1>13 DEF Done
<1>15. Advance
  BY DEF WriteLedger
<1> QED BY <1>1, <1>3, <1>10, <1>11, <1>12, <1>13, <1>14, <1>15, AdvanceKeeps

LEMMA ProjectKeeps == Rest /\ Project => Rest'
<1> SUFFICES ASSUME Rest, Project PROVE Rest'
  OBVIOUS
<1>1. status = "running" /\ Subject \in Producers /\ Plan[at] = <<"project", Subject>>
  BY StepFacts DEF Project, Step, Rest, MethodKinds
<1>2. PICK m \in Producers : m = Subject
  BY <1>1
<1>3. CASE Plausible(m) /\ feedback[m] \in {None, Evidence(m)}
  <2>1. /\ feedback' = [feedback EXCEPT ![m] = Evidence(m)] /\ Advance /\ faults' = faults
        /\ UNCHANGED <<inputs, campaign, costs, started, result, receipt, ledger, leaked,
                       barrier, manifest, rows, ran>>
    BY <1>2, <1>3 DEF Project
  <2>2. ledger[m] # None
    <3>1. <<"ledger", m>> \in Needs(Plan[at])
      BY <1>1, <1>2, NeedsOf
    <3>2. Done(<<"ledger", m>>)
      BY <1>1, <3>1, NeedsAreDone DEF Rest
    <3> QED BY <3>2 DEF Done
  <2>20. Settled(m)
    BY <1>3, <2>2 DEF Settled, Plausible, Rest, Durable, Ledgered
  <2>3. Evidence(m) # None
    <3>1. ledger[m] \in Ledgers
      BY <2>2 DEF Rest, Durable, Ledgered, Ledgers
    <3>2. Evidence(m) \in Evidences
      BY <2>20, <3>1 DEF Evidence, Evidences, Settled
    <3> QED BY <3>2, NoRecordAssumption
  <2>4. /\ feedback' = [n \in Producers |-> feedback'[n]]
        /\ feedback'[m] = Evidence(m)
        /\ \A n \in Producers : n # m => feedback'[n] = feedback[n]
        /\ \A n \in Producers : feedback[n] # None => feedback'[n] = feedback[n]
    BY <1>3, <2>1 DEF Rest, Durable, Typed
  <2>5. Typed'
    BY <2>1, <2>4 DEF Rest, Durable, Typed
  <2>6. Enveloped'
    <3> SUFFICES ASSUME NEW n \in Producers, feedback'[n] # None
                 PROVE  feedback'[n] = Evidence(n) /\ Settled(n) /\ ledger[n] # None
      BY <2>1 DEF Enveloped, Evidence, Settled
    <3>1. CASE n = m
      BY <2>2, <2>4, <2>20, <3>1
    <3>2. CASE n # m
      BY <2>4, <3>2 DEF Rest, Durable, Enveloped
    <3> QED BY <3>1, <3>2
  <2>7. Sealed'
    <3> SUFFICES ASSUME barrier # None
                 PROVE  (/\ barrier = PublicRecord /\ barrier \in PublicRecords
                         /\ \A n \in Producers : feedback[n] # None /\ receipt[Revision(n)] # None)'
      BY <2>1 DEF Sealed
    <3>1. /\ barrier = PublicRecord /\ barrier \in PublicRecords
          /\ \A n \in Producers : feedback[n] # None /\ receipt[Revision(n)] # None
      BY DEF Rest, Durable, Sealed
    <3>2. \A n \in Producers : feedback'[n] = feedback[n]
      BY <2>4, <3>1
    <3>3. PublicRecord' = PublicRecord
      BY <2>1, <3>2 DEF PublicRecord
    <3> QED BY <2>1, <3>1, <3>2, <3>3
  <2>8. Durable'
    BY <2>1, <2>5, <2>6, <2>7, RecordedStays, LedgeredStays, OpenedStays, ExaminedStays
    DEF Rest, Durable
  <2>9. \A x \in Steps : Done(x) => Done(x)'
    <3>1. \A x \in Steps : x[1] = "project" => x[2] \in Producers
      BY DEF Steps, MethodKinds
    <3> QED BY <2>1, <2>4, <3>1 DEF Done, RowsHold
  <2>10. PICK here \in Steps : here = Plan[at]
    BY <1>1, HereIsAStep
  <2>11. here[1] = "project" /\ here[2] = m /\ Plan[at][1] # "verify"
    BY <1>1, <1>2, <2>10
  <2>12. Done(here)'
    BY <2>3, <2>4, <2>11 DEF Done
  <2> QED BY <1>1, <2>1, <2>8, <2>9, <2>10, <2>11, <2>12, AdvanceKeeps
<1>4. CASE ~ (Plausible(m) /\ feedback[m] \in {None, Evidence(m)})
  BY <1>2, <1>4, RefuseKeeps DEF Project, Rest
<1> QED BY <1>3, <1>4

LEMMA SealKeeps == Rest /\ SealPublicPhase => Rest'
<1> SUFFICES ASSUME Rest, SealPublicPhase PROVE Rest'
  OBVIOUS
<1> DEFINE Fit == (\A m \in Producers : Launched(m)) /\ barrier \in {None, PublicRecord}
<1>1. status = "running" /\ Plan[at] = <<"barrier", None>>
  BY StepFacts DEF SealPublicPhase, Step, Rest
<1>2. CASE Fit
  <2>1. /\ barrier' = PublicRecord /\ sub' = "audit" /\ faults' = faults
        /\ UNCHANGED <<inputs, campaign, costs, started, result, receipt, ledger, feedback,
                       leaked, manifest, status, at, answer, rows, ran>>
    BY <1>2 DEF SealPublicPhase
  <2>2. \A m \in Producers : feedback[m] # None /\ receipt[Revision(m)] # None
    <3> SUFFICES ASSUME NEW m \in Producers
                 PROVE  feedback[m] # None /\ receipt[Revision(m)] # None
      OBVIOUS
    <3>1. <<"project", m>> \in Needs(Plan[at]) /\ <<"revise", m>> \in Needs(Plan[at])
      BY <1>1, NeedsOf DEF Named
    <3>2. Done(<<"project", m>>) /\ Done(<<"revise", m>>)
      BY <1>1, <3>1, NeedsAreDone DEF Rest
    <3> QED BY <3>2 DEF Done, Revision
  <2>3. PublicRecord \in PublicRecords
    <3> SUFFICES ASSUME NEW m \in Producers
                 PROVE  /\ feedback[m] \in Evidences
                        /\ result[Revision(m)] \in RevisionAnswers
      BY DEF PublicRecord, PublicRecords
    <3>1. feedback[m] = Evidence(m) /\ Settled(m) /\ ledger[m] # None
      BY <2>2 DEF Rest, Durable, Enveloped
    <3>2. ledger[m] \in Ledgers
      BY <3>1 DEF Rest, Durable, Ledgered, Ledgers
    <3>3. feedback[m] \in Evidences
      BY <3>1, <3>2 DEF Evidence, Evidences, Settled
    <3>4. Revision(m) \in Jobs /\ Revision(m)[1] = "revise"
      BY JobsAre, JobNames
    <3>5. result[Revision(m)] \in RevisionAnswers
      BY <2>2, <3>4 DEF Rest, Durable, Recorded, Outcomes
    <3> QED BY <3>3, <3>5
  <2>4. barrier' # None
    BY <2>1, <2>3, NoRecordAssumption
  <2>5. Typed'
    BY <2>1 DEF Rest, Durable, Typed
  <2>6. Sealed'
    <3>1. PublicRecord' = PublicRecord /\ PublicRecords' = PublicRecords
      BY <2>1 DEF PublicRecord
    <3> QED BY <2>1, <2>2, <2>3, <3>1 DEF Sealed
  <2>7. Opened'
    BY <2>1, <2>4 DEF Rest, Durable, Opened, RowsHold
  <2>8. Durable'
    BY <2>1, <2>5, <2>6, <2>7, RecordedStays, LedgeredStays, EnvelopedStays, ExaminedStays
    DEF Rest, Durable
  <2>9. \A x \in Steps : Done(x) => Done(x)'
    BY <2>1, <2>4 DEF Done, RowsHold
  <2>10. Control'
    BY <1>1, <2>1, <2>4 DEF Control, Rest, Step
  <2> QED BY <1>1, <2>1, <2>8, <2>9, <2>10, StayKeeps
<1>3. CASE ~ Fit
  BY <1>3, RefuseKeeps DEF SealPublicPhase, Rest
<1> QED BY <1>2, <1>3

LEMMA AuditKeeps == Rest /\ Audit => Rest'
<1> SUFFICES ASSUME Rest, Audit PROVE Rest'
  OBVIOUS
<1>1. status = "running" /\ Plan[at][1] = "barrier" /\ barrier # None
  BY DEF Audit, Step, Rest, Control
<1>2. CASE ~ leaked
  <2>1. PICK here \in Steps : here = Plan[at]
    BY <1>1, HereIsAStep
  <2>2. Done(here)
    BY <1>1, <1>2, <2>1 DEF Done
  <2> QED BY <1>1, <1>2, <2>1, <2>2, PassKeeps DEF Audit
<1>3. CASE leaked
  BY <1>3, RefuseKeeps DEF Audit, Rest
<1> QED BY <1>2, <1>3

LEMMA OpenExamKeeps == Rest /\ OpenExam => Rest'
<1> SUFFICES ASSUME Rest, OpenExam PROVE Rest'
  OBVIOUS
<1> DEFINE Fit == InputsHold /\ ~ leaked /\ (manifest = None \/ SameExam)
           fresh == [public |-> PublicRecord, rows |-> FreshRows, summary |-> FALSE]
<1>1. status = "running" /\ Plan[at] = <<"exam", None>>
  BY StepFacts DEF OpenExam, Step, Rest
<1>2. CASE Fit
  <2>1. /\ manifest' = IF manifest = None THEN fresh ELSE manifest
        /\ rows' = manifest'.rows /\ Advance /\ faults' = faults /\ ~ leaked
        /\ UNCHANGED <<inputs, campaign, costs, started, result, receipt, ledger, feedback,
                       leaked, barrier, ran>>
    BY <1>2 DEF OpenExam
  <2>2. barrier # None
    <3>1. <<"barrier", None>> \in Needs(Plan[at])
      BY <1>1, NeedsOf
    <3>2. Done(<<"barrier", None>>)
      BY <1>1, <3>1, NeedsAreDone DEF Rest
    <3> QED BY <3>2 DEF Done
  <2>3. PublicRecord \in PublicRecords
    BY <2>2 DEF Rest, Durable, Sealed
  <2>4. fresh \in Exams /\ RowsHold(fresh.rows)
    <3>1. FreshRows \in [ToSet(Tests) -> HiddenAnswers \cup {None}]
      BY DEF FreshRows
    <3>2. fresh \in Exams
      BY <2>3, <3>1 DEF Exams
    <3>3. \A t \in ToSet(Tests) : FreshRows[t] = None
      BY DEF FreshRows
    <3>4. fresh.rows = FreshRows
      OBVIOUS
    <3> HIDE DEF fresh
    <3>5. RowsHold(fresh.rows)
      BY <3>1, <3>3, <3>4 DEF RowsHold
    <3> QED BY <3>2, <3>5
  <2> HIDE DEF fresh
  <2>5. manifest' \in Exams
    BY <2>1, <2>4 DEF Rest, Durable, Opened
  <2>6. manifest' \in Exams /\ manifest' # None
    BY <2>5, NoRecordAssumption
  <2>7. RowsHold(manifest.rows)'
    <3>1. CASE manifest = None
      <4>1. manifest' = fresh
        BY <2>1, <3>1
      <4> QED BY <2>1, <2>4, <4>1 DEF RowsHold
    <3>2. CASE manifest # None
      <4>1. manifest' = manifest
        BY <2>1, <3>2
      <4>2. RowsHold(manifest.rows)
        BY <3>2 DEF Rest, Durable, Opened
      <4> QED BY <2>1, <4>1, <4>2 DEF RowsHold
    <3> QED BY <3>1, <3>2
  <2>8. RowsHold(rows)'
    BY <2>1, <2>7 DEF RowsHold
  <2>9. Opened'
    BY <2>1, <2>2, <2>6, <2>7 DEF Opened
  <2>10. Typed'
    BY <2>1 DEF Rest, Durable, Typed
  <2>11. Examined'
    BY <2>6 DEF Examined
  <2>12. Durable'
    BY <2>1, <2>9, <2>10, <2>11, RecordedStays, LedgeredStays, EnvelopedStays, SealedStays
    DEF Rest, Durable
  <2>13. \A x \in Steps : Done(x) => Done(x)'
    BY <2>1, <2>6, <2>8 DEF Done
  <2>14. PICK here \in Steps : here = Plan[at]
    BY <1>1, HereIsAStep
  <2>15. here[1] = "exam" /\ Plan[at][1] # "verify"
    BY <1>1, <2>14
  <2>16. Done(here)'
    BY <2>6, <2>8, <2>15 DEF Done
  <2> QED BY <1>1, <2>1, <2>12, <2>13, <2>14, <2>15, <2>16, AdvanceKeeps
<1>3. CASE ~ Fit
  BY <1>3, RefuseKeeps DEF OpenExam, Rest
<1> QED BY <1>2, <1>3

LEMMA SummarizeKeeps == Rest /\ Summarize => Rest'
<1> SUFFICES ASSUME Rest, Summarize PROVE Rest'
  OBVIOUS
<1>1. status = "running" /\ Plan[at][1] = "summary"
  BY DEF Summarize, Step
<1>2. UNCHANGED <<inputs, campaign, costs, started, result, receipt, ledger, feedback, leaked,
                  barrier, rows, ran, faults>>
  BY DEF Summarize
<1>3. manifest # None /\ RowsHold(rows)
  BY <1>1, ExamIsBehind
<1>4. manifest \in Exams /\ barrier # None /\ ~ leaked
  BY <1>3 DEF Rest, Durable, Opened
<1>5. manifest' \in Exams /\ manifest'.rows = rows
  BY <1>3, <1>4 DEF Summarize, Exams, RowsHold
<1>6. manifest' # None
  BY <1>5, NoRecordAssumption
<1>7. RowsHold(manifest.rows)'
  BY <1>2, <1>3, <1>5 DEF RowsHold
<1>8. Opened'
  BY <1>2, <1>4, <1>5, <1>7 DEF Opened
<1>9. Typed'
  BY <1>2 DEF Rest, Durable, Typed
<1>10. Examined'
  BY <1>6 DEF Examined
<1>11. Durable'
  BY <1>2, <1>8, <1>9, <1>10, RecordedStays, LedgeredStays, EnvelopedStays, SealedStays
  DEF Rest, Durable
<1>12. \A x \in Steps : Done(x) => Done(x)'
  BY <1>2, <1>6 DEF Done, RowsHold
<1>13. PICK here \in Steps : here = Plan[at]
  BY <1>1, HereIsAStep
<1>14. here[1] = "summary" /\ Plan[at][1] # "verify"
  BY <1>1, <1>13
<1>15. Done(here)'
  BY <1>14 DEF Done
<1>16. Advance
  BY DEF Summarize
<1> QED BY <1>1, <1>2, <1>11, <1>12, <1>13, <1>14, <1>15, <1>16, AdvanceKeeps

\* What the last step looks at is all that a whole pipeline has.
LEMMA VerifiedIsWhole ==
  ASSUME Rest, status = "running", Plan[at][1] = "verify", ExamHolds, PublicHolds
  PROVE  /\ ~ leaked /\ \A m \in Producers : campaign[m] = "complete"
         /\ \A j \in Jobs : ran[j] = 1 /\ receipt[j] # None /\ result[j] # "bare"
<1>1. ~ leaked
  BY DEF PublicHolds
<1>2. barrier # None /\ \A m \in Producers : ledger[m] # None /\ campaign[m] = "complete"
  <2>1. manifest # None
    BY ExamIsBehind
  <2> QED BY <2>1 DEF Rest, Durable, Opened, Sealed, Enveloped, Settled
<1>3. ASSUME NEW j \in Jobs
      PROVE  receipt[j] # None /\ result[j] # "bare"
  <2>1. CASE \E m \in Producers : \E c \in ToSet(Suspects[m]) : j = Confirmation(c)
    <3>1. PICK m \in Producers : \E c \in ToSet(Suspects[m]) : j = Confirmation(c)
      BY <2>1
    <3>2. PICK c \in ToSet(Suspects[m]) : j = Confirmation(c)
      BY <3>1
    <3>3. /\ receipt[j] # None /\ result[j] = ledger[m][c]
          /\ ledger[m] \in [ToSet(Suspects[m]) -> RerunAnswers]
      BY <1>2, <3>2 DEF Rest, Durable, Ledgered
    <3>4. result[j] \in RerunAnswers
      BY <3>3
    <3> QED BY <3>3, <3>4 DEF RerunAnswers
  <2>2. CASE \E m \in Producers : j = Revision(m)
    <3>1. PICK m \in Producers : j = Revision(m)
      BY <2>2
    <3>2. receipt[j] # None
      BY <3>1 DEF PublicHolds
    <3>3. result[j] \in RevisionAnswers \cup {None}
      BY <3>1, <3>2, JobNames DEF Rest, Durable, Recorded, Outcomes
    <3>4. result[j] # None
      BY <3>2 DEF Rest, Durable, Recorded
    <3> QED BY <3>2, <3>3, <3>4 DEF RevisionAnswers
  <2>3. CASE \E t \in ToSet(Tests) : j = Hidden(t)
    <3>1. PICK t \in ToSet(Tests) : j = Hidden(t)
      BY <2>3
    <3>2. HiddenHolds(j)
      BY <3>1 DEF ExamHolds, HiddenJobs
    <3>3. /\ receipt[j] # None /\ result[j] # None /\ result[j] # "bare"
          /\ result[j] \in HiddenAnswers \cup {None}
      BY <3>1, <3>2, JobNames DEF HiddenHolds, Unbacked, Rest, Durable, Recorded, Outcomes
    <3> QED BY <3>3 DEF HiddenAnswers
  <2> QED BY <2>1, <2>2, <2>3, JobCases
<1>4. \A j \in Jobs : ran[j] = 1
  BY <1>3 DEF Rest, Durable, Recorded
<1> QED BY <1>1, <1>2, <1>3, <1>4

LEMMA VerifyKeeps == Rest /\ Verify => Rest'
<1> SUFFICES ASSUME Rest, Verify PROVE Rest'
  OBVIOUS
<1>1. status = "running" /\ Plan[at][1] = "verify"
  BY DEF Verify, Step
<1>2. CASE ExamHolds /\ PublicHolds
  <2>1. /\ status' = "verified" /\ at' = 0 /\ faults' = faults
        /\ UNCHANGED <<disk, sub, answer, ran>>
    BY <1>2 DEF Verify
  <2>2. Durable'
    BY <2>1, DurableStays DEF Rest
  <2>3. sub = "enter"
    BY <1>1 DEF Rest, Control, Step, AtJob, JobSteps
  <2>4. Control'
    BY <2>1, <2>3 DEF Control
  <2>5. Behind'
    <3>1. \A i \in 1 .. Len(Plan) : ~ (i < 0)
      OBVIOUS
    <3> QED BY <2>1, <3>1 DEF Behind
  <2>6. Whole'
    <3>1. /\ ~ leaked /\ \A m \in Producers : campaign[m] = "complete"
          /\ \A j \in Jobs : ran[j] = 1 /\ receipt[j] # None /\ result[j] # "bare"
      BY <1>1, <1>2, VerifiedIsWhole
    <3> QED BY <2>1, <3>1 DEF Whole, disk
  <2> QED BY <2>1, <2>2, <2>4, <2>5, <2>6 DEF Rest
<1>3. CASE ~ (ExamHolds /\ PublicHolds)
  BY <1>3, RefuseKeeps DEF Verify, Rest
<1> QED BY <1>2, <1>3

-----------------------------------------------------------------------------
(* The invariant and what follows from it. *)

LEMMA InitRest == Init => Rest
<1> SUFFICES ASSUME Init PROVE Rest
  OBVIOUS
<1> USE DEF Init
<1>1. None \notin {"written", "recovered"}
  BY NoRecordAssumption
<1>2. Typed
  BY DEF Typed
<1>3. Recorded
  <2>1. \A m \in Producers : result[Revision(m)] = None
    BY JobsAre
  <2> QED BY <1>1, <2>1 DEF Recorded
<1>4. Ledgered /\ Enveloped /\ Sealed /\ Opened /\ Examined
  BY DEF Ledgered, Enveloped, Sealed, Opened, Examined
<1>5. Control
  BY DEF Control
<1>6. Behind
  <2>1. \A i \in 1 .. Len(Plan) : ~ (i < 0)
    OBVIOUS
  <2> QED BY <2>1 DEF Behind
<1>7. Whole
  BY DEF Whole
<1>8. faults \in 0 .. MaxFaults
  BY FaultsAssumption
<1> QED BY <1>2, <1>3, <1>4, <1>5, <1>6, <1>7, <1>8 DEF Rest, Durable

LEMMA StutterKeepsRest == Rest /\ UNCHANGED vars => Rest'
<1> SUFFICES ASSUME Rest, UNCHANGED vars PROVE Rest'
  OBVIOUS
<1> USE DEF vars
<1>1. Durable'
  BY DurableStays DEF Rest
<1>2. Control'
  BY DEF Rest, Control, Step, AtJob, Job, Subject, disk
<1>3. Behind'
  BY DoneStays DEF Rest, Behind, disk
<1>4. Whole'
  BY DEF Rest, Whole, disk
<1> QED BY <1>1, <1>2, <1>3, <1>4 DEF Rest

LEMMA StepRest == IInv /\ Rest /\ [Next]_vars => Rest'
<1> SUFFICES ASSUME IInv, Rest, [Next]_vars PROVE Rest'
  OBVIOUS
<1>1. CASE Start
  BY <1>1, StartKeeps
<1>2. CASE StagePublicScenario \/ MaterializePublicWork \/ EnsureBaseImage
  BY <1>2, PublishKeeps
  DEF StagePublicScenario, MaterializePublicWork, EnsureBaseImage, PublicInputs
<1>3. CASE BuildFails
  BY <1>3, BuildFailsKeeps
<1>4. CASE LaunchCampaign \/ CampaignBegins \/ CampaignEnds \/ CampaignFails
  BY <1>4, LaunchKeeps, CampaignBeginsKeeps, CampaignEndsKeeps, CampaignFailsKeeps
<1>5. CASE DeriveCosts \/ CheckCampaign
  BY <1>5, DeriveCostsKeeps, CheckCampaignKeeps
<1>6. CASE BeginJob \/ RefuseJob \/ PassOver
  BY <1>6, BeginJobKeeps, RefuseJobKeeps, PassOverKeeps
<1>7. CASE Rerun \/ Revise \/ RunHiddenTest
  BY <1>7, RunKeeps
<1>8. CASE JobFails
  BY <1>8, JobFailsKeeps
<1>9. CASE RecordResult \/ WriteReceipt \/ WriteRow
  BY <1>9, RecordResultKeeps, WriteReceiptKeeps, WriteRowKeeps
<1>10. CASE WriteLedger \/ Project
  BY <1>10, WriteLedgerKeeps, ProjectKeeps
<1>11. CASE SealPublicPhase \/ Audit
  BY <1>11, SealKeeps, AuditKeeps
<1>12. CASE OpenExam \/ Summarize \/ Verify
  BY <1>12, OpenExamKeeps, SummarizeKeeps, VerifyKeeps
<1>13. CASE Crash
  BY <1>13, CrashKeeps
<1>14. CASE UNCHANGED vars
  BY <1>14, StutterKeepsRest
<1> QED
  BY <1>1, <1>2, <1>3, <1>4, <1>5, <1>6, <1>7, <1>8, <1>9, <1>10, <1>11, <1>12, <1>13, <1>14
  DEF Next, Proceed

\* The inductive invariant holds: how often actions ran, and all the rest.
LEMMA SpecRest == Spec => []Rest
  BY InitIInv, StepIInv, InitRest, StepRest, PTL DEF Spec

\* A hidden test is begun only behind the sealed public phase, and what was sealed is what is
\* there, wherever processes died on the way (run_rq3_scenario, _write_or_validate_public_barrier,
\* assert_no_hidden_material).
THEOREM ExamBehindTheSeal == Spec => []HiddenAfterSeal
<1>1. Rest => HiddenAfterSeal
  <2> SUFFICES ASSUME Rest, started \cap HiddenJobs # {}
               PROVE  /\ barrier # None /\ barrier = PublicRecord /\ ~ leaked
                      /\ \A m \in Producers :
                           /\ Plausible(m) /\ Replayable(m) /\ ledger[m] # None
                           /\ feedback[m] = Evidence(m)
                           /\ receipt[Revision(m)] # None
    BY DEF HiddenAfterSeal
  <2>1. barrier # None /\ ~ leaked
    BY DEF Rest, Durable, Examined, Opened
  <2>2. /\ barrier = PublicRecord
        /\ \A m \in Producers : feedback[m] # None /\ receipt[Revision(m)] # None
    BY <2>1 DEF Rest, Durable, Sealed
  <2>3. \A m \in Producers : /\ Plausible(m) /\ Replayable(m) /\ ledger[m] # None
                              /\ feedback[m] = Evidence(m)
    BY <2>2 DEF Rest, Durable, Enveloped, Settled, Plausible, Replayable
  <2> QED BY <2>1, <2>2, <2>3
<1> QED BY SpecRest, <1>1, PTL

LEMMA RestIsTyped == Rest => TypeOK
<1> SUFFICES ASSUME Rest PROVE TypeOK
  OBVIOUS
<1>1. Len(Plan) \in Nat
  BY PlanIsOrdered
<1>2. at \in 0 .. Len(Plan) /\ (status = "running") = (at > 0)
  <2>1. CASE status = "running"
    BY <1>1, <2>1 DEF Rest, Control
  <2>2. CASE status # "running"
    <3>1. at = 0
      BY <2>2 DEF Rest, Control
    <3> QED BY <1>1, <2>2, <3>1
  <2> QED BY <2>1, <2>2
<1>3. \A j \in Jobs : /\ result[j] \in RerunAnswers \cup RevisionAnswers \cup HiddenAnswers
                                      \cup {None}
                      /\ receipt[j] \in {None, "written", "recovered"}
  BY DEF Rest, Durable, Typed, Recorded, Outcomes
<1>4. /\ inputs \subseteq {"stage", "work", "base"} /\ started \subseteq Jobs
      /\ leaked \in BOOLEAN
      /\ \A m \in Producers : /\ campaign[m] \in {"absent", "partial"} \cup Ends
                              /\ costs[m] \in {None, "partial"} \cup Ends
  BY DEF Rest, Durable, Typed, PublicInputs
<1>5. /\ status \in {"running", "down", "refused", "verified"} /\ faults \in 0 .. MaxFaults
      /\ sub \in {"enter", "calling", "returned", "started", "answered", "recorded", "row",
                  "audit"}
  BY DEF Rest, Control
<1> QED BY <1>2, <1>3, <1>4, <1>5 DEF TypeOK

\* Results, receipts, ledgers, envelopes and the manifest never run ahead of what they are about,
\* and a verified pipeline is whole (confirm_campaign_findings, revise_feedback_set,
\* evaluate_hidden_scenario, verify_rq3_artifacts).
THEOREM RecordsAgree == Spec => []EvidenceAgrees
<1>1. Rest => EvidenceAgrees
  <2> SUFFICES ASSUME Rest PROVE EvidenceAgrees
    OBVIOUS
  <2>1. TypeOK
    BY RestIsTyped
  <2>2. \A j \in Jobs : /\ receipt[j] # None => result[j] # None
                        /\ result[j] # None => j \in started /\ ran[j] = 1
    BY DEF Rest, Durable, Recorded
  <2>3. \A m \in Producers :
          ledger[m] # None =>
            \A c \in ToSet(Suspects[m]) :
               /\ c \in DOMAIN ledger[m] /\ ledger[m][c] = result[Confirmation(c)]
               /\ receipt[Confirmation(c)] # None
    BY DEF Rest, Durable, Ledgered
  <2>4. \A m \in Producers :
          feedback[m] # None => feedback[m].campaign = "complete" /\ feedback[m].ledger = ledger[m]
    <3> SUFFICES ASSUME NEW m \in Producers, feedback[m] # None
                 PROVE  feedback[m].campaign = "complete" /\ feedback[m].ledger = ledger[m]
      OBVIOUS
    <3>1. feedback[m] = Evidence(m) /\ campaign[m] = "complete"
      BY DEF Rest, Durable, Enveloped, Settled
    <3>2. Evidence(m).campaign = campaign[m] /\ Evidence(m).ledger = ledger[m]
      BY DEF Evidence
    <3> QED BY <3>1, <3>2
  <2>5. manifest # None =>
          \A t \in ToSet(Tests) :
            manifest.rows[t] # None =>
              manifest.rows[t] = result[Hidden(t)] /\ receipt[Hidden(t)] # None
    BY DEF Rest, Durable, Opened, RowsHold
  <2>6. status = "verified" =>
          /\ ~ leaked /\ \A m \in Producers : campaign[m] = "complete"
          /\ \A j \in Jobs : ran[j] = 1 /\ receipt[j] # None /\ result[j] # "bare"
    BY DEF Rest, Whole
  <2> QED BY <2>1, <2>2, <2>3, <2>4, <2>5, <2>6 DEF EvidenceAgrees
<1> QED BY SpecRest, <1>1, PTL

\* Once the public phase is sealed no step changes what the seal is about: campaigns, costs,
\* ledgers, envelopes, hidden material, the record itself (_write_or_validate_public_barrier).
SealIsFinal ==
  barrier # None => UNCHANGED <<campaign, costs, ledger, feedback, leaked, barrier>>

LEMMA SealStays == Rest /\ [Next]_vars => SealIsFinal
<1> SUFFICES ASSUME Rest, [Next]_vars, barrier # None
             PROVE  UNCHANGED <<campaign, costs, ledger, feedback, leaked, barrier>>
  BY DEF SealIsFinal
<1>1. /\ barrier = PublicRecord
      /\ \A m \in Producers : feedback[m] # None /\ receipt[Revision(m)] # None
  BY DEF Rest, Durable, Sealed
<1>2. \A m \in Producers : /\ feedback[m] = Evidence(m) /\ ledger[m] # None
                           /\ campaign[m] = "complete" /\ costs[m] = campaign[m]
  BY <1>1 DEF Rest, Durable, Enveloped, Settled
<1>3. CASE LaunchCampaign
  BY <1>3 DEF LaunchCampaign, disk
<1>4. CASE CampaignBegins \/ CampaignEnds
  <2>1. Subject \in Producers /\ campaign[Subject] \in {"absent", "partial"}
    BY <1>4, StepFacts DEF CampaignBegins, CampaignEnds, Step, Rest, MethodKinds
  <2> QED BY <1>2, <2>1
<1>5. CASE DeriveCosts
  <2>1. Subject \in Producers
    BY <1>5, StepFacts DEF DeriveCosts, Step, Rest, MethodKinds
  <2>2. PICK m \in Producers : m = Subject
    BY <2>1
  <2>3. costs[m] = campaign[m] /\ costs = [n \in Producers |-> costs[n]]
    BY <1>2 DEF Rest, Durable, Typed
  <2>4. [costs EXCEPT ![m] = campaign[m]] = costs
    BY <2>3
  <2>5. CASE campaign[m] # "uncosted" /\ costs[m] \in {None, campaign[m]}
    <3>1. /\ costs' = [costs EXCEPT ![m] = campaign[m]]
          /\ UNCHANGED <<campaign, ledger, feedback, leaked, barrier>>
      BY <1>5, <2>2, <2>5 DEF DeriveCosts
    <3> QED BY <2>4, <3>1
  <2>6. CASE ~ (campaign[m] # "uncosted" /\ costs[m] \in {None, campaign[m]})
    BY <1>5, <2>2, <2>6 DEF DeriveCosts, Refuse, disk
  <2> QED BY <2>5, <2>6
<1>6. CASE RecordResult
  BY <1>6, LeaksAreEarly DEF RecordResult
<1>7. CASE WriteLedger
  <2>1. Subject \in Producers
    BY <1>7, StepFacts DEF WriteLedger, Step, Rest, MethodKinds
  <2>2. ledger[Subject] # None
    BY <1>2, <2>1
  <2> QED BY <1>7, <2>2 DEF WriteLedger
<1>8. CASE Project
  <2>1. Subject \in Producers
    BY <1>8, StepFacts DEF Project, Step, Rest, MethodKinds
  <2>2. PICK m \in Producers : m = Subject
    BY <2>1
  <2>3. feedback[m] = Evidence(m) /\ feedback = [n \in Producers |-> feedback[n]]
    BY <1>2 DEF Rest, Durable, Typed
  <2>4. [feedback EXCEPT ![m] = Evidence(m)] = feedback
    BY <2>3
  <2>5. CASE Plausible(m) /\ feedback[m] \in {None, Evidence(m)}
    <3>1. /\ feedback' = [feedback EXCEPT ![m] = Evidence(m)]
          /\ UNCHANGED <<campaign, costs, ledger, leaked, barrier>>
      BY <1>8, <2>2, <2>5 DEF Project
    <3> QED BY <2>4, <3>1
  <2>6. CASE ~ (Plausible(m) /\ feedback[m] \in {None, Evidence(m)})
    BY <1>8, <2>2, <2>6 DEF Project, Refuse, disk
  <2> QED BY <2>5, <2>6
<1>9. CASE SealPublicPhase
  BY <1>1, <1>9 DEF SealPublicPhase, Refuse, disk
<1>10. CASE \/ Start \/ StagePublicScenario \/ MaterializePublicWork \/ EnsureBaseImage
            \/ BuildFails \/ CampaignFails \/ CheckCampaign
  BY <1>10
  DEF Start, StagePublicScenario, MaterializePublicWork, EnsureBaseImage, PublishInput, BuildFails,
      CampaignFails, CheckCampaign, Refuse, disk
<1>11. CASE BeginJob \/ RefuseJob \/ PassOver \/ JobFails
  BY <1>11 DEF BeginJob, RefuseJob, PassOver, JobFails, Refuse, disk
<1>12. CASE Rerun \/ Revise \/ RunHiddenTest
  BY <1>12 DEF Rerun, Revise, RunHiddenTest, CarryOut, disk
<1>13. CASE WriteReceipt \/ WriteRow
  BY <1>13 DEF WriteReceipt, WriteRow
<1>14. CASE Audit \/ OpenExam \/ Summarize \/ Verify
  BY <1>14 DEF Audit, OpenExam, Summarize, Verify, Refuse, disk
<1>15. CASE Crash \/ UNCHANGED vars
  BY <1>15 DEF Crash, vars, disk
<1> QED
  BY <1>3, <1>4, <1>5, <1>6, <1>7, <1>8, <1>9, <1>10, <1>11, <1>12, <1>13, <1>14, <1>15
  DEF Next, Proceed

\* No step of any process changes a sealed public phase (_write_or_validate_public_barrier).
THEOREM SealedForGood == Spec => [][SealIsFinal]_vars
  BY SpecRest, SealStays, PTL DEF Spec
=============================================================================
