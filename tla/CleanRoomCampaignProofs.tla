---------------------- MODULE CleanRoomCampaignProofs ----------------------
(***************************************************************************)
(* Two results about campaigns of the rebuild, for any methods, slots,     *)
(* checks and held-out tests. A campaign never owns two containers: a      *)
(* process that runs has one exactly while an agent or its checks run in   *)
(* it. And no patch that is accepted loses what was known to pass: a       *)
(* replay asks each retained test the questions it was asked before, so    *)
(* that a test without a failure has kept all its passes.                  *)
(***************************************************************************)
EXTENDS CleanRoomCampaign, TLAPS

\* The steps that belong to one slot of one method.
InSlot ==
  \/ pc \in {"patch", "decide"}
  \/ /\ pc \in {"start", "agent", "capture", "author", "check", "done"}
     /\ job.purpose \in {"develop", "replay"}

SlotInv ==
  /\ config \in Configs
  /\ at \in 1 .. Len(config.methods) + 1 /\ slot \in 0 .. config.slots
  /\ pc = "select" \/ InSlot => at <= Len(config.methods)
  /\ InSlot => slot < config.slots

ContainerInv ==
  /\ live \in {0, 1} /\ status \in {"running", "complete", "failed"}
  /\ status = "running" => (live = 1 <=> Executing)
  /\ status = "complete" => live = 0

IInv == SlotInv /\ ContainerInv

LEMMA ConfigType ==
  ASSUME NEW c \in Configs
  PROVE  c.slots \in Nat /\ Len(c.methods) \in Nat \ {0}
<1>1. c.slots \in Nat /\ c.methods \in Seq({"random", "verigrey", "skillrace"}) \ {<<>>}
  BY ConfigsAssumption
<1>2. Len(c.methods) \in Nat \ {0}
  BY <1>1
<1> QED BY <1>1, <1>2

LEMMA InitIInv == Init => IInv
<1> SUFFICES ASSUME Init PROVE IInv
  OBVIOUS
<1>1. config.slots \in Nat /\ Len(config.methods) \in Nat \ {0}
  BY ConfigType DEF Init
<1>2. SlotInv
  BY <1>1 DEF Init, SlotInv, InSlot, NoJob
<1>3. ContainerInv
  BY DEF Init, ContainerInv, Executing
<1> QED BY <1>2, <1>3 DEF IInv

\* The container: every step that starts, keeps or removes it.
LEMMA ContainerStep == IInv /\ [Next]_vars => ContainerInv'
<1> SUFFICES ASSUME ContainerInv, [Next]_vars PROVE ContainerInv'
  BY DEF IInv
<1> USE DEF ContainerInv, Executing, At
<1>1. CASE StartContainer \/ StartFails \/ AgentEnds \/ AgentBreaks
  BY <1>1 DEF StartContainer, StartFails, AgentEnds, AgentBreaks, Raise, RemoveAndRaise
<1>2. CASE CaptureEvidence \/ CaptureFails \/ AuthorChecks \/ AuthorFails
  BY <1>2 DEF CaptureEvidence, CaptureFails, AuthorChecks, AuthorFails, Raise, RemoveAndRaise
<1>3. CASE ExecuteChecks
  BY <1>3 DEF ExecuteChecks
<1>4. CASE ChecksFail
  BY <1>4 DEF ChecksFail, Raise, RemoveAndRaise
<1>5. CASE Propose
  BY <1>5 DEF Propose, Execute, NextSlot
<1>6. CASE ProposalFails \/ UpdateFails \/ PatchFails \/ RepairFails \/ LoadFails
  BY <1>6 DEF ProposalFails, UpdateFails, PatchFails, RepairFails, LoadFails, Raise
<1>7. CASE CollectCandidates
  BY <1>7 DEF CollectCandidates, NextSlot
<1>8. CASE JudgeRun
  BY <1>8 DEF JudgeRun, NextSlot
<1>9. CASE PatchSkill
  BY <1>9 DEF PatchSkill, Execute, NextSlot
<1>10. CASE ReplayDone
  BY <1>10 DEF ReplayDone, Execute
<1>11. CASE Decide
  BY <1>11 DEF Decide, NextSlot
<1>12. CASE NextMethod
  BY <1>12 DEF NextMethod
<1>13. CASE Confirm \/ NotReproduced
  BY <1>13 DEF Confirm, NotReproduced, Execute, NextGroup
<1>14. CASE Repair \/ RepairDone
  BY <1>14 DEF Repair, RepairDone, Execute, NextGroup
<1>15. CASE ReportPart1 \/ ReportPart2
  BY <1>15 DEF ReportPart1, ReportPart2
<1>16. CASE Evaluate \/ EvaluationDone
  BY <1>16 DEF Evaluate, EvaluationDone, Execute
<1>17. CASE UNCHANGED vars
  BY <1>17 DEF vars
<1> QED
  BY <1>1, <1>2, <1>3, <1>4, <1>5, <1>6, <1>7, <1>8, <1>9, <1>10, <1>11, <1>12, <1>13, <1>14,
     <1>15, <1>16, <1>17
  DEF Next, ProposeSeed, ProposeTransition, ProposeBranch

\* The slots: the steps of a slot keep it, and its last one goes to the next.
LEMMA SlotStep == IInv /\ [Next]_vars => SlotInv'
<1> SUFFICES ASSUME SlotInv, [Next]_vars PROVE SlotInv'
  BY DEF IInv
<1>0. config.slots \in Nat /\ Len(config.methods) \in Nat \ {0}
  BY ConfigType DEF SlotInv
<1> USE <1>0 DEF SlotInv, InSlot, At, development
<1>1. CASE StartContainer \/ StartFails \/ AgentEnds \/ AgentBreaks
  BY <1>1 DEF StartContainer, StartFails, AgentEnds, AgentBreaks, Raise, RemoveAndRaise
<1>2. CASE CaptureEvidence \/ CaptureFails \/ AuthorFails
  BY <1>2 DEF CaptureEvidence, CaptureFails, AuthorFails, Raise, RemoveAndRaise
<1>3. CASE AuthorChecks
  BY <1>3 DEF AuthorChecks
<1>4. CASE ExecuteChecks \/ ChecksFail
  BY <1>4 DEF ExecuteChecks, ChecksFail, Raise, RemoveAndRaise
<1>5. CASE Propose
  BY <1>5 DEF Propose, Execute, NextSlot
<1>6. CASE ProposalFails \/ UpdateFails \/ PatchFails \/ RepairFails \/ LoadFails
  BY <1>6 DEF ProposalFails, UpdateFails, PatchFails, RepairFails, LoadFails, Raise
<1>7. CASE CollectCandidates
  BY <1>7 DEF CollectCandidates, NextSlot
<1>8. CASE JudgeRun
  BY <1>8 DEF JudgeRun, NextSlot
<1>9. CASE PatchSkill
  <2>1. at <= Len(config.methods) /\ slot < config.slots
    BY <1>9 DEF PatchSkill
  <2>2. \/ pc' = "start" /\ job'.purpose = "replay" /\ UNCHANGED <<config, at, slot>>
        \/ slot' = slot + 1 /\ pc' = "select" /\ UNCHANGED <<config, at>>
    <3>1. \/ Execute("replay", DOMAIN result) /\ UNCHANGED development
          \/ NextSlot
      BY <1>9, Zenon DEF PatchSkill
    <3> QED BY <3>1 DEF Execute, NextSlot
  <2> QED BY <2>1, <2>2
<1>10. CASE ReplayDone
  BY <1>10 DEF ReplayDone, Execute
<1>11. CASE Decide
  BY <1>11 DEF Decide, NextSlot
<1>12. CASE NextMethod
  BY <1>12 DEF NextMethod
<1>13. CASE Confirm \/ NotReproduced
  BY <1>13 DEF Confirm, NotReproduced, Execute, NextGroup
<1>14. CASE Repair \/ RepairDone
  BY <1>14 DEF Repair, RepairDone, Execute, NextGroup
<1>15. CASE ReportPart1 \/ ReportPart2
  BY <1>15 DEF ReportPart1, ReportPart2
<1>16. CASE Evaluate \/ EvaluationDone
  BY <1>16 DEF Evaluate, EvaluationDone, Execute, NoJob
<1>17. CASE UNCHANGED vars
  BY <1>17 DEF vars
<1> QED
  BY <1>1, <1>2, <1>3, <1>4, <1>5, <1>6, <1>7, <1>8, <1>9, <1>10, <1>11, <1>12, <1>13, <1>14,
     <1>15, <1>16, <1>17
  DEF Next, ProposeSeed, ProposeTransition, ProposeBranch

\* At no time does a campaign own two containers, whichever step fails and however; a
\* container outlives the checks only if the campaign failed (execute_checks, replay,
\* remove_container).
THEOREM AtMostOneContainer == Spec => []OneContainer
<1>1. IInv /\ [Next]_vars => IInv'
  BY ContainerStep, SlotStep DEF IInv
<1>2. IInv => OneContainer
  BY DEF IInv, SlotInv, ContainerInv, OneContainer
<1> QED BY InitIInv, <1>1, <1>2, PTL DEF Spec

-----------------------------------------------------------------------------
(* What is known to pass. *)

Results == UNION {[bundle -> Verdict] : bundle \in SUBSET Checks}
Retained == [test : Nat, results : Results]

\* The checks of the test that is replayed after n results.
Expected(n) == IF n = 1 THEN DOMAIN replayed[1] ELSE DOMAIN dev.retained[n - 1].results

\* What was replayed so far was asked the questions of the test it replays.
ReplayedOK ==
  /\ replayed \in Seq(Results)
  /\ Len(replayed) \in 1 .. Len(dev.retained) + 2
  /\ \A n \in 1 .. Len(replayed) - 1 : DOMAIN replayed[n + 1] = Expected(n)

TypeInv ==
  /\ dev = [skill |-> dev.skill, memory |-> dev.memory, retained |-> dev.retained]
  /\ dev.skill \in Nat /\ dev.retained \in Seq(Retained)
  /\ job = [purpose |-> job.purpose, bundle |-> job.bundle]
  /\ slot \in Nat

\* The run under way, from its checks to what they said.
ResultInv ==
  /\ pc \in {"capture", "author"} => job.purpose \in {"develop", "evaluate"}
  /\ pc \in {"check", "done"} /\ job.purpose \in {"develop", "replay"} =>
       job.bundle \subseteq Checks
  /\ pc = "done" => result \in [job.bundle -> Verdict]
  /\ pc = "patch" => result \in Results

ReplayInv ==
  /\ pc \in {"start", "agent", "check", "done"} /\ job.purpose = "replay" =>
       /\ ReplayedOK /\ Len(replayed) < Len(dev.retained) + 2
       /\ job.bundle = Expected(Len(replayed))
  /\ pc = "decide" => ReplayedOK /\ Len(replayed) = Len(dev.retained) + 2

KnownInv == TypeInv /\ ResultInv /\ ReplayInv

LEMMA InitKnown == Init => KnownInv
<1> SUFFICES ASSUME Init PROVE KnownInv
  OBVIOUS
<1>1. dev.retained \in Seq(Retained)
  BY DEF Init, FreshDev
<1>2. TypeInv
  BY <1>1 DEF Init, FreshDev, NoJob, TypeInv
<1> QED BY <1>2 DEF Init, ResultInv, ReplayInv, KnownInv

\* A test joins the retained ones behind the others, which keep their places.
LEMMA Joins ==
  ASSUME NEW kept \in Seq(Retained), NEW r \in Results, slot \in Nat
  PROVE  /\ Append(kept, Test(r)) \in Seq(Retained)
         /\ \A i \in DOMAIN kept : /\ i \in DOMAIN Append(kept, Test(r))
                                   /\ Append(kept, Test(r))[i] = kept[i]
         /\ Len(kept) + 1 \in DOMAIN Append(kept, Test(r))
         /\ Append(kept, Test(r))[Len(kept) + 1] = Test(r)
<1>1. Test(r) \in Retained
  BY DEF Test, Retained
<1> QED BY <1>1

\* The results of an execution are results.
LEMMA DoneResults ==
  ASSUME KnownInv, pc = "done", job.purpose \in {"develop", "replay"}
  PROVE  result \in Results /\ DOMAIN result = job.bundle
BY DEF KnownInv, ResultInv, Results

\* When the candidate has met every retained test, each keeps its place and its checks.
LEMMA UnderKeeps ==
  ASSUME KnownInv, pc = "decide"
  PROVE  /\ Under(replayed) \in Seq(Retained) /\ Len(Under(replayed)) = Len(dev.retained)
         /\ replayed[1] \in Results /\ replayed[2] \in Results
         /\ \A i \in DOMAIN dev.retained :
              /\ i \in DOMAIN Under(replayed) /\ replayed[i + 2] \in Results
              /\ Under(replayed)[i] = [test |-> dev.retained[i].test,
                                       results |-> replayed[i + 2]]
              /\ DOMAIN replayed[i + 2] = DOMAIN dev.retained[i].results
<1>1. /\ replayed \in Seq(Results) /\ Len(replayed) = Len(dev.retained) + 2
      /\ \A n \in 1 .. Len(replayed) - 1 : DOMAIN replayed[n + 1] = Expected(n)
      /\ dev.retained \in Seq(Retained)
  BY DEF KnownInv, ReplayInv, ReplayedOK, TypeInv
<1>2. \A n \in 1 .. Len(dev.retained) + 2 : replayed[n] \in Results
  BY <1>1
<1>3. ASSUME NEW i \in 1 .. Len(dev.retained)
      PROVE  replayed[i + 2] \in Results /\ dev.retained[i].test \in Nat
             /\ DOMAIN replayed[i + 2] = DOMAIN dev.retained[i].results
  <2>1. i + 1 \in 1 .. Len(replayed) - 1 /\ (i + 1) + 1 = i + 2 /\ i + 2 \in 1 .. Len(replayed)
        /\ (i + 1) - 1 = i /\ i + 1 # 1
    BY <1>1
  <2>2. DOMAIN replayed[i + 2] = DOMAIN dev.retained[i].results
    BY <1>1, <2>1 DEF Expected
  <2>3. dev.retained[i] \in Retained
    BY <1>1
  <2>4. dev.retained[i].test \in Nat
    BY <2>3 DEF Retained
  <2>5. replayed[i + 2] \in Results
    BY <1>1, <1>2, <2>1
  <2> QED BY <2>2, <2>4, <2>5
<1>4. \A i \in 1 .. Len(dev.retained) :
        [test |-> dev.retained[i].test, results |-> replayed[i + 2]] \in Retained
  BY <1>3 DEF Retained
<1>5. DOMAIN dev.retained = 1 .. Len(dev.retained) /\ Len(dev.retained) \in Nat
  BY <1>1
<1>6. /\ Under(replayed) \in Seq(Retained) /\ Len(Under(replayed)) = Len(dev.retained)
      /\ \A i \in 1 .. Len(dev.retained) :
           Under(replayed)[i] = [test |-> dev.retained[i].test, results |-> replayed[i + 2]]
  BY <1>4, <1>5 DEF Under
<1>7. replayed[1] \in Results /\ replayed[2] \in Results
  BY <1>2, <1>5
<1>8. DOMAIN Under(replayed) = 1 .. Len(dev.retained)
  BY <1>5 DEF Under
<1>9. \A i \in DOMAIN dev.retained :
        /\ i \in DOMAIN Under(replayed) /\ replayed[i + 2] \in Results
        /\ Under(replayed)[i] = [test |-> dev.retained[i].test, results |-> replayed[i + 2]]
        /\ DOMAIN replayed[i + 2] = DOMAIN dev.retained[i].results
  BY <1>3, <1>5, <1>6, <1>8
<1> QED BY <1>6, <1>7, <1>9

LEMMA TypeStep == IInv /\ KnownInv /\ [Next]_vars => TypeInv'
<1> SUFFICES ASSUME IInv, KnownInv, [Next]_vars PROVE TypeInv'
  OBVIOUS
<1>0. TypeInv /\ slot' \in Nat
  <2>1. IInv' BY ContainerStep, SlotStep DEF IInv
  <2>2. config'.slots \in Nat BY <2>1, ConfigType DEF IInv, SlotInv
  <2>3. slot' \in 0 .. config'.slots BY <2>1 DEF IInv, SlotInv
  <2> QED BY <2>2, <2>3 DEF KnownInv
<1> USE <1>0 DEF TypeInv, development
<1>1. CASE StartContainer \/ StartFails \/ AgentEnds \/ AgentBreaks
  BY <1>1 DEF StartContainer, StartFails, AgentEnds, AgentBreaks, Raise, RemoveAndRaise
<1>2. CASE CaptureEvidence \/ CaptureFails \/ AuthorChecks \/ AuthorFails
  BY <1>2 DEF CaptureEvidence, CaptureFails, AuthorChecks, AuthorFails, Raise, RemoveAndRaise
<1>3. CASE ExecuteChecks \/ ChecksFail
  BY <1>3 DEF ExecuteChecks, ChecksFail, Raise, RemoveAndRaise
<1>4. CASE Propose
  BY <1>4 DEF Propose, Execute, NextSlot
<1>5. CASE ProposalFails \/ UpdateFails \/ PatchFails \/ RepairFails \/ LoadFails
  BY <1>5 DEF ProposalFails, UpdateFails, PatchFails, RepairFails, LoadFails, Raise
<1>6. CASE CollectCandidates
  BY <1>6 DEF CollectCandidates
<1>7. CASE JudgeRun
  <2>1. result \in Results
    BY <1>7, DoneResults DEF JudgeRun, At
  <2>2. Append(dev.retained, Test(result)) \in Seq(Retained)
    BY <2>1, Joins, IInv, ConfigType DEF IInv, SlotInv
  <2>3. PICK memory : \/ dev' = [dev EXCEPT !.memory = memory,
                                          !.retained = Append(@, Test(result))]
                      \/ dev' = [dev EXCEPT !.memory = memory]
    BY <1>7 DEF JudgeRun
  <2> QED BY <1>7, <2>2, <2>3 DEF JudgeRun
<1>8. CASE PatchSkill
  BY <1>8 DEF PatchSkill, Execute
<1>9. CASE ReplayDone
  BY <1>9 DEF ReplayDone, Execute
<1>10. CASE Decide
  <2>1. Append(Under(replayed), Test(replayed[2])) \in Seq(Retained)
    BY <1>10, UnderKeeps, Joins, IInv, ConfigType DEF IInv, SlotInv, Decide, At
  <2>2. \/ dev' = [dev EXCEPT !.skill = @ + 1,
                              !.retained = Append(Under(replayed), Test(replayed[2]))]
        \/ dev' = dev
    BY <1>10 DEF Decide
  <2>3. /\ dev'.skill \in Nat /\ dev'.retained \in Seq(Retained)
        /\ dev' = [skill |-> dev'.skill, memory |-> dev'.memory, retained |-> dev'.retained]
    <3>1. CASE dev' = dev
      BY <3>1
    <3> DEFINE kept == Append(Under(replayed), Test(replayed[2]))
    <3>2. CASE dev' = [dev EXCEPT !.skill = @ + 1, !.retained = kept]
      <4>1. kept \in Seq(Retained)
        BY <2>1
      <4> HIDE DEF kept
      <4>2. dev' = [skill |-> dev.skill + 1, memory |-> dev.memory, retained |-> kept]
        BY <3>2
      <4> QED BY <4>1, <4>2
    <3> QED BY <2>2, <3>1, <3>2
  <2>4. job' = [purpose |-> None, bundle |-> {}]
    BY <1>10 DEF Decide, NoJob
  <2> QED BY <2>3, <2>4
<1>11. CASE NextMethod
  <2>1. <<>> \in Seq(Retained)
    OBVIOUS
  <2> QED BY <1>11, <2>1 DEF NextMethod, FreshDev, NoJob
<1>12. CASE Confirm \/ NotReproduced
  BY <1>12 DEF Confirm, NotReproduced, Execute, NextGroup, NoJob
<1>13. CASE Repair \/ RepairDone
  BY <1>13 DEF Repair, RepairDone, Execute, NextGroup, NoJob
<1>14. CASE ReportPart1 \/ ReportPart2
  BY <1>14 DEF ReportPart1, ReportPart2
<1>15. CASE Evaluate \/ EvaluationDone
  BY <1>15 DEF Evaluate, EvaluationDone, Execute, NoJob
<1>16. CASE UNCHANGED vars
  BY <1>16 DEF vars
<1> QED
  BY <1>1, <1>2, <1>3, <1>4, <1>5, <1>6, <1>7, <1>8, <1>9, <1>10, <1>11, <1>12, <1>13, <1>14,
     <1>15, <1>16
  DEF Next, ProposeSeed, ProposeTransition, ProposeBranch

\* The checks of a test that is replayed are checks.
LEMMA UnderReplay ==
  ASSUME KnownInv, pc \in {"start", "agent"}, job.purpose = "replay"
  PROVE  job.bundle \subseteq Checks
<1>1. /\ replayed \in Seq(Results) /\ Len(replayed) \in 1 .. Len(dev.retained) + 2
      /\ Len(replayed) < Len(dev.retained) + 2 /\ job.bundle = Expected(Len(replayed))
      /\ dev.retained \in Seq(Retained)
  BY DEF KnownInv, TypeInv, ReplayInv, ReplayedOK
<1>2. \A r \in Results : DOMAIN r \subseteq Checks
  BY DEF Results
<1>3. CASE Len(replayed) = 1
  <2>1. replayed[1] \in Results
    BY <1>1
  <2> QED BY <1>1, <1>2, <1>3, <2>1 DEF Expected
<1>4. CASE Len(replayed) # 1
  <2>1. Len(replayed) - 1 \in 1 .. Len(dev.retained)
    <3>1. Len(dev.retained) \in Nat /\ Len(replayed) \in Nat
      BY <1>1
    <3>2. Len(replayed) \in 1 .. Len(dev.retained) + 1
      BY <1>1, <3>1
    <3>3. \A k, m \in Nat : k \in 1 .. m + 1 /\ k # 1 => k - 1 \in 1 .. m
      OBVIOUS
    <3> QED BY <1>4, <3>1, <3>2, <3>3
  <2>2. dev.retained[Len(replayed) - 1] \in Retained
    BY <1>1, <2>1
  <2>3. dev.retained[Len(replayed) - 1].results \in Results
    BY <2>2 DEF Retained
  <2> QED BY <1>1, <1>2, <1>4, <2>3 DEF Expected
<1> QED BY <1>3, <1>4

LEMMA ResultStep == KnownInv /\ [Next]_vars => ResultInv'
<1> SUFFICES ASSUME KnownInv, [Next]_vars PROVE ResultInv'
  OBVIOUS
<1>0. TypeInv /\ ResultInv
  BY DEF KnownInv
<1> USE <1>0 DEF ResultInv, At
<1>1. CASE StartContainer \/ StartFails \/ AgentBreaks
  BY <1>1 DEF StartContainer, StartFails, AgentBreaks, Raise, RemoveAndRaise
<1>2. CASE AgentEnds
  <2>1. job.purpose = "replay" => job.bundle \subseteq Checks
    BY <1>2, UnderReplay DEF AgentEnds
  <2> QED BY <1>2, <2>1 DEF AgentEnds
<1>3. CASE CaptureEvidence \/ CaptureFails \/ AuthorFails
  BY <1>3 DEF CaptureEvidence, CaptureFails, AuthorFails, Raise, RemoveAndRaise
<1>4. CASE AuthorChecks
  <2>1. PICK bundle \in {Checks, {}} : job' = [job EXCEPT !.bundle = bundle]
    BY <1>4 DEF AuthorChecks, Bundles
  <2>2. job' = [purpose |-> job.purpose, bundle |-> bundle]
    BY <2>1 DEF TypeInv
  <2> QED BY <1>4, <2>2 DEF AuthorChecks
<1>5. CASE ExecuteChecks
  BY <1>5 DEF ExecuteChecks
<1>6. CASE ChecksFail
  BY <1>6 DEF ChecksFail, Raise, RemoveAndRaise
<1>7. CASE Propose
  BY <1>7 DEF Propose, Execute, NextSlot
<1>8. CASE ProposalFails \/ UpdateFails \/ PatchFails \/ RepairFails \/ LoadFails
  BY <1>8 DEF ProposalFails, UpdateFails, PatchFails, RepairFails, LoadFails, Raise
<1>9. CASE CollectCandidates
  BY <1>9 DEF CollectCandidates, NextSlot
<1>10. CASE JudgeRun
  <2>1. result \in Results
    BY <1>10, DoneResults DEF JudgeRun, At
  <2> QED BY <1>10, <2>1 DEF JudgeRun, NextSlot
<1>11. CASE PatchSkill
  BY <1>11 DEF PatchSkill, Execute, NextSlot
<1>12. CASE ReplayDone
  BY <1>12 DEF ReplayDone, Execute
<1>13. CASE Decide \/ NextMethod
  BY <1>13 DEF Decide, NextMethod, NextSlot
<1>14. CASE Confirm \/ NotReproduced
  BY <1>14 DEF Confirm, NotReproduced, Execute, NextGroup
<1>15. CASE Repair \/ RepairDone
  BY <1>15 DEF Repair, RepairDone, Execute, NextGroup
<1>16. CASE ReportPart1 \/ ReportPart2
  BY <1>16 DEF ReportPart1, ReportPart2
<1>17. CASE Evaluate \/ EvaluationDone
  BY <1>17 DEF Evaluate, EvaluationDone, Execute
<1>18. CASE UNCHANGED vars
  BY <1>18 DEF vars
<1> QED
  BY <1>1, <1>2, <1>3, <1>4, <1>5, <1>6, <1>7, <1>8, <1>9, <1>10, <1>11, <1>12, <1>13, <1>14,
     <1>15, <1>16, <1>17, <1>18
  DEF Next, ProposeSeed, ProposeTransition, ProposeBranch

\* A replay goes on to the next retained test, or has met all of them.
LEMMA ReplayGoesOn == KnownInv /\ ReplayDone => ReplayInv'
<1> SUFFICES ASSUME KnownInv, ReplayDone PROVE ReplayInv'
  OBVIOUS
<1>0. PICK n : n = Len(replayed)
  OBVIOUS
<1>1. /\ replayed \in Seq(Results) /\ n \in 1 .. Len(dev.retained) + 1
      /\ \A k \in 1 .. n - 1 : DOMAIN replayed[k + 1] = Expected(k)
      /\ job.bundle = Expected(n) /\ dev.retained \in Seq(Retained)
  <2>1. ReplayedOK /\ n < Len(dev.retained) + 2 /\ job.bundle = Expected(n)
    BY <1>0 DEF KnownInv, ReplayInv, ReplayDone, At
  <2>2. dev.retained \in Seq(Retained) /\ Len(dev.retained) \in Nat
    BY DEF KnownInv, TypeInv
  <2> QED BY <1>0, <2>1, <2>2 DEF ReplayedOK
<1>2. result \in Results /\ DOMAIN result = Expected(n)
  BY <1>1, DoneResults DEF ReplayDone, At
<1>3. /\ replayed' = Append(replayed, result) /\ dev' = dev
      /\ IF n > Len(dev.retained) THEN pc' = "decide"
         ELSE /\ pc' = "start" /\ job'.bundle = DOMAIN dev.retained[n].results
  BY <1>0 DEF ReplayDone, Execute, development
<1>4. /\ replayed' \in Seq(Results) /\ Len(replayed') = n + 1 /\ replayed'[n + 1] = result
      /\ \A k \in 1 .. n : replayed'[k] = replayed[k]
  BY <1>0, <1>1, <1>2, <1>3
<1>5. \A k \in 1 .. n : Expected(k)' = Expected(k)
  BY <1>1, <1>3, <1>4 DEF Expected
<1>6. \A k \in 1 .. Len(replayed') - 1 : DOMAIN replayed'[k + 1] = Expected(k)'
  <2> TAKE k \in 1 .. Len(replayed') - 1
  <2>1. CASE k = n
    BY <1>2, <1>4, <1>5, <2>1
  <2>2. CASE k # n
    <3>1. k \in 1 .. n - 1 /\ k + 1 \in 1 .. n
      BY <1>1, <1>4, <2>2
    <3> QED BY <1>1, <1>4, <1>5, <3>1
  <2> QED BY <2>1, <2>2
<1>7. Len(dev.retained) \in Nat /\ n \in Nat
  BY <1>1
<1>8. ReplayedOK'
  BY <1>1, <1>3, <1>4, <1>6, <1>7 DEF ReplayedOK
<1>9. CASE n > Len(dev.retained)
  <2>1. pc' = "decide" /\ Len(replayed') = Len(dev'.retained) + 2
    BY <1>1, <1>3, <1>4, <1>7, <1>9
  <2> QED BY <1>8, <2>1 DEF ReplayInv
<1>10. CASE ~ n > Len(dev.retained)
  <2>1. /\ pc' = "start" /\ job'.bundle = DOMAIN dev'.retained[n].results
        /\ Len(replayed') < Len(dev'.retained) + 2
    BY <1>1, <1>3, <1>4, <1>7, <1>10
  <2>2. job'.bundle = Expected(n + 1)'
    BY <1>1, <2>1 DEF Expected
  <2> QED BY <1>4, <1>8, <2>1, <2>2 DEF ReplayInv
<1> QED BY <1>9, <1>10

\* A replay begins with the run itself, whose checks the candidate meets again.
LEMMA ReplayBegins ==
  KnownInv /\ PatchSkill /\ Execute("replay", DOMAIN result) /\ replayed' = <<result>>
  /\ dev' = dev => ReplayInv'
<1> SUFFICES ASSUME KnownInv, PatchSkill, Execute("replay", DOMAIN result),
                    replayed' = <<result>>, dev' = dev
             PROVE  ReplayInv'
  OBVIOUS
<1>1. result \in Results /\ dev.retained \in Seq(Retained)
  BY DEF KnownInv, ResultInv, TypeInv, PatchSkill, At
<1>2. /\ replayed' \in Seq(Results) /\ Len(replayed') = 1 /\ replayed'[1] = result
      /\ Len(dev'.retained) \in Nat
  BY <1>1
<1>3. ReplayedOK'
  BY <1>2 DEF ReplayedOK
<1>4. pc' = "start" /\ job'.bundle = Expected(1)'
  BY <1>2 DEF Execute, Expected
<1> QED BY <1>2, <1>3, <1>4 DEF ReplayInv

\* What does not concern a replay leaves it alone.
LEMMA ReplayStays ==
  /\ ReplayInv /\ UNCHANGED <<dev, replayed, job>>
  /\ pc' = pc \/ (pc \in {"start", "agent", "check"} /\ pc' \in {"agent", "check", "done"})
  => ReplayInv'
BY DEF ReplayInv, ReplayedOK, Expected

LEMMA ReplayStep == KnownInv /\ [Next]_vars => ReplayInv'
<1> SUFFICES ASSUME KnownInv, [Next]_vars PROVE ReplayInv'
  OBVIOUS
<1>0. TypeInv /\ ResultInv /\ ReplayInv
  BY DEF KnownInv
<1>1. CASE StartContainer \/ StartFails \/ AgentBreaks
  BY <1>0, <1>1, ReplayStays
  DEF StartContainer, StartFails, AgentBreaks, Raise, RemoveAndRaise, development, At
<1>2. CASE AgentEnds
  <2>1. UNCHANGED <<dev, replayed, job>> /\ pc = "agent" /\ pc' \in {"capture", "check"}
    BY <1>2 DEF AgentEnds, development, At
  <2>2. CASE pc' = "check"
    BY <1>0, <2>1, <2>2, ReplayStays
  <2> QED BY <2>1, <2>2 DEF ReplayInv
<1>3. CASE CaptureFails \/ AuthorFails \/ ChecksFail
  BY <1>0, <1>3, ReplayStays DEF CaptureFails, AuthorFails, ChecksFail, Raise, RemoveAndRaise,
     development
<1>4. CASE CaptureEvidence
  BY <1>4 DEF CaptureEvidence, ReplayInv
<1>5. CASE AuthorChecks
  <2>1. PICK bundle : job' = [job EXCEPT !.bundle = bundle]
    BY <1>5 DEF AuthorChecks
  <2>2. job'.purpose \in {"develop", "evaluate"}
    BY <1>0, <1>5, <2>1 DEF AuthorChecks, At, TypeInv, ResultInv
  <2> QED BY <1>5, <2>2 DEF AuthorChecks, ReplayInv
<1>6. CASE ExecuteChecks
  BY <1>0, <1>6, ReplayStays DEF ExecuteChecks, development, At
<1>7. CASE Propose
  BY <1>7 DEF Propose, Execute, NextSlot, ReplayInv
<1>8. CASE ProposalFails \/ UpdateFails \/ PatchFails \/ RepairFails \/ LoadFails
  BY <1>0, <1>8, ReplayStays
  DEF ProposalFails, UpdateFails, PatchFails, RepairFails, LoadFails, Raise, development
<1>9. CASE CollectCandidates
  BY <1>9 DEF CollectCandidates, NextSlot, ReplayInv
<1>10. CASE JudgeRun
  BY <1>10 DEF JudgeRun, NextSlot, ReplayInv
<1>11. CASE PatchSkill
  <2>1. \/ Execute("replay", DOMAIN result) /\ replayed' = <<result>> /\ dev' = dev
        \/ pc' = "select"
    BY <1>11 DEF PatchSkill, development, NextSlot
  <2> QED BY <1>11, <2>1, ReplayBegins DEF ReplayInv
<1>12. CASE ReplayDone
  BY <1>12, ReplayGoesOn
<1>13. CASE Decide \/ NextMethod
  BY <1>13 DEF Decide, NextMethod, NextSlot, ReplayInv
<1>14. CASE Confirm \/ NotReproduced
  BY <1>14 DEF Confirm, NotReproduced, Execute, NextGroup, ReplayInv
<1>15. CASE Repair \/ RepairDone
  BY <1>15 DEF Repair, RepairDone, Execute, NextGroup, ReplayInv
<1>16. CASE ReportPart1 \/ ReportPart2 \/ UNCHANGED vars
  BY <1>0, <1>16, ReplayStays DEF ReportPart1, ReportPart2, vars, development
<1>17. CASE Evaluate \/ EvaluationDone
  BY <1>17 DEF Evaluate, EvaluationDone, Execute, ReplayInv
<1> QED
  BY <1>1, <1>2, <1>3, <1>4, <1>5, <1>6, <1>7, <1>8, <1>9, <1>10, <1>11, <1>12, <1>13, <1>14,
     <1>15, <1>16, <1>17
  DEF Next, ProposeSeed, ProposeTransition, ProposeBranch

LEMMA SpecKnown == Spec => [](IInv /\ KnownInv)
<1>1. IInv /\ KnownInv /\ [Next]_vars => IInv' /\ KnownInv'
  BY ContainerStep, SlotStep, TypeStep, ResultStep, ReplayStep DEF IInv, KnownInv
<1> QED BY InitIInv, InitKnown, <1>1, PTL DEF Spec

\* Within a method: what one step may do to its skill and to what is known of it.
Persists ==
  at' = at =>
    /\ dev'.skill \in {dev.skill, dev.skill + 1}
    /\ \A i \in DOMAIN dev.retained :
         /\ i \in DOMAIN dev'.retained
         /\ dev'.retained[i].test = dev.retained[i].test
         /\ Having(dev.retained[i].results, "pass")
              \subseteq Having(dev'.retained[i].results, "pass")
    /\ dev'.skill # dev.skill =>
         \E i \in DOMAIN dev'.retained :
            /\ dev'.retained[i].test = slot
            /\ Having(replayed[1], "pass") \subseteq Having(dev'.retained[i].results, "pass")
            /\ Having(replayed[1], "fail") \cap Having(dev'.retained[i].results, "pass") # {}

\* A development run that found nothing adds its test, and touches none of the others.
LEMMA JudgePersists == IInv /\ KnownInv /\ JudgeRun => Persists
<1> SUFFICES ASSUME IInv, KnownInv, JudgeRun PROVE Persists
  OBVIOUS
<1>1. /\ dev = [skill |-> dev.skill, memory |-> dev.memory, retained |-> dev.retained]
      /\ dev.retained \in Seq(Retained) /\ slot \in Nat
  BY DEF KnownInv, TypeInv
<1>2. result \in Results
  BY DoneResults DEF JudgeRun, At
<1> DEFINE more == Append(dev.retained, Test(result))
<1>3. \A i \in DOMAIN dev.retained : i \in DOMAIN more /\ more[i] = dev.retained[i]
  BY <1>1, <1>2, Joins
<1>4. PICK memory : \/ dev' = [dev EXCEPT !.memory = memory, !.retained = Append(@, Test(result))]
                    \/ dev' = [dev EXCEPT !.memory = memory]
  BY DEF JudgeRun
<1>5. CASE dev' = [dev EXCEPT !.memory = memory, !.retained = Append(@, Test(result))]
  <2>1. dev' = [dev EXCEPT !.memory = memory, !.retained = more]
    BY <1>1, <1>5
  <2> HIDE DEF more
  <2>2. dev' = [skill |-> dev.skill, memory |-> memory, retained |-> more]
    BY <1>1, <2>1
  <2>3. dev'.skill = dev.skill /\ dev'.retained = more
    BY <2>2
  <2> QED BY <1>3, <2>3 DEF Persists
<1>6. CASE dev' = [dev EXCEPT !.memory = memory]
  <2>1. dev' = [skill |-> dev.skill, memory |-> memory, retained |-> dev.retained]
    BY <1>1, <1>6
  <2>2. dev'.skill = dev.skill /\ dev'.retained = dev.retained
    BY <2>1
  <2> QED BY <2>2 DEF Persists
<1> QED BY <1>4, <1>5, <1>6

\* An accepted candidate passes every check of every retained test, and those of the failing
\* one that passed before, with one more.
LEMMA DecidePersists == IInv /\ KnownInv /\ Decide => Persists
<1> SUFFICES ASSUME IInv, KnownInv, Decide PROVE Persists
  OBVIOUS
<1>1. /\ dev = [skill |-> dev.skill, memory |-> dev.memory, retained |-> dev.retained]
      /\ dev.retained \in Seq(Retained) /\ dev.skill \in Nat /\ slot \in Nat
  BY DEF KnownInv, TypeInv
<1>2. /\ Under(replayed) \in Seq(Retained) /\ Len(Under(replayed)) = Len(dev.retained)
      /\ replayed[1] \in Results /\ replayed[2] \in Results
      /\ \A i \in DOMAIN dev.retained :
           /\ i \in DOMAIN Under(replayed) /\ replayed[i + 2] \in Results
           /\ Under(replayed)[i] = [test |-> dev.retained[i].test, results |-> replayed[i + 2]]
           /\ DOMAIN replayed[i + 2] = DOMAIN dev.retained[i].results
  BY UnderKeeps DEF Decide, At
<1> DEFINE regressions == {replayed[i + 2] : i \in DOMAIN dev.retained}
           decision == AcceptPatch(replayed[1], replayed[2], regressions)
           kept == Append(Under(replayed), Test(replayed[2]))
<1>3. dev' = IF decision = "accepted" THEN [dev EXCEPT !.skill = @ + 1, !.retained = kept] ELSE dev
  BY DEF Decide
<1>4. /\ \A i \in DOMAIN Under(replayed) : i \in DOMAIN kept /\ kept[i] = Under(replayed)[i]
      /\ Len(dev.retained) + 1 \in DOMAIN kept
      /\ kept[Len(dev.retained) + 1] = Test(replayed[2])
  BY <1>1, <1>2, Joins
<1>5. decision = "accepted" =>
        /\ Having(replayed[1], "pass") \subseteq Having(replayed[2], "pass")
        /\ Having(replayed[1], "fail") \cap Having(replayed[2], "pass") # {}
        /\ \A r \in regressions : Range(r) \subseteq {"pass"}
  BY DEF AcceptPatch
<1> HIDE DEF decision, kept
<1>6. CASE decision # "accepted"
  BY <1>1, <1>3, <1>6 DEF Persists
<1>7. CASE decision = "accepted"
  <2>1. dev' = [skill |-> dev.skill + 1, memory |-> dev.memory, retained |-> kept]
    BY <1>1, <1>3, <1>7
  <2>2. dev'.skill = dev.skill + 1 /\ dev'.retained = kept
    BY <2>1
  <2>3. ASSUME NEW i \in DOMAIN dev.retained
        PROVE  /\ i \in DOMAIN kept /\ kept[i].test = dev.retained[i].test
               /\ Having(dev.retained[i].results, "pass") \subseteq Having(kept[i].results, "pass")
    <3>1. /\ i \in DOMAIN kept
          /\ kept[i] = [test |-> dev.retained[i].test, results |-> replayed[i + 2]]
          /\ DOMAIN replayed[i + 2] = DOMAIN dev.retained[i].results
      BY <1>2, <1>4
    <3>2. Range(replayed[i + 2]) \subseteq {"pass"}
      BY <1>5, <1>7
    <3>3. \A c \in DOMAIN replayed[i + 2] : replayed[i + 2][c] = "pass"
      BY <3>2 DEF Range
    <3> QED BY <3>1, <3>3 DEF Having
  <2>4. kept[Len(dev.retained) + 1].test = slot /\ kept[Len(dev.retained) + 1].results = replayed[2]
    BY <1>4 DEF Test
  <2>5. \E i \in DOMAIN kept :
          /\ kept[i].test = slot
          /\ Having(replayed[1], "pass") \subseteq Having(kept[i].results, "pass")
          /\ Having(replayed[1], "fail") \cap Having(kept[i].results, "pass") # {}
    BY <1>4, <1>5, <1>7, <2>4
  <2> QED BY <2>2, <2>3, <2>5 DEF Persists
<1> QED BY <1>6, <1>7

LEMMA StepPersists == IInv /\ KnownInv /\ [Next]_vars => Persists
<1> SUFFICES ASSUME IInv, KnownInv, [Next]_vars PROVE Persists
  OBVIOUS
<1>0. dev' = dev => Persists
  BY DEF Persists
<1>1. CASE CollectCandidates
  <2>1. PICK memory : dev' = [dev EXCEPT !.memory = memory]
    BY <1>1 DEF CollectCandidates
  <2>2. dev' = [skill |-> dev.skill, memory |-> memory, retained |-> dev.retained]
    BY <2>1 DEF KnownInv, TypeInv
  <2>3. dev'.skill = dev.skill /\ dev'.retained = dev.retained
    BY <2>2
  <2> QED BY <2>3 DEF Persists
<1>2. CASE JudgeRun
  BY <1>2, JudgePersists
<1>3. CASE Decide
  BY <1>3, DecidePersists
<1>4. CASE NextMethod
  <2>1. at \in Nat
    <3>1. Len(config.methods) \in Nat
      BY ConfigType DEF IInv, SlotInv
    <3> QED BY <3>1 DEF IInv, SlotInv
  <2>2. at' = at + 1
    BY <1>4 DEF NextMethod
  <2> QED BY <2>1, <2>2 DEF Persists
<1>5. CASE StartContainer \/ StartFails \/ AgentEnds \/ AgentBreaks
  BY <1>0, <1>5
  DEF StartContainer, StartFails, AgentEnds, AgentBreaks, Raise, RemoveAndRaise, development
<1>6. CASE CaptureEvidence \/ CaptureFails \/ AuthorChecks \/ AuthorFails
  BY <1>0, <1>6
  DEF CaptureEvidence, CaptureFails, AuthorChecks, AuthorFails, Raise, RemoveAndRaise, development
<1>7. CASE ExecuteChecks \/ ChecksFail
  BY <1>0, <1>7 DEF ExecuteChecks, ChecksFail, Raise, RemoveAndRaise, development
<1>8. CASE Propose
  BY <1>0, <1>8 DEF Propose, development
<1>9. CASE ProposalFails \/ UpdateFails \/ PatchFails \/ RepairFails \/ LoadFails
  BY <1>0, <1>9
  DEF ProposalFails, UpdateFails, PatchFails, RepairFails, LoadFails, Raise, development
<1>10. CASE PatchSkill \/ ReplayDone
  BY <1>0, <1>10 DEF PatchSkill, ReplayDone, development
<1>11. CASE Confirm \/ NotReproduced \/ Repair \/ RepairDone
  BY <1>0, <1>11 DEF Confirm, NotReproduced, Repair, RepairDone, development
<1>12. CASE ReportPart1 \/ ReportPart2 \/ Evaluate \/ EvaluationDone \/ UNCHANGED vars
  BY <1>0, <1>12 DEF ReportPart1, ReportPart2, Evaluate, EvaluationDone, vars, development
<1> QED
  BY <1>1, <1>2, <1>3, <1>4, <1>5, <1>6, <1>7, <1>8, <1>9, <1>10, <1>11, <1>12
  DEF Next, ProposeSeed, ProposeTransition, ProposeBranch

\* A patch is accepted only if it repairs something and loses nothing that was known to pass, in
\* the failing run or in any test retained before, however many patches came between; and no
\* retained test is forgotten (run_part2, accept_patch).
THEOREM PassesPersist == Spec => KnownPassesPersist
BY SpecKnown, StepPersists, PTL DEF Spec, KnownPassesPersist, Persists
=============================================================================
