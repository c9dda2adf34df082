------------------------ MODULE CampaignEngineProofs ------------------------
(***************************************************************************)
(* Proofs about the sequential campaign engine, for every budget, every    *)
(* attempt cap, every set of candidate kinds and any number of crashes.    *)
(***************************************************************************)
EXTENDS CampaignEngine, TLAPS, FiniteSetTheorems

\* What the engine knows at each control point: the record it is about to use has
\* been published, and the value it holds has the type of the record it goes to.
ControlOK ==
  /\ pc \in {"execute", "launch", "external", "terminal", "receipt", "cleanup",
             "commit", "fold", "foldReceipt", "finalize"} => proposal[cur] \in ProposalRecord
  /\ pc \in {"launch", "external"} => cur \in started
  /\ pc \in {"external", "terminal", "receipt"} => out \in Result
  /\ pc = "foldReceipt" => out \in {"folded", "error"}
  /\ pc = "finalize" => fold[cur] \in FoldRecord

TypeInv == TypeOK /\ ControlOK

-----------------------------------------------------------------------------
(* Lemmas about the operators *)

\* The attempts are not empty: the engine always has a current one.
LEMMA FirstAttempt == <<0, 0>> \in Attempt
  BY BudgetAssumption, CapAssumption DEF Attempt

\* Drawing from a generator and folding an attempt yield a generator.
LEMMA GeneratorOperators ==
  ASSUME NEW g \in Generator, NEW a \in Attempt
  PROVE  Draw(g) \in Generator /\ Fold(g, a) \in Generator
  BY DEF Draw, Fold, Generator

\* A fresh generator is a generator.
LEMMA FreshGeneratorType == FreshGenerator \in Generator
  BY DEF FreshGenerator, Generator

\* A result is recovered from the journal, or there is none and the external action
\* was never announced.
LEMMA RecoveredType ==
  ASSUME NEW s \in BOOLEAN, NEW e \in Result \cup {None}, NEW t \in Result \cup {None}
  PROVE  /\ Recovered(s, e, t) \in Result \cup {None}
         /\ Recovered(s, e, t) = None => ~s /\ e = None /\ t = None
  BY NoneAssumption DEF Recovered, Result

\* The same of an attempt's own journal.
LEMMA RecoveredResultType ==
  ASSUME TypeOK, NEW a \in Attempt
  PROVE  /\ RecoveredResult(a) \in Result \cup {None}
         /\ RecoveredResult(a) = None => a \notin started /\ external[a] = None
                                                       /\ terminal[a] = None
<1>1. /\ (a \in started) \in BOOLEAN
      /\ external[a] \in Result \cup {None}
      /\ terminal[a] \in Result \cup {None}
  BY DEF TypeOK
<1> QED BY <1>1, RecoveredType DEF RecoveredResult

\* What a resumed process restores is a generator.
LEMMA RestoredType ==
  ASSUME TypeOK
  PROVE  /\ RestoredOnLoad \in Generator
         /\ \A a \in Attempt : proposal[a] # None => RestoredForAttempt(a) \in Generator
<1>1. \A a \in Attempt : proposal[a] # None => proposal[a].gen \in Generator
  BY DEF TypeOK, ProposalRecord
<1>2. \A a \in Attempt : fold[a] # None => fold[a].gen \in Generator
  BY DEF TypeOK, FoldRecord
<1>3. campaign.gen \in Generator /\ campaign.pending \in Attempt \cup {None}
  BY DEF TypeOK, CampaignState
<1>4. Uncommitted # {} => LET a == CHOOSE a \in Uncommitted : TRUE
                          IN a \in Attempt /\ proposal[a] # None
  BY DEF Uncommitted
<1>5. RestoredOnLoad \in Generator
  BY <1>1, <1>2, <1>3, <1>4 DEF RestoredOnLoad
<1>6. \A a \in Attempt : proposal[a] # None => RestoredForAttempt(a) \in Generator
  BY <1>1, <1>2 DEF RestoredForAttempt
<1> QED BY <1>5, <1>6

\* What _commit_attempt and _finish_fold write has the schema of campaign.json.
LEMMA CampaignWrites ==
  ASSUME TypeOK, NEW a \in Attempt
  PROVE  /\ proposal[a] \in ProposalRecord => CommittedState(a) \in CampaignState
         /\ fold[a] \in FoldRecord => FinalizedState(a) \in CampaignState
<1>1. ASSUME proposal[a] \in ProposalRecord PROVE CommittedState(a) \in CampaignState
  BY <1>1 DEF TypeOK, CampaignState, CommittedState, ProposalRecord
<1>2. ASSUME fold[a] \in FoldRecord PROVE FinalizedState(a) \in CampaignState
  <2>1. campaign.iterations \in Seq(Attempt) /\ fold[a].gen \in Generator
    BY <1>2 DEF TypeOK, CampaignState, FoldRecord
  <2>2. Append(campaign.iterations, a) \in Seq(Attempt)
    BY <2>1
  <2> QED BY <2>1, <2>2 DEF TypeOK, CampaignState, FinalizedState
<1> QED BY <1>1, <1>2

-----------------------------------------------------------------------------
(* The type invariant *)

LEMMA TypeInvInit == Init => TypeInv
<1> SUFFICES ASSUME Init PROVE TypeInv
  OBVIOUS
<1>1. campaign \in CampaignState
  BY FreshGeneratorType DEF Init, CampaignState
<1>2. TypeOK
  BY <1>1, FirstAttempt, FreshGeneratorType, CrashAssumption DEF Init, TypeOK, ControlPoint
<1>3. ControlOK
  BY DEF Init, ControlOK
<1> QED BY <1>2, <1>3 DEF TypeInv

LEMMA TypeInvStep == TypeInv /\ [Next]_vars => TypeInv'
<1> SUFFICES ASSUME TypeInv, [Next]_vars PROVE TypeInv'
  OBVIOUS
<1> USE DEF TypeInv
<1>1. CASE Load
  BY <1>1, RestoredType DEF Load, TypeOK, ControlOK, ControlPoint, records, journal, world
<1>2. ASSUME NEW n \in 0 .. Cap - 1, SelectAttempt(n) PROVE TypeInv'
  <2> DEFINE a == <<NextOrdinal, n>>
  <2>1. a \in Attempt
    <3>1. campaign.iterations \in Seq(Attempt)
      BY DEF TypeOK, CampaignState
    <3>2. NextOrdinal \in 0 .. Budget - 1
      BY <1>2, <3>1, BudgetAssumption DEF SelectAttempt, NextOrdinal
    <3> QED BY <3>2 DEF Attempt
  <2>2. gen' \in Generator
    BY <1>2, <2>1, RestoredType DEF SelectAttempt, TypeOK
  <2>3. proposal[a] # None => proposal[a] \in ProposalRecord
    BY <2>1 DEF TypeOK
  <2>4. /\ cur' = a /\ pc' = ResumePoint(a) /\ out' = out
        /\ UNCHANGED <<campaign, records, world, crashes>>
    BY <1>2 DEF SelectAttempt
  <2> HIDE DEF a
  <2>5. /\ pc' \in {"generate", "execute", "cleanup"}
        /\ pc' # "generate" => proposal[a] # None
    BY <2>4 DEF ResumePoint
  <2>6. TypeOK'
    BY <2>1, <2>2, <2>4, <2>5 DEF TypeOK, ControlPoint, records, journal, world
  <2>7. ControlOK'
    BY <2>3, <2>4, <2>5 DEF ControlOK, records, journal, world
  <2> QED BY <2>6, <2>7
<1>3. CASE Generate
  BY <1>3, GeneratorOperators, FirstAttempt
     DEF Generate, TypeOK, ControlOK, ControlPoint, records, journal, world
<1>4. ASSUME NEW candidate \in Candidates, PublishProposal(candidate) PROVE TypeInv'
  <2>1. [candidate |-> candidate, gen |-> gen] \in ProposalRecord
    BY CandidatesAssumption DEF ProposalRecord, TypeOK
  <2> QED
    BY <1>4, <2>1 DEF PublishProposal, TypeOK, ControlOK, ControlPoint, journal
<1>5. CASE Recover
  <2>1. RecoveredResult(cur) \in Result \cup {None}
    BY RecoveredResultType DEF TypeOK
  <2>2. out' \in Result
    BY <1>5, <2>1 DEF Recover, Result
  <2> QED BY <1>5, <2>2 DEF Recover, TypeOK, ControlOK, ControlPoint, records, journal, world
<1>6. CASE RejectBeforeStart
  BY <1>6 DEF RejectBeforeStart, TypeOK, ControlOK, ControlPoint, Result, records, journal, world
<1>7. CASE PublishStarted
  BY <1>7 DEF PublishStarted, TypeOK, ControlOK, ControlPoint, world
<1>8. ASSUME NEW began \in BOOLEAN, NEW manifest \in BOOLEAN, RunAgent(began, manifest)
      PROVE  TypeInv'
  <2>1. out' \in Result
    BY <1>8 DEF RunAgent, Result
  <2>2. launches' \in [Attempt -> Nat]
    BY <1>8 DEF RunAgent, TypeOK
  <2> QED BY <1>8, <2>1, <2>2 DEF RunAgent, TypeOK, ControlOK, ControlPoint, records, journal
<1>9. CASE RaiseAfterAgent
  <2>1. RecoveredResult(cur) \in Result \cup {None} /\ RecoveredResult(cur) # None
    BY <1>9, RecoveredResultType DEF RaiseAfterAgent, TypeOK, ControlOK
  <2> QED
    BY <1>9, <2>1 DEF RaiseAfterAgent, TypeOK, ControlOK, ControlPoint, records, journal, world
<1>10. CASE PublishExternal
  BY <1>10 DEF PublishExternal, TypeOK, ControlOK, ControlPoint, world
<1>11. CASE PublishTerminal
  BY <1>11 DEF PublishTerminal, TypeOK, ControlOK, ControlPoint, world
<1>12. CASE PublishReceipt
  <2>1. [result |-> out, journal |-> JournalOf(cur)] \in ReceiptRecord
    BY <1>12 DEF PublishReceipt, ReceiptRecord, JournalOf, JournalEvents, ControlOK
  <2> QED
    BY <1>12, <2>1 DEF PublishReceipt, TypeOK, ControlOK, ControlPoint, journal, world
<1>13. CASE Cleanup
  BY <1>13 DEF Cleanup, TypeOK, ControlOK, ControlPoint, journal
<1>14. ASSUME NEW removed \in BOOLEAN, CleanupError(removed) PROVE TypeInv'
  BY <1>14, FreshGeneratorType, FirstAttempt
     DEF CleanupError, TypeOK, ControlOK, ControlPoint, records, journal
<1>15. CASE Commit
  <2>1. campaign' \in CampaignState
    BY <1>15, CampaignWrites DEF Commit, ControlOK, TypeOK
  <2>2. /\ pc' \in {"select", "finalize", "fold"}
        /\ pc' = "finalize" => fold[cur] # None
        /\ UNCHANGED <<records, world, cur, gen, out, crashes>>
    BY <1>15 DEF Commit
  <2> QED BY <1>15, <2>1, <2>2
          DEF Commit, TypeOK, ControlOK, ControlPoint, records, journal, world
<1>16. ASSUME NEW status \in {"folded", "error"}, NEW absorbed \in BOOLEAN,
              CallFold(status, absorbed)
       PROVE  TypeInv'
  <2>1. proposal[cur].gen \in Generator
    BY <1>16 DEF CallFold, ControlOK, ProposalRecord
  <2>2. gen' \in Generator
    BY <1>16, <2>1, GeneratorOperators DEF CallFold, TypeOK
  <2> QED
    BY <1>16, <2>2 DEF CallFold, TypeOK, ControlOK, ControlPoint, records, journal, world
<1>17. CASE PublishFold
  <2>1. [status |-> out, gen |-> gen] \in FoldRecord
    BY <1>17 DEF PublishFold, FoldRecord, ControlOK, TypeOK
  <2> QED
    BY <1>17, <2>1 DEF PublishFold, TypeOK, ControlOK, ControlPoint, journal, world
<1>18. CASE Finalize
  <2>1. campaign' \in CampaignState /\ gen' \in Generator
    BY <1>18, CampaignWrites DEF Finalize, ControlOK, TypeOK, FoldRecord
  <2> QED
    BY <1>18, <2>1 DEF Finalize, TypeOK, ControlOK, ControlPoint, records, journal, world
<1>19. CASE Finish
  <2>1. campaign' \in CampaignState
    BY <1>19 DEF Finish, CampaignState, TypeOK
  <2> QED
    BY <1>19, <2>1 DEF Finish, TypeOK, ControlOK, ControlPoint, records, journal, world
<1>20. CASE Crash
  BY <1>20, FirstAttempt, FreshGeneratorType, CrashAssumption
     DEF Crash, TypeOK, ControlOK, ControlPoint, records, journal, world
<1>21. CASE Restart
  BY <1>21 DEF Restart, TypeOK, ControlOK, ControlPoint, records, journal, world
<1>22. CASE UNCHANGED vars
  BY <1>22 DEF vars, TypeOK, ControlOK, records, journal, world
<1> QED
  BY <1>1, <1>2, <1>3, <1>4, <1>5, <1>6, <1>7, <1>8, <1>9, <1>10, <1>11, <1>12, <1>13,
     <1>14, <1>15, <1>16, <1>17, <1>18, <1>19, <1>20, <1>21, <1>22
  DEF Next, Step, Terminated

\* Every reachable state is well typed: whatever a crash leaves on disk, a resumed
\* process finds records of the schema it expects.
THEOREM TypeCorrect == Spec => []TypeOK
<1>1. Init => TypeInv BY TypeInvInit
<1>2. TypeInv /\ [Next]_vars => TypeInv' BY TypeInvStep
<1>3. TypeInv => TypeOK BY DEF TypeInv
<1> QED BY <1>1, <1>2, <1>3, PTL DEF Spec

-----------------------------------------------------------------------------
(* The agent is launched at most once per attempt *)

\* Why it holds: the start of the external action is on disk before the launch, the
\* engine announces a start only for an attempt whose journal has none, and it
\* launches only between the announcement and the first launch.
LaunchInv ==
  /\ \A a \in Attempt : launches[a] <= 1
  /\ \A a \in Attempt : launches[a] > 0 => a \in started
  /\ pc = "launch" => launches[cur] = 0

LEMMA LaunchInvStep == TypeInv /\ LaunchInv /\ [Next]_vars => LaunchInv'
<1> SUFFICES ASSUME TypeInv, LaunchInv, [Next]_vars PROVE LaunchInv'
  OBVIOUS
<1>1. CASE PublishStarted
  <2>1. cur \in Attempt /\ cur \notin started
    BY <1>1, RecoveredResultType DEF PublishStarted, TypeInv, TypeOK
  <2>2. launches[cur] = 0
    BY <2>1 DEF LaunchInv, TypeInv, TypeOK
  <2> QED BY <1>1, <2>2 DEF PublishStarted, LaunchInv, world
<1>2. ASSUME NEW began \in BOOLEAN, NEW manifest \in BOOLEAN, RunAgent(began, manifest)
      PROVE  LaunchInv'
  <2>1. cur \in started /\ launches[cur] = 0 /\ launches' = [launches EXCEPT ![cur] = 1]
    BY <1>2 DEF RunAgent, LaunchInv, TypeInv, TypeOK, ControlOK
  <2>2. started' = started /\ pc' # "launch"
    BY <1>2 DEF RunAgent, records, journal
  <2> QED BY <2>1, <2>2 DEF LaunchInv, TypeInv, TypeOK
<1>3. ASSUME started' = started, launches' = launches, pc' # "launch" PROVE LaunchInv'
  BY <1>3 DEF LaunchInv
<1>4. ASSUME NEW n \in 0 .. Cap - 1, SelectAttempt(n) PROVE LaunchInv'
  <2>1. pc' # "launch"
    BY <1>4 DEF SelectAttempt, ResumePoint
  <2> QED BY <1>3, <1>4, <2>1 DEF SelectAttempt, records, journal, world
<1>5. CASE Load \/ Generate \/ Recover \/ RejectBeforeStart \/ RaiseAfterAgent
  BY <1>3, <1>5
     DEF Load, Generate, Recover, RejectBeforeStart, RaiseAfterAgent, records, journal, world
<1>6. ASSUME NEW candidate \in Candidates, PublishProposal(candidate) PROVE LaunchInv'
  BY <1>3, <1>6 DEF PublishProposal, journal
<1>7. CASE PublishExternal \/ PublishTerminal \/ PublishReceipt \/ Cleanup
  BY <1>3, <1>7
     DEF PublishExternal, PublishTerminal, PublishReceipt, Cleanup, journal, world
<1>8. ASSUME NEW removed \in BOOLEAN, CleanupError(removed) PROVE LaunchInv'
  BY <1>3, <1>8 DEF CleanupError, records, journal
<1>9. ASSUME NEW status \in {"folded", "error"}, NEW absorbed \in BOOLEAN,
             CallFold(status, absorbed)
      PROVE  LaunchInv'
  BY <1>3, <1>9 DEF CallFold, records, journal, world
<1>10. CASE Commit \/ PublishFold \/ Finalize \/ Finish
  BY <1>3, <1>10 DEF Commit, PublishFold, Finalize, Finish, records, journal, world
<1>11. CASE Crash \/ Restart
  BY <1>3, <1>11 DEF Crash, Restart, records, journal, world
<1>12. CASE UNCHANGED vars
  BY <1>12 DEF vars, LaunchInv, records, journal, world
<1> QED
  BY <1>1, <1>2, <1>4, <1>5, <1>6, <1>7, <1>8, <1>9, <1>10, <1>11, <1>12
  DEF Next, Step, Terminated

\* A paid agent run is never repeated, for every budget, cap and number of crashes.
THEOREM LaunchAtMostOnce == Spec => []AtMostOneLaunch
<1>1. Init => TypeInv /\ LaunchInv
  BY TypeInvInit DEF Init, LaunchInv
<1>2. TypeInv /\ LaunchInv /\ [Next]_vars => (TypeInv /\ LaunchInv)'
  BY TypeInvStep, LaunchInvStep
<1>3. LaunchInv => AtMostOneLaunch
  BY DEF LaunchInv, AtMostOneLaunch
<1> QED BY <1>1, <1>2, <1>3, PTL DEF Spec

-----------------------------------------------------------------------------
(* The charge follows the journal, and no record is published twice *)

\* A result charges the attempt exactly when the journal justifies it.
Justified(a, result) ==
  ConsumesBudget(result) <=> a \in started /\ external[a] # "notStarted"

\* Every result on disk is justified by the journal beside it; the journal of an
\* attempt grows only while that attempt has no receipt.
JournalInv ==
  /\ pc \in {"generate", "proposal"} => proposal[cur] = None
  /\ pc \in {"execute", "launch", "external", "terminal", "receipt"} => receipt[cur] = None
  /\ pc \in {"launch", "external", "terminal"} => terminal[cur] = None
  /\ pc \in {"launch", "external"} => external[cur] = None
  /\ pc \in {"fold", "foldReceipt"} => fold[cur] = None
  /\ pc \in {"terminal", "receipt"} => Justified(cur, out)
  /\ pc \in {"cleanup", "commit"} => receipt[cur] # None
  /\ \A a \in campaign.attempts : receipt[a] # None
  /\ \A a \in started : proposal[a] # None /\ proposal[a].candidate # "failure"
  /\ \A a \in Attempt : external[a] # None => a \in started
  /\ \A a \in Attempt : terminal[a] # None => Justified(a, terminal[a])
  /\ \A a \in Attempt :
       receipt[a] # None => proposal[a] # None /\ Justified(a, receipt[a].result)

\* A result recovered from the journal is justified by it.
LEMMA RecoveredJustified ==
  ASSUME TypeOK, JournalInv, NEW a \in Attempt, RecoveredResult(a) # None
  PROVE  Justified(a, RecoveredResult(a))
<1>1. external[a] \in Result \cup {None} /\ terminal[a] \in Result \cup {None}
  BY DEF TypeOK
<1>2. CASE terminal[a] # None
  BY <1>2 DEF RecoveredResult, Recovered, JournalInv
<1>3. CASE terminal[a] = None /\ external[a] # None
  <2>1. RecoveredResult(a) = external[a] /\ a \in started /\ external[a] \in Result
    BY <1>1, <1>3 DEF RecoveredResult, Recovered, JournalInv
  <2> QED BY <2>1 DEF Justified, ConsumesBudget, Result
<1>4. CASE terminal[a] = None /\ external[a] = None
  <2>1. RecoveredResult(a) = "unknown" /\ a \in started
    BY <1>4 DEF RecoveredResult, Recovered
  <2> QED BY <1>4, <2>1, NoneAssumption DEF Justified, ConsumesBudget, Result
<1> QED BY <1>2, <1>3, <1>4

LEMMA JournalInvStep == TypeInv /\ JournalInv /\ [Next]_vars => JournalInv'
<1> SUFFICES ASSUME TypeInv, JournalInv, [Next]_vars PROVE JournalInv'
  OBVIOUS
<1> USE DEF TypeInv
<1>0. cur \in Attempt
  BY DEF TypeOK
<1>1. CASE Load
  BY <1>1 DEF Load, JournalInv, Justified, records, journal
<1>2. ASSUME NEW n \in 0 .. Cap - 1, SelectAttempt(n) PROVE JournalInv'
  <2> DEFINE a == <<NextOrdinal, n>>
  <2>1. /\ cur' = a /\ pc' = ResumePoint(a)
        /\ UNCHANGED <<campaign, proposal, started, external, terminal, receipt, fold>>
    BY <1>2 DEF SelectAttempt, records, journal
  <2> HIDE DEF a
  <2>2. \/ pc' = "generate" /\ proposal[a] = None
        \/ pc' = "execute" /\ receipt[a] = None
        \/ pc' = "cleanup" /\ receipt[a] # None
    BY <2>1 DEF ResumePoint
  <2> QED BY <2>1, <2>2 DEF JournalInv, Justified
<1>3. CASE Generate
  BY <1>3 DEF Generate, JournalInv, Justified, records, journal
<1>4. ASSUME NEW candidate \in Candidates, PublishProposal(candidate) PROVE JournalInv'
  <2>1. cur \notin started /\ external[cur] = None /\ proposal[cur] = None
    BY <1>0, <1>4 DEF PublishProposal, JournalInv
  <2>2. \A a \in started : proposal'[a] = proposal[a]
    BY <1>4, <2>1 DEF PublishProposal, TypeOK
  <2>3. receipt[cur] = None
    BY <1>0, <2>1 DEF JournalInv
  <2>4. \A a \in Attempt : proposal[a] # None => proposal'[a] # None
    BY <1>4, <2>1 DEF PublishProposal, TypeOK
  <2> QED BY <1>4, <2>2, <2>3, <2>4 DEF PublishProposal, JournalInv, Justified, journal
<1>5. CASE Recover
  <2>1. Justified(cur, out')
    <3>1. CASE proposal[cur].candidate = "failure"
      <4>1. cur \notin started /\ out' = "notStarted"
        BY <1>5, <3>1 DEF Recover, JournalInv
      <4> QED BY <4>1 DEF Justified, ConsumesBudget
    <3>2. CASE proposal[cur].candidate # "failure"
      BY <1>0, <1>5, <3>2, RecoveredJustified DEF Recover
    <3> QED BY <3>1, <3>2
  <2>2. receipt[cur] = None
    BY <1>5 DEF Recover, JournalInv
  <2> QED BY <1>5, <2>1, <2>2 DEF Recover, JournalInv, Justified, records, journal
<1>6. CASE RejectBeforeStart
  <2>1. cur \notin started /\ terminal[cur] = None
    BY <1>0, <1>6, RecoveredResultType DEF RejectBeforeStart
  <2>2. Justified(cur, "notStarted")
    BY <2>1 DEF Justified, ConsumesBudget
  <2> QED
    BY <1>6, <2>1, <2>2 DEF RejectBeforeStart, JournalInv, Justified, records, journal
<1>7. CASE PublishStarted
  <2>1. /\ external[cur] = None /\ terminal[cur] = None /\ receipt[cur] = None
        /\ proposal[cur] # None /\ proposal[cur].candidate # "failure"
    BY <1>0, <1>7, RecoveredResultType, NoRecordAssumption
       DEF PublishStarted, JournalInv, ControlOK
  <2>2. /\ started' = started \cup {cur} /\ pc' = "launch"
        /\ UNCHANGED <<campaign, proposal, external, terminal, receipt, fold, cur>>
    BY <1>7 DEF PublishStarted
  <2> QED BY <2>1, <2>2 DEF JournalInv, Justified
<1>8. ASSUME NEW began \in BOOLEAN, NEW manifest \in BOOLEAN, RunAgent(began, manifest)
      PROVE  JournalInv'
  BY <1>8 DEF RunAgent, JournalInv, Justified, records, journal
<1>9. CASE RaiseAfterAgent
  <2>1. RecoveredResult(cur) # None
    BY <1>0, <1>9, RecoveredResultType DEF RaiseAfterAgent, ControlOK
  <2>2. Justified(cur, out')
    BY <1>0, <1>9, <2>1, RecoveredJustified DEF RaiseAfterAgent
  <2> QED BY <1>9, <2>2 DEF RaiseAfterAgent, JournalInv, Justified, records, journal
<1>10. CASE PublishExternal
  <2>1. /\ out \in Result /\ cur \in started
        /\ terminal[cur] = None /\ receipt[cur] = None
    BY <1>10 DEF PublishExternal, JournalInv, ControlOK
  <2>2. external'[cur] = out /\ \A a \in Attempt \ {cur} : external'[a] = external[a]
    BY <1>0, <1>10 DEF PublishExternal, TypeOK
  <2>3. Justified(cur, out)'
    BY <1>10, <2>1, <2>2 DEF PublishExternal, Justified, ConsumesBudget, Result
  <2>4. \A a \in Attempt : external'[a] # None => a \in started
    BY <2>1, <2>2 DEF JournalInv
  <2>5. \A a \in Attempt : terminal[a] # None => Justified(a, terminal[a])'
    BY <1>10, <2>1, <2>2 DEF PublishExternal, JournalInv, Justified
  <2>6. \A a \in Attempt : receipt[a] # None => Justified(a, receipt[a].result)'
    BY <1>10, <2>1, <2>2 DEF PublishExternal, JournalInv, Justified
  <2> QED BY <1>10, <2>1, <2>3, <2>4, <2>5, <2>6 DEF PublishExternal, JournalInv
<1>11. CASE PublishTerminal
  <2>1. Justified(cur, out) /\ receipt[cur] = None
    BY <1>11 DEF PublishTerminal, JournalInv
  <2>2. terminal'[cur] = out /\ \A a \in Attempt \ {cur} : terminal'[a] = terminal[a]
    BY <1>0, <1>11 DEF PublishTerminal, TypeOK
  <2> QED BY <1>11, <2>1, <2>2 DEF PublishTerminal, JournalInv, Justified
<1>12. CASE PublishReceipt
  <2> DEFINE r == [result |-> out, journal |-> JournalOf(cur)]
  <2>1. Justified(cur, out) /\ r \in ReceiptRecord /\ r # None /\ proposal[cur] # None
    BY <1>12, NoRecordAssumption
       DEF PublishReceipt, JournalInv, ControlOK, ReceiptRecord, JournalOf, JournalEvents
  <2>2. receipt'[cur] = r /\ \A a \in Attempt \ {cur} : receipt'[a] = receipt[a]
    BY <1>0, <1>12 DEF PublishReceipt, TypeOK
  <2>3. r.result = out
    OBVIOUS
  <2> HIDE DEF r
  <2>4. campaign.attempts \subseteq Attempt
    BY DEF TypeOK, CampaignState
  <2> QED BY <1>12, <2>1, <2>2, <2>3, <2>4 DEF PublishReceipt, JournalInv, Justified, journal
<1>13. CASE Cleanup
  BY <1>13 DEF Cleanup, JournalInv, Justified, journal
<1>14. ASSUME NEW removed \in BOOLEAN, CleanupError(removed) PROVE JournalInv'
  BY <1>14 DEF CleanupError, JournalInv, Justified, records, journal
<1>15. CASE Commit
  <2>1. campaign'.attempts \subseteq campaign.attempts \cup {cur}
    <3>1. campaign \in CampaignState /\ campaign' = CommittedState(cur)
      BY <1>15 DEF Commit, TypeOK
    <3>2. CommittedState(cur).attempts \in {campaign.attempts, campaign.attempts \cup {cur}}
      BY <3>1 DEF CommittedState, CampaignState
    <3> QED BY <3>1, <3>2
  <2>2. /\ pc' \in {"select", "finalize", "fold"}
        /\ pc' = "fold" => fold[cur] = None
        /\ UNCHANGED <<proposal, started, external, terminal, receipt, fold, cur>>
        /\ receipt[cur] # None
    BY <1>15 DEF Commit, JournalInv, records, journal
  <2> QED BY <2>1, <2>2 DEF JournalInv, Justified
<1>16. ASSUME NEW status \in {"folded", "error"}, NEW absorbed \in BOOLEAN,
              CallFold(status, absorbed)
       PROVE  JournalInv'
  BY <1>16 DEF CallFold, JournalInv, Justified, records, journal
<1>17. CASE PublishFold
  BY <1>17 DEF PublishFold, JournalInv, Justified, journal
<1>18. CASE Finalize
  <2>1. campaign'.attempts = campaign.attempts
    BY <1>18 DEF Finalize, FinalizedState, TypeOK, CampaignState
  <2> QED BY <1>18, <2>1 DEF Finalize, JournalInv, Justified, records, journal
<1>19. CASE Finish
  <2>1. campaign'.attempts = campaign.attempts
    BY <1>19 DEF Finish, TypeOK, CampaignState
  <2> QED BY <1>19, <2>1 DEF Finish, JournalInv, Justified, records, journal
<1>20. CASE Crash \/ Restart
  BY <1>20 DEF Crash, Restart, JournalInv, Justified, records, journal
<1>21. CASE UNCHANGED vars
  BY <1>21 DEF vars, JournalInv, Justified, records, journal
<1> QED
  BY <1>1, <1>2, <1>3, <1>4, <1>5, <1>6, <1>7, <1>8, <1>9, <1>10, <1>11, <1>12, <1>13,
     <1>14, <1>15, <1>16, <1>17, <1>18, <1>19, <1>20, <1>21
  DEF Next, Step, Terminated

LEMMA JournalInvariant == Spec => [](TypeInv /\ JournalInv)
<1>1. Init => TypeInv /\ JournalInv
  <2>1. Init => JournalInv
    BY DEF Init, JournalInv
  <2> QED BY <2>1, TypeInvInit
<1>2. TypeInv /\ JournalInv /\ [Next]_vars => (TypeInv /\ JournalInv)'
  BY TypeInvStep, JournalInvStep
<1> QED BY <1>1, <1>2, PTL DEF Spec

\* A committed attempt is charged exactly when its agent run was announced and not
\* recorded as never begun: no crash turns a launched run into a free one.
THEOREM ChargeJustified == Spec => []ChargeFollowsJournal
<1>1. TypeInv /\ JournalInv => ChargeFollowsJournal
  <2> SUFFICES ASSUME TypeInv, JournalInv, NEW a \in campaign.attempts
               PROVE  Charged(a) <=> a \in started /\ external[a] # "notStarted"
    BY DEF ChargeFollowsJournal
  <2>1. a \in Attempt /\ receipt[a] # None
    BY DEF TypeInv, TypeOK, CampaignState, JournalInv
  <2>2. Justified(a, receipt[a].result)
    BY <2>1 DEF JournalInv
  <2> QED BY <2>2 DEF Justified, Charged, Committed
<1> QED BY <1>1, JournalInvariant, PTL

\* No step of a resumed process publishes a record that is already on disk.
THEOREM RecordsPublishedOnce == Spec => []PublishedOnce
<1>1. JournalInv => PublishedOnce
  BY DEF JournalInv, PublishedOnce
<1> QED BY <1>1, JournalInvariant, PTL

-----------------------------------------------------------------------------
(* The image outlives the need for it and not the commit *)

\* An owned image goes only in the cleanup, which is behind the receipt and before the
\* commit; it comes back only with a proposal, which a committed attempt already has.
ImageInv ==
  /\ ImageLifetime
  /\ pc = "commit" => cur \notin images

LEMMA ImageInvStep == TypeInv /\ JournalInv /\ ImageInv /\ [Next]_vars => ImageInv'
<1> SUFFICES ASSUME TypeInv, JournalInv, ImageInv, [Next]_vars PROVE ImageInv'
  OBVIOUS
<1> USE DEF ImageInv, ImageLifetime, Committed
<1>0. cur \in Attempt /\ campaign.attempts \subseteq Attempt
  BY DEF TypeInv, TypeOK, CampaignState
<1>1. ASSUME proposal' = proposal, receipt' = receipt, images' = images,
             campaign'.attempts = campaign.attempts, pc' # "commit"
      PROVE  ImageInv'
  BY <1>1
<1>2. CASE Load \/ Generate \/ Recover \/ RejectBeforeStart \/ PublishStarted
           \/ RaiseAfterAgent \/ PublishExternal \/ PublishTerminal
  BY <1>1, <1>2
     DEF Load, Generate, Recover, RejectBeforeStart, PublishStarted, RaiseAfterAgent,
         PublishExternal, PublishTerminal, records, journal, world
<1>3. ASSUME NEW n \in 0 .. Cap - 1, SelectAttempt(n) PROVE ImageInv'
  <2>1. pc' # "commit"
    BY <1>3 DEF SelectAttempt, ResumePoint
  <2> QED BY <1>1, <1>3, <2>1 DEF SelectAttempt, records, world
<1>4. ASSUME NEW began \in BOOLEAN, NEW manifest \in BOOLEAN, RunAgent(began, manifest)
      PROVE  ImageInv'
  BY <1>1, <1>4 DEF RunAgent, records
<1>5. ASSUME NEW status \in {"folded", "error"}, NEW absorbed \in BOOLEAN,
             CallFold(status, absorbed)
      PROVE  ImageInv'
  BY <1>1, <1>5 DEF CallFold, records, world
<1>6. CASE PublishFold \/ Crash \/ Restart
  BY <1>1, <1>6 DEF PublishFold, Crash, Restart, records, world
<1>7. CASE Finalize \/ Finish
  <2>1. campaign'.attempts = campaign.attempts
    BY <1>7 DEF Finalize, FinalizedState, Finish, TypeInv, TypeOK, CampaignState
  <2> QED BY <1>1, <1>7, <2>1 DEF Finalize, Finish, records, world
<1>8. ASSUME NEW candidate \in Candidates, PublishProposal(candidate) PROVE ImageInv'
  <2>1. cur \notin campaign.attempts
    BY <1>0, <1>8 DEF PublishProposal, JournalInv
  <2>2. proposal'[cur] = [candidate |-> candidate, gen |-> gen]
        /\ \A a \in Attempt \ {cur} : proposal'[a] = proposal[a]
    BY <1>0, <1>8 DEF PublishProposal, TypeInv, TypeOK
  <2> QED BY <1>8, <2>1, <2>2 DEF PublishProposal
<1>9. CASE PublishReceipt
  <2>1. receipt'[cur] # None /\ \A a \in Attempt \ {cur} : receipt'[a] = receipt[a]
    <3>1. [result |-> out, journal |-> JournalOf(cur)] \in ReceiptRecord
      BY <1>9 DEF PublishReceipt, ReceiptRecord, JournalOf, JournalEvents, TypeInv, ControlOK
    <3> QED BY <1>0, <1>9, <3>1, NoRecordAssumption DEF PublishReceipt, TypeInv, TypeOK
  <2> QED BY <1>9, <2>1 DEF PublishReceipt, world
<1>10. CASE Cleanup
  BY <1>0, <1>10 DEF Cleanup, JournalInv
<1>11. ASSUME NEW removed \in BOOLEAN, CleanupError(removed) PROVE ImageInv'
  BY <1>0, <1>11 DEF CleanupError, JournalInv, records
<1>12. CASE Commit
  <2>1. campaign'.attempts \subseteq campaign.attempts \cup {cur}
    BY <1>12 DEF Commit, CommittedState, TypeInv, TypeOK, CampaignState
  <2> QED BY <1>12, <2>1 DEF Commit, records, world
<1>13. CASE UNCHANGED vars
  BY <1>13 DEF vars, records, world
<1> QED
  BY <1>2, <1>3, <1>4, <1>5, <1>6, <1>7, <1>8, <1>9, <1>10, <1>11, <1>12, <1>13
  DEF Next, Step, Terminated

\* An owned image exists until the execution that needs it has its receipt, and is gone
\* when the attempt is committed: no crash or failed removal loses the first or leaks
\* past the second.
THEOREM ImageKeptThenRemoved == Spec => []ImageLifetime
<1>1. Init => ImageInv
  BY DEF Init, ImageInv, ImageLifetime, Committed
<1>2. TypeInv /\ JournalInv /\ ImageInv /\ [Next]_vars => ImageInv'
  BY ImageInvStep
<1>3. ImageInv => ImageLifetime
  BY DEF ImageInv
<1> QED BY <1>1, <1>2, <1>3, JournalInvariant, PTL DEF Spec
-----------------------------------------------------------------------------
(* One execution per ordinal: the order of attempts and iterations *)

\* The attempts before a for the same ordinal are committed without a charge.
PriorUncharged(a) ==
  \A m \in 0 .. a[2] - 1 : Committed(<<a[1], m>>) /\ ~Charged(<<a[1], m>>)

\* The i-th iteration is a charged attempt for ordinal i - 1, and has its fold receipt.
IterationsCharged ==
  \A i \in 1 .. Len(campaign.iterations) :
    /\ Charged(campaign.iterations[i])
    /\ campaign.iterations[i][1] = i - 1
    /\ fold[campaign.iterations[i]] # None

\* The pending attempt is charged, for the next ordinal.
PendingCharged ==
  campaign.pending # None =>
    Charged(campaign.pending) /\ campaign.pending[1] = Len(campaign.iterations)

\* No other attempt is charged.
ChargesListed ==
  \A a \in campaign.attempts : Charged(a) =>
    \/ a = campaign.pending
    \/ a[1] < Len(campaign.iterations) /\ campaign.iterations[a[1] + 1] = a

\* A proposal not committed is for the next ordinal, while no fold is pending; before any
\* proposal, the attempts of its ordinal were given up.
ProposalsInOrder ==
  \A a \in Attempt : proposal[a] # None =>
    /\ a[1] <= Len(campaign.iterations)
    /\ PriorUncharged(a)
    /\ Committed(a) \/ (a[1] = Len(campaign.iterations) /\ campaign.pending = None)

FoldsCharged == \A a \in Attempt : fold[a] # None => Charged(a)

\* What campaign.json, the proposals, the receipts and the fold receipts say of each
\* other, wherever the process stands.
OrderInv ==
  IterationsCharged /\ PendingCharged /\ ChargesListed /\ ProposalsInOrder /\ FoldsCharged

\* The control points between the choice of an attempt and its last write.
Working == {"generate", "proposal", "execute", "launch", "external", "terminal", "receipt",
            "cleanup", "commit", "fold", "foldReceipt", "finalize"}

\* What the process knows of the attempt it works on.
ProgressInv ==
  /\ pc \in Working =>
       /\ cur[1] = Len(campaign.iterations)
       /\ PriorUncharged(cur)
       /\ cur = campaign.pending \/ (~Committed(cur) /\ campaign.pending = None)
  /\ pc \in {"generate", "proposal", "execute", "launch", "external", "terminal", "receipt"}
       => ~Committed(cur)
  /\ pc \in {"fold", "foldReceipt", "finalize"} => cur = campaign.pending
  /\ pc \notin {"load", "down", "done", "refused"} => campaign.status = "running"

\* What the audit of _load_or_create looks for beyond that order.
AuditInv ==
  /\ \A a \in Attempt : receipt[a] # None => receipt[a].journal = JournalOf(a)
  /\ campaign.attempts \subseteq cleaned
  /\ pc = "commit" => cur \in cleaned
  /\ pc # "refused"

-----------------------------------------------------------------------------
(* That order is kept *)

HistoryInv == OrderInv /\ ProgressInv /\ AuditInv

\* The parts of campaign.json, an attempt's parts, and what a committed attempt has.
LEMMA CampaignParts ==
  ASSUME TypeInv, JournalInv
  PROVE  /\ campaign.attempts \subseteq Attempt
         /\ campaign.iterations \in Seq(Attempt)
         /\ Len(campaign.iterations) \in Nat
         /\ campaign.pending \in Attempt \cup {None}
         /\ cur \in Attempt
         /\ \A a \in Attempt : a = <<a[1], a[2]>> /\ a[1] \in Nat /\ a[2] \in Nat
         /\ \A a \in campaign.attempts : receipt[a] # None /\ proposal[a] # None
<1>1. /\ campaign.attempts \subseteq Attempt
      /\ campaign.iterations \in Seq(Attempt)
      /\ campaign.pending \in Attempt \cup {None}
      /\ cur \in Attempt
  BY DEF TypeInv, TypeOK, CampaignState
<1>2. Len(campaign.iterations) \in Nat
  BY <1>1
<1>3. \A a \in Attempt : a = <<a[1], a[2]>> /\ a[1] \in Nat /\ a[2] \in Nat
  BY DEF Attempt
<1>4. \A a \in campaign.attempts : receipt[a] # None /\ proposal[a] # None
  BY <1>1 DEF JournalInv
<1> QED BY <1>1, <1>2, <1>3, <1>4

\* At most one attempt per ordinal is the first without a commit.
LEMMA FirstUncommittedUnique ==
  ASSUME NEW a \in Attempt, NEW b \in Attempt, a[1] = b[1],
         PriorUncharged(a), PriorUncharged(b), ~Committed(a), ~Committed(b)
  PROVE  a = b
<1>1. /\ a = <<a[1], a[2]>> /\ b = <<a[1], b[2]>>
      /\ a[2] \in Nat /\ b[2] \in Nat
  BY DEF Attempt
<1>2. ~(a[2] < b[2])
  BY <1>1 DEF PriorUncharged
<1>3. ~(b[2] < a[2])
  BY <1>1 DEF PriorUncharged
<1>4. a[2] = b[2]
  BY <1>1, <1>2, <1>3
<1> QED BY <1>1, <1>4

\* A proposal that is not committed yet is the only one.
LEMMA OneUncommitted ==
  ASSUME TypeInv, OrderInv
  PROVE  \A a, b \in Uncommitted : a = b
  BY FirstUncommittedUnique DEF OrderInv, ProposalsInOrder, Uncommitted, Committed

\* The attempt that run selects is the pending one, or the first uncommitted one.
LEMMA SelectedAttempt ==
  ASSUME TypeInv, JournalInv, OrderInv, NEW n \in 0 .. Cap - 1, SelectAttempt(n)
  PROVE  LET a == <<NextOrdinal, n>>
         IN /\ a \in Attempt
            /\ PriorUncharged(a)
            /\ a = campaign.pending \/ (~Committed(a) /\ campaign.pending = None)
<1> DEFINE a == <<NextOrdinal, n>>
<1>1. a \in Attempt /\ a[1] = Len(campaign.iterations) /\ a[2] = n /\ n \in Nat
  BY CampaignParts, BudgetAssumption, CapAssumption DEF SelectAttempt, NextOrdinal, Attempt
<1>2. PriorUncharged(a)
  BY DEF SelectAttempt, PriorUncharged
<1>3. ASSUME Committed(a) PROVE a = campaign.pending
  <2>1. Charged(a) /\ a \in campaign.attempts
    BY <1>3 DEF SelectAttempt, Committed
  <2>2. ~(a[1] < Len(campaign.iterations))
    BY <1>1, CampaignParts
  <2> QED BY <2>1, <2>2 DEF OrderInv, ChargesListed
<1>4. ASSUME ~Committed(a), campaign.pending # None PROVE FALSE
  <2> DEFINE p == campaign.pending
  <2>1. p \in Attempt /\ Charged(p) /\ Committed(p) /\ p[1] = a[1]
    BY <1>1, <1>4, CampaignParts DEF OrderInv, PendingCharged, Charged
  <2>2. PriorUncharged(p)
    BY <2>1, CampaignParts DEF OrderInv, ProposalsInOrder, Committed
  <2>3. /\ p = <<a[1], p[2]>> /\ p[2] \in Nat
    BY <2>1, CampaignParts
  <2>4. ~(p[2] < n)
    BY <1>1, <1>2, <2>1, <2>3 DEF PriorUncharged
  <2>5. ~(n < p[2])
    BY <1>1, <1>4, <2>1, <2>2, <2>3 DEF PriorUncharged
  <2>6. p[2] = n
    BY <1>1, <2>3, <2>4, <2>5
  <2> QED BY <1>1, <1>4, <2>1, <2>3, <2>6
<1> QED BY <1>1, <1>2, <1>3, <1>4

LEMMA OrderKept ==
  ASSUME OrderInv, UNCHANGED <<campaign, proposal, receipt, fold>>
  PROVE  OrderInv'
  BY DEF OrderInv, IterationsCharged, PendingCharged, ChargesListed, ProposalsInOrder,
         FoldsCharged, PriorUncharged, Charged, Committed

LEMMA OrderStep ==
  TypeInv /\ JournalInv /\ OrderInv /\ ProgressInv /\ [Next]_vars => OrderInv'
<1> SUFFICES ASSUME TypeInv, JournalInv, OrderInv, ProgressInv, [Next]_vars PROVE OrderInv'
  OBVIOUS
<1>0. /\ campaign.attempts \subseteq Attempt
      /\ campaign.iterations \in Seq(Attempt)
      /\ Len(campaign.iterations) \in Nat
      /\ campaign.pending \in Attempt \cup {None}
      /\ cur \in Attempt
      /\ \A a \in campaign.attempts : receipt[a] # None /\ proposal[a] # None
  BY CampaignParts
<1>1. CASE Load \/ Generate \/ Recover \/ RejectBeforeStart \/ PublishStarted
           \/ RaiseAfterAgent \/ PublishExternal \/ PublishTerminal \/ Cleanup
           \/ Crash \/ Restart
  BY <1>1, OrderKept
     DEF Load, Generate, Recover, RejectBeforeStart, PublishStarted, RaiseAfterAgent,
         PublishExternal, PublishTerminal, Cleanup, Crash, Restart, records
<1>2. ASSUME NEW n \in 0 .. Cap - 1, SelectAttempt(n) PROVE OrderInv'
  BY <1>2, OrderKept DEF SelectAttempt, records
<1>3. ASSUME NEW began \in BOOLEAN, NEW manifest \in BOOLEAN, RunAgent(began, manifest)
      PROVE  OrderInv'
  BY <1>3, OrderKept DEF RunAgent, records
<1>4. ASSUME NEW removed \in BOOLEAN, CleanupError(removed) PROVE OrderInv'
  BY <1>4, OrderKept DEF CleanupError, records
<1>5. ASSUME NEW status \in {"folded", "error"}, NEW absorbed \in BOOLEAN,
             CallFold(status, absorbed)
      PROVE  OrderInv'
  BY <1>5, OrderKept DEF CallFold, records
<1>6. ASSUME NEW candidate \in Candidates, PublishProposal(candidate) PROVE OrderInv'
  <2>1. /\ \A a \in Attempt \ {cur} : proposal'[a] = proposal[a]
        /\ UNCHANGED <<campaign, receipt, fold>>
    BY <1>0, <1>6 DEF PublishProposal, TypeInv, TypeOK
  <2>2. /\ cur[1] = Len(campaign.iterations) /\ PriorUncharged(cur)
        /\ campaign.pending = None
    BY <1>6 DEF PublishProposal, ProgressInv, Working, OrderInv, PendingCharged, Charged
  <2> QED BY <2>1, <2>2 DEF OrderInv, IterationsCharged, PendingCharged, ChargesListed,
                             ProposalsInOrder, FoldsCharged, PriorUncharged, Charged, Committed
<1>7. CASE PublishReceipt
  <2>1. /\ ~Committed(cur)
        /\ \A a \in Attempt \ {cur} : receipt'[a] = receipt[a]
        /\ UNCHANGED <<campaign, proposal, fold>>
    BY <1>0, <1>7 DEF PublishReceipt, ProgressInv, TypeInv, TypeOK
  <2>2. \A a \in campaign.attempts : receipt'[a] = receipt[a]
    BY <1>0, <2>1 DEF Committed
  <2>3. \A a : (Committed(a)' <=> Committed(a)) /\ (Charged(a)' <=> Charged(a))
    BY <2>1, <2>2 DEF Charged, Committed
  <2> QED BY <2>1, <2>3 DEF OrderInv, IterationsCharged, PendingCharged, ChargesListed,
                             ProposalsInOrder, FoldsCharged, PriorUncharged
<1>8. CASE Commit
  <2>1. UNCHANGED <<proposal, receipt, fold, cur>> /\ campaign' = CommittedState(cur)
    BY <1>8 DEF Commit, records
  <2>2. CASE Committed(cur)
    BY <2>1, <2>2, OrderKept DEF CommittedState
  <2>3. CASE ~Committed(cur)
    <3> DEFINE c == ConsumesBudget(receipt[cur].result)
    <3>1. /\ campaign'.attempts = campaign.attempts \cup {cur}
          /\ campaign'.iterations = campaign.iterations
          /\ campaign'.pending = IF c THEN cur ELSE campaign.pending
      BY <2>1, <2>3 DEF CommittedState, TypeInv, TypeOK, CampaignState
    <3>2. /\ cur[1] = Len(campaign.iterations) /\ PriorUncharged(cur)
          /\ campaign.pending = None
      BY <1>8, <2>3 DEF Commit, ProgressInv, Working, OrderInv, PendingCharged, Charged
    <3>3. \A a : /\ Committed(a)' <=> Committed(a) \/ a = cur
                 /\ Charged(a)' <=> Charged(a) \/ (a = cur /\ c)
      BY <2>1, <2>3, <3>1 DEF Charged, Committed
    <3> HIDE DEF c
    <3>4. \A a : PriorUncharged(a) => PriorUncharged(a)'
      BY <2>3, <3>3 DEF PriorUncharged
    <3>5. \A a \in Attempt : proposal[a] # None /\ ~Committed(a) => a = cur
      BY <1>0, <2>3, <3>2, FirstUncommittedUnique DEF OrderInv, ProposalsInOrder
    <3>6. IterationsCharged' /\ PendingCharged' /\ FoldsCharged'
      BY <1>0, <2>1, <3>1, <3>2, <3>3
         DEF OrderInv, IterationsCharged, PendingCharged, FoldsCharged
    <3>7. ASSUME NEW a \in campaign'.attempts, Charged(a)'
          PROVE  \/ a = campaign'.pending
                 \/ a[1] < Len(campaign'.iterations) /\ campaign'.iterations[a[1] + 1] = a
      <4>1. CASE Charged(a)
        BY <1>0, <3>1, <3>2, <4>1, NoRecordAssumption
           DEF OrderInv, ChargesListed, Charged, Committed
      <4>2. CASE a = cur /\ c
        BY <3>1, <4>2
      <4> QED BY <3>3, <3>7, <4>1, <4>2
    <3>8. ProposalsInOrder'
      BY <2>1, <3>1, <3>3, <3>4, <3>5 DEF OrderInv, ProposalsInOrder
    <3>9. ChargesListed'
      BY <3>7 DEF ChargesListed
    <3> QED BY <3>6, <3>8, <3>9 DEF OrderInv
  <2> QED BY <2>2, <2>3
<1>9. CASE PublishFold
  <2>1. /\ cur = campaign.pending /\ \A a \in Attempt \ {cur} : fold'[a] = fold[a]
        /\ UNCHANGED <<campaign, proposal, receipt>>
    BY <1>0, <1>9 DEF PublishFold, ProgressInv, TypeInv, TypeOK
  <2>2. cur # None /\ Charged(cur) /\ cur[1] = Len(campaign.iterations)
    BY <1>0, <2>1, NoRecordAssumption DEF OrderInv, PendingCharged
  <2>3. \A i \in 1 .. Len(campaign.iterations) :
          campaign.iterations[i] \in Attempt \ {cur}
    BY <1>0, <2>2 DEF OrderInv, IterationsCharged
  <2> QED BY <2>1, <2>2, <2>3 DEF OrderInv, IterationsCharged, PendingCharged, ChargesListed,
                                  ProposalsInOrder, FoldsCharged, PriorUncharged, Charged, Committed
<1>10. CASE Finalize
  <2>1. /\ campaign'.attempts = campaign.attempts
        /\ campaign'.iterations = Append(campaign.iterations, cur)
        /\ campaign'.pending = None
        /\ UNCHANGED <<proposal, receipt, fold>>
    BY <1>10 DEF Finalize, FinalizedState, records, TypeInv, TypeOK, CampaignState
  <2>2. /\ cur = campaign.pending /\ cur # None /\ Charged(cur) /\ fold[cur] # None
        /\ cur[1] = Len(campaign.iterations)
    BY <1>0, <1>10, NoRecordAssumption
       DEF Finalize, ProgressInv, OrderInv, PendingCharged, TypeInv, ControlOK
  <2>3. \A a : (Committed(a)' <=> Committed(a)) /\ (Charged(a)' <=> Charged(a))
    BY <2>1 DEF Charged, Committed
  <2>4. \A a : PriorUncharged(a)' <=> PriorUncharged(a)
    BY <2>3 DEF PriorUncharged
  <2>5. /\ Len(campaign'.iterations) = Len(campaign.iterations) + 1
        /\ \A i \in 1 .. Len(campaign.iterations) :
             campaign'.iterations[i] = campaign.iterations[i]
        /\ campaign'.iterations[Len(campaign.iterations) + 1] = cur
    BY <1>0, <2>1
  <2>6. ASSUME NEW i \in 1 .. Len(campaign'.iterations)
        PROVE  /\ Charged(campaign.iterations[i])'
               /\ campaign'.iterations[i][1] = i - 1
               /\ fold[campaign'.iterations[i]] # None
    <3>1. CASE i = Len(campaign.iterations) + 1
      BY <1>0, <2>2, <2>3, <2>5, <3>1
    <3>2. CASE i \in 1 .. Len(campaign.iterations)
      BY <2>3, <2>5, <3>2 DEF OrderInv, IterationsCharged
    <3> QED BY <1>0, <2>5, <3>1, <3>2
  <2>7. ASSUME NEW a \in campaign.attempts, Charged(a)
        PROVE  a[1] < Len(campaign'.iterations) /\ campaign'.iterations[a[1] + 1] = a
    <3>1. CASE a = cur
      BY <1>0, <2>2, <2>5, <3>1
    <3>2. CASE a # cur
      <4>1. a[1] < Len(campaign.iterations) /\ campaign.iterations[a[1] + 1] = a
        BY <2>2, <2>7, <3>2 DEF OrderInv, ChargesListed
      <4>2. a[1] \in Nat /\ a[1] + 1 \in 1 .. Len(campaign.iterations)
        BY <1>0, <2>7, <4>1, CampaignParts
      <4> QED BY <1>0, <2>5, <4>1, <4>2
    <3> QED BY <3>1, <3>2
  <2>8. \A a \in Attempt : proposal[a] # None =>
          /\ a[1] <= Len(campaign'.iterations)
          /\ PriorUncharged(a)
          /\ Committed(a)
    BY <1>0, <2>2, <2>5, CampaignParts DEF OrderInv, ProposalsInOrder
  <2>9. IterationsCharged' /\ PendingCharged'
    BY <2>1, <2>6 DEF IterationsCharged, PendingCharged
  <2>10. ChargesListed'
    BY <2>1, <2>3, <2>7 DEF ChargesListed
  <2>11. ProposalsInOrder' /\ FoldsCharged'
    BY <2>1, <2>3, <2>4, <2>8 DEF OrderInv, ProposalsInOrder, FoldsCharged
  <2> QED BY <2>9, <2>10, <2>11 DEF OrderInv
<1>11. CASE Finish
  <2>1. /\ campaign'.attempts = campaign.attempts
        /\ campaign'.iterations = campaign.iterations
        /\ campaign'.pending = campaign.pending
        /\ UNCHANGED <<proposal, receipt, fold>>
    BY <1>11 DEF Finish, records, TypeInv, TypeOK, CampaignState
  <2> QED BY <2>1 DEF OrderInv, IterationsCharged, PendingCharged, ChargesListed, ProposalsInOrder,
                      FoldsCharged, PriorUncharged, Charged, Committed
<1>12. CASE UNCHANGED vars
  BY <1>12, OrderKept DEF vars, records
<1> QED
  BY <1>1, <1>2, <1>3, <1>4, <1>5, <1>6, <1>7, <1>8, <1>9, <1>10, <1>11, <1>12
  DEF Next, Step, Terminated

\* What the process knows of its attempt survives a step that neither commits nor starts
\* another attempt.
LEMMA ProgressKept ==
  ASSUME TypeInv, ProgressInv, UNCHANGED <<campaign, cur>>,
         \A a : Charged(a)' <=> Charged(a),
         pc \in Working \ {"commit"},
         \/ pc' \in {"proposal", "execute", "launch", "external", "terminal", "receipt"}
              /\ pc \in {"generate", "proposal", "execute", "launch", "external", "terminal"}
         \/ pc' \in {"cleanup", "commit"}
         \/ pc' \in {"foldReceipt", "finalize"} /\ pc \in {"fold", "foldReceipt"}
  PROVE  ProgressInv'
<1>1. PriorUncharged(cur) <=> PriorUncharged(cur)'
  BY DEF PriorUncharged, Committed
<1>2. Committed(cur) <=> Committed(cur)'
  BY DEF Committed
<1> QED BY <1>1, <1>2 DEF ProgressInv, Working

LEMMA ProgressStep ==
  TypeInv /\ JournalInv /\ OrderInv /\ ProgressInv /\ [Next]_vars => ProgressInv'
<1> SUFFICES ASSUME TypeInv, JournalInv, OrderInv, ProgressInv, [Next]_vars
             PROVE  ProgressInv'
  OBVIOUS
<1>0. /\ campaign.attempts \subseteq Attempt
      /\ cur \in Attempt
      /\ \A a \in campaign.attempts : receipt[a] # None /\ proposal[a] # None
  BY CampaignParts
<1>1. CASE Load
  BY <1>1 DEF Load, ProgressInv, Working
<1>2. ASSUME NEW n \in 0 .. Cap - 1, SelectAttempt(n) PROVE ProgressInv'
  <2>1. PICK a \in Attempt :
          /\ a = <<NextOrdinal, n>> /\ PriorUncharged(a) /\ a[1] = Len(campaign.iterations)
          /\ a = campaign.pending \/ (~Committed(a) /\ campaign.pending = None)
    BY <1>2, SelectedAttempt DEF NextOrdinal
  <2>2. /\ cur' = a /\ pc' = ResumePoint(a) /\ campaign.status = "running"
        /\ UNCHANGED <<campaign, proposal, receipt>>
    BY <1>2, <2>1 DEF SelectAttempt, records, ProgressInv
  <2>3. /\ pc' \in {"generate", "execute", "cleanup"}
        /\ pc' = "cleanup" \/ proposal[a] = None \/ receipt[a] = None
    BY <2>2 DEF ResumePoint
  <2>4. pc' = "cleanup" \/ ~Committed(a)
    BY <1>0, <2>3 DEF Committed
  <2>5. PriorUncharged(a)' /\ (Committed(a)' <=> Committed(a))
    BY <2>1, <2>2 DEF PriorUncharged, Charged, Committed
  <2> QED BY <2>1, <2>2, <2>3, <2>4, <2>5 DEF ProgressInv, Working
<1>3. CASE Generate \/ Recover \/ RejectBeforeStart \/ PublishStarted \/ RaiseAfterAgent
           \/ PublishExternal \/ PublishTerminal \/ Cleanup
  <2>1. UNCHANGED <<campaign, receipt, cur>>
    BY <1>3 DEF Generate, Recover, RejectBeforeStart, PublishStarted, RaiseAfterAgent,
                PublishExternal, PublishTerminal, Cleanup, records
  <2>2. \A a : Charged(a)' <=> Charged(a)
    BY <2>1 DEF Charged, Committed
  <2> QED
    BY <1>3, <2>1, <2>2, ProgressKept
       DEF Generate, Recover, RejectBeforeStart, PublishStarted, RaiseAfterAgent,
           PublishExternal, PublishTerminal, Cleanup, Working
<1>4. ASSUME NEW candidate \in Candidates, PublishProposal(candidate) PROVE ProgressInv'
  <2>1. \A a : Charged(a)' <=> Charged(a)
    BY <1>4 DEF PublishProposal, Charged, Committed
  <2> QED BY <1>4, <2>1, ProgressKept DEF PublishProposal, Working
<1>5. ASSUME NEW began \in BOOLEAN, NEW manifest \in BOOLEAN, RunAgent(began, manifest)
      PROVE  ProgressInv'
  <2>1. \A a : Charged(a)' <=> Charged(a)
    BY <1>5 DEF RunAgent, Charged, Committed, records
  <2> QED BY <1>5, <2>1, ProgressKept DEF RunAgent, Working
<1>6. CASE PublishReceipt
  <2>1. ~Committed(cur) /\ \A a \in Attempt \ {cur} : receipt'[a] = receipt[a]
    BY <1>0, <1>6 DEF PublishReceipt, ProgressInv, TypeInv, TypeOK
  <2>2. \A a : Charged(a)' <=> Charged(a)
    BY <1>0, <1>6, <2>1 DEF PublishReceipt, Charged, Committed
  <2> QED BY <1>6, <2>2, ProgressKept DEF PublishReceipt, Working
<1>7. ASSUME NEW status \in {"folded", "error"}, NEW absorbed \in BOOLEAN,
             CallFold(status, absorbed)
      PROVE  ProgressInv'
  <2>1. \A a : Charged(a)' <=> Charged(a)
    BY <1>7 DEF CallFold, Charged, Committed, records
  <2> QED BY <1>7, <2>1, ProgressKept DEF CallFold, Working
<1>8. CASE PublishFold
  <2>1. \A a : Charged(a)' <=> Charged(a)
    BY <1>8 DEF PublishFold, Charged, Committed
  <2> QED BY <1>8, <2>1, ProgressKept DEF PublishFold, Working
<1>9. CASE Commit
  <2>1. /\ UNCHANGED <<receipt, cur>> /\ campaign' = CommittedState(cur)
        /\ campaign \in CampaignState
    BY <1>9 DEF Commit, records, TypeInv, TypeOK
  <2>2. campaign'.status = "running"
    BY <1>9, <2>1 DEF Commit, CommittedState, ProgressInv, CampaignState
  <2>3. CASE ~ConsumesBudget(receipt[cur].result)
    <3>1. fold[cur] = None
      BY <1>0, <2>3 DEF OrderInv, FoldsCharged, Charged
    <3>2. pc' = "select"
      BY <1>9, <2>3, <3>1 DEF Commit
    <3> QED BY <2>2, <3>2 DEF ProgressInv, Working
  <2>4. CASE ConsumesBudget(receipt[cur].result)
    <3>1. pc' \in {"fold", "finalize"}
      BY <1>9, <2>4 DEF Commit
    <3>2. cur[1] = Len(campaign.iterations) /\ PriorUncharged(cur)
      BY <1>9 DEF Commit, ProgressInv, Working
    <3>3. CASE Committed(cur)
      <4>1. campaign' = campaign /\ cur = campaign.pending
        BY <1>9, <2>1, <3>3 DEF Commit, CommittedState, ProgressInv, Working
      <4>2. PriorUncharged(cur)'
        BY <2>1, <3>2, <4>1 DEF PriorUncharged, Charged, Committed
      <4> QED BY <2>1, <2>2, <3>1, <3>2, <4>1, <4>2 DEF ProgressInv, Working
    <3>4. CASE ~Committed(cur)
      <4>1. /\ campaign'.attempts = campaign.attempts \cup {cur}
            /\ campaign'.iterations = campaign.iterations
            /\ campaign'.pending = cur
        BY <2>1, <2>4, <3>4 DEF CommittedState, CampaignState
      <4>2. PriorUncharged(cur)'
        BY <2>1, <3>2, <3>4, <4>1 DEF PriorUncharged, Charged, Committed
      <4> QED BY <2>1, <2>2, <3>1, <3>2, <4>1, <4>2 DEF ProgressInv, Working
    <3> QED BY <3>3, <3>4
  <2> QED BY <2>3, <2>4
<1>10. CASE Finalize
  <2>1. pc' = "select" /\ campaign'.status = "running"
    BY <1>10 DEF Finalize, FinalizedState, ProgressInv, TypeInv, TypeOK, CampaignState
  <2> QED BY <2>1 DEF ProgressInv, Working
<1>11. CASE Finish \/ Crash \/ Restart
  BY <1>11 DEF Finish, Crash, Restart, ProgressInv, Working
<1>12. ASSUME NEW removed \in BOOLEAN, CleanupError(removed) PROVE ProgressInv'
  BY <1>12 DEF CleanupError, ProgressInv, Working
<1>13. CASE UNCHANGED vars
  <2>1. UNCHANGED <<campaign, receipt, cur, pc>>
    BY <1>13 DEF vars, records
  <2>2. PriorUncharged(cur)' <=> PriorUncharged(cur)
    BY <2>1 DEF PriorUncharged, Charged, Committed
  <2> QED BY <2>1, <2>2 DEF ProgressInv, Committed
<1> QED
  BY <1>1, <1>2, <1>3, <1>4, <1>5, <1>6, <1>7, <1>8, <1>9, <1>10, <1>11, <1>12, <1>13
  DEF Next, Step, Terminated

\* The files that the invariants describe pass the audit of _load_or_create.
LEMMA AuditSucceeds ==
  ASSUME TypeInv, JournalInv, OrderInv, AuditInv
  PROVE  AuditPasses
<1>1. \A a \in campaign.attempts :
        /\ proposal[a] # None
        /\ receipt[a] # None /\ receipt[a].journal = JournalOf(a)
        /\ a \in cleaned
  BY CampaignParts DEF AuditInv
<1>2. \A i \in 1 .. Len(campaign.iterations) : fold[campaign.iterations[i]] # None
  BY DEF OrderInv, IterationsCharged
<1>3. \A a \in Uncommitted : a[1] = NextOrdinal
  BY DEF OrderInv, ProposalsInOrder, Uncommitted, NextOrdinal
<1> QED BY <1>1, <1>2, <1>3, OneUncommitted DEF AuditPasses

LEMMA AuditStep ==
  TypeInv /\ JournalInv /\ OrderInv /\ AuditInv /\ [Next]_vars => AuditInv'
<1> SUFFICES ASSUME TypeInv, JournalInv, OrderInv, AuditInv, [Next]_vars PROVE AuditInv'
  OBVIOUS
<1>0. cur \in Attempt
  BY CampaignParts
<1>1. ASSUME UNCHANGED <<journal, receipt, cleaned>>, campaign'.attempts = campaign.attempts,
             pc' \notin {"commit", "refused"}
      PROVE  AuditInv'
  BY <1>1 DEF AuditInv, JournalOf, journal
<1>2. CASE Load
  <2>1. pc' \in {"done", "select"}
    BY <1>2, AuditSucceeds DEF Load
  <2> QED BY <1>1, <1>2, <2>1 DEF Load, records
<1>3. ASSUME NEW n \in 0 .. Cap - 1, SelectAttempt(n) PROVE AuditInv'
  <2>1. pc' \in {"generate", "execute", "cleanup"}
    BY <1>3 DEF SelectAttempt, ResumePoint
  <2> QED BY <1>1, <1>3, <2>1 DEF SelectAttempt, records
<1>4. CASE Generate \/ Recover \/ RejectBeforeStart \/ RaiseAfterAgent \/ PublishFold
           \/ Crash \/ Restart
  BY <1>1, <1>4 DEF Generate, Recover, RejectBeforeStart, RaiseAfterAgent, PublishFold,
                    Crash, Restart, records
<1>5. ASSUME NEW candidate \in Candidates, PublishProposal(candidate) PROVE AuditInv'
  BY <1>1, <1>5 DEF PublishProposal
<1>6. ASSUME NEW began \in BOOLEAN, NEW manifest \in BOOLEAN, RunAgent(began, manifest)
      PROVE  AuditInv'
  BY <1>1, <1>6 DEF RunAgent, records
<1>7. ASSUME NEW removed \in BOOLEAN, CleanupError(removed) PROVE AuditInv'
  BY <1>1, <1>7 DEF CleanupError, records
<1>8. ASSUME NEW status \in {"folded", "error"}, NEW absorbed \in BOOLEAN,
             CallFold(status, absorbed)
      PROVE  AuditInv'
  BY <1>1, <1>8 DEF CallFold, records
<1>9. CASE Finalize \/ Finish
  <2>1. campaign'.attempts = campaign.attempts
    BY <1>9 DEF Finalize, FinalizedState, Finish, TypeInv, TypeOK, CampaignState
  <2> QED BY <1>1, <1>9, <2>1 DEF Finalize, Finish, records
<1>10. CASE PublishStarted
  <2>1. receipt[cur] = None /\ \A a \in Attempt \ {cur} : (a \in started)' <=> a \in started
    BY <1>10 DEF PublishStarted, JournalInv
  <2>2. \A a \in Attempt \ {cur} : JournalOf(a)' = JournalOf(a)
    BY <1>10, <2>1 DEF PublishStarted, JournalOf, JournalEvents
  <2> QED BY <1>10, <2>1, <2>2 DEF PublishStarted, AuditInv
<1>11. CASE PublishExternal
  <2>1. /\ receipt[cur] = None
        /\ \A a \in Attempt \ {cur} : external'[a] = external[a]
    BY <1>0, <1>11 DEF PublishExternal, JournalInv, TypeInv, TypeOK
  <2>2. \A a \in Attempt \ {cur} : JournalOf(a)' = JournalOf(a)
    BY <1>11, <2>1 DEF PublishExternal, JournalOf
  <2> QED BY <1>11, <2>1, <2>2 DEF PublishExternal, AuditInv
<1>12. CASE PublishTerminal
  <2>1. /\ receipt[cur] = None
        /\ \A a \in Attempt \ {cur} : terminal'[a] = terminal[a]
    BY <1>0, <1>12 DEF PublishTerminal, JournalInv, TypeInv, TypeOK
  <2>2. \A a \in Attempt \ {cur} : JournalOf(a)' = JournalOf(a)
    BY <1>12, <2>1 DEF PublishTerminal, JournalOf
  <2> QED BY <1>12, <2>1, <2>2 DEF PublishTerminal, AuditInv
<1>13. CASE PublishReceipt
  <2>1. /\ receipt'[cur] = [result |-> out, journal |-> JournalOf(cur)]
        /\ \A a \in Attempt \ {cur} : receipt'[a] = receipt[a]
    BY <1>0, <1>13 DEF PublishReceipt, TypeInv, TypeOK
  <2>2. \A a : JournalOf(a)' = JournalOf(a)
    BY <1>13 DEF PublishReceipt, JournalOf, journal
  <2>3. receipt'[cur].journal = JournalOf(cur)
    BY <2>1
  <2> QED BY <1>13, <2>1, <2>2, <2>3 DEF PublishReceipt, AuditInv
<1>14. CASE Cleanup
  <2>1. \A a : JournalOf(a)' = JournalOf(a)
    BY <1>14 DEF Cleanup, JournalOf, journal
  <2> QED BY <1>14, <2>1 DEF Cleanup, AuditInv
<1>15. CASE Commit
  <2>1. campaign'.attempts \subseteq campaign.attempts \cup {cur}
    BY <1>15 DEF Commit, CommittedState, TypeInv, TypeOK, CampaignState
  <2>2. UNCHANGED <<receipt, cleaned, journal>> /\ pc' \notin {"commit", "refused"}
    BY <1>15 DEF Commit, records
  <2>3. \A a : JournalOf(a)' = JournalOf(a)
    BY <2>2 DEF JournalOf, journal
  <2> QED BY <1>15, <2>1, <2>2, <2>3 DEF Commit, AuditInv
<1>16. CASE UNCHANGED vars
  BY <1>16 DEF vars, records, journal, AuditInv, JournalOf
<1> QED
  BY <1>2, <1>3, <1>4, <1>5, <1>6, <1>7, <1>8, <1>9, <1>10, <1>11, <1>12, <1>13,
     <1>14, <1>15, <1>16
  DEF Next, Step, Terminated

LEMMA HistoryInvariant == Spec => [](TypeInv /\ JournalInv /\ HistoryInv)
<1>1. Init => HistoryInv
  <2> SUFFICES ASSUME Init PROVE HistoryInv
    OBVIOUS
  <2>1. /\ campaign.attempts = {} /\ campaign.iterations = <<>> /\ campaign.pending = None
        /\ \A a \in Attempt : proposal[a] = None /\ fold[a] = None /\ receipt[a] = None
        /\ pc = "load"
    BY DEF Init
  <2>2. OrderInv
    BY <2>1 DEF OrderInv, IterationsCharged, PendingCharged, ChargesListed, ProposalsInOrder,
                FoldsCharged
  <2>3. ProgressInv /\ AuditInv
    BY <2>1 DEF ProgressInv, AuditInv, Working
  <2> QED BY <2>2, <2>3 DEF HistoryInv
<1>2. TypeInv /\ JournalInv /\ HistoryInv /\ [Next]_vars => HistoryInv'
  BY OrderStep, ProgressStep, AuditStep DEF HistoryInv
<1> QED BY <1>1, <1>2, JournalInvariant, PTL DEF Spec
-----------------------------------------------------------------------------
(* The generator learns each execution once, in order *)

\* What a generator learned agrees with the first n iterations: it is some of them, in
\* order, no successful fold is missing, and it continues the fold receipt of the n-th.
Continues(iterations, folds, learned, n) ==
  /\ \A i \in 1 .. Len(learned) :
       /\ learned[i][1] < n
       /\ iterations[learned[i][1] + 1] = learned[i]
       /\ \A j \in 1 .. i - 1 : learned[j][1] < learned[i][1]
  /\ \A i \in 1 .. n : folds[iterations[i]].status = "folded" =>
       \E k \in 1 .. Len(learned) : learned[k] = iterations[i]
  /\ learned = IF n = 0 THEN <<>> ELSE folds[iterations[n]].gen.folded

\* What a fold makes of the snapshot before, the one its proposal was published with.
FoldOutcome(a, before, status, after) ==
  /\ after.drawn = before.drawn
  /\ \/ after.folded = Append(before.folded, a)
     \/ status # "folded" /\ after.folded = before.folded

CampaignSnapshot ==
  /\ Continues(campaign.iterations, fold, campaign.gen.folded, Len(campaign.iterations))
  /\ campaign.gen.drawn = Cardinality(campaign.attempts)

\* Every snapshot on disk continues the history before its attempt, and the one not yet
\* committed is one draw ahead of the campaign's.
ProposalSnapshots ==
  \A a \in Attempt : proposal[a] # None =>
    /\ Continues(campaign.iterations, fold, proposal[a].gen.folded, a[1])
    /\ ~Committed(a) => proposal[a].gen = Draw(campaign.gen)

PendingSnapshot ==
  campaign.pending # None => campaign.gen = proposal[campaign.pending].gen

FoldSnapshots ==
  \A a \in Attempt : fold[a] # None =>
    FoldOutcome(a, proposal[a].gen, fold[a].status, fold[a].gen)

\* The generator in memory is the snapshot that belongs to the control point.
MemorySnapshot ==
  /\ pc = "select" /\ campaign.pending = None /\ Uncommitted = {} => gen = campaign.gen
  /\ pc = "generate" => gen = campaign.gen
  /\ pc = "proposal" => gen = Draw(campaign.gen)
  /\ pc \in {"execute", "launch", "external", "terminal", "receipt", "cleanup", "commit"} =>
       Committed(cur) \/ gen = proposal[cur].gen
  /\ pc = "foldReceipt" => FoldOutcome(cur, proposal[cur].gen, out, gen)

SnapshotInv ==
  CampaignSnapshot /\ ProposalSnapshots /\ PendingSnapshot /\ FoldSnapshots /\ MemorySnapshot

\* Only the iterations up to n and their fold receipts matter.
LEMMA ContinuesKept ==
  ASSUME NEW its, NEW its2, NEW folds, NEW folds2, NEW learned \in Seq(Attempt), NEW n \in Nat,
         \A i \in 1 .. n : its2[i] = its[i] /\ folds2[its[i]] = folds[its[i]],
         Continues(its, folds, learned, n)
  PROVE  Continues(its2, folds2, learned, n)
<1>1. \A i \in 1 .. Len(learned) : learned[i][1] \in Nat
  BY DEF Attempt
<1>2. \A i \in 1 .. Len(learned) : learned[i][1] < n
  BY DEF Continues
<1>3. \A i \in 1 .. Len(learned) : learned[i][1] + 1 \in 1 .. n
  BY <1>1, <1>2
<1>4. \A i \in 1 .. Len(learned) :
        /\ learned[i][1] < n
        /\ its2[learned[i][1] + 1] = learned[i]
        /\ \A j \in 1 .. i - 1 : learned[j][1] < learned[i][1]
  <2> TAKE i \in 1 .. Len(learned)
  <2>1. /\ learned[i][1] < n
        /\ its[learned[i][1] + 1] = learned[i]
        /\ \A j \in 1 .. i - 1 : learned[j][1] < learned[i][1]
    BY DEF Continues
  <2>2. its2[learned[i][1] + 1] = its[learned[i][1] + 1]
    BY <1>3
  <2> QED BY <2>1, <2>2
<1>5. \A i \in 1 .. n : folds2[its2[i]].status = "folded" =>
        \E k \in 1 .. Len(learned) : learned[k] = its2[i]
  <2>1. \A i \in 1 .. n : folds[its[i]].status = "folded" =>
          \E k \in 1 .. Len(learned) : learned[k] = its[i]
    BY DEF Continues
  <2> TAKE i \in 1 .. n
  <2>2. its2[i] = its[i] /\ folds2[its2[i]] = folds[its[i]]
    OBVIOUS
  <2> HAVE folds2[its2[i]].status = "folded"
  <2>3. folds[its[i]].status = "folded"
    BY <2>2
  <2>4. PICK k \in 1 .. Len(learned) : learned[k] = its[i]
    BY <2>1, <2>3
  <2> QED BY <2>2, <2>4
<1>6. learned = IF n = 0 THEN <<>> ELSE folds2[its2[n]].gen.folded
  <2>1. n # 0 => n \in 1 .. n
    OBVIOUS
  <2> QED BY <2>1 DEF Continues
<1> QED BY <1>4, <1>5, <1>6 DEF Continues

\* The fold of the next iteration continues the history.
LEMMA ContinuesNext ==
  ASSUME NEW its \in Seq(Attempt), NEW folds, NEW before \in Seq(Attempt), NEW b \in Attempt,
         b[1] = Len(its), Continues(its, folds, before, Len(its)),
         NEW after \in Seq(Attempt), after = folds[b].gen.folded,
         \/ after = Append(before, b)
         \/ folds[b].status # "folded" /\ after = before
  PROVE  Continues(Append(its, b), folds, after, Len(its) + 1)
<1> DEFINE its2 == Append(its, b)
           n == Len(its)
<1>1. /\ n \in Nat /\ its2[n + 1] = b
      /\ \A i \in 1 .. n : its2[i] = its[i]
  OBVIOUS
<1>2. Continues(its, folds, before, n)
  OBVIOUS
<1> HIDE DEF its2, n
<1>3. \A i \in 1 .. Len(before) : before[i][1] \in Nat
  BY DEF Attempt
<1>4. \A i \in 1 .. Len(before) :
        /\ before[i][1] < n /\ its[before[i][1] + 1] = before[i]
        /\ \A j \in 1 .. i - 1 : before[j][1] < before[i][1]
  BY <1>2 DEF Continues
<1>5. \A i \in 1 .. Len(before) :
        before[i][1] < n + 1 /\ its2[before[i][1] + 1] = before[i]
  <2>1. \A i \in 1 .. Len(before) : before[i][1] < n + 1 /\ before[i][1] + 1 \in 1 .. n
    BY <1>1, <1>3, <1>4
  <2> QED BY <1>1, <1>4, <2>1
<1>6. \A i \in 1 .. n : folds[its2[i]].status = "folded" =>
        \E k \in 1 .. Len(before) : before[k] = its2[i]
  <2>1. \A i \in 1 .. n : folds[its[i]].status = "folded" =>
          \E k \in 1 .. Len(before) : before[k] = its[i]
    BY <1>2 DEF Continues
  <2> QED BY <1>1, <2>1
<1>7. after = IF n + 1 = 0 THEN <<>> ELSE folds[its2[n + 1]].gen.folded
  BY <1>1
<1>8. CASE after = before /\ folds[b].status # "folded"
  <2>1. \A i \in 1 .. n + 1 : folds[its2[i]].status = "folded" => i \in 1 .. n
    BY <1>1, <1>8
  <2>2. \A i \in 1 .. n + 1 : folds[its2[i]].status = "folded" =>
          \E k \in 1 .. Len(before) : before[k] = its2[i]
    BY <1>6, <2>1
  <2>3. Continues(its2, folds, before, n + 1)
    BY <1>4, <1>5, <1>7, <1>8, <2>2 DEF Continues
  <2> QED BY <1>8, <2>3 DEF its2, n
<1>9. CASE after = Append(before, b)
  <2>1. /\ Len(after) = Len(before) + 1 /\ Len(before) \in Nat /\ after[Len(before) + 1] = b
        /\ \A i \in 1 .. Len(before) : after[i] = before[i]
    BY <1>9
  <2>2. ASSUME NEW i \in 1 .. Len(after)
        PROVE  /\ after[i][1] < n + 1 /\ its2[after[i][1] + 1] = after[i]
               /\ \A j \in 1 .. i - 1 : after[j][1] < after[i][1]
    <3>1. CASE i \in 1 .. Len(before)
      <4>1. \A j \in 1 .. i - 1 : after[j] = before[j]
        BY <2>1, <3>1
      <4> QED BY <1>4, <1>5, <2>1, <3>1, <4>1
    <3>2. CASE i = Len(before) + 1
      <4>1. after[i] = b /\ b[1] = n /\ i - 1 = Len(before)
        BY <2>1, <3>2 DEF n
      <4>2. \A j \in 1 .. i - 1 : after[j][1] < n
        BY <1>4, <2>1, <4>1
      <4> QED BY <1>1, <4>1, <4>2
    <3> QED BY <2>1, <3>1, <3>2
  <2>3. ASSUME NEW i \in 1 .. n + 1, folds[its2[i]].status = "folded"
        PROVE  \E k \in 1 .. Len(after) : after[k] = its2[i]
    <3>1. CASE i \in 1 .. n
      <4>1. PICK k \in 1 .. Len(before) : before[k] = its2[i]
        BY <1>6, <2>3, <3>1
      <4> QED BY <2>1, <4>1
    <3>2. CASE i = n + 1
      BY <1>1, <2>1, <3>2
    <3> QED BY <1>1, <3>1, <3>2
  <2>4. Continues(its2, folds, after, n + 1)
    BY <1>7, <2>2, <2>3 DEF Continues
  <2> QED BY <2>4 DEF its2, n
<1> QED BY <1>8, <1>9

\* A fold, in memory, appends the attempt: the generator has not learned it before.
LEMMA FoldAppends ==
  ASSUME NEW g \in Generator, NEW a \in Attempt, NEW its, NEW folds,
         Continues(its, folds, g.folded, a[1])
  PROVE  Fold(g, a).drawn = g.drawn /\ Fold(g, a).folded = Append(g.folded, a)
<1>1. \A i \in 1 .. Len(g.folded) : g.folded[i] # a
  BY DEF Continues, Attempt
<1> QED BY <1>1 DEF Fold, Generator

\* A draw is counted, and teaches nothing.
LEMMA DrawCounts ==
  ASSUME NEW g \in Generator
  PROVE  Draw(g).drawn = g.drawn + 1 /\ Draw(g).folded = g.folded
  BY DEF Draw, Generator

\* The committed attempts can be counted.
LEMMA AttemptsFinite ==
  ASSUME TypeInv
  PROVE  IsFiniteSet(campaign.attempts)
<1>1. IsFiniteSet(Attempt)
  <2>1. IsFiniteSet(0 .. Budget - 1) /\ IsFiniteSet(0 .. Cap - 1)
    BY FS_Interval, BudgetAssumption, CapAssumption
  <2> QED BY <2>1, FS_Product DEF Attempt
<1>2. campaign.attempts \in SUBSET Attempt
  BY DEF TypeInv, TypeOK, CampaignState
<1> QED BY <1>1, <1>2, FS_Subset

LEMMA SnapshotTypes ==
  ASSUME TypeInv
  PROVE  /\ campaign.gen \in Generator /\ gen \in Generator
         /\ \A a \in Attempt : proposal[a] # None => proposal[a].gen \in Generator
         /\ \A a \in Attempt : fold[a] # None => fold[a].gen \in Generator
         /\ \A g \in Generator : g.folded \in Seq(Attempt) /\ g.drawn \in Nat
<1>1. campaign.gen \in Generator /\ gen \in Generator
  BY DEF TypeInv, TypeOK, CampaignState
<1>2. \A a \in Attempt : proposal[a] # None => proposal[a].gen \in Generator
  BY DEF TypeInv, TypeOK, ProposalRecord
<1>3. \A a \in Attempt : fold[a] # None => fold[a].gen \in Generator
  BY DEF TypeInv, TypeOK, FoldRecord
<1>4. \A g \in Generator : g.folded \in Seq(Attempt) /\ g.drawn \in Nat
  BY DEF Generator
<1> QED BY <1>1, <1>2, <1>3, <1>4

DurableSnapshots == CampaignSnapshot /\ ProposalSnapshots /\ PendingSnapshot /\ FoldSnapshots

LEMMA SnapshotsKept ==
  ASSUME DurableSnapshots, UNCHANGED <<campaign, proposal, fold>>
  PROVE  DurableSnapshots'
  BY DEF DurableSnapshots, CampaignSnapshot, ProposalSnapshots, PendingSnapshot, FoldSnapshots,
         Committed

LEMMA DurableSnapshotsStep ==
  TypeInv /\ JournalInv /\ HistoryInv /\ SnapshotInv /\ [Next]_vars => DurableSnapshots'
<1> SUFFICES ASSUME TypeInv, JournalInv, HistoryInv, SnapshotInv, [Next]_vars
             PROVE  DurableSnapshots'
  OBVIOUS
<1>0. /\ campaign.attempts \subseteq Attempt
      /\ campaign.iterations \in Seq(Attempt)
      /\ Len(campaign.iterations) \in Nat
      /\ campaign.pending \in Attempt \cup {None}
      /\ cur \in Attempt
      /\ \A a \in Attempt : a[1] \in Nat
      /\ \A a \in campaign.attempts : receipt[a] # None /\ proposal[a] # None
      /\ DurableSnapshots /\ OrderInv /\ ProgressInv
  BY CampaignParts DEF SnapshotInv, DurableSnapshots, HistoryInv
<1>1. CASE Load \/ Generate \/ Recover \/ RejectBeforeStart \/ PublishStarted
           \/ RaiseAfterAgent \/ PublishExternal \/ PublishTerminal \/ PublishReceipt
           \/ Cleanup \/ Crash \/ Restart
  BY <1>0, <1>1, SnapshotsKept
     DEF Load, Generate, Recover, RejectBeforeStart, PublishStarted, RaiseAfterAgent,
         PublishExternal, PublishTerminal, PublishReceipt, Cleanup, Crash, Restart, records
<1>2. ASSUME NEW n \in 0 .. Cap - 1, SelectAttempt(n) PROVE DurableSnapshots'
  BY <1>0, <1>2, SnapshotsKept DEF SelectAttempt, records
<1>3. ASSUME NEW began \in BOOLEAN, NEW manifest \in BOOLEAN, RunAgent(began, manifest)
      PROVE  DurableSnapshots'
  BY <1>0, <1>3, SnapshotsKept DEF RunAgent, records
<1>4. ASSUME NEW removed \in BOOLEAN, CleanupError(removed) PROVE DurableSnapshots'
  BY <1>0, <1>4, SnapshotsKept DEF CleanupError, records
<1>5. ASSUME NEW status \in {"folded", "error"}, NEW absorbed \in BOOLEAN,
             CallFold(status, absorbed)
      PROVE  DurableSnapshots'
  BY <1>0, <1>5, SnapshotsKept DEF CallFold, records
<1>6. CASE Finish
  <2>1. /\ campaign'.attempts = campaign.attempts
        /\ campaign'.iterations = campaign.iterations
        /\ campaign'.pending = campaign.pending
        /\ campaign'.gen = campaign.gen
        /\ UNCHANGED <<proposal, fold>>
    BY <1>6 DEF Finish, records, TypeInv, TypeOK, CampaignState
  <2> QED
    BY <1>0, <2>1 DEF DurableSnapshots, CampaignSnapshot, ProposalSnapshots, PendingSnapshot,
                      FoldSnapshots, Committed
<1>7. ASSUME NEW candidate \in Candidates, PublishProposal(candidate) PROVE DurableSnapshots'
  <2>1. /\ \A a \in Attempt \ {cur} : proposal'[a] = proposal[a]
        /\ proposal'[cur] = [candidate |-> candidate, gen |-> gen]
        /\ UNCHANGED <<campaign, fold>>
    BY <1>0, <1>7 DEF PublishProposal, TypeInv, TypeOK
  <2>2. /\ proposal'[cur].gen = Draw(campaign.gen)
        /\ cur[1] = Len(campaign.iterations) /\ ~Committed(cur) /\ campaign.pending = None
    BY <1>0, <1>7, <2>1
       DEF PublishProposal, SnapshotInv, MemorySnapshot, ProgressInv, Working, OrderInv,
           PendingCharged, Charged
  <2>3. proposal'[cur].gen.folded = campaign.gen.folded
    BY <2>2, DrawCounts, SnapshotTypes
  <2>4. CampaignSnapshot' /\ PendingSnapshot'
    BY <1>0, <2>1, <2>2 DEF DurableSnapshots, CampaignSnapshot, PendingSnapshot
  <2>5. ProposalSnapshots'
    BY <1>0, <2>1, <2>2, <2>3
       DEF DurableSnapshots, CampaignSnapshot, ProposalSnapshots, Committed
  <2>6. FoldSnapshots'
    <3>1. fold[cur] = None
      BY <1>0, <2>2 DEF OrderInv, FoldsCharged, Charged
    <3> QED BY <1>0, <2>1, <3>1 DEF DurableSnapshots, FoldSnapshots
  <2> QED BY <2>4, <2>5, <2>6 DEF DurableSnapshots
<1>8. CASE Commit
  <2>1. UNCHANGED <<proposal, fold>> /\ campaign' = CommittedState(cur)
    BY <1>8 DEF Commit, records
  <2>2. CASE Committed(cur)
    BY <1>0, <2>1, <2>2, SnapshotsKept DEF CommittedState
  <2>3. CASE ~Committed(cur)
    <3>1. /\ campaign'.attempts = campaign.attempts \cup {cur}
          /\ campaign'.iterations = campaign.iterations
          /\ campaign'.pending \in {cur, campaign.pending}
          /\ campaign'.gen = proposal[cur].gen
      BY <2>1, <2>3 DEF CommittedState, TypeInv, TypeOK, CampaignState
    <3>2. /\ cur[1] = Len(campaign.iterations) /\ campaign.pending = None
          /\ proposal[cur] # None
      BY <1>0, <1>8, <2>3, NoRecordAssumption
         DEF Commit, ProgressInv, Working, OrderInv, PendingCharged, Charged, TypeInv, ControlOK
    <3>3. /\ Continues(campaign.iterations, fold, proposal[cur].gen.folded, cur[1])
          /\ proposal[cur].gen = Draw(campaign.gen)
      BY <1>0, <2>3, <3>2 DEF DurableSnapshots, ProposalSnapshots
    <3>4. proposal[cur].gen.drawn = Cardinality(campaign'.attempts)
      <4>1. proposal[cur].gen.drawn = Cardinality(campaign.attempts) + 1
        BY <1>0, <3>3, DrawCounts, SnapshotTypes DEF DurableSnapshots, CampaignSnapshot
      <4>2. Cardinality(campaign.attempts \cup {cur}) = Cardinality(campaign.attempts) + 1
        BY <2>3, AttemptsFinite, FS_AddElement DEF Committed
      <4> QED BY <3>1, <4>1, <4>2
    <3>5. CampaignSnapshot'
      BY <2>1, <3>1, <3>2, <3>3, <3>4 DEF CampaignSnapshot
    <3>6. \A a \in Attempt : proposal[a] # None /\ ~Committed(a) => a = cur
      BY <1>0, <2>3, <3>2, OneUncommitted DEF Uncommitted
    <3>7. ProposalSnapshots'
      BY <1>0, <2>1, <3>1, <3>6 DEF DurableSnapshots, ProposalSnapshots, Committed
    <3>8. PendingSnapshot' /\ FoldSnapshots'
      BY <1>0, <2>1, <3>1, <3>2 DEF DurableSnapshots, PendingSnapshot, FoldSnapshots
    <3> QED BY <3>5, <3>7, <3>8 DEF DurableSnapshots
  <2> QED BY <2>2, <2>3
<1>9. CASE PublishFold
  <2>1. /\ cur = campaign.pending /\ \A a \in Attempt \ {cur} : fold'[a] = fold[a]
        /\ fold'[cur] = [status |-> out, gen |-> gen]
        /\ UNCHANGED <<campaign, proposal>>
    BY <1>0, <1>9 DEF PublishFold, ProgressInv, TypeInv, TypeOK
  <2>2. cur # None /\ cur[1] = Len(campaign.iterations)
    BY <1>0, <2>1, NoRecordAssumption DEF OrderInv, PendingCharged
  <2>3. \A i \in 1 .. Len(campaign.iterations) :
          fold'[campaign.iterations[i]] = fold[campaign.iterations[i]]
    BY <1>0, <2>1, <2>2 DEF OrderInv, IterationsCharged
  <2>4. \A learned \in Seq(Attempt), n \in 0 .. Len(campaign.iterations) :
          Continues(campaign.iterations, fold, learned, n)
            => Continues(campaign.iterations, fold', learned, n)
    <3> SUFFICES ASSUME NEW learned \in Seq(Attempt), NEW n \in 0 .. Len(campaign.iterations),
                        Continues(campaign.iterations, fold, learned, n)
                 PROVE  Continues(campaign.iterations, fold', learned, n)
      OBVIOUS
    <3>1. n \in Nat /\ 1 .. n \subseteq 1 .. Len(campaign.iterations)
      BY <1>0
    <3> QED BY <2>3, <3>1, ContinuesKept
  <2>5. CampaignSnapshot' /\ PendingSnapshot'
    BY <1>0, <2>1, <2>4, SnapshotTypes
       DEF DurableSnapshots, CampaignSnapshot, PendingSnapshot
  <2>6. ProposalSnapshots'
    <3>1. \A a \in Attempt : proposal[a] # None =>
            a[1] \in 0 .. Len(campaign.iterations) /\ proposal[a].gen.folded \in Seq(Attempt)
      BY <1>0, SnapshotTypes DEF OrderInv, ProposalsInOrder
    <3> QED BY <1>0, <2>1, <2>4, <3>1 DEF DurableSnapshots, ProposalSnapshots, Committed
  <2>7. FoldSnapshots'
    <3>1. FoldOutcome(cur, proposal[cur].gen, out, gen)
      BY <1>9 DEF PublishFold, SnapshotInv, MemorySnapshot
    <3> QED BY <1>0, <2>1, <3>1 DEF DurableSnapshots, FoldSnapshots
  <2> QED BY <2>5, <2>6, <2>7 DEF DurableSnapshots
<1>10. CASE Finalize
  <2>1. /\ campaign'.attempts = campaign.attempts
        /\ campaign'.iterations = Append(campaign.iterations, cur)
        /\ campaign'.pending = None
        /\ campaign'.gen = fold[cur].gen
        /\ UNCHANGED <<proposal, fold>>
    BY <1>10 DEF Finalize, FinalizedState, records, TypeInv, TypeOK, CampaignState
  <2>2. /\ cur = campaign.pending /\ cur # None /\ fold[cur] # None /\ proposal[cur] # None
        /\ cur[1] = Len(campaign.iterations)
    BY <1>0, <1>10, NoRecordAssumption
       DEF Finalize, ProgressInv, OrderInv, PendingCharged, TypeInv, ControlOK
  <2>3. campaign.gen = proposal[cur].gen
    BY <1>0, <2>2 DEF DurableSnapshots, PendingSnapshot
  <2>4. FoldOutcome(cur, campaign.gen, fold[cur].status, fold[cur].gen)
    BY <1>0, <2>2, <2>3 DEF DurableSnapshots, FoldSnapshots
  <2>5. CampaignSnapshot'
    <3>1. /\ campaign.gen.folded \in Seq(Attempt) /\ fold[cur].gen.folded \in Seq(Attempt)
      BY <1>0, <2>2, SnapshotTypes
    <3>2. Continues(campaign.iterations, fold, campaign.gen.folded, Len(campaign.iterations))
      BY <1>0 DEF DurableSnapshots, CampaignSnapshot
    <3>3. Continues(Append(campaign.iterations, cur), fold, fold[cur].gen.folded,
                    Len(campaign.iterations) + 1)
      BY <1>0, <2>2, <2>4, <3>1, <3>2, ContinuesNext DEF FoldOutcome
    <3>4. Len(campaign'.iterations) = Len(campaign.iterations) + 1
      BY <1>0, <2>1
    <3> QED BY <1>0, <2>1, <2>4, <3>3, <3>4 DEF DurableSnapshots, CampaignSnapshot, FoldOutcome
  <2>6. ProposalSnapshots'
    <3>1. \A i \in 1 .. Len(campaign.iterations) :
            campaign'.iterations[i] = campaign.iterations[i]
      BY <1>0, <2>1
    <3>2. \A learned \in Seq(Attempt), n \in 0 .. Len(campaign.iterations) :
            Continues(campaign.iterations, fold, learned, n)
              => Continues(campaign'.iterations, fold', learned, n)
      <4> SUFFICES ASSUME NEW learned \in Seq(Attempt), NEW n \in 0 .. Len(campaign.iterations),
                          Continues(campaign.iterations, fold, learned, n)
                   PROVE  Continues(campaign'.iterations, fold', learned, n)
        OBVIOUS
      <4>1. n \in Nat /\ 1 .. n \subseteq 1 .. Len(campaign.iterations)
        BY <1>0
      <4> QED BY <2>1, <3>1, <4>1, ContinuesKept
    <3>3. \A a \in Attempt : proposal[a] # None =>
            /\ a[1] \in 0 .. Len(campaign.iterations) /\ proposal[a].gen.folded \in Seq(Attempt)
            /\ Committed(a)
      BY <1>0, <2>2, SnapshotTypes DEF OrderInv, ProposalsInOrder
    <3> QED BY <1>0, <2>1, <3>2, <3>3 DEF DurableSnapshots, ProposalSnapshots, Committed
  <2>7. PendingSnapshot' /\ FoldSnapshots'
    BY <1>0, <2>1 DEF DurableSnapshots, PendingSnapshot, FoldSnapshots
  <2> QED BY <2>5, <2>6, <2>7 DEF DurableSnapshots
<1>11. CASE UNCHANGED vars
  BY <1>0, <1>11, SnapshotsKept DEF vars, records
<1> QED
  BY <1>1, <1>2, <1>3, <1>4, <1>5, <1>6, <1>7, <1>8, <1>9, <1>10, <1>11
  DEF Next, Step, Terminated

LEMMA MemorySnapshotStep ==
  TypeInv /\ JournalInv /\ HistoryInv /\ SnapshotInv /\ [Next]_vars => MemorySnapshot'
<1> SUFFICES ASSUME TypeInv, JournalInv, HistoryInv, SnapshotInv, [Next]_vars
             PROVE  MemorySnapshot'
  OBVIOUS
<1>0. /\ campaign.attempts \subseteq Attempt
      /\ campaign.pending \in Attempt \cup {None}
      /\ cur \in Attempt
      /\ \A a \in campaign.attempts : receipt[a] # None /\ proposal[a] # None
      /\ OrderInv /\ ProgressInv /\ MemorySnapshot
  BY CampaignParts DEF SnapshotInv, HistoryInv
<1>1. CASE Load
  BY <1>1 DEF Load, RestoredOnLoad, MemorySnapshot, Uncommitted, Committed, records
<1>2. ASSUME NEW n \in 0 .. Cap - 1, SelectAttempt(n) PROVE MemorySnapshot'
  <2>1. PICK a \in Attempt :
          /\ a = <<NextOrdinal, n>> /\ PriorUncharged(a) /\ a[1] = Len(campaign.iterations)
          /\ a = campaign.pending \/ (~Committed(a) /\ campaign.pending = None)
    BY <1>0, <1>2, SelectedAttempt DEF NextOrdinal
  <2>2. /\ cur' = a /\ pc' = ResumePoint(a) /\ pc = "select"
        /\ gen' = IF proposal[a] = None THEN gen ELSE RestoredForAttempt(a)
        /\ UNCHANGED <<campaign, proposal, fold>>
    BY <1>2, <2>1 DEF SelectAttempt, records
  <2>3. CASE proposal[a] = None
    <3>1. pc' = "generate" /\ gen' = gen
      BY <2>2, <2>3 DEF ResumePoint
    <3>2. ~Committed(a) /\ campaign.pending = None
      BY <1>0, <2>1, <2>3, NoRecordAssumption
         DEF OrderInv, PendingCharged, Charged, Committed
    <3>3. Uncommitted = {}
      <4> SUFFICES ASSUME NEW b \in Uncommitted PROVE FALSE
        OBVIOUS
      <4>1. /\ b \in Attempt /\ proposal[b] # None /\ ~Committed(b)
            /\ b[1] = a[1] /\ PriorUncharged(b)
        BY <1>0, <2>1 DEF Uncommitted, OrderInv, ProposalsInOrder
      <4>2. b = a
        BY <2>1, <3>2, <4>1, FirstUncommittedUnique
      <4> QED BY <2>3, <4>1, <4>2
    <3> QED BY <1>0, <2>2, <3>1, <3>2, <3>3 DEF MemorySnapshot
  <2>4. CASE proposal[a] # None
    <3>1. pc' \in {"execute", "cleanup"} /\ gen' = RestoredForAttempt(a)
      BY <2>2, <2>4 DEF ResumePoint
    <3>2. Committed(a) \/ gen' = proposal[a].gen
      BY <1>0, <2>1, <3>1, NoRecordAssumption
         DEF RestoredForAttempt, OrderInv, PendingCharged, Charged
    <3> QED BY <2>2, <3>1, <3>2 DEF MemorySnapshot, Committed
  <2> QED BY <2>3, <2>4
<1>3. CASE Generate
  BY <1>0, <1>3 DEF Generate, MemorySnapshot
<1>4. ASSUME NEW candidate \in Candidates, PublishProposal(candidate) PROVE MemorySnapshot'
  <2>1. proposal'[cur] = [candidate |-> candidate, gen |-> gen]
    BY <1>0, <1>4 DEF PublishProposal, TypeInv, TypeOK
  <2> QED BY <1>4, <2>1 DEF PublishProposal, MemorySnapshot
<1>5. CASE Recover \/ RejectBeforeStart \/ PublishStarted \/ RaiseAfterAgent
           \/ PublishExternal \/ PublishTerminal \/ PublishReceipt \/ Cleanup
  <2>1. /\ UNCHANGED <<campaign, proposal, cur, gen>>
        /\ pc \in {"execute", "launch", "external", "terminal", "receipt", "cleanup"}
        /\ pc' \in {"launch", "external", "terminal", "receipt", "cleanup", "commit"}
    BY <1>5 DEF Recover, RejectBeforeStart, PublishStarted, RaiseAfterAgent, PublishExternal,
                PublishTerminal, PublishReceipt, Cleanup, records
  <2> QED BY <1>0, <2>1 DEF MemorySnapshot, Committed
<1>6. ASSUME NEW began \in BOOLEAN, NEW manifest \in BOOLEAN, RunAgent(began, manifest)
      PROVE  MemorySnapshot'
  BY <1>0, <1>6 DEF RunAgent, MemorySnapshot, Committed, records
<1>7. ASSUME NEW removed \in BOOLEAN, CleanupError(removed) PROVE MemorySnapshot'
  BY <1>7 DEF CleanupError, MemorySnapshot
<1>8. CASE Commit
  <2>1. /\ UNCHANGED <<proposal, cur, gen>> /\ campaign' = CommittedState(cur)
        /\ pc = "commit" /\ pc' \in {"select", "finalize", "fold"}
        /\ pc' = "select" => ~ConsumesBudget(receipt[cur].result)
    BY <1>8 DEF Commit, records
  <2>2. ASSUME pc' = "select" PROVE gen = campaign'.gen
    <3>1. ~Committed(cur)
      <4>1. Committed(cur) => cur = campaign.pending /\ cur # None
        BY <1>0, <2>1, NoRecordAssumption DEF ProgressInv, Working
      <4> QED BY <1>0, <2>1, <2>2, <4>1 DEF OrderInv, PendingCharged, Charged
    <3>2. campaign'.gen = proposal[cur].gen
      BY <2>1, <3>1 DEF CommittedState, TypeInv, TypeOK, CampaignState
    <3> QED BY <1>0, <2>1, <3>1, <3>2 DEF MemorySnapshot
  <2> QED BY <2>1, <2>2 DEF MemorySnapshot
<1>9. ASSUME NEW status \in {"folded", "error"}, NEW absorbed \in BOOLEAN,
             CallFold(status, absorbed)
      PROVE  MemorySnapshot'
  <2>1. /\ pc' = "foldReceipt" /\ out' = status /\ UNCHANGED <<campaign, proposal, cur>>
        /\ status = "folded" => absorbed
        /\ gen' = IF absorbed THEN Fold(proposal[cur].gen, cur) ELSE proposal[cur].gen
        /\ proposal[cur] # None
    BY <1>9, NoRecordAssumption DEF CallFold, records, TypeInv, ControlOK
  <2>2. /\ proposal[cur].gen \in Generator
        /\ Continues(campaign.iterations, fold, proposal[cur].gen.folded, cur[1])
    BY <1>0, <2>1, SnapshotTypes DEF SnapshotInv, ProposalSnapshots
  <2>3. FoldOutcome(cur, proposal[cur].gen, status, gen')
    BY <1>0, <2>1, <2>2, FoldAppends DEF FoldOutcome
  <2> QED BY <2>1, <2>3 DEF MemorySnapshot
<1>10. CASE PublishFold
  BY <1>10 DEF PublishFold, MemorySnapshot
<1>11. CASE Finalize
  <2>1. campaign'.gen = fold[cur].gen /\ gen' = fold[cur].gen /\ pc' = "select"
    BY <1>11 DEF Finalize, FinalizedState, TypeInv, TypeOK, CampaignState
  <2> QED BY <2>1 DEF MemorySnapshot
<1>12. CASE Finish \/ Crash \/ Restart
  BY <1>12 DEF Finish, Crash, Restart, MemorySnapshot
<1>13. CASE UNCHANGED vars
  BY <1>0, <1>13 DEF vars, records, MemorySnapshot, Uncommitted, Committed
<1> QED
  BY <1>1, <1>2, <1>3, <1>4, <1>5, <1>6, <1>7, <1>8, <1>9, <1>10, <1>11, <1>12, <1>13
  DEF Next, Step, Terminated

LEMMA SnapshotInvariant == Spec => [](TypeInv /\ JournalInv /\ HistoryInv /\ SnapshotInv)
<1>1. Init => SnapshotInv
  <2> SUFFICES ASSUME Init PROVE SnapshotInv
    OBVIOUS
  <2>1. /\ campaign.attempts = {} /\ campaign.iterations = <<>> /\ campaign.pending = None
        /\ campaign.gen = FreshGenerator
        /\ \A a \in Attempt : proposal[a] = None /\ fold[a] = None
        /\ pc = "load"
    BY DEF Init
  <2>2. Continues(<<>>, fold, FreshGenerator.folded, 0)
    BY DEF Continues, FreshGenerator
  <2>3. CampaignSnapshot
    BY <2>1, <2>2, FS_EmptySet DEF CampaignSnapshot, FreshGenerator
  <2> QED BY <2>1, <2>3 DEF SnapshotInv, ProposalSnapshots, PendingSnapshot, FoldSnapshots,
                            MemorySnapshot
<1>2. TypeInv /\ JournalInv /\ HistoryInv /\ SnapshotInv /\ [Next]_vars => SnapshotInv'
  BY DurableSnapshotsStep, MemorySnapshotStep DEF SnapshotInv, DurableSnapshots
<1> QED BY <1>1, <1>2, HistoryInvariant, PTL DEF Spec

\* A candidate is proposed only by a generator that already has the feedback of every
\* earlier execution, whatever crashes came between.
THEOREM FeedbackBeforeProposal == Spec => []ProposalsSeeAllFeedback
<1>1. TypeInv /\ JournalInv /\ HistoryInv /\ SnapshotInv => ProposalsSeeAllFeedback
  <2> SUFFICES ASSUME TypeInv, JournalInv, HistoryInv, SnapshotInv,
                      NEW a \in Attempt, proposal[a] # None
               PROVE  IF a[1] = 0 THEN proposal[a].gen.folded = <<>>
                      ELSE /\ a[1] <= Len(campaign.iterations)
                           /\ proposal[a].gen.folded = fold[campaign.iterations[a[1]]].gen.folded
    BY DEF ProposalsSeeAllFeedback
  <2>1. Continues(campaign.iterations, fold, proposal[a].gen.folded, a[1])
    BY DEF SnapshotInv, ProposalSnapshots
  <2>2. a[1] <= Len(campaign.iterations)
    BY DEF HistoryInv, OrderInv, ProposalsInOrder
  <2> QED BY <2>1, <2>2 DEF Continues
<1> QED BY <1>1, SnapshotInvariant, PTL

\* What continues the history lists iterations in their order.
LEMMA ContinuesInOrder ==
  ASSUME NEW its \in Seq(Attempt), NEW folds, NEW learned \in Seq(Attempt),
         Continues(its, folds, learned, Len(its))
  PROVE  InOrderOf(learned, its)
<1>1. \A i \in 1 .. Len(learned) : learned[i][1] \in Nat
  BY DEF Attempt
<1>2. \A i \in 1 .. Len(learned) :
        /\ learned[i][1] < Len(its) /\ its[learned[i][1] + 1] = learned[i]
        /\ \A j \in 1 .. i - 1 : learned[j][1] < learned[i][1]
  BY DEF Continues
<1>3. ASSUME NEW i \in 1 .. Len(learned)
      PROVE  \E k \in 1 .. Len(its) :
               /\ learned[i] = its[k]
               /\ \A j \in 1 .. i - 1 : \E l \in 1 .. k - 1 : learned[j] = its[l]
  <2> DEFINE k == learned[i][1] + 1
  <2>1. k \in 1 .. Len(its) /\ learned[i] = its[k]
    BY <1>1, <1>2
  <2>2. ASSUME NEW j \in 1 .. i - 1
        PROVE  learned[j][1] + 1 \in 1 .. k - 1 /\ its[learned[j][1] + 1] = learned[j]
    <3>1. j \in 1 .. Len(learned)
      OBVIOUS
    <3> QED BY <1>1, <1>2, <3>1
  <2> QED BY <2>1, <2>2
<1> QED BY <1>3 DEF InOrderOf

\* The durable generator state holds the feedback of the charged executions, each once
\* and in order, and the files always pass the next start's audit.
THEOREM HistoryExactlyOnce == Spec => []GeneratorMatchesHistory
<1>1. TypeInv /\ JournalInv /\ HistoryInv /\ SnapshotInv => GeneratorMatchesHistory
  <2> SUFFICES ASSUME TypeInv, JournalInv, HistoryInv, SnapshotInv
               PROVE  GeneratorMatchesHistory
    OBVIOUS
  <2>0. /\ campaign.iterations \in Seq(Attempt) /\ campaign.attempts \subseteq Attempt
        /\ campaign.pending \in Attempt \cup {None}
        /\ campaign.gen.folded \in Seq(Attempt)
        /\ Continues(campaign.iterations, fold, campaign.gen.folded,
                     Len(campaign.iterations))
        /\ OrderInv
    BY CampaignParts, SnapshotTypes DEF SnapshotInv, CampaignSnapshot, HistoryInv
  <2>1. pc # "refused" /\ campaign.gen.drawn = Cardinality(campaign.attempts)
    BY DEF HistoryInv, AuditInv, SnapshotInv, CampaignSnapshot
  <2>2. \A i \in 1 .. Len(campaign.iterations) : campaign.iterations[i][1] = i - 1
    BY <2>0 DEF OrderInv, IterationsCharged
  <2>3. {a \in Attempt : Charged(a)}
          = {campaign.iterations[i] : i \in 1 .. Len(campaign.iterations)}
              \cup ({campaign.pending} \ {None})
    <3>1. ASSUME NEW a \in Attempt, Charged(a)
          PROVE  a = campaign.pending
                   \/ \E i \in 1 .. Len(campaign.iterations) : a = campaign.iterations[i]
      <4>1. CASE a = campaign.pending
        BY <4>1
      <4>2. CASE a # campaign.pending
        <5>1. a[1] < Len(campaign.iterations) /\ campaign.iterations[a[1] + 1] = a
          BY <2>0, <3>1, <4>2 DEF OrderInv, ChargesListed, Charged, Committed
        <5>2. a[1] + 1 \in 1 .. Len(campaign.iterations)
          BY <5>1, CampaignParts
        <5> QED BY <5>1, <5>2
      <4> QED BY <4>1, <4>2
    <3>2. \A i \in 1 .. Len(campaign.iterations) :
            campaign.iterations[i] \in Attempt /\ Charged(campaign.iterations[i])
      BY <2>0 DEF OrderInv, IterationsCharged
    <3>3. campaign.pending # None => campaign.pending \in Attempt /\ Charged(campaign.pending)
      BY <2>0 DEF OrderInv, PendingCharged
    <3>4. \A a \in Attempt : a # None
      BY NoRecordAssumption
    <3> QED BY <3>1, <3>2, <3>3, <3>4
  <2>4. InOrderOf(campaign.gen.folded, campaign.iterations)
    BY <2>0, ContinuesInOrder
  <2>5. \A i \in 1 .. Len(campaign.iterations) :
          fold[campaign.iterations[i]].status = "folded" =>
            \E k \in 1 .. Len(campaign.gen.folded) :
              campaign.gen.folded[k] = campaign.iterations[i]
    BY <2>0 DEF Continues
  <2> QED BY <2>1, <2>2, <2>3, <2>4, <2>5 DEF GeneratorMatchesHistory
<1> QED BY <1>1, SnapshotInvariant, PTL

-----------------------------------------------------------------------------
(* The campaign implements ExactlyOnceCampaign *)

\* The charged attempts in order, as the refinement mapping reads them off campaign.json.
Counted(c) == c.iterations \o (IF c.pending = None THEN <<>> ELSE <<c.pending>>)

LEMMA CountedValues ==
  ASSUME NEW c, c.iterations \in Seq(Attempt), c.pending \in Attempt \cup {None}
  PROVE  /\ c.pending = None => Counted(c) = c.iterations
         /\ c.pending # None => Counted(c) = Append(c.iterations, c.pending)
<1>1. c.iterations \o <<>> = c.iterations
  OBVIOUS
<1>2. \A a \in Attempt : c.iterations \o <<a>> = Append(c.iterations, a)
  OBVIOUS
<1> QED BY <1>1, <1>2 DEF Counted

\* The abstract state is a function of the launches and of campaign.json.
LEMMA AbstractStutter ==
  ASSUME launches' = launches, campaign'.iterations = campaign.iterations,
         campaign'.pending = campaign.pending, campaign'.status = campaign.status,
         campaign'.gen.folded = campaign.gen.folded
  PROVE  UNCHANGED Abstract!avars
  BY DEF Abstract!avars

LEMMA AbstractInit == Init => Abstract!Init
<1> SUFFICES ASSUME Init PROVE Abstract!Init
  OBVIOUS
<1>1. /\ campaign.iterations = <<>> /\ campaign.pending = None /\ campaign.status = "running"
      /\ campaign.gen.folded = <<>>
      /\ launches = [a \in Attempt |-> 0]
  BY DEF Init, FreshGenerator
<1> QED BY <1>1 DEF Abstract!Init

LEMMA AbstractStep ==
  TypeInv /\ JournalInv /\ HistoryInv /\ SnapshotInv /\ LaunchInv /\ [Next]_vars
    => [Abstract!Next]_(Abstract!avars)
<1> SUFFICES ASSUME TypeInv, JournalInv, HistoryInv, SnapshotInv, LaunchInv, [Next]_vars
             PROVE  Abstract!Next \/ UNCHANGED Abstract!avars
  OBVIOUS
<1>0. /\ campaign.iterations \in Seq(Attempt) /\ Len(campaign.iterations) \in Nat
      /\ campaign.pending \in Attempt \cup {None}
      /\ campaign.gen \in Generator /\ campaign.gen.folded \in Seq(Attempt)
      /\ cur \in Attempt
      /\ OrderInv /\ ProgressInv
  BY CampaignParts, SnapshotTypes DEF HistoryInv
<1>1. CASE Load \/ Generate \/ Recover \/ RejectBeforeStart \/ PublishStarted
           \/ RaiseAfterAgent \/ PublishExternal \/ PublishTerminal \/ PublishReceipt
           \/ Cleanup \/ PublishFold \/ Crash \/ Restart
  <2>1. UNCHANGED <<campaign, launches>>
    BY <1>1 DEF Load, Generate, Recover, RejectBeforeStart, PublishStarted, RaiseAfterAgent,
                PublishExternal, PublishTerminal, PublishReceipt, Cleanup, PublishFold, Crash,
                Restart, world
  <2> QED BY <2>1, AbstractStutter
<1>2. ASSUME NEW n \in 0 .. Cap - 1, SelectAttempt(n) PROVE UNCHANGED Abstract!avars
  BY <1>2, AbstractStutter DEF SelectAttempt, world
<1>3. ASSUME NEW candidate \in Candidates, PublishProposal(candidate)
      PROVE  UNCHANGED Abstract!avars
  BY <1>3, AbstractStutter DEF PublishProposal
<1>4. ASSUME NEW removed \in BOOLEAN, CleanupError(removed) PROVE UNCHANGED Abstract!avars
  BY <1>4, AbstractStutter DEF CleanupError
<1>5. ASSUME NEW status \in {"folded", "error"}, NEW absorbed \in BOOLEAN,
             CallFold(status, absorbed)
      PROVE  UNCHANGED Abstract!avars
  BY <1>5, AbstractStutter DEF CallFold, world
<1>6. ASSUME NEW began \in BOOLEAN, NEW manifest \in BOOLEAN, RunAgent(began, manifest)
      PROVE  Abstract!Next
  <2>1. /\ launches' = [launches EXCEPT ![cur] = 1] /\ launches[cur] = 0
        /\ campaign' = campaign
    BY <1>6 DEF RunAgent, LaunchInv, TypeInv, TypeOK
  <2>2. /\ campaign.pending = None /\ cur[1] = Len(campaign.iterations)
        /\ campaign.status = "running"
    BY <1>0, <1>6 DEF RunAgent, ProgressInv, Working, OrderInv, PendingCharged, Charged
  <2>3. {a \in Attempt : launches'[a] > 0} = {a \in Attempt : launches[a] > 0} \cup {cur}
    BY <1>0, <2>1 DEF TypeInv, TypeOK
  <2>4. Counted(campaign) = campaign.iterations
    BY <1>0, <2>2, CountedValues
  <2>5. PICK a \in Abstract!Attempt : a = cur
    BY <1>0 DEF Attempt, Abstract!Attempt
  <2>6. Abstract!Launch(a)
    BY <1>0, <2>1, <2>2, <2>3, <2>4, <2>5 DEF Abstract!Launch, Counted
  <2> QED BY <2>6 DEF Abstract!Next
<1>7. CASE Commit
  <2>1. campaign' = CommittedState(cur) /\ launches' = launches
    BY <1>7 DEF Commit, world
  <2>2. CASE Committed(cur)
    BY <2>1, <2>2, AbstractStutter DEF CommittedState
  <2>3. CASE ~Committed(cur)
    <3> DEFINE c == ConsumesBudget(receipt[cur].result)
    <3>1. /\ campaign'.iterations = campaign.iterations
          /\ campaign'.pending = IF c THEN cur ELSE campaign.pending
          /\ campaign'.gen = proposal[cur].gen
          /\ campaign'.status = campaign.status
      BY <2>1, <2>3 DEF CommittedState, TypeInv, TypeOK, CampaignState
    <3>2. /\ cur[1] = Len(campaign.iterations) /\ campaign.pending = None
          /\ campaign.status = "running" /\ proposal[cur] # None
      BY <1>0, <1>7, <2>3, NoRecordAssumption
         DEF Commit, ProgressInv, Working, OrderInv, PendingCharged, Charged, TypeInv, ControlOK
    <3>3. campaign'.gen.folded = campaign.gen.folded
      <4>1. proposal[cur].gen = Draw(campaign.gen)
        BY <1>0, <2>3, <3>2 DEF SnapshotInv, ProposalSnapshots
      <4> QED BY <1>0, <3>1, <4>1, DrawCounts
    <3>4. CASE ~c
      BY <2>1, <3>1, <3>3, <3>4, AbstractStutter
    <3>5. CASE c
      <4>1. campaign'.pending = cur /\ cur # None
        BY <1>0, <3>1, <3>5, NoRecordAssumption
      <4>2. Counted(campaign) = campaign.iterations
        BY <1>0, <3>2, CountedValues
      <4>3. Counted(campaign') = Append(campaign.iterations, cur)
        BY <1>0, <3>1, <4>1, CountedValues
      <4>4. Abstract!Charge(cur)
        BY <1>0, <2>1, <3>1, <3>2, <3>3, <4>2, <4>3 DEF Abstract!Charge, Counted
      <4>5. cur \in Abstract!Attempt
        BY <1>0 DEF Attempt, Abstract!Attempt
      <4> QED BY <4>4, <4>5 DEF Abstract!Next
    <3> QED BY <3>4, <3>5
  <2> QED BY <2>2, <2>3
<1>8. CASE Finalize
  <2>1. /\ campaign'.iterations = Append(campaign.iterations, cur)
        /\ campaign'.pending = None
        /\ campaign'.gen = fold[cur].gen
        /\ campaign'.status = campaign.status
        /\ launches' = launches
    BY <1>8 DEF Finalize, FinalizedState, world, TypeInv, TypeOK, CampaignState
  <2>2. /\ cur = campaign.pending /\ cur # None /\ fold[cur] # None
    BY <1>0, <1>8, NoRecordAssumption DEF Finalize, ProgressInv, TypeInv, ControlOK
  <2>3. FoldOutcome(cur, campaign.gen, fold[cur].status, fold[cur].gen)
    BY <1>0, <2>2 DEF SnapshotInv, PendingSnapshot, FoldSnapshots
  <2>4. Counted(campaign) = Append(campaign.iterations, cur)
    BY <1>0, <2>2, CountedValues
  <2>5. Counted(campaign') = Append(campaign.iterations, cur)
    BY <1>0, <2>1 DEF Counted
  <2>6. /\ Len(Append(campaign.iterations, cur)) = Len(campaign.iterations) + 1
        /\ Append(campaign.iterations, cur)[Len(campaign.iterations) + 1] = cur
    BY <1>0
  <2>7. campaign'.gen.folded \in {campaign.gen.folded, Append(campaign.gen.folded, cur)}
    BY <2>1, <2>3 DEF FoldOutcome
  <2>8. Abstract!Settle
    <3>1. Len(campaign.iterations) < Len(Counted(campaign))
      BY <1>0, <2>4, <2>6
    <3>2. Len(campaign'.iterations) = Len(campaign.iterations) + 1
      BY <2>1, <2>6
    <3>3. campaign'.gen.folded \in
            {campaign.gen.folded,
             Append(campaign.gen.folded, Counted(campaign)[Len(campaign.iterations) + 1])}
      BY <2>4, <2>6, <2>7
    <3>4. Counted(campaign') = Counted(campaign)
      BY <2>4, <2>5
    <3> QED BY <2>1, <3>1, <3>2, <3>3, <3>4 DEF Abstract!Settle, Counted
  <2> QED BY <2>8 DEF Abstract!Next
<1>9. CASE Finish
  <2>1. /\ campaign'.iterations = campaign.iterations
        /\ campaign'.pending = campaign.pending
        /\ campaign'.gen = campaign.gen
        /\ launches' = launches
        /\ campaign.status = "running"
    BY <1>0, <1>9 DEF Finish, world, ProgressInv, TypeInv, TypeOK, CampaignState
  <2>2. CASE NextOrdinal = Budget /\ campaign'.status = "completed"
    <3>1. Abstract!Complete
      BY <1>0, <2>1, <2>2 DEF Abstract!Complete, NextOrdinal
    <3> QED BY <3>1 DEF Abstract!Next
  <2>3. CASE /\ NextOrdinal < Budget
             /\ \A n \in 0 .. Cap - 1 :
                  Committed(<<NextOrdinal, n>>) /\ ~Charged(<<NextOrdinal, n>>)
             /\ campaign'.status = "aborted"
    <3>1. campaign.pending = None
      <4> SUFFICES ASSUME campaign.pending # None PROVE FALSE
        BY <1>0
      <4>1. /\ campaign.pending \in Attempt /\ Charged(campaign.pending)
            /\ campaign.pending[1] = NextOrdinal
        BY <1>0 DEF OrderInv, PendingCharged, NextOrdinal
      <4>2. \E n \in 0 .. Cap - 1 : campaign.pending = <<NextOrdinal, n>>
        BY <4>1 DEF Attempt
      <4> QED BY <2>3, <4>1, <4>2
    <3>2. Counted(campaign) = campaign.iterations
      BY <1>0, <3>1, CountedValues
    <3>3. Abstract!Abort
      BY <1>0, <2>1, <2>3, <3>1, <3>2 DEF Abstract!Abort, NextOrdinal, Counted
    <3> QED BY <3>3 DEF Abstract!Next
  <2>4. campaign'.status = "completed" \/ campaign'.status = "aborted"
    BY <1>9 DEF Finish, TypeInv, TypeOK, CampaignState
  <2> QED BY <1>9, <2>2, <2>3 DEF Finish, TypeInv, TypeOK, CampaignState
<1>10. CASE UNCHANGED vars
  BY <1>10, AbstractStutter DEF vars, world
<1> QED
  BY <1>1, <1>2, <1>3, <1>4, <1>5, <1>6, <1>7, <1>8, <1>9, <1>10
  DEF Next, Step, Terminated

\* The sequential engine implements the abstract campaign: whatever its process loses in
\* crashes, runs are launched once, charged in order and settled before the next launch.
THEOREM CampaignRefinesExactlyOnce == Spec => ImplementsExactlyOnce
<1>1. Init => TypeInv /\ LaunchInv
  BY TypeInvInit DEF Init, LaunchInv
<1>2. TypeInv /\ LaunchInv /\ [Next]_vars => (TypeInv /\ LaunchInv)'
  BY TypeInvStep, LaunchInvStep
<1>3. Spec => []LaunchInv
  BY <1>1, <1>2, PTL DEF Spec
<1>4. TypeInv /\ JournalInv /\ HistoryInv /\ SnapshotInv /\ LaunchInv /\ [Next]_vars
        => [Abstract!Next]_(Abstract!avars)
  BY AbstractStep
<1>5. Spec => Abstract!Spec
  BY <1>3, <1>4, AbstractInit, SnapshotInvariant, PTL DEF Spec, Abstract!Spec
<1> QED BY <1>5 DEF ImplementsExactlyOnce

-----------------------------------------------------------------------------
(* Every step but an interruption brings the campaign nearer to its end *)

\* How many steps a control point is from the end of its attempt, at most.
StepsFrom(point) ==
  CASE point = "down" -> 17         [] point = "load" -> 16
    [] point = "select" -> 15       [] point = "generate" -> 14
    [] point = "proposal" -> 13     [] point = "execute" -> 12
    [] point = "launch" -> 11       [] point = "external" -> 10
    [] point = "terminal" -> 9      [] point = "receipt" -> 8
    [] point = "cleanup" -> 7       [] point = "commit" -> 6
    [] point = "fold" -> 5          [] point = "foldReceipt" -> 4
    [] point = "finalize" -> 3      [] OTHER -> 0

\* The attempts not committed yet and the executions not in the iterations yet.
Pending == Cardinality(Attempt \ campaign.attempts) + (Budget - Len(campaign.iterations))

\* A bound on the steps left to an engine that is not interrupted. A commit or a fold takes
\* one from Pending, and the engine goes at most 12 steps back for it.
Work == 13 * Pending + StepsFrom(pc)

\* The process is killed, or ends because Docker did not remove an image.
Interrupted ==
  \/ crashes' = crashes + 1 /\ crashes' <= MaxCrashes /\ UNCHANGED campaign
  \/ \E removed \in BOOLEAN : CleanupError(removed)

Advances == Interrupted \/ (Work' < Work /\ crashes' = crashes)

\* The iterations never outnumber the budget.
BudgetKept == Len(campaign.iterations) <= Budget

\* Every engine at work, and every engine with iterations to come, is below the budget.
LEMMA BudgetHolds ==
  ASSUME TypeInv, JournalInv, HistoryInv
  PROVE  /\ Len(campaign.iterations) \in Nat /\ BudgetKept
         /\ pc \in Working => Len(campaign.iterations) < Budget
<1>1. /\ Len(campaign.iterations) \in Nat /\ campaign.iterations \in Seq(Attempt)
      /\ cur \in Attempt
  BY CampaignParts
<1>2. \A a \in Attempt : a[1] \in Nat /\ a[1] < Budget
  BY BudgetAssumption DEF Attempt
<1>3. BudgetKept
  <2> DEFINE n == Len(campaign.iterations)
  <2>1. ASSUME n > 0 PROVE n <= Budget
    <3>1. campaign.iterations[n] \in Attempt /\ campaign.iterations[n][1] = n - 1
      BY <1>1, <2>1 DEF HistoryInv, OrderInv, IterationsCharged
    <3> HIDE DEF n
    <3>2. n - 1 < Budget /\ n \in Nat
      BY <1>1, <1>2, <3>1 DEF n
    <3> QED BY <3>2, BudgetAssumption
  <2>2. n = 0 => n <= Budget
    BY BudgetAssumption
  <2> QED BY <1>1, <2>1, <2>2 DEF BudgetKept
<1>4. pc \in Working => Len(campaign.iterations) < Budget
  BY <1>1, <1>2 DEF HistoryInv, ProgressInv
<1> QED BY <1>1, <1>3, <1>4

\* What is left to do is a natural number.
LEMMA WorkIsNatural ==
  ASSUME TypeInv, JournalInv, HistoryInv
  PROVE  Pending \in Nat /\ StepsFrom(pc) \in 0 .. 17
<1>1. IsFiniteSet(Attempt)
  <2>1. IsFiniteSet(0 .. Budget - 1) /\ IsFiniteSet(0 .. Cap - 1)
    BY FS_Interval, BudgetAssumption, CapAssumption
  <2> QED BY <2>1, FS_Product DEF Attempt
<1>2. IsFiniteSet(Attempt \ campaign.attempts)
  BY <1>1, FS_Difference
<1>3. Cardinality(Attempt \ campaign.attempts) \in Nat
  BY <1>2, FS_CardinalityType
<1>4. Budget - Len(campaign.iterations) \in Nat
  BY BudgetHolds, BudgetAssumption DEF BudgetKept
<1> QED BY <1>3, <1>4 DEF Pending, StepsFrom

\* A commit leaves one attempt fewer to commit.
LEMMA CommitCounts ==
  ASSUME TypeInv, JournalInv, HistoryInv, NEW a \in Attempt, ~Committed(a)
  PROVE  /\ Cardinality(Attempt \ (campaign.attempts \cup {a}))
              = Cardinality(Attempt \ campaign.attempts) - 1
         /\ Cardinality(Attempt \ campaign.attempts) \in Nat
<1>1. IsFiniteSet(Attempt)
  <2>1. IsFiniteSet(0 .. Budget - 1) /\ IsFiniteSet(0 .. Cap - 1)
    BY FS_Interval, BudgetAssumption, CapAssumption
  <2> QED BY <2>1, FS_Product DEF Attempt
<1>2. IsFiniteSet(Attempt \ campaign.attempts) /\ a \in Attempt \ campaign.attempts
  BY <1>1, FS_Difference DEF Committed
<1>3. Attempt \ (campaign.attempts \cup {a}) = (Attempt \ campaign.attempts) \ {a}
  OBVIOUS
<1>4. Cardinality((Attempt \ campaign.attempts) \ {a})
        = Cardinality(Attempt \ campaign.attempts) - 1
  BY <1>2, FS_RemoveElement
<1> QED BY <1>2, <1>3, <1>4, FS_CardinalityType

LEMMA StepAdvances ==
  ASSUME TypeInv, JournalInv, HistoryInv, (TypeInv /\ JournalInv /\ HistoryInv)',
         Next, vars' # vars
  PROVE  Advances
<1>1. Pending \in Nat /\ Pending' \in Nat
      /\ StepsFrom(pc) \in 0 .. 17 /\ StepsFrom(pc)' \in 0 .. 17
  <2>1. Pending \in Nat /\ StepsFrom(pc) \in 0 .. 17
    BY WorkIsNatural
  <2>2. (TypeInv /\ JournalInv /\ HistoryInv => Pending \in Nat /\ StepsFrom(pc) \in 0 .. 17)'
    BY WorkIsNatural, PTL
  <2> QED BY <2>1, <2>2
<1>2. ASSUME UNCHANGED <<campaign, crashes>>, StepsFrom(pc)' < StepsFrom(pc) PROVE Advances
  <2>1. Pending' = Pending
    BY <1>2 DEF Pending
  <2>2. Work' < Work
    BY <1>1, <1>2, <2>1 DEF Work
  <2> QED BY <1>2, <2>2 DEF Advances
<1>3. ASSUME Pending' = Pending - 1, StepsFrom(pc)' <= StepsFrom(pc) + 12, crashes' = crashes
      PROVE  Advances
  <2>1. Work' < Work
    BY <1>1, <1>3 DEF Work
  <2> QED BY <1>3, <2>1 DEF Advances
<1>4. CASE Load
  <2>1. UNCHANGED <<campaign, crashes>> /\ pc = "load" /\ pc' \in {"refused", "done", "select"}
    BY <1>4 DEF Load
  <2> QED BY <1>2, <2>1 DEF StepsFrom
<1>5. ASSUME NEW n \in 0 .. Cap - 1, SelectAttempt(n) PROVE Advances
  <2>1. /\ UNCHANGED <<campaign, crashes>> /\ pc = "select"
        /\ pc' \in {"generate", "execute", "cleanup"}
    BY <1>5 DEF SelectAttempt, ResumePoint
  <2> QED BY <1>2, <2>1 DEF StepsFrom
<1>6. CASE Generate
  BY <1>2, <1>6 DEF Generate, StepsFrom
<1>7. ASSUME NEW candidate \in Candidates, PublishProposal(candidate) PROVE Advances
  BY <1>2, <1>7 DEF PublishProposal, StepsFrom
<1>8. CASE Recover
  BY <1>2, <1>8 DEF Recover, StepsFrom
<1>9. CASE RejectBeforeStart
  BY <1>2, <1>9 DEF RejectBeforeStart, StepsFrom
<1>10. CASE PublishStarted
  BY <1>2, <1>10 DEF PublishStarted, StepsFrom
<1>11. ASSUME NEW began \in BOOLEAN, NEW manifest \in BOOLEAN, RunAgent(began, manifest)
       PROVE  Advances
  BY <1>2, <1>11 DEF RunAgent, StepsFrom
<1>12. CASE RaiseAfterAgent
  BY <1>2, <1>12 DEF RaiseAfterAgent, StepsFrom
<1>13. CASE PublishExternal \/ PublishTerminal \/ PublishReceipt
  BY <1>2, <1>13 DEF PublishExternal, PublishTerminal, PublishReceipt, StepsFrom
<1>14. CASE Cleanup
  BY <1>2, <1>14 DEF Cleanup, StepsFrom
<1>15. ASSUME NEW removed \in BOOLEAN, CleanupError(removed) PROVE Advances
  BY <1>15 DEF Advances, Interrupted
<1>16. CASE Commit
  <2>1. /\ crashes' = crashes /\ pc = "commit" /\ campaign' = CommittedState(cur)
        /\ pc' \in {"select", "fold", "finalize"}
        /\ pc' = "select" => ~ConsumesBudget(receipt[cur].result)
    BY <1>16 DEF Commit
  <2>2. cur \in Attempt /\ campaign \in CampaignState
    BY DEF TypeInv, TypeOK
  <2>3. CASE Committed(cur)
    <3>1. campaign' = campaign
      BY <2>1, <2>3 DEF CommittedState
    <3>2. cur = campaign.pending /\ campaign.pending # None
      BY <2>1, <2>2, <2>3, NoRecordAssumption DEF HistoryInv, ProgressInv, Working
    <3>3. ConsumesBudget(receipt[cur].result)
      BY <3>2 DEF HistoryInv, OrderInv, PendingCharged, Charged
    <3>4. StepsFrom(pc)' < StepsFrom(pc)
      BY <2>1, <3>3 DEF StepsFrom
    <3> QED BY <1>2, <2>1, <3>1, <3>4
  <2>4. CASE ~Committed(cur)
    <3>1. /\ campaign'.attempts = campaign.attempts \cup {cur}
          /\ campaign'.iterations = campaign.iterations
      BY <2>1, <2>2, <2>4 DEF CommittedState, CampaignState
    <3>2. Pending' = Pending - 1
      <4>1. Len(campaign.iterations) \in Nat
        BY BudgetHolds
      <4>2. /\ Cardinality(Attempt \ (campaign.attempts \cup {cur}))
                 = Cardinality(Attempt \ campaign.attempts) - 1
            /\ Cardinality(Attempt \ campaign.attempts) \in Nat
        BY <2>2, <2>4, CommitCounts
      <4> DEFINE before == Cardinality(Attempt \ campaign.attempts)
                 after == Cardinality(Attempt \ (campaign.attempts \cup {cur}))
                 left == Budget - Len(campaign.iterations)
      <4>3. Pending = before + left /\ Pending' = after + left
        BY <3>1 DEF Pending
      <4>4. before \in Nat /\ after = before - 1 /\ left \in Int
        BY <4>1, <4>2, BudgetAssumption
      <4> HIDE DEF before, after, left
      <4> QED BY <4>3, <4>4
    <3>3. StepsFrom(pc)' <= StepsFrom(pc) + 12
      BY <2>1 DEF StepsFrom
    <3> QED BY <1>3, <2>1, <3>2, <3>3
  <2> QED BY <2>3, <2>4
<1>17. ASSUME NEW status \in {"folded", "error"}, NEW absorbed \in BOOLEAN,
              CallFold(status, absorbed)
       PROVE  Advances
  BY <1>2, <1>17 DEF CallFold, StepsFrom
<1>18. CASE PublishFold
  BY <1>2, <1>18 DEF PublishFold, StepsFrom
<1>19. CASE Finalize
  <2>1. /\ crashes' = crashes /\ pc = "finalize" /\ pc' = "select"
        /\ campaign' = FinalizedState(cur)
    BY <1>19 DEF Finalize
  <2>2. /\ cur \in Attempt /\ campaign \in CampaignState
        /\ campaign.iterations \in Seq(Attempt)
    BY DEF TypeInv, TypeOK, CampaignState
  <2>3. /\ campaign'.attempts = campaign.attempts
        /\ campaign'.iterations = Append(campaign.iterations, cur)
    BY <2>1, <2>2 DEF FinalizedState, CampaignState
  <2>4. Len(campaign.iterations)' = Len(campaign.iterations) + 1
    BY <2>2, <2>3
  <2>5. Pending' = Pending - 1
    <3>1. Len(campaign.iterations) \in Nat
      BY BudgetHolds
    <3>2. Cardinality(Attempt \ campaign.attempts) \in Nat
      <4>1. campaign.attempts \subseteq Attempt /\ IsFiniteSet(Attempt)
        <5>1. IsFiniteSet(0 .. Budget - 1) /\ IsFiniteSet(0 .. Cap - 1)
          BY FS_Interval, BudgetAssumption, CapAssumption
        <5> QED BY <2>2, <5>1, FS_Product DEF Attempt, CampaignState
      <4>2. IsFiniteSet(Attempt \ campaign.attempts)
        BY <4>1, FS_Difference
      <4> QED BY <4>2, FS_CardinalityType
    <3> QED BY <2>3, <2>4, <3>1, <3>2, BudgetAssumption DEF Pending
  <2>6. StepsFrom(pc)' <= StepsFrom(pc) + 12
    BY <2>1 DEF StepsFrom
  <2> QED BY <1>3, <2>1, <2>5, <2>6
<1>20. CASE Finish
  <2>1. /\ crashes' = crashes /\ pc = "select" /\ pc' = "done"
        /\ campaign \in CampaignState
        /\ \E s \in {"completed", "aborted"} : campaign' = [campaign EXCEPT !.status = s]
    BY <1>20 DEF Finish, TypeInv, TypeOK
  <2>2. campaign'.attempts = campaign.attempts /\ campaign'.iterations = campaign.iterations
    BY <2>1 DEF CampaignState
  <2>3. Pending' = Pending /\ StepsFrom(pc)' < StepsFrom(pc)
    BY <2>1, <2>2 DEF Pending, StepsFrom
  <2>4. Work' < Work
    BY <1>1, <2>3 DEF Work
  <2> QED BY <2>1, <2>4 DEF Advances
<1>21. CASE Crash
  <2>1. crashes' = crashes + 1 /\ crashes < MaxCrashes /\ crashes \in Nat /\ MaxCrashes \in Nat
        /\ UNCHANGED campaign
    BY <1>21, CrashAssumption DEF Crash, TypeInv, TypeOK
  <2> QED BY <2>1 DEF Advances, Interrupted
<1>22. CASE Restart
  BY <1>2, <1>22 DEF Restart, StepsFrom
<1>23. ~Terminated
  BY DEF Terminated
<1> QED
  BY <1>4, <1>5, <1>6, <1>7, <1>8, <1>9, <1>10, <1>11, <1>12, <1>13, <1>14, <1>15, <1>16,
     <1>17, <1>18, <1>19, <1>20, <1>21, <1>22, <1>23 DEF Next, Step

\* Only a kill or an image that Docker keeps puts the end of the campaign off: every other
\* step of the engine reduces what is left to do, so that a process that is neither killed
\* nor refused an image ends after at most 13 steps per attempt and execution, and the
\* iterations never outnumber the budget (run, _process_attempt).
THEOREM CampaignAdvances == Spec => [][Advances]_vars /\ []BudgetKept
<1>1. TypeInv /\ JournalInv /\ HistoryInv /\ (TypeInv /\ JournalInv /\ HistoryInv)'
        /\ [Next]_vars => [Advances]_vars
  BY StepAdvances
<1>2. TypeInv /\ JournalInv /\ HistoryInv => BudgetKept
  BY BudgetHolds
<1> QED BY <1>1, <1>2, HistoryInvariant, PTL DEF Spec
=============================================================================
