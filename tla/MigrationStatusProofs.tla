------------------------ MODULE MigrationStatusProofs ------------------------
(***************************************************************************)
(* Proofs, for every number of data structures and either query-failure   *)
(* mode, that the `migration status` command model keeps its types, never *)
(* renders a data structure migrated that the remote has not completed,   *)
(* and prints OK only when every data structure is complete.              *)
(*                                                                         *)
(* The argument: IInv == TypeOK /\ StageInv (MigrationStatus) holds        *)
(* initially and every step of Next preserves it.  Each step lemma has one *)
(* step per action.  The remote actions preserve StageInv because COMPLETE *)
(* items never change and the record never goes back to missing or        *)
(* STARTED; the CLI actions because the gate lets the CLI past only on     *)
(* IN_PROGRESS, so the poller never takes its STARTED-means-success branch.*)
(***************************************************************************)
EXTENDS MigrationStatus, TLAPS

(* The two status switches of statusReaderLoop yield a stage class or      *)
(* "continue" for every status the record can hold.                        *)
LEMMA OverallClassRange ==
    ASSUME NEW ok \in BOOLEAN, NEW s \in OverallStatuses
    PROVE  OverallClass(ok, s) \in StageClasses \cup {"continue"}
BY DEF OverallClass, FetchMigrationStatus, OverallStatuses, StageClasses

LEMMA ItemClassRange ==
    ASSUME NEW ok \in BOOLEAN, NEW s \in ItemStatuses
    PROVE  ItemClass(ok, s) \in StageClasses \cup {"continue"}
BY DEF ItemClass, ItemStatuses, StageClasses

LEMMA QueryOutcomesBoolean ==
    ASSUME NEW d PROVE QueryOutcomes(d) \subseteq BOOLEAN
BY QueryMayFailAssumption DEF QueryOutcomes

(* The initial state satisfies the inductive invariant.                    *)
LEMMA InitIInv == Init => IInv
<1> SUFFICES ASSUME Init PROVE TypeOK /\ StageInv
  BY DEF IInv
<1>1. TypeOK
  <2>1. items \in [Items -> ItemStatuses] /\ outcome \in [Items -> StageClasses \cup {"none"}]
    BY DEF Init, ItemStatuses, StageClasses
  <2>2. cur \in 1..NItems + 1
    BY NItemsAssumption DEF Init
  <2>3. QED
    BY <2>1, <2>2 DEF Init, TypeOK, OverallStatuses, Reports, PipelineErrors,
       Results, PCs
<1>2. StageInv
  BY DEF Init, StageInv, SuccessMeansComplete
<1>3. QED
  BY <1>1, <1>2

-----------------------------------------------------------------------------
(* Types.                                                                  *)

(* A stage returning with any class keeps the variables typed.             *)
LEMMA FinishTypeOK ==
    ASSUME TypeOK, NEW c \in StageClasses, cur \in Items, Finish(c),
           UNCHANGED <<remoteVars, envVars>>
    PROVE  TypeOK'
BY NItemsAssumption DEF TypeOK, Items, Finish, StageClasses, PipelineErrors,
   PCs, remoteVars, envVars

(* Every step of Next, and every stutter, keeps the variables typed while  *)
(* a running stage has an index.                                           *)
LEMMA NextTypeOK ==
    TypeOK /\ (pc \in {"poll", "item"} => cur \in Items) /\ [Next]_vars
      => TypeOK'
<1> SUFFICES ASSUME TypeOK, pc \in {"poll", "item"} => cur \in Items,
                    [Next]_vars
             PROVE TypeOK'
  OBVIOUS
<1> USE NItemsAssumption DEF TypeOK, Items
<1>1. CASE RCreate
  BY <1>1 DEF RCreate, OverallStatuses, Reports, envVars, cliVars
<1>2. CASE RStart
  BY <1>2 DEF RStart, OverallStatuses, envVars, cliVars
<1>3. CASE RItemStep
  BY <1>3 DEF RItemStep, ItemStatuses, envVars, cliVars
<1>4. CASE RComplete
  BY <1>4 DEF RComplete, OverallStatuses, Reports, envVars, cliVars
<1>5. CASE RFail
  BY <1>5 DEF RFail, OverallStatuses, Reports, envVars, cliVars
<1>6. CASE RCancel
  BY <1>6 DEF RCancel, OverallStatuses, envVars, cliVars
<1>7. CASE RItemCancel
  BY <1>7 DEF RItemCancel, ItemStatuses, envVars, cliVars
<1>8. CASE RCanceled
  BY <1>8 DEF RCanceled, OverallStatuses, Reports, envVars, cliVars
<1>9. CASE CtxCancel
  BY <1>9 DEF CtxCancel, remoteVars, cliVars
<1>10. CASE GateTimeout
  BY <1>10 DEF GateTimeout, remoteVars, cliVars
<1>11. CASE Gate
  BY <1>11 DEF Gate, FetchMigrationStatus, PCs, Results, remoteVars, envVars, cliVars
<1>12. CASE Discover
  BY <1>12 DEF Discover, PCs, Results, remoteVars, envVars
<1>13. CASE ExecNext
  BY <1>13 DEF ExecNext, PCs, PipelineErrors, remoteVars, envVars
<1>14. CASE PollTop
  <2>1. CASE ctxErr # "none" /\ Finish(CtxStopClass)
    BY <1>14, <2>1, FinishTypeOK DEF PollTop, CtxStopClass, StageClasses
  <2>2. CASE \E ok \in QueryOutcomes(FALSE) :
               LET c == OverallClass(ok, status) IN
               IF c = "continue"
                 THEN pc' = "item" /\ UNCHANGED <<cur, outcome, pipeErr, result>>
                 ELSE Finish(c)
    <3>1. PICK ok \in QueryOutcomes(FALSE) :
               LET c == OverallClass(ok, status) IN
               IF c = "continue"
                 THEN pc' = "item" /\ UNCHANGED <<cur, outcome, pipeErr, result>>
                 ELSE Finish(c)
      BY <2>2
    <3>2. OverallClass(ok, status) \in StageClasses \cup {"continue"}
      BY QueryOutcomesBoolean, OverallClassRange
    <3>3. CASE OverallClass(ok, status) = "continue"
      <4>1. pc' = "item" /\ UNCHANGED <<cur, outcome, pipeErr, result>>
        BY <3>1, <3>3
      <4>2. QED
        BY <1>14, <4>1 DEF PollTop, PCs, remoteVars, envVars
    <3>4. CASE OverallClass(ok, status) # "continue"
      <4>1. OverallClass(ok, status) \in StageClasses
        BY <3>2, <3>4
      <4>2. Finish(OverallClass(ok, status))
        BY <3>1, <3>4
      <4>3. cur \in Items /\ UNCHANGED <<remoteVars, envVars>>
        BY <1>14 DEF PollTop
      <4>4. QED
        BY <4>1, <4>2, <4>3, FinishTypeOK
    <3>5. QED
      BY <3>3, <3>4
  <2>3. QED
    BY <1>14, <2>1, <2>2 DEF PollTop
<1>15. CASE PollItem
  <2>1. PICK ok \in QueryOutcomes(ctxErr # "none") :
           LET c == ItemClass(ok, items[cur]) IN
           IF c = "continue"
             THEN pc' = "poll" /\ UNCHANGED <<cur, outcome, pipeErr, result>>
             ELSE Finish(c)
    BY <1>15 DEF PollItem
  <2>2. ItemClass(ok, items[cur]) \in StageClasses \cup {"continue"}
    BY <1>15, QueryOutcomesBoolean, ItemClassRange DEF PollItem
  <2>3. CASE ItemClass(ok, items[cur]) = "continue"
    <3>1. pc' = "poll" /\ UNCHANGED <<cur, outcome, pipeErr, result>>
      BY <2>1, <2>3
    <3>2. QED
      BY <1>15, <3>1 DEF PollItem, PCs, remoteVars, envVars
  <2>4. CASE ItemClass(ok, items[cur]) # "continue"
    <3>1. ItemClass(ok, items[cur]) \in StageClasses
      BY <2>2, <2>4
    <3>2. Finish(ItemClass(ok, items[cur]))
      BY <2>1, <2>4
    <3>3. cur \in Items /\ UNCHANGED <<remoteVars, envVars>>
      BY <1>15 DEF PollItem
    <3>4. QED
      BY <3>1, <3>2, <3>3, FinishTypeOK
  <2>5. QED
    BY <2>3, <2>4
<1>16. CASE Finalize
  BY <1>16 DEF Finalize, FinalizeOutcome, SaveReportToFile, FetchMigrationReport, CommandResult, Results, PCs,
     PipelineErrors, remoteVars, envVars
<1>17. CASE Terminated \/ UNCHANGED vars
  BY <1>17 DEF Terminated, vars
<1>18. QED
  BY <1>1, <1>2, <1>3, <1>4, <1>5, <1>6, <1>7, <1>8, <1>9, <1>10, <1>11,
     <1>12, <1>13, <1>14, <1>15, <1>16, <1>17
     DEF Next, CliNext, RemoteNext, EnvNext

-----------------------------------------------------------------------------
(* The stage invariant.                                                    *)

(* A stage returning with class c keeps StageInv: success needs the item  *)
(* to be COMPLETE; any class other than success or ignored stops the      *)
(* pipeline with that class as its error.                                  *)
LEMMA FinishStageInv ==
    ASSUME TypeOK, StageInv, TypeOK', pc \in {"poll", "item"},
           NEW c \in StageClasses, c = "success" => items[cur] = "COMPLETE",
           Finish(c), UNCHANGED <<remoteVars, envVars>>
    PROVE  StageInv'
<1> USE NItemsAssumption DEF TypeOK, Items
<1>1. cur \in Items
  BY DEF StageInv
<1>2. CASE c \in {"success", "ignored"}
  BY <1>1, <1>2 DEF StageInv, SuccessMeansComplete, Finish, remoteVars,
     envVars
<1>3. CASE c \notin {"success", "ignored"}
  BY <1>1, <1>3 DEF StageInv, SuccessMeansComplete, Finish, remoteVars,
     envVars, StageClasses
<1>4. QED
  BY <1>2, <1>3

(* Every step of Next, and every stutter, preserves StageInv.              *)
LEMMA NextStageInv == TypeOK /\ StageInv /\ TypeOK' /\ [Next]_vars => StageInv'
<1> SUFFICES ASSUME TypeOK, StageInv, TypeOK', [Next]_vars PROVE StageInv'
  OBVIOUS
<1> USE NItemsAssumption DEF TypeOK, Items
<1>1. CASE RCreate
  BY <1>1 DEF RCreate, StageInv, SuccessMeansComplete, envVars, cliVars
<1>2. CASE RStart
  BY <1>2 DEF RStart, StageInv, SuccessMeansComplete, envVars, cliVars
<1>3. CASE RItemStep
  BY <1>3 DEF RItemStep, StageInv, SuccessMeansComplete, envVars, cliVars
<1>4. CASE RComplete
  BY <1>4 DEF RComplete, StageInv, SuccessMeansComplete, envVars, cliVars
<1>5. CASE RFail
  BY <1>5 DEF RFail, StageInv, SuccessMeansComplete, envVars, cliVars
<1>6. CASE RCancel
  BY <1>6 DEF RCancel, StageInv, SuccessMeansComplete, envVars, cliVars
<1>7. CASE RItemCancel
  BY <1>7 DEF RItemCancel, ItemTerminal, StageInv, SuccessMeansComplete,
     envVars, cliVars
<1>8. CASE RCanceled
  BY <1>8 DEF RCanceled, StageInv, SuccessMeansComplete, envVars, cliVars
<1>9. CASE CtxCancel
  BY <1>9 DEF CtxCancel, StageInv, SuccessMeansComplete, remoteVars, cliVars
<1>10. CASE GateTimeout
  BY <1>10 DEF GateTimeout, StageInv, SuccessMeansComplete, remoteVars,
     cliVars
<1>11. CASE Gate
  BY <1>11 DEF Gate, FetchMigrationStatus, StageInv, SuccessMeansComplete, remoteVars, envVars,
     cliVars
<1>12. CASE Discover
  BY <1>12 DEF Discover, StageInv, SuccessMeansComplete, remoteVars, envVars
<1>13. CASE ExecNext
  <2> USE DEF StageInv, SuccessMeansComplete
  <2>1. UNCHANGED <<outcome, result, remoteVars, envVars>> /\ pc = "exec"
    BY <1>13 DEF ExecNext
  <2>2. CASE ctxErr # "none" /\ pc' = "finalize" /\ pipeErr' = "ctx"
                /\ UNCHANGED cur
    BY <2>1, <2>2 DEF remoteVars, envVars
  <2>3. CASE ctxErr = "none" /\ cur \in Items /\ pc' = "poll"
                /\ UNCHANGED <<cur, pipeErr>>
    BY <2>1, <2>3 DEF remoteVars, envVars
  <2>4. CASE /\ ctxErr = "none"
             /\ cur = NItems + 1
             /\ pc' = "finalize"
             /\ pipeErr' = IF \E i \in Items : outcome[i] = "ignored"
                             THEN "ignored" ELSE "none"
             /\ UNCHANGED cur
    <3>1. \A i \in Items : outcome[i] \in {"success", "ignored"}
      BY <2>1, <2>4
    <3>2. pipeErr' = "none" => \A i \in Items : outcome'[i] = "success"
      BY <2>1, <2>4, <3>1
    <3>3. QED
      BY <2>1, <2>4, <3>2 DEF remoteVars, envVars
  <2>5. QED
    BY <1>13, <2>2, <2>3, <2>4 DEF ExecNext
<1>14. CASE PollTop
  <2>1. pc = "poll" /\ UNCHANGED <<remoteVars, envVars>>
    BY <1>14 DEF PollTop
  <2>2. status \notin {"NONE", "STARTED"} /\ cur \in Items
    BY <2>1 DEF StageInv
  <2>3. CASE ctxErr # "none" /\ Finish(CtxStopClass)
    BY <2>1, <2>3, FinishStageInv DEF CtxStopClass, StageClasses
  <2>4. CASE \E ok \in QueryOutcomes(FALSE) :
               LET c == OverallClass(ok, status) IN
               IF c = "continue"
                 THEN pc' = "item" /\ UNCHANGED <<cur, outcome, pipeErr, result>>
                 ELSE Finish(c)
    <3>1. PICK ok \in QueryOutcomes(FALSE) :
               LET c == OverallClass(ok, status) IN
               IF c = "continue"
                 THEN pc' = "item" /\ UNCHANGED <<cur, outcome, pipeErr, result>>
                 ELSE Finish(c)
      BY <2>4
    <3>2. OverallClass(ok, status) \in StageClasses \cup {"continue"}
      BY QueryOutcomesBoolean, OverallClassRange
    <3>3. CASE OverallClass(ok, status) = "continue"
      <4>1. pc' = "item" /\ UNCHANGED <<cur, outcome, pipeErr, result>>
        BY <3>1, <3>3
      <4>2. QED
        BY <2>1, <4>1 DEF StageInv, SuccessMeansComplete, remoteVars, envVars
    <3>4. CASE OverallClass(ok, status) # "continue"
      <4>1. OverallClass(ok, status) \in StageClasses
        BY <3>2, <3>4
      <4>2. Finish(OverallClass(ok, status))
        BY <3>1, <3>4
      <4>3. OverallClass(ok, status) = "success" => items[cur] = "COMPLETE"
        <5>1. OverallClass(ok, status) = "success" => status = "COMPLETE"
          BY <2>2, QueryOutcomesBoolean DEF OverallClass, FetchMigrationStatus, OverallStatuses
        <5>2. QED
          BY <2>2, <5>1 DEF StageInv
      <4>4. QED
        BY <2>1, <4>1, <4>2, <4>3, FinishStageInv
    <3>5. QED
      BY <3>3, <3>4
  <2>5. QED
    BY <1>14, <2>3, <2>4 DEF PollTop
<1>15. CASE PollItem
  <2>1. pc = "item" /\ UNCHANGED <<remoteVars, envVars>>
    BY <1>15 DEF PollItem
  <2>2. PICK ok \in QueryOutcomes(ctxErr # "none") :
           LET c == ItemClass(ok, items[cur]) IN
           IF c = "continue"
             THEN pc' = "poll" /\ UNCHANGED <<cur, outcome, pipeErr, result>>
             ELSE Finish(c)
    BY <1>15 DEF PollItem
  <2>3. cur \in Items
    BY <2>1 DEF StageInv
  <2>4. ItemClass(ok, items[cur]) \in StageClasses \cup {"continue"}
    BY <2>3, QueryOutcomesBoolean, ItemClassRange
  <2>5. CASE ItemClass(ok, items[cur]) = "continue"
    <3>1. pc' = "poll" /\ UNCHANGED <<cur, outcome, pipeErr, result>>
      BY <2>2, <2>5
    <3>2. QED
      BY <2>1, <3>1 DEF StageInv, SuccessMeansComplete, remoteVars, envVars
  <2>6. CASE ItemClass(ok, items[cur]) # "continue"
    <3>1. ItemClass(ok, items[cur]) \in StageClasses
      BY <2>4, <2>6
    <3>2. Finish(ItemClass(ok, items[cur]))
      BY <2>2, <2>6
    <3>3. ItemClass(ok, items[cur]) = "success" => items[cur] = "COMPLETE"
      BY DEF ItemClass
    <3>4. QED
      BY <2>1, <3>1, <3>2, <3>3, FinishStageInv
  <2>7. QED
    BY <2>5, <2>6
<1>16. CASE Finalize
  <2>1. pc = "finalize" /\ pc' = "done"
        /\ UNCHANGED <<cur, outcome, pipeErr, remoteVars, envVars>>
    BY <1>16 DEF Finalize
  <2>2. PICK logsOK \in SaveMemberLogsOutcomes, ok \in QueryOutcomes(ctxErr # "none"),
             writeOK \in BOOLEAN :
          result' = CommandResult(FinalizeOutcome(logsOK, ok, writeOK, report),
                                  pipeErr)
    BY <1>16 DEF Finalize
  <2>3. result' = "ok" => pipeErr = "none"
    BY <2>2 DEF CommandResult, PipelineErrors
  <2>4. QED
    BY <2>1, <2>3 DEF StageInv, SuccessMeansComplete, remoteVars, envVars
<1>17. CASE Terminated \/ UNCHANGED vars
  <2>1. UNCHANGED vars
    BY <1>17 DEF Terminated
  <2>2. QED
    BY <2>1 DEF vars, StageInv, SuccessMeansComplete
<1>18. QED
  BY <1>1, <1>2, <1>3, <1>4, <1>5, <1>6, <1>7, <1>8, <1>9, <1>10, <1>11,
     <1>12, <1>13, <1>14, <1>15, <1>16, <1>17
     DEF Next, CliNext, RemoteNext, EnvNext

-----------------------------------------------------------------------------
(* The theorems.                                                           *)

(* IInv is inductive.                                                      *)
LEMMA NextIInv == IInv /\ [Next]_vars => IInv'
<1> SUFFICES ASSUME IInv, [Next]_vars PROVE IInv'
  OBVIOUS
<1>1. TypeOK'
  BY NextTypeOK DEF IInv, StageInv
<1>2. StageInv'
  BY <1>1, NextStageInv DEF IInv
<1>3. QED
  BY <1>1, <1>2 DEF IInv

(* IInv holds in every state of every behaviour of Spec.                   *)
LEMMA AlwaysIInv == Spec => []IInv
BY InitIInv, NextIInv, PTL DEF Spec

(* Every variable stays in its type.                                       *)
THEOREM TypeCorrect == Spec => []TypeOK
<1>1. IInv => TypeOK
  BY DEF IInv
<1>2. QED
  BY <1>1, AlwaysIInv, PTL

(* No status-polling stage returns success (renders "Migrated ...") for a  *)
(* data structure that the remote record does not report COMPLETE: the     *)
(* start-gate keeps the poller from its STARTED-means-success branch.      *)
THEOREM StagesSucceedOnlyWhenComplete == Spec => []SuccessMeansComplete
<1>1. IInv => SuccessMeansComplete
  BY DEF IInv, StageInv
<1>2. QED
  BY <1>1, AlwaysIInv, PTL

(* The status command returns OK only when every data structure is         *)
(* COMPLETE in the remote record, whatever the number of data structures.  *)
THEOREM OkMeansAllComplete == Spec => []OkOnlyIfAllComplete
<1>1. IInv => OkOnlyIfAllComplete
  BY DEF IInv, StageInv, OkOnlyIfAllComplete, SuccessMeansComplete
<1>2. QED
  BY <1>1, AlwaysIInv, PTL

=============================================================================
