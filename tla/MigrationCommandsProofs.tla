----------------------- MODULE MigrationCommandsProofs -----------------------
(***************************************************************************)
(* Proofs, for every number of stages, that the start command runs no     *)
(* stage without consent and that start and estimate print OK only when   *)
(* every stage succeeded.                                                  *)
(*                                                                         *)
(* The commands touch the executor's state only through its own actions,  *)
(* so every step is an executor step or leaves its state alone             *)
(* (ExecutorStep); the executor's contract, proved in StageExecutor, then  *)
(* holds in the composition.  CInv adds what the commands know: before    *)
(* Execute is called the executor is idle, a start command reaches        *)
(* Execute only with consent, and Exec's OK records that Execute stopped  *)
(* with a nil error.  With the contract, a nil error means that every     *)
(* stage ran and none was ignored, so every stage succeeded.               *)
(***************************************************************************)
EXTENDS MigrationCommands, TLAPS

CInv ==
    /\ TypeOK
    /\ E!ExecutorContract
    /\ pc \in {"confirm", "build"} => phase = "idle"
    /\ pc = "build" => cmd = "estimate"
    /\ (cmd = "start" /\ pc = "exec") => (autoYes \/ answer = "yes")
    /\ StartedOnlyWithConsent
    /\ pc # "done" => result = "none"
    /\ result = "ok" => (phase = "stopped" /\ err = "none")

(* Every step of a command is a step of the executor or leaves it alone.   *)
LEMMA ExecutorStep == [Next]_vars => [E!Next]_E!vars
<1> SUFFICES ASSUME [Next]_vars PROVE [E!Next]_E!vars
  OBVIOUS
<1>1. CASE ExecStep
  BY <1>1 DEF ExecStep, E!Next
<1>2. CASE Cancel
  BY <1>2 DEF Cancel, E!Next
<1>3. CASE Confirm \/ Build \/ Report \/ Terminated \/ UNCHANGED vars
  BY <1>3 DEF Confirm, Build, Report, Terminated, vars, exVars, E!vars
<1>4. QED
  BY <1>1, <1>2, <1>3 DEF Next

LEMMA InitCInv == Init => CInv
<1> SUFFICES ASSUME Init PROVE CInv
  OBVIOUS
<1>1. E!TypeOK /\ E!ExecutorContract
  BY E!InitContract, NStagesAssumption DEF Init, E!ContractInv
<1>2. QED
  BY <1>1 DEF Init, E!Init, CInv, TypeOK, Results, StartedOnlyWithConsent

LEMMA NextCInv == CInv /\ [Next]_vars => CInv'
<1> SUFFICES ASSUME CInv, [Next]_vars PROVE CInv'
  OBVIOUS
<1>1. E!TypeOK' /\ E!ExecutorContract'
  <2>1. [E!Next]_E!vars
    BY ExecutorStep
  <2>2. QED
    BY <2>1, E!NextContract, NStagesAssumption DEF CInv, TypeOK, E!ContractInv
<1> USE DEF CInv, TypeOK, StartedOnlyWithConsent
<1>2. CASE Confirm
  <2>1. pc = "confirm" /\ phase = "idle" /\ UNCHANGED <<cmd, autoYes, phase>>
    BY <1>2 DEF Confirm, exVars
  <2>2. CASE autoYes
    BY <1>1, <1>2, <2>1, <2>2 DEF Confirm
  <2>3. CASE ~autoYes
    <3>1. PICK a \in {"yes", "no", "error"} :
            /\ answer' = a
            /\ IF a = "yes"
                 THEN pc' = "exec" /\ UNCHANGED result
                 ELSE pc' = "done" /\ result' = "usercancelled"
      BY <1>2, <2>3 DEF Confirm
    <3>2. QED
      BY <1>1, <2>1, <3>1 DEF Results
  <2>4. QED
    BY <2>2, <2>3
<1>3. CASE Build
  <2>1. pc = "build" /\ phase = "idle" /\ cmd = "estimate"
        /\ UNCHANGED <<cmd, autoYes, answer, phase>>
    BY <1>3 DEF Build, exVars
  <2>2. CASE pc' = "exec" /\ UNCHANGED result
    BY <1>1, <2>1, <2>2
  <2>3. CASE pc' = "done" /\ result' = "builderr"
    BY <1>1, <2>1, <2>3 DEF Results
  <2>4. QED
    BY <1>3, <2>2, <2>3 DEF Build
<1>4. CASE ExecStep
  <2>1. pc = "exec" /\ UNCHANGED cmdVars
    BY <1>4 DEF ExecStep
  <2>2. QED
    BY <1>1, <2>1 DEF cmdVars
<1>5. CASE Cancel
  <2>1. UNCHANGED <<cmdVars, phase, err>>
    BY <1>5 DEF Cancel, E!Cancel
  <2>2. QED
    BY <1>1, <2>1 DEF cmdVars
<1>6. CASE Report
  <2>1. pc = "exec" /\ pc' = "done" /\ phase = "stopped"
        /\ UNCHANGED <<cmd, autoYes, answer, phase, err>>
    BY <1>6 DEF Report, exVars
  <2>2. result' \in Results /\ (result' = "ok" => err = "none")
    BY <1>6 DEF Report, Results, E!TypeOK, E!Errors, E!Aborts, E!Classes,
       E!Continues
  <2>3. QED
    BY <1>1, <2>1, <2>2
<1>7. CASE Terminated \/ UNCHANGED vars
  BY <1>1, <1>7 DEF Terminated, vars, cmdVars, exVars
<1>8. QED
  BY <1>2, <1>3, <1>4, <1>5, <1>6, <1>7 DEF Next

LEMMA AlwaysCInv == Spec => []CInv
BY InitCInv, NextCInv, PTL DEF Spec

-----------------------------------------------------------------------------
(* StartCmd.Exec runs the first stage of the migration only after the    *)
(* user answered "yes" to "Proceed?" or passed --yes (StartedOnlyWith-    *)
(* Consent of the run commands_safety, for every number of stages).        *)
THEOREM ConsentBeforeStart == Spec => []StartedOnlyWithConsent
<1>1. CInv => StartedOnlyWithConsent
  BY DEF CInv
<1>2. QED
  BY AlwaysCInv, <1>1, PTL

(* start and estimate print OK only if every stage succeeded: neither an  *)
(* ignored stage error nor a cancelled ctx ends in OK (OkOnlyIfEvery-     *)
(* StageSucceeded of the run commands_safety, for every number of stages). *)
THEOREM OkMeansStagesSucceeded == Spec => []OkOnlyIfEveryStageSucceeded
<1>1. CInv => OkOnlyIfEveryStageSucceeded
  <2> SUFFICES ASSUME CInv, result = "ok", NEW i \in 1..NStages
               PROVE  ret[i] = "success"
    BY DEF OkOnlyIfEveryStageSucceeded
  <2>1. phase = "stopped" /\ err = "none"
    BY DEF CInv
  <2>2. k = NStages + 1 /\ ~\E j \in E!Stages : ret[j] = "ignored"
    BY <2>1 DEF CInv, E!ExecutorContract
  <2>3. ret[i] \in E!Continues
    BY <2>2, NStagesAssumption DEF CInv, E!ExecutorContract, E!Stages
  <2>4. QED
    BY <2>2, <2>3 DEF E!Continues, E!Stages
<1>2. QED
  BY AlwaysCInv, <1>1, PTL

=============================================================================
