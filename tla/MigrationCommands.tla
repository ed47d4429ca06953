-------------------------- MODULE MigrationCommands --------------------------
(***************************************************************************)
(* The `migration start` and `migration estimate` commands (StartCmd.Exec *)
(* in migration_start.go, EstimateCmd.Exec in estimate.go), composed with *)
(* the stage executor they call (StageExecutor, instance E).              *)
(*                                                                         *)
(* start asks for confirmation unless --yes was given, then hands the      *)
(* stages of NewStages to stage.Execute and prints OK if it returned nil.  *)
(* estimate builds its stages with NewEstimateStages, which may fail, and  *)
(* runs them the same way.  The stages themselves are not under src/: to   *)
(* the commands they are the executor's Return steps, of any class.       *)
(* The caller's ctx may be cancelled at any time (Ctrl-C).                *)
(***************************************************************************)
EXTENDS Naturals

CONSTANT NStages   \* the number of stages the command's builder supplies

ASSUME NStagesAssumption == NStages \in Nat

VARIABLES
    cmd,      \* "start" or "estimate"
    autoYes,  \* the --yes flag (clc.FlagAutoYes)
    answer,   \* the answer to "Proceed?": "none" (not asked), "yes", "no", "error"
    pc,       \* "confirm", "build", "exec" (in stage.Execute), "done"
    result,   \* what Exec returned
    phase, k, ret, err, ctxDone   \* the executor's state (StageExecutor)

E == INSTANCE StageExecutor
        WITH N <- NStages, phase <- phase, k <- k, ret <- ret, err <- err,
             ctxDone <- ctxDone

cmdVars == <<cmd, autoYes, answer, pc, result>>
exVars  == <<phase, k, ret, err, ctxDone>>
vars    == <<cmdVars, exVars>>

Results == {"none", "ok", "usercancelled", "builderr"} \cup (E!Errors \ {"none"})

Init ==
    /\ cmd \in {"start", "estimate"}
    /\ autoYes \in BOOLEAN
    /\ answer = "none"
    /\ pc = IF cmd = "start" THEN "confirm" ELSE "build"
    /\ result = "none"
    /\ E!Init

(* Mutant of Confirm: the answer is read but not tested.                   *)
ConfirmIgnoresAnswer ==
    /\ pc = "confirm"
    /\ IF autoYes
         THEN pc' = "exec" /\ UNCHANGED <<answer, result>>
         ELSE \E a \in {"yes", "no", "error"} :
                /\ answer' = a
                /\ IF a # "error"
                     THEN pc' = "exec" /\ UNCHANGED result
                     ELSE pc' = "done" /\ result' = "usercancelled"
    /\ UNCHANGED <<cmd, autoYes, exVars>>

(* StartCmd.Exec without --yes asks "Proceed?"; a prompt error and a "no"  *)
(* both return ErrUserCancelled.                                           *)
Confirm ==
    /\ pc = "confirm"
    /\ IF autoYes
         THEN pc' = "exec" /\ UNCHANGED <<answer, result>>
         ELSE \E a \in {"yes", "no", "error"} :
                /\ answer' = a
                /\ IF a = "yes"
                     THEN pc' = "exec" /\ UNCHANGED result
                     ELSE pc' = "done" /\ result' = "usercancelled"
    /\ UNCHANGED <<cmd, autoYes, exVars>>

(* EstimateCmd.Exec: NewEstimateStages returns the stages or an error.     *)
Build ==
    /\ pc = "build"
    /\ \/ pc' = "exec" /\ UNCHANGED result
       \/ pc' = "done" /\ result' = "builderr"
    /\ UNCHANGED <<cmd, autoYes, answer, exVars>>

(* stage.Execute runs: it is called, or a stage returns, or it stops.      *)
ExecStep ==
    /\ pc = "exec"
    /\ \/ E!Start
       \/ \E c \in E!Classes : E!Return(c)
       \/ E!StopOnCtx
       \/ E!Complete
    /\ UNCHANGED cmdVars

(* The caller's ctx is cancelled, at any point of the command.             *)
Cancel ==
    /\ E!Cancel
    /\ UNCHANGED cmdVars

(* Mutant of Report: an error that only reports ignored stage errors is    *)
(* taken for success.                                                      *)
ReportIgnoresIgnored ==
    /\ pc = "exec"
    /\ phase = "stopped"
    /\ pc' = "done"
    /\ result' = IF err \in {"none", "ignored"} THEN "ok" ELSE err
    /\ UNCHANGED <<cmd, autoYes, answer, exVars>>

(* Execute has returned: a non-nil error is returned as it is; nil prints *)
(* "OK Migration completed successfully." (or the estimate's lines).      *)
Report ==
    /\ pc = "exec"
    /\ phase = "stopped"
    /\ pc' = "done"
    /\ result' = IF err = "none" THEN "ok" ELSE err
    /\ UNCHANGED <<cmd, autoYes, answer, exVars>>

Terminated ==
    /\ pc = "done"
    /\ UNCHANGED vars

Next == Confirm \/ Build \/ ExecStep \/ Cancel \/ Report \/ Terminated

(* The process runs Exec to the end once the user has answered: the        *)
(* stages return (a stage observes ctx itself) and Exec reports.  Nothing  *)
(* forces the user to answer the prompt, or NewEstimateStages to return.   *)
Fairness == WF_vars(ExecStep) /\ WF_vars(Report)

Spec == Init /\ [][Next]_vars /\ Fairness

-----------------------------------------------------------------------------
(* Properties.                                                             *)

TypeOK ==
    /\ cmd \in {"start", "estimate"}
    /\ autoYes \in BOOLEAN
    /\ answer \in {"none", "yes", "no", "error"}
    /\ pc \in {"confirm", "build", "exec", "done"}
    /\ result \in Results
    /\ E!TypeOK

(* The start command starts the migration (runs its first stage) only      *)
(* after the user answered "yes" to "Proceed?" or passed --yes; a "no"    *)
(* or an unreadable answer runs nothing.                                   *)
StartedOnlyWithConsent ==
    (cmd = "start" /\ phase # "idle") => (autoYes \/ answer = "yes")

(* A command prints OK only if every one of its stages succeeded: a stage *)
(* error that the executor ignored (stage.IgnoreError) still makes the    *)
(* command fail, and a cancelled ctx never leads to OK.                   *)
OkOnlyIfEveryStageSucceeded ==
    result = "ok" => \A i \in 1..NStages : ret[i] = "success"

=============================================================================
