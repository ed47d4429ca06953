--------------------------- MODULE MigrationStatus ---------------------------
(***************************************************************************)
(* The `clc migration status` command (migration_status.go, Exec) after   *)
(* the migration ID is known: the start-gate WaitForMigrationToBeInProgress,*)
(* discovery of the migrated data structures, one status-polling stage per *)
(* data structure run by the stage executor, and finalizeMigration.        *)
(*                                                                         *)
(* The remote status record (the __datamigration_migrations map entry) is  *)
(* written by the migration cluster, never by the CLI: it is modelled as an*)
(* environment that moves forward through the Status enum.  The command's  *)
(* context (ctx) and the 30-second child context of the start-gate are     *)
(* environment too: they may expire or be cancelled at any step.           *)
(*                                                                         *)
(* Every remote SQL query is one step of the CLI; the remote may change    *)
(* between two queries of the same loop iteration.                         *)
(***************************************************************************)
EXTENDS Naturals

CONSTANTS
    NItems,        \* number of entries in the record's "migrations" array
    QueryMayFail   \* TRUE: a query may fail although ctx is live (network)

ASSUME NItemsAssumption == NItems \in Nat \ {0}
ASSUME QueryMayFailAssumption == QueryMayFail \in BOOLEAN

Items == 1..NItems

(* Status enum values.  "NONE" stands for "no entry for this migration ID"*)
(* (querySingleRow returns "no rows found").                               *)
OverallStatuses == {"NONE", "STARTED", "IN_PROGRESS", "COMPLETE",
                    "FAILED", "CANCELING", "CANCELED"}
ItemStatuses    == {"STARTED", "IN_PROGRESS", "COMPLETE", "FAILED", "CANCELED"}
ItemTerminal    == {"COMPLETE", "FAILED", "CANCELED"}

(* The report field: missing from the JSON (JSON_QUERY yields SQL NULL),  *)
(* the empty string, or some text.                                         *)
Reports == {"absent", "empty", "text"}

(* How a stage's function returned: nil error, stage.IgnoreError, a plain  *)
(* error, clcerrors.ErrUserCancelled, or the distinguished timeoutErr.     *)
StageClasses == {"success", "ignored", "fatal", "cancelled", "timeout"}

(* What Exec returns: "ok", an error of one of the kinds below, or a Go    *)
(* panic that ends the process.                                            *)
PipelineErrors == {"none", "ignored", "fatal", "cancelled", "timeout", "ctx"}
Results == {"none", "ok", "panic", "gate", "discover", "finalize"}
              \cup (PipelineErrors \ {"none"})

PCs == {"gate", "discover", "exec", "poll", "item", "finalize", "done"}

VARIABLES
    status,        \* remote: overall Status of the record
    items,         \* remote: Status of migrations[i-1], i \in Items
    report,        \* remote: the report field
    ctxErr,        \* ctx.Err(): "none", "canceled" or "deadline"
    gateTimedOut,  \* the start-gate's 30 s child context has expired
    pc,            \* where Exec is
    cur,           \* index of the stage the executor is running
    outcome,       \* how each stage returned ("none": not run)
    pipeErr,       \* error returned by stage.Execute for the migration stages
    result         \* what Exec returned

remoteVars == <<status, items, report>>
envVars    == <<ctxErr, gateTimedOut>>
cliVars    == <<pc, cur, outcome, pipeErr, result>>
vars       == <<status, items, report, ctxErr, gateTimedOut,
                pc, cur, outcome, pipeErr, result>>

-----------------------------------------------------------------------------
(* The remote migration cluster.                                           *)

(* The record appears; its migrations array is fixed from now on.  Whether *)
(* an initial record carries a report field is the cluster's choice.       *)
RCreate ==
    /\ status = "NONE"
    /\ status' = "STARTED"
    /\ report' \in {"absent", "empty"}
    /\ UNCHANGED <<items, envVars, cliVars>>

RStart ==
    /\ status = "STARTED"
    /\ status' = "IN_PROGRESS"
    /\ UNCHANGED <<items, report, envVars, cliVars>>

RItemStep ==
    /\ status = "IN_PROGRESS"
    /\ \E i \in Items :
        \/ /\ items[i] = "STARTED"
           /\ items' = [items EXCEPT ![i] = "IN_PROGRESS"]
        \/ /\ items[i] = "IN_PROGRESS"
           /\ \E s \in {"COMPLETE", "FAILED"} : items' = [items EXCEPT ![i] = s]
    /\ UNCHANGED <<status, report, envVars, cliVars>>

(* COMPLETE only once every data structure is complete.                    *)
RComplete ==
    /\ status = "IN_PROGRESS"
    /\ \A i \in Items : items[i] = "COMPLETE"
    /\ status' = "COMPLETE"
    /\ report' \in {"empty", "text"}
    /\ UNCHANGED <<items, envVars, cliVars>>

RFail ==
    /\ status \in {"STARTED", "IN_PROGRESS"}
    /\ status' = "FAILED"
    /\ report' \in {"empty", "text"}
    /\ UNCHANGED <<items, envVars, cliVars>>

(* A cancel request (issued by another CLI process) and its completion.   *)
RCancel ==
    /\ status \in {"STARTED", "IN_PROGRESS"}
    /\ status' = "CANCELING"
    /\ UNCHANGED <<items, report, envVars, cliVars>>

RItemCancel ==
    /\ status = "CANCELING"
    /\ \E i \in Items :
        /\ items[i] \notin ItemTerminal
        /\ items' = [items EXCEPT ![i] = "CANCELED"]
    /\ UNCHANGED <<status, report, envVars, cliVars>>

RCanceled ==
    /\ status = "CANCELING"
    /\ status' = "CANCELED"
    /\ report' \in {"empty", "text"}
    /\ UNCHANGED <<items, envVars, cliVars>>

RemoteNext ==
    RCreate \/ RStart \/ RItemStep \/ RComplete \/ RFail
      \/ RCancel \/ RItemCancel \/ RCanceled

(* Contexts: the caller cancels ctx or its deadline passes; the gate's     *)
(* context.WithTimeout(ctx, 30*time.Second) fires while the gate runs.     *)
CtxCancel ==
    /\ ctxErr = "none"
    /\ ctxErr' \in {"canceled", "deadline"}
    /\ UNCHANGED <<gateTimedOut, remoteVars, cliVars>>

GateTimeout ==
    /\ pc = "gate"
    /\ ~gateTimedOut
    /\ gateTimedOut' = TRUE
    /\ UNCHANGED <<ctxErr, remoteVars, cliVars>>

EnvNext == CtxCancel \/ GateTimeout

-----------------------------------------------------------------------------
(* The CLI.                                                                *)

(* Outcomes of one querySingleRow / SQL Execute: it fails whenever its     *)
(* context is done, and may fail anyway when QueryMayFail.                 *)
QueryOutcomes(ctxDone) ==
    IF ctxDone THEN {FALSE}
    ELSE IF QueryMayFail THEN {TRUE, FALSE} ELSE {TRUE}

(* fetchMigrationStatus: the status field, or migrationStatusNotFoundErr   *)
(* for a failed query, an absent row and a NULL field alike.               *)
FetchMigrationStatus(ok, s) == IF ~ok \/ s = "NONE" THEN "notfound" ELSE s

(* Mutant of Gate: the loop returns on any status but FAILED, as if it     *)
(* waited only for the record to exist.                                    *)
GateOnStarted ==
    /\ pc = "gate"
    /\ \E ok \in QueryOutcomes(ctxErr # "none" \/ gateTimedOut) :
       LET st == FetchMigrationStatus(ok, status) IN
        \/ /\ st \in {"STARTED", "IN_PROGRESS"}
           /\ pc' = "discover"
           /\ UNCHANGED <<cur, outcome, pipeErr, result>>
        \/ /\ st = "FAILED"
           /\ pc' = "done"
           /\ result' = "gate"
           /\ UNCHANGED <<cur, outcome, pipeErr>>
        \/ /\ st \notin {"STARTED", "IN_PROGRESS", "FAILED"}
           /\ UNCHANGED cliVars
    /\ UNCHANGED <<remoteVars, envVars>>

(* One iteration of WaitForMigrationToBeInProgress, under the child ctx.   *)
(* fetchMigrationStatus turns every error into migrationStatusNotFoundErr, *)
(* which the loop retries: a failed query, and the expired child context,  *)
(* are retried like a record not yet written.  A FAILED record returns an  *)
(* error whether or not fetchMigrationErrors succeeds.                     *)
Gate ==
    /\ pc = "gate"
    /\ \E ok \in QueryOutcomes(ctxErr # "none" \/ gateTimedOut) :
       LET st == FetchMigrationStatus(ok, status) IN
        \/ /\ st = "IN_PROGRESS"
           /\ pc' = "discover"
           /\ UNCHANGED <<cur, outcome, pipeErr, result>>
        \/ /\ st = "FAILED"
           /\ pc' = "done"
           /\ result' = "gate"
           /\ UNCHANGED <<cur, outcome, pipeErr>>
        \/ /\ st \notin {"IN_PROGRESS", "FAILED"}
           /\ UNCHANGED cliVars
    /\ UNCHANGED <<remoteVars, envVars>>

(* Mutant of Discover: the stage index starts at 0, as the Go loop's i.   *)
DiscoverZeroBased ==
    /\ pc = "discover"
    /\ \E ok \in QueryOutcomes(ctxErr # "none") :
        \/ /\ ok /\ status # "NONE"
           /\ pc' = "exec"
           /\ cur' = 0
           /\ UNCHANGED <<outcome, pipeErr, result>>
        \/ /\ ~ok \/ status = "NONE"
           /\ pc' = "done"
           /\ result' = "discover"
           /\ UNCHANGED <<cur, outcome, pipeErr>>
    /\ UNCHANGED <<remoteVars, envVars>>

(* getDataStructuresToBeMigrated reads the whole record under ctx and      *)
(* builds one stage per entry of its migrations array (never empty here).  *)
Discover ==
    /\ pc = "discover"
    /\ \E ok \in QueryOutcomes(ctxErr # "none") :
        \/ /\ ok /\ status # "NONE"
           /\ pc' = "exec"
           /\ cur' = 1
           /\ UNCHANGED <<outcome, pipeErr, result>>
        \/ /\ ~ok \/ status = "NONE"
           /\ pc' = "done"
           /\ result' = "discover"
           /\ UNCHANGED <<cur, outcome, pipeErr>>
    /\ UNCHANGED <<remoteVars, envVars>>

(* The stage executor (stage.Execute) before each stage: a done ctx stops  *)
(* the pipeline; after the last stage it returns an error if a stage's     *)
(* error was ignored, nil otherwise.                                       *)
ExecNext ==
    /\ pc = "exec"
    /\ \/ /\ ctxErr # "none"
          /\ pc' = "finalize"
          /\ pipeErr' = "ctx"
          /\ UNCHANGED cur
       \/ /\ ctxErr = "none"
          /\ cur \in Items
          /\ pc' = "poll"
          /\ UNCHANGED <<cur, pipeErr>>
       \/ /\ ctxErr = "none"
          /\ cur = NItems + 1
          /\ pc' = "finalize"
          /\ pipeErr' = IF \E i \in Items : outcome[i] = "ignored"
                          THEN "ignored" ELSE "none"
          /\ UNCHANGED cur
    /\ UNCHANGED <<outcome, result, remoteVars, envVars>>

(* The stage function returns with class c; the executor goes on to the    *)
(* next stage on success or an ignored error, and aborts otherwise.        *)
Finish(c) ==
    /\ outcome' = [outcome EXCEPT ![cur] = c]
    /\ IF c \in {"success", "ignored"}
         THEN /\ cur' = cur + 1
              /\ pc' = "exec"
              /\ UNCHANGED pipeErr
         ELSE /\ pc' = "finalize"
              /\ pipeErr' = c
              /\ UNCHANGED cur
    /\ UNCHANGED result

(* The class the stage returns once ctx.Err() is non-nil.  The code tests  *)
(* errors.Is(err, context.DeadlineExceeded) on the err of line 44, which is*)
(* nil there, so the timeoutErr branch is never taken.                     *)
CtxStopClass == "fatal"

(* Mutant of OverallClass: the switch lacks the CANCELED/CANCELING case.   *)
OverallClassNoCancel(ok, s) ==
    CASE FetchMigrationStatus(ok, s) = "notfound" -> "fatal"
      [] s \in {"STARTED", "COMPLETE"}    -> "success"
      [] s = "FAILED"                     -> "fatal"
      [] s \in {"IN_PROGRESS", "CANCELED", "CANCELING"} -> "continue"

(* The switch on the overall status; "continue" goes on to the item query. *)
OverallClass(ok, s) ==
    CASE FetchMigrationStatus(ok, s) = "notfound" -> "fatal"
      [] s \in {"STARTED", "COMPLETE"}    -> "success"
      [] s = "FAILED"                     -> "fatal"
      [] s \in {"CANCELED", "CANCELING"}  -> "cancelled"
      [] s = "IN_PROGRESS"                -> "continue"

(* The switch on migrations[i]; "continue" sleeps and loops.               *)
ItemClass(ok, s) ==
    CASE ~ok              -> "fatal"
      [] s = "COMPLETE"   -> "success"
      [] s = "FAILED"     -> "ignored"
      [] s = "CANCELED"   -> "cancelled"
      [] OTHER            -> "continue"

(* Top of statusReaderLoop: the ctx check, then fetchMigrationStatus and,  *)
(* for IN_PROGRESS, fetchOverallProgress (whose failure is only logged).   *)
PollTop ==
    /\ pc = "poll"
    /\ \/ /\ ctxErr # "none"
          /\ Finish(CtxStopClass)
       \/ /\ ctxErr = "none"
          /\ \E ok \in QueryOutcomes(FALSE) :
               LET c == OverallClass(ok, status) IN
               IF c = "continue"
                 THEN pc' = "item" /\ UNCHANGED <<cur, outcome, pipeErr, result>>
                 ELSE Finish(c)
    /\ UNCHANGED <<remoteVars, envVars>>

(* The JSON_QUERY of migrations[i] and its switch, then time.Sleep.        *)
PollItem ==
    /\ pc = "item"
    /\ \E ok \in QueryOutcomes(ctxErr # "none") :
         LET c == ItemClass(ok, items[cur]) IN
         IF c = "continue"
           THEN pc' = "poll" /\ UNCHANGED <<cur, outcome, pipeErr, result>>
           ELSE Finish(c)
    /\ UNCHANGED <<remoteVars, envVars>>

(* saveMemberLogs: GetList and GetAll for every member, each under ctx.    *)
SaveMemberLogsOutcomes == QueryOutcomes(ctxErr # "none")

(* fetchMigrationReport: a failed query is an error; a NULL report field   *)
(* panics at rr.(serialization.JSON); otherwise the field's value.         *)
FetchMigrationReport(ok, rep) ==
    CASE ~ok            -> "error"
      [] rep = "absent" -> "panic"
      [] OTHER          -> rep

(* saveReportToFile: an empty report writes nothing; os.WriteFile may fail.*)
SaveReportToFile(ok, writeOK, rep) ==
    LET r == FetchMigrationReport(ok, rep) IN
    CASE r \in {"error", "panic"}  -> r
      [] r = "text" /\ ~writeOK    -> "error"
      [] OTHER                     -> "none"

(* finalizeMigration: the member logs first, then the report file.         *)
FinalizeOutcome(logsOK, ok, writeOK, rep) ==
    IF logsOK THEN SaveReportToFile(ok, writeOK, rep) ELSE "error"

(* Mutant of CommandResult: an ignored stage error is not passed on.      *)
CommandResultDropsIgnored(fin, perr) ==
    CASE fin = "panic"                  -> "panic"
      [] fin = "error"                  -> "finalize"
      [] perr \notin {"none", "ignored"} -> perr
      [] OTHER                          -> "ok"

(* Exec after finalizeMigration: a finalize error is returned first.       *)
CommandResult(fin, perr) ==
    CASE fin = "panic"  -> "panic"
      [] fin = "error"  -> "finalize"
      [] perr # "none"  -> perr
      [] OTHER          -> "ok"

Finalize ==
    /\ pc = "finalize"
    /\ \E logsOK \in SaveMemberLogsOutcomes, ok \in QueryOutcomes(ctxErr # "none"),
          writeOK \in BOOLEAN :
         result' = CommandResult(FinalizeOutcome(logsOK, ok, writeOK, report), pipeErr)
    /\ pc' = "done"
    /\ UNCHANGED <<cur, outcome, pipeErr, remoteVars, envVars>>

(* Exec has returned; the process stays as it is.                          *)
Terminated ==
    /\ pc = "done"
    /\ UNCHANGED vars

CliNext == Gate \/ Discover \/ ExecNext \/ PollTop \/ PollItem \/ Finalize

-----------------------------------------------------------------------------
Init ==
    /\ status = "NONE"
    /\ items = [i \in Items |-> "STARTED"]
    /\ report = "absent"
    /\ ctxErr = "none"
    /\ gateTimedOut = FALSE
    /\ pc = "gate"
    /\ cur = 1
    /\ outcome = [i \in Items |-> "none"]
    /\ pipeErr = "none"
    /\ result = "none"

Next == CliNext \/ RemoteNext \/ EnvNext \/ Terminated

(* The CLI process is scheduled (weak fairness); the remote migration is   *)
(* assumed to keep moving until it reaches a terminal status.  The caller  *)
(* and the timers need no fairness.                                        *)
Fairness == WF_vars(CliNext) /\ WF_vars(RemoteNext)

Spec == Init /\ [][Next]_vars /\ Fairness

-----------------------------------------------------------------------------
(* Properties.                                                             *)

TypeOK ==
    /\ status \in OverallStatuses
    /\ items \in [Items -> ItemStatuses]
    /\ report \in Reports
    /\ ctxErr \in {"none", "canceled", "deadline"}
    /\ gateTimedOut \in BOOLEAN
    /\ pc \in PCs
    /\ cur \in 1..NItems + 1
    /\ outcome \in [Items -> StageClasses \cup {"none"}]
    /\ pipeErr \in PipelineErrors
    /\ result \in Results

(* A stage is rendered "Migrated <type>: <name>" only for a data structure *)
(* the remote reports COMPLETE.  The poller returns nil on an overall      *)
(* STARTED status; only the start-gate, which waits for IN_PROGRESS, keeps *)
(* that branch from turning an unstarted migration into a success.         *)
SuccessMeansComplete ==
    \A i \in Items : outcome[i] = "success" => items[i] = "COMPLETE"

(* Exec prints "OK" only if every data structure was migrated: an item    *)
(* whose status is FAILED (an ignored stage error) still fails the command.*)
OkOnlyIfAllComplete ==
    result = "ok" => \A i \in Items : items[i] = "COMPLETE"

(* Once Exec has run the migration stages and returns, the error it        *)
(* returns is the one stage.Execute returned (spec 4.6: a finalize error   *)
(* does not overwrite the pipeline's error).                               *)
ResultKeepsPipelineError ==
    (pc = "done" /\ pipeErr \notin {"none"} /\ result # "panic")
        => result = pipeErr

(* A poller step taken at the top of statusReaderLoop once ctx's deadline  *)
(* has passed ends the stage with the distinguished timeoutErr (spec 4.3,  *)
(* step 1, and the timeoutErr declared for it).                            *)
DeadlineIsTimeout ==
    [][ (pc = "poll" /\ ctxErr = "deadline" /\ pc' # "poll")
          => outcome'[cur] = "timeout" ]_vars

(* finalizeMigration never panics on the remote record: a missing field is *)
(* a fetch error (spec 7), here the report field of fetchMigrationReport.  *)
NoPanic == result # "panic"

(* Once the gate's 30-second context has expired, WaitForMigrationToBeIn-  *)
(* Progress returns (spec 4.5: the loop is aborted by the deadline).       *)
GateTerminates == gateTimedOut ~> pc # "gate"

(* Once the migration stages are running, the command returns: every      *)
(* statusReaderLoop ends when the remote reaches a terminal status.        *)
PollTerminates == pc \in {"exec", "poll", "item"} ~> pc = "done"

(* Inductive strengthening of TypeOK, SuccessMeansComplete and             *)
(* OkOnlyIfAllComplete.  StageInv: a running stage has an index; COMPLETE  *)
(* is reached only with every item complete; past the gate the record is  *)
(* never missing or STARTED; the stages before the current one went on;   *)
(* the pipeline error is unset until the pipeline stops, and "none" then  *)
(* means every stage succeeded; Exec's result is unset until it returns.  *)
StageInv ==
    /\ pc \in {"poll", "item"} => cur \in Items
    /\ status = "COMPLETE" => \A i \in Items : items[i] = "COMPLETE"
    /\ pc \in {"discover", "exec", "poll", "item"}
         => status \notin {"NONE", "STARTED"}
    /\ SuccessMeansComplete
    /\ pc \in {"gate", "discover", "exec", "poll", "item"} => pipeErr = "none"
    /\ pc \in {"exec", "poll", "item"}
         => \A i \in Items : i < cur => outcome[i] \in {"success", "ignored"}
    /\ pc = "finalize" /\ pipeErr = "none"
         => \A i \in Items : outcome[i] = "success"
    /\ pc # "done" => result = "none"
    /\ result = "ok" => pipeErr = "none" /\ \A i \in Items : outcome[i] = "success"

IInv == TypeOK /\ StageInv

=============================================================================
