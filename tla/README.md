# TLA+ models of the Hazelcast command-line client

This directory holds TLA+ models of the parts of the repository under `src/` that have control flow worth checking:

- the `migration status` command, which covers the start-gate, the per-item status pollers, the stage executor and the finalizer;
- an abstract specification of the stage executor (`clc/ux/stage`), with its contract proved;
- the `migration start` and `migration estimate` commands, composed with that executor;
- the Viridian REST client, as the custom-class commands, `StreamLogs`, `DownloadConfig`, `UploadCustomClasses` and `DownloadCustomClass` use it.

For each model there are TLC configurations for small instances and TLAPS proofs of the main safety properties. `PROJECT.json` records the same content in machine-readable form:

- the components;
- the runs and their mutants;
- the source lines behind every definition;
- the findings, the hazards and the theorems.

## Inventory of the source

| Part | Files | Status |
|---|---|---|
| Migration status: start-gate, poller, finalizer | `base/commands/migration/migration_stages.go`, `migration_status.go` | modelled: `MigrationStatus` |
| Stage executor (`clc/ux/stage`) | not under `src/` | modelled from spec 4.1, 4.4 and 8: `StageExecutor` (abstract), implemented by `ExecNext`/`Finish` of `MigrationStatus`; carry-over values and rendering not modelled |
| Migration start / estimate commands | `migration_start.go`, `estimate.go` | partly modelled: `MigrationCommands` (prompt, stage build, Execute, OK); their stages (`NewStages`, `NewEstimateStages`) are not under `src/` and are executor steps of any class |
| Viridian API client, custom-class commands | `internal/viridian/api.go`, `viridian/custom_class_delete.go`, `custom_class_list.go` | partly modelled: `ViridianAPI` (request / 401 / refresh / retry and the download's temporary file, for delete, list, log stream, config download, upload and custom-class download; the upload and download helpers are not under `src/` and are one opaque call) |
| Protocol codecs | `internal/proto/codec/*.go` | not modelled: generated, stateless byte encoders |
| Error helpers | `errors/utils.go` | not modelled: pure string formatting |
| Project / serializer generation, git | `generate/project.go`, `serializer/generate.go`, `project/git.go` | not modelled: one-shot file and git I/O |
| Tests and test harness | `*_it_test.go`, `store_test.go`, `internal/it/test_context.go` | not modelled: test code |

## How the parts interact

`StatusCmd.Exec` (`migration_status.go:27-56`) runs in this order:

1. It runs the status stages, which produce the migration ID.
2. `createMigrationStages` waits, under a 30-second child context, for the remote record to reach IN_PROGRESS. This is `WaitForMigrationToBeInProgress`, the start-gate.
3. It reads the record's `migrations` array and builds one polling stage per entry.
4. `stage.Execute` runs those stages one after another.
5. `finalizeMigration` runs whatever the stages returned. It saves the members' debug logs and writes the report file.
6. `Exec` returns the finalize error if there is one, and otherwise the pipeline error.

The remote record lives in the `__datamigration_migrations` map. The migration cluster writes it and the CLI only reads it, through SQL `JSON_QUERY`.

The Viridian entry points each make a chain of REST calls. `delete-custom-class` makes four:

1. it lists the clusters;
2. it lists them again, inside `ListCustomClasses`;
3. it lists the custom classes;
4. it sends the DELETE.

`StreamLogs` makes two calls: it finds the cluster, then reads the log stream. `DownloadConfig` makes one call, the download. `UploadCustomClasses` finds the cluster and uploads; `DownloadCustomClass` makes the same three lookups as delete and then downloads.

`StartCmd.Exec` (`migration_start.go:30-56`) asks "Proceed?" unless `--yes` was given, then hands its stages to `stage.Execute` and prints OK if it returned nil. `EstimateCmd.Exec` (`estimate.go:25-48`) does the same without the prompt, after `NewEstimateStages`, which may fail. The status command's stages are run by the same `stage.Execute`.

Each call (`doGet`, `doGetRaw`, `doDelete` or `download`) is made with `retryOnUnauthorized = true`. On a 401 the call runs `RefreshAccessToken` and then calls itself once more with the flag set to false.

## Modules

### `MigrationStatus` (`MCMigrationStatus` instantiates it)

The state is split into three groups:

- The remote record: `status`, `items` and `report`.
  - `report` has three values: the field is absent (SQL NULL), empty, or text.
  - The remote is an environment. Its actions `RCreate`, `RStart`, `RItemStep`, `RComplete`, `RFail`, `RCancel`, `RItemCancel` and `RCanceled` move the record forward through the Status enum.
- The contexts: `ctxErr` for the command's ctx, and `gateTimedOut` for the gate's 30-second child ctx.
  - `CtxCancel` and `GateTimeout` change them at any step.
- The CLI:
  - `pc` says where `Exec` is;
  - `cur` is the stage that is running;
  - `outcome` holds how each stage returned;
  - `pipeErr` is what `stage.Execute` returned;
  - `result` is what `Exec` returned.

Every remote query is one CLI step. Its result is drawn from `QueryOutcomes(ctxDone)`: it always fails once the ctx is done, and it may fail anyway when `QueryMayFail` is set.

| Action / operator | Code |
|---|---|
| `FetchMigrationStatus` | `fetchMigrationStatus` (252-266). A failed query, a missing row and a NULL field all become `migrationStatusNotFoundErr`. |
| `Gate` | `WaitForMigrationToBeInProgress` (206-227). Not found is retried; FAILED returns an error; IN_PROGRESS returns nil. |
| `GateTimeout` | `context.WithTimeout(ctx, 30s)` in `createMigrationStages` (37-42) |
| `Discover` | `getDataStructuresToBeMigrated` (144-176) |
| `ExecNext`, `Finish` | `stage.Execute` (not under `src/`; from spec 4.1, 4.4) |
| `PollTop`, `CtxStopClass`, `OverallClass` | top of `statusReaderLoop`: the ctx check (58-65), then `fetchMigrationStatus` and its switch (66-97) |
| `PollItem`, `ItemClass` | the `migrations[i]` query and its switch, then the sleep (98-137) |
| `SaveMemberLogsOutcomes` | `saveMemberLogs` (178-193): GetList and GetAll per member under ctx |
| `FetchMigrationReport` | `fetchMigrationReport` (303-319), with the `rr.(serialization.JSON)` that panics on NULL |
| `SaveReportToFile` | `saveReportToFile` (195-204): an empty report writes nothing; `os.WriteFile` may fail |
| `FinalizeOutcome`, `Finalize` | `finalizeMigration` (342-353), called at `migration_status.go` 46 |
| `CommandResult` | the error choice at the end of `Exec` (`migration_status.go` 45-55) |

Two things in the model follow the code exactly rather than the spec:

- `CtxStopClass` is always `"fatal"`, because the code tests the wrong `err` variable.
- `OverallClass` maps STARTED to success (`break statusReaderLoop` with a nil `execErr`).

### `StageExecutor` (abstract; no MC module of its own)

What `stage.Execute` promises, from spec 4.1, 4.4 and 8. Its state is `phase` (idle, running, stopped), the stage `k` being run, `ret[i]` (how stage `i` returned), the returned error `err` and `ctxDone`. Its actions are `Start`, `Return(c)` for a stage returning with class `c`, `StopOnCtx`, `Complete` (after the last stage, an error iff some stage's error was ignored) and `Cancel`. A stage is one step: how it polls is left to the implementation.

`MigrationCommands` composes it with start and estimate, whose stages are not under `src/`. `MigrationStatus` has its own `ExecNext` and `Finish`, which take the same steps over its polling stages; no refinement between the two is claimed.

### `MigrationCommands` (`MCMigrationCommands` instantiates it)

The composition of the start and estimate commands with the executor, taken as `E == INSTANCE StageExecutor`. The commands' state is `cmd`, `autoYes` (the `--yes` flag), `answer` (the prompt's answer), `pc` and `result`; the executor's state is its own.

| Action | Code |
|---|---|
| `Confirm` | the prompt of `StartCmd.Exec` (37-46): a "no" and a prompt error both return `ErrUserCancelled` |
| `Build` | `NewEstimateStages` in `EstimateCmd.Exec` (32-37), which may fail |
| `ExecStep` | `stage.Execute` (`migration_start.go` 47-50): the executor's `Start`, `Return`, `StopOnCtx`, `Complete` |
| `Report` | the end of `StartCmd.Exec` (50-55): a non-nil error is returned, nil prints OK |
| `Cancel` | the user cancels the ctx (the executor's `Cancel`) |

### `ViridianAPI` (`MCViridianAPI` instantiates it)

The state is split into two groups:

- The server:
  - `tokenExpired`: the server rejects the token the command started with;
  - `refreshValid`: the server accepts the refresh token the API struct holds;
  - `clusterExists` and `artifactPresent`: whether the named cluster and custom class exist;
  - `deletedBy`: who deleted the custom class.
- The CLI:
  - `cmd` is the command being run;
  - `step` is the position in its plan of requests;
  - `phase` is `send`, `refresh` or `done`;
  - `retry` is the current call's `retryOnUnauthorized`;
  - `refreshed` says whether a refresh succeeded during this call;
  - `apiToken` is the `api.Token` that is sent;
  - `result` is what the command returned;
  - `strayTemps` counts the temporary files `download` created and gave no stop func for.

| Action | Code |
|---|---|
| `SendFails` | `http.DefaultClient.Do` or `io.ReadAll` fails (`doGet` 218-227) |
| `Unauthorized` | the 401 branch of `doGet` (234-241); `doDelete` has the same branch at 343-349 |
| `FindCluster` | `FindCluster` (137-148) |
| `StreamLogs` | `doGetRaw` (244-274) for `StreamLogs` (163-176) |
| `Download` | `download` (356-397) for `DownloadConfig` (132-135): 200 writes the file, any other status is an error |
| `LeakTemp` | `os.CreateTemp` at the top of `download` (357-361): every return but the 200 one leaves the file behind; used by `SendFails`, `Unauthorized` (both branches) and `Download` |
| `Transfer` | the `doCustomClassUpload` / `doCustomClassDownload` call of `UploadCustomClasses` (85) and `DownloadCustomClass` (105): an accepted transfer succeeds or fails |
| `ListClasses` | `findArtifactIDAndName` (178-193) and the `artifactID == 0` check, or `ListCustomClasses` |
| `DeleteArtifact` | `doDelete` (324-354): 200 or 204 succeeds, 404 is an error |
| `Refresh`, `RefreshFails` | `RefreshAccessToken` (50-59), and its POST through `doPostBytes` (291-322) with the retry flag false. The assignments go to a copy, so `apiToken` is unchanged. |
| `Expire`, `OtherDelete` | the server expires the token; another client deletes the artifact |

## Runs

| Run | Checks | Result |
|---|---|---|
| `status_safety` | `TypeOK`, `SuccessMeansComplete`, `OkOnlyIfAllComplete` | pass |
| `status_poll_terminates` | `PollTerminates` | pass |
| `status_gate_terminates` | `GateTerminates` | **violated** |
| `status_deadline_timeout` | `DeadlineIsTimeout` | **violated** |
| `status_finalize_error` | `ResultKeepsPipelineError` | **violated** |
| `status_report_panic` | `NoPanic` | **violated** |
| `viridian_safety` | `TypeOK`, `DeleteOkOnlyIfDeletedByCli`, the action property `OneRefreshPerCall`, and the liveness property `CommandTerminates` | pass |
| `viridian_refresh_retry` | `RefreshedCallAuthorized` | **violated** |
| `viridian_temp_leak` | `NoStrayTempFile` | **violated** |
| `commands_safety` | `StartedOnlyWithConsent`, `OkOnlyIfEveryStageSucceeded` | pass |

### What the violations show

- **The gate never gives up.** `fetchMigrationStatus` maps every error to "not found". This includes the error from the expired 30-second context. `WaitForMigrationToBeInProgress` retries that at once, and it also loops on COMPLETE and CANCELED. The counterexample:
  1. the gate times out;
  2. the remote record goes to FAILED;
  3. the gate's queries keep failing on the expired context, so it never reads FAILED and polls forever.
- **No timeout error.** The deadline check reads the outer `err`, which is nil, so a passed deadline gives `migration failed: %!w(<nil>)` instead of `timeoutErr`. This is spec 4.3 step 1, and the spec's open question.
- **The finalize error wins.** The counterexample: a transient query failure makes a stage fatal, then finalize fails too, and `Exec` returns only the finalize error. Spec 4.6 says the pipeline error takes precedence.
- **The missing report panics.** This happens when finalize runs before the cluster has written `report`, for example after a cancellation. JSON_QUERY of the missing field yields NULL, and the type assertion on it panics.
- **The refresh is wasted.** `RefreshAccessToken` has a value receiver and the helpers take `API` by value. So the retry after a successful refresh sends the expired token again and fails with 401.
- **Failed downloads leak temporary files.** `download` creates its file before sending the request (line 357), and only the 200 path returns a stop func that removes it. A failed send, a non-200 answer (line 396) and the 401 path (line 380, which creates a second file in the retry) all leave a file in the temp directory that no caller can reach. The counterexample is a config download for a cluster ID that does not exist.

Every property of a passing run has a mutant in `PROJECT.json`. The mutant is a plausible bug in the modelled code, and TLC finds the property violated under that mutant. Examples:

- the gate returning on STARTED;
- stage indices starting at 0;
- `Exec` treating an ignored stage error as success;
- the poller missing the CANCELED case;
- `doDelete` not checking the status code;
- the retry keeping `retryOnUnauthorized = true`;
- the start prompt not testing the answer;
- `StartCmd.Exec` taking an ignored-errors report for success.

### Bounds and why they suffice

`MigrationStatus` runs with two data structures (`NItems = 2`). That is the smallest instance in which:

- a later stage runs after an earlier one succeeded or was ignored;
- the remote can complete one item while another is still polled.

`QueryMayFail = TRUE` exposes every error path. No counter is unbounded: the remote only moves forward, and the CLI's loops poll the same finite state. The safety run reaches 9,820 distinct states.

`ViridianAPI` runs with `NetMayFail = TRUE` and `RotatesRefresh = FALSE`. With a refresh token that stays valid, only the retry flag bounds the 401 retries, so termination is a real question. The run reaches 1,117 distinct states. The proofs hold for both values of `RotatesRefresh`; a token endpoint that rotates refresh tokens would make the refresh token the struct keeps (line 57 assigns it to a copy) a spent one, which no run checks.

`MigrationCommands` runs with three stages: a stage can then be ignored before one that fails, and a stage can remain that never runs. The run reaches 728 distinct states.

### Fairness

- **`MigrationStatus`.** The CLI's steps are weakly fair: it is one goroutine that only sleeps for a second between polls. The remote migration's steps are weakly fair as well. That is the assumption the poller's termination rests on, since the code has no overall deadline for polling.
- **Contexts.** The contexts get no fairness: nothing forces a cancellation.
- **`StageExecutor` and `MigrationCommands`.** The executor's steps are weakly fair: a running stage returns (it observes ctx itself, spec 4.1) and the executor moves on. Nothing forces the user to answer the prompt, to cancel, or `NewEstimateStages` to return.
- **`ViridianAPI`.** Only the CLI is fair. This assumes the server answers each request. `http.DefaultClient` has no timeout, so a silent server would hang the command until the user cancels its ctx.

## Proofs

`MigrationStatusProofs` proves the following for every `NItems \in Nat \ {0}` and both values of `QueryMayFail`:

- `TypeCorrect`: `Spec => []TypeOK`;
- `StagesSucceedOnlyWhenComplete`: `Spec => []SuccessMeansComplete`;
- `OkMeansAllComplete`: `Spec => []OkOnlyIfAllComplete`.

None of these invariants is inductive alone. The proofs go through `IInv == TypeOK /\ StageInv`, which adds the following facts:

- a running stage has an index in `Items`;
- the record is COMPLETE only when all items are;
- past the gate, the record is neither missing nor STARTED;
- the stages before the current one succeeded or were ignored;
- `pipeErr` is unset until the pipeline stops, and `"none"` at finalize means every stage succeeded;
- `result` is unset until `Exec` returns.

The third fact is what makes the STARTED-means-success branch harmless. `IInv` is a lemma of the proofs (`AlwaysIInv`), not a property of a run; it was checked with TLC as an invariant while the proofs were written. The proof consists of:

- lemmas on the ranges of the classification operators;
- `TypeOK` preservation, one step per action;
- `StageInv` preservation, with one step per action and one sub-step per conjunct the action can disturb;
- a final `PTL` step.

`ViridianAPIProofs` proves the following for both values of `NetMayFail` and of `RotatesRefresh`:

- `ViridianTypeCorrect`: `Spec => []TypeOK`;
- `DeleteSuccessIsOwnDelete`: `Spec => []DeleteOkOnlyIfDeletedByCli`;
- `RefreshAtMostOncePerCall`: `Spec => OneRefreshPerCall`, the action property that a step into `refresh` is never taken by a call that has already refreshed.

The proofs go through the `IInv` of `ViridianAPI` (lemma `AlwaysIInv`). It adds three facts:

- the command has a result exactly when it has returned;
- a call that has refreshed has lost its retry flag;
- an artifact the CLI deleted stays absent.

The second fact is what `OneRefreshPerCall` needs. The only step into `refresh` is `Unauthorized` with the retry flag set, so the call cannot have refreshed.

The central lemma, `DeleteOkIsLastStep`, says that an `Advance` that returns "ok" for delete-custom-class happens on the last entry of its plan, which is the DELETE. Every other step then either keeps the result or cannot be taken.

`StageExecutor` proves `ContractHolds`: for every number of stages, `SafetySpec => []ExecutorContract`. The contract says that stages run in order from the first, that a stage error that is not ignored is what `Execute` returns and that nothing runs after it, and that `Execute` returns nil or the ignored-errors report only after every stage, the report exactly when some error was ignored. `TypeOK /\ ExecutorContract` is inductive as it is. `StagesReturnOnceInOrder` proves the action property `ReturnsOnceInOrder` from the same invariant: no step overwrites a stage's class, and no step records one before every earlier stage went on.

`MigrationCommandsProofs` proves, for every number of stages:

- `ConsentBeforeStart`: `Spec => []StartedOnlyWithConsent`;
- `OkMeansStagesSucceeded`: `Spec => []OkOnlyIfEveryStageSucceeded`.

The invariant `CInv` carries the executor's contract and adds these facts:

- before `Execute` the executor is idle;
- the build step belongs to estimate only;
- a start command in `Execute` has consent;
- `result` is unset until `Exec` returns;
- OK records a stopped executor with a nil error.

The contract then turns a nil error into "every stage succeeded".

Checked only by TLC, because the prover does not handle liveness or `ENABLED`:

- `PollTerminates`;
- `CommandTerminates`;
- the violated `GateTerminates`.

Assumptions the results rest on:

- The remote sets COMPLETE only once every item is COMPLETE (`RComplete`), and never goes back to STARTED.
- If the cluster can mark a migration COMPLETE while an item FAILED, line 75 reports that item as migrated. Spec 4.3 (line 53) itself says an overall COMPLETE means the whole migration is done, so the code follows the spec here; the hazard is listed for the cluster's side of that contract.

A note on the source: `migration_start.go` (line 50) calls `stage.Execute` with three arguments, while `estimate.go` and `migration_status.go` pass four. Only one of the two forms can match `stage.Execute`'s signature, which is not under `src/`; the model treats all three calls as the same executor.

## Plan

Done:

- the status command with its proofs;
- the abstract stage executor and its contract, proved;
- the start and estimate commands composed with the executor, with proofs;
- the Viridian client, for six entry points, with its proofs, the lost-refresh and temporary-file findings, and the one-refresh-per-call action property, proved.

Next:

1. The carry-over value of the executor, which the estimate command's type assertion (`estimate.go:42`) depends on.
2. `maybePrintWarnings` (`migration_stages.go:375`), which spec 4.6 step 3 describes but no code under `src/` calls.
