----------------------------- MODULE ViridianAPI -----------------------------
(***************************************************************************)
(* The Viridian REST client (internal/viridian/api.go) as driven by the    *)
(* two custom-class commands: `viridian delete-custom-class` (Delete-      *)
(* CustomClass) and `viridian list-custom-classes` (ListCustomClasses).    *)
(*                                                                         *)
(* The API's other entry points that need no helper outside src/ are      *)
(* modelled as commands too: StreamLogs (FindCluster, then doGetRaw of the *)
(* log stream) and DownloadConfig (download of the client sample).         *)
(* UploadCustomClasses and DownloadCustomClass are modelled up to their    *)
(* transfer helpers, which are not under src/ and are one opaque call.     *)
(*                                                                         *)
(* A command is a fixed sequence of API calls.  Each call (doGet,          *)
(* doGetRaw, doDelete, download) is made with retryOnUnauthorized = TRUE: on a 401 it calls    *)
(* RefreshAccessToken and then itself once more with the flag FALSE.       *)
(* Every method, RefreshAccessToken included, has a value receiver, and    *)
(* every helper takes the API struct by value, so the token the retry      *)
(* sends is the one the command started with.                              *)
(*                                                                         *)
(* The Viridian server is environment: it may expire the access token at   *)
(* any time, and another client may delete the artifact at any time.      *)
(***************************************************************************)
EXTENDS Naturals, Sequences

CONSTANTS
    RotatesRefresh, \* TRUE: the token endpoint invalidates the refresh token it was sent
    NetMayFail      \* TRUE: http.DefaultClient.Do or io.ReadAll may fail

ASSUME RotatesRefreshAssumption == RotatesRefresh \in BOOLEAN
ASSUME NetMayFailAssumption == NetMayFail \in BOOLEAN

(* The requests each command sends, in order, when no 401 intervenes.      *)
(* FindCluster lists the clusters; findArtifactIDAndName calls             *)
(* ListCustomClasses, which calls FindCluster again.                       *)
DeletePlan == <<"clusters", "clusters", "classes", "delete">>
ListPlan   == <<"clusters", "classes">>
LogsPlan   == <<"clusters", "logstream">>
ConfigPlan == <<"config">>
UploadPlan == <<"clusters", "upload">>
FetchPlan  == <<"clusters", "clusters", "classes", "fetch">>
Plan(c)    == CASE c = "delete" -> DeletePlan
                [] c = "list"   -> ListPlan
                [] c = "logs"   -> LogsPlan
                [] c = "config" -> ConfigPlan
                [] c = "upload" -> UploadPlan
                [] c = "fetch"  -> FetchPlan

Commands == {"delete", "list", "logs", "config", "upload", "fetch"}
Phases   == {"send", "refresh", "done"}
Results  == {"none", "ok", "neterr", "unauthorized", "refreshfail",
             "nocluster", "noartifact", "httperr"}

VARIABLES
    tokenExpired,    \* server: rejects the access token the command started with
    refreshValid,    \* server: accepts the refresh token the API struct holds
    clusterExists,   \* server: the named cluster (or cluster ID) exists
    artifactPresent, \* server: the named custom class exists
    deletedBy,       \* server: who deleted it ("none", "cli", "other")
    cmd,             \* the command being run
    step,            \* index in Plan(cmd) of the request being made
    phase,           \* "send": a request is in flight; "refresh": RefreshAccessToken
    retry,           \* the retryOnUnauthorized argument of the current call
    refreshed,       \* RefreshAccessToken succeeded during the current call
    apiToken,        \* api.Token sent in the Authorization header ("login"/"fresh")
    result,          \* what the command returned
    strayTemps       \* temporary files download created that no stop func removes

serverVars == <<tokenExpired, refreshValid, clusterExists, artifactPresent, deletedBy>>
cliVars    == <<cmd, step, phase, retry, refreshed, apiToken, result, strayTemps>>
vars       == <<serverVars, cliVars>>

Kind == Plan(cmd)[step]

(* download creates its temporary file before it sends the request, and   *)
(* only its success path returns a stop func that removes it: a download  *)
(* call that returns in any other way leaves the file behind.             *)
LeakTemp ==
    strayTemps' = strayTemps + (IF Kind = "config" THEN 1 ELSE 0)

-----------------------------------------------------------------------------
(* The server and other clients.                                           *)

(* The access token the command started with expires.  A token issued by  *)
(* a refresh during the command is taken to outlive it.                    *)
Expire ==
    /\ ~tokenExpired
    /\ tokenExpired' = TRUE
    /\ UNCHANGED <<refreshValid, clusterExists, artifactPresent, deletedBy, cliVars>>

(* Another client deletes the custom class.                                *)
OtherDelete ==
    /\ artifactPresent
    /\ artifactPresent' = FALSE
    /\ deletedBy' = "other"
    /\ UNCHANGED <<tokenExpired, refreshValid, clusterExists, cliVars>>

ServerNext == Expire \/ OtherDelete

-----------------------------------------------------------------------------
(* The CLI.                                                                *)

(* The server accepts the Bearer token doGet/doDelete put in the request.  *)
Accepted == apiToken = "fresh" \/ ~tokenExpired

(* Mutant of Advance: the last request is not recognised as the last.     *)
AdvancePastPlan ==
    IF step > Len(Plan(cmd))
      THEN /\ result' = "ok"
           /\ phase' = "done"
           /\ UNCHANGED <<step, retry, refreshed>>
      ELSE /\ step' = step + 1
           /\ retry' = TRUE
           /\ refreshed' = FALSE
           /\ UNCHANGED <<phase, result>>

(* The current call returned nil: the command goes on to its next request, *)
(* with a fresh call (retryOnUnauthorized = TRUE), or returns nil.         *)
Advance ==
    IF step = Len(Plan(cmd))
      THEN /\ result' = "ok"
           /\ phase' = "done"
           /\ UNCHANGED <<step, retry, refreshed>>
      ELSE /\ step' = step + 1
           /\ retry' = TRUE
           /\ refreshed' = FALSE
           /\ UNCHANGED <<phase, result>>

(* The current call returned error r, which every caller passes up.        *)
Fail(r) ==
    /\ result' = r
    /\ phase' = "done"
    /\ UNCHANGED <<step, retry, refreshed>>

(* http.DefaultClient.Do or io.ReadAll fails ("sending request",           *)
(* "reading response").                                                    *)
SendFails ==
    /\ phase = "send"
    /\ NetMayFail
    /\ Fail("neterr")
    /\ LeakTemp \/ UNCHANGED strayTemps   \* os.CreateTemp itself may fail
    /\ UNCHANGED <<serverVars, cmd, apiToken>>

(* A 401: with the retry flag set, RefreshAccessToken is called; without,  *)
(* NewHTTPClientError(401) is returned.                                    *)
Unauthorized ==
    /\ phase = "send"
    /\ ~Accepted
    /\ IF retry
         THEN /\ phase' = "refresh"
              /\ UNCHANGED <<step, retry, refreshed, result>>
         ELSE Fail("unauthorized")
    /\ LeakTemp
    /\ UNCHANGED <<serverVars, cmd, apiToken>>

(* FindCluster: a 200 from ListClusters, then the search by ID or name.    *)
FindCluster ==
    /\ phase = "send"
    /\ Accepted
    /\ Kind = "clusters"
    /\ IF clusterExists THEN Advance ELSE Fail("nocluster")
    /\ UNCHANGED <<serverVars, cmd, apiToken, strayTemps>>

(* A 200 for /cluster/<id>/custom_classes.  ListCustomClasses returns the  *)
(* list; DeleteCustomClass, through findArtifactIDAndName, looks for the   *)
(* artifact by name or ID and fails when artifactID is still 0.            *)
ListClasses ==
    /\ phase = "send"
    /\ Accepted
    /\ Kind = "classes"
    /\ IF cmd = "list" \/ artifactPresent THEN Advance ELSE Fail("noartifact")
    /\ UNCHANGED <<serverVars, cmd, apiToken, strayTemps>>

(* doGetRaw of /cluster/<id>/logstream answers 200 (the body is handed to *)
(* StreamLogs, whose io.Copy failing is a network failure).               *)
StreamLogs ==
    /\ phase = "send"
    /\ Accepted
    /\ Kind = "logstream"
    /\ Advance
    /\ UNCHANGED <<serverVars, cmd, apiToken, strayTemps>>

(* download of /client_samples/<clusterID>/go: 200 writes the temporary   *)
(* file, any other status is returned as "<code>: <body>".  A failure of  *)
(* os.CreateTemp or io.Copy is a network failure here.                     *)
Download ==
    /\ phase = "send"
    /\ Accepted
    /\ Kind = "config"
    /\ IF clusterExists
         THEN Advance /\ UNCHANGED strayTemps
         ELSE Fail("httperr") /\ LeakTemp
    /\ UNCHANGED <<serverVars, cmd, apiToken>>

(* doCustomClassUpload and doCustomClassDownload (not under src/) are      *)
(* called with retryOnUnauthorized = TRUE and take the 401 path above like *)
(* every other call; an accepted transfer succeeds or returns an error.    *)
Transfer ==
    /\ phase = "send"
    /\ Accepted
    /\ Kind \in {"upload", "fetch"}
    /\ Advance \/ Fail("httperr")
    /\ UNCHANGED <<serverVars, cmd, apiToken, strayTemps>>

(* Mutant of DeleteArtifact: the status check after the DELETE is lost.    *)
DeleteIgnoresStatus ==
    /\ phase = "send"
    /\ Accepted
    /\ Kind = "delete"
    /\ artifactPresent' = FALSE
    /\ deletedBy' = IF artifactPresent THEN "cli" ELSE deletedBy
    /\ Advance
    /\ UNCHANGED <<tokenExpired, refreshValid, clusterExists, cmd, apiToken,
                   strayTemps>>

(* doDelete of /cluster/<id>/custom_classes/<artifactID>: 200 or 204 if    *)
(* the artifact was still there, an HTTP client error (404) otherwise.     *)
DeleteArtifact ==
    /\ phase = "send"
    /\ Accepted
    /\ Kind = "delete"
    /\ IF artifactPresent
         THEN /\ artifactPresent' = FALSE
              /\ deletedBy' = "cli"
              /\ Advance
         ELSE /\ Fail("httperr")
              /\ UNCHANGED <<artifactPresent, deletedBy>>
    /\ UNCHANGED <<tokenExpired, refreshValid, clusterExists, cmd, apiToken,
                   strayTemps>>

(* The refresh POST (doPost, doPostBytes with the retry flag FALSE) fails: *)
(* the request fails, or the answer is not 200 (a 401 included).           *)
RefreshFails == NetMayFail \/ ~refreshValid

(* Mutant of Refresh: the call made after the refresh keeps the retry flag.*)
RefreshKeepsRetry ==
    /\ phase = "refresh"
    /\ \/ /\ RefreshFails
          /\ Fail("refreshfail")
          /\ UNCHANGED refreshValid
       \/ /\ refreshValid
          /\ refreshValid' = ~RotatesRefresh
          /\ phase' = "send"
          /\ retry' = TRUE
          /\ refreshed' = TRUE
          /\ UNCHANGED <<step, result>>
    /\ UNCHANGED <<tokenExpired, clusterExists, artifactPresent, deletedBy,
                   cmd, apiToken, strayTemps>>

(* RefreshAccessToken: doPost of the refresh token with the retry flag     *)
(* FALSE (a failure or any non-200 is returned as "refreshing token"),     *)
(* then the call that got the 401 calls itself with the flag FALSE.  The   *)
(* new access and refresh tokens are assigned to the receiver, a copy:     *)
(* apiToken, and the refresh token the struct holds, do not change.        *)
Refresh ==
    /\ phase = "refresh"
    /\ \/ /\ RefreshFails
          /\ Fail("refreshfail")
          /\ UNCHANGED refreshValid
       \/ /\ refreshValid
          /\ refreshValid' = ~RotatesRefresh
          /\ phase' = "send"
          /\ retry' = FALSE
          /\ refreshed' = TRUE
          /\ UNCHANGED <<step, result>>
    /\ UNCHANGED <<tokenExpired, clusterExists, artifactPresent, deletedBy,
                   cmd, apiToken, strayTemps>>

(* The command has returned.                                               *)
Terminated ==
    /\ phase = "done"
    /\ UNCHANGED vars

CliNext == SendFails \/ Unauthorized \/ FindCluster \/ ListClasses
             \/ StreamLogs \/ Download \/ Transfer \/ DeleteArtifact \/ Refresh

-----------------------------------------------------------------------------
(* The stored access token may already be expired, and the stored refresh *)
(* token may already be stale; the cluster and artifact named on the      *)
(* command line may or may not exist.                                      *)
Init ==
    /\ tokenExpired \in BOOLEAN
    /\ refreshValid \in BOOLEAN
    /\ clusterExists \in BOOLEAN
    /\ artifactPresent \in BOOLEAN
    /\ deletedBy = "none"
    /\ cmd \in Commands
    /\ step = 1
    /\ phase = "send"
    /\ retry = TRUE
    /\ refreshed = FALSE
    /\ apiToken = "login"
    /\ result = "none"
    /\ strayTemps = 0

Next == CliNext \/ ServerNext \/ Terminated

(* The CLI process is scheduled; the server answers every request (the     *)
(* requests carry the command's ctx, which the user may cancel; that ends  *)
(* the request as a network failure).  The server's own actions need no    *)
(* fairness.                                                               *)
Fairness == WF_vars(CliNext)

Spec == Init /\ [][Next]_vars /\ Fairness

-----------------------------------------------------------------------------
(* Properties.                                                             *)

TypeOK ==
    /\ tokenExpired \in BOOLEAN
    /\ refreshValid \in BOOLEAN
    /\ clusterExists \in BOOLEAN
    /\ artifactPresent \in BOOLEAN
    /\ deletedBy \in {"none", "cli", "other"}
    /\ cmd \in Commands
    /\ step \in 1..Len(Plan(cmd))
    /\ phase \in Phases
    /\ retry \in BOOLEAN
    /\ refreshed \in BOOLEAN
    /\ apiToken \in {"login", "fresh"}
    /\ result \in Results
    /\ strayTemps \in Nat

(* delete-custom-class prints "Custom class deleted successfully." only if *)
(* its own DELETE removed the artifact, even when another client deleted  *)
(* it between findArtifactIDAndName and doDelete.                          *)
DeleteOkOnlyIfDeletedByCli ==
    (cmd = "delete" /\ result = "ok") => deletedBy = "cli"

(* Every command returns: the 401 retry in doGet/doDelete happens at most  *)
(* once per call, whatever the server answers.                             *)
CommandTerminates == <>(phase = "done")

(* A call whose RefreshAccessToken succeeded does not fail with 401: the   *)
(* retry carries the access token the refresh returned (the assignments at *)
(* the end of RefreshAccessToken).                                         *)
RefreshedCallAuthorized == result = "unauthorized" => ~refreshed

(* A command that has returned leaves no temporary file behind: the file  *)
(* download creates is the caller's to remove through the stop func, and  *)
(* there is no other way to reach it.                                      *)
NoStrayTempFile == phase = "done" => strayTemps = 0

(* RefreshAccessToken runs at most once per call: a 401 that follows a    *)
(* successful refresh is returned, not answered with another refresh (the  *)
(* retry flag FALSE on the recursive doGet/doDelete call), so a server     *)
(* that keeps rejecting the new token cannot make the CLI loop.            *)
OneRefreshPerCall ==
    [][phase # "refresh" /\ phase' = "refresh" => ~refreshed]_vars

(* Inductive strengthening of TypeOK, DeleteOkOnlyIfDeletedByCli and       *)
(* OneRefreshPerCall: the command has a result exactly when it has        *)
(* returned, a call that has refreshed has lost its retry flag, and an     *)
(* artifact the CLI deleted stays deleted, so another client cannot claim  *)
(* it.                                                                     *)
IInv ==
    /\ TypeOK
    /\ (phase = "done") = (result # "none")
    /\ refreshed => ~retry
    /\ deletedBy = "cli" => ~artifactPresent
    /\ DeleteOkOnlyIfDeletedByCli

=============================================================================
