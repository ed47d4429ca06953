------------------------- MODULE ViridianAPIProofs -------------------------
(***************************************************************************)
(* Proofs, for either network mode and either refresh-token policy of the  *)
(* server, that the Viridian client model keeps its types and that        *)
(* delete-custom-class reports success only if its own DELETE removed the *)
(* artifact.                                                               *)
(*                                                                         *)
(* The argument: IInv (ViridianAPI) holds initially and every step keeps  *)
(* it.  A command returns "ok" only through Advance on the last entry of  *)
(* its plan; for delete-custom-class that entry is the DELETE, whose      *)
(* Advance is taken only when the CLI itself removed the artifact.  After *)
(* that the artifact is absent, so OtherDelete cannot relabel it, and the *)
(* command has returned, so no CLI step changes its result.                *)
(***************************************************************************)
EXTENDS ViridianAPI, TLAPS

(* The lengths of the request plans.                                       *)
LEMMA PlanFacts ==
    /\ Len(Plan("delete")) = 4 /\ Plan("delete")[4] = "delete"
    /\ Len(Plan("list")) = 2
    /\ Len(Plan("logs")) = 2
    /\ Len(Plan("config")) = 1
    /\ Len(Plan("upload")) = 2
    /\ Len(Plan("fetch")) = 4
    /\ \A c \in Commands : Len(Plan(c)) \in Nat \ {0}
BY DEF Plan, DeletePlan, ListPlan, LogsPlan, ConfigPlan, UploadPlan, FetchPlan,
   Commands

(* Advance keeps the step inside the plan and sets a legal result.         *)
LEMMA AdvanceTypeOK ==
    ASSUME TypeOK, Advance, UNCHANGED cmd
    PROVE  /\ step' \in 1..Len(Plan(cmd))
           /\ phase' \in Phases /\ retry' \in BOOLEAN /\ refreshed' \in BOOLEAN
           /\ result' \in Results
<1> DEFINE n == Len(Plan(cmd))
<1>1. n \in Nat \ {0} /\ step \in 1..n
  BY PlanFacts DEF TypeOK
<1>2. CASE step = n
  BY <1>1, <1>2 DEF Advance, TypeOK, Phases, Results
<1>3. CASE step # n
  <2>1. step' = step + 1 /\ retry' = TRUE /\ refreshed' = FALSE
        /\ phase' = phase /\ result' = result
    BY <1>3 DEF Advance
  <2>2. step + 1 \in 1..n
    BY <1>1, <1>3
  <2>3. QED
    BY <2>1, <2>2 DEF TypeOK
<1>4. QED
  BY <1>2, <1>3

(* Fail keeps the step, the retry flag and the refresh mark.               *)
LEMMA FailTypeOK ==
    ASSUME TypeOK, NEW r \in Results, Fail(r)
    PROVE  /\ step' = step /\ phase' \in Phases /\ retry' \in BOOLEAN
           /\ refreshed' \in BOOLEAN /\ result' \in Results
BY DEF Fail, TypeOK, Phases

(* A call that leaves its temporary file behind keeps the count natural.  *)
LEMMA LeakTempNat ==
    ASSUME TypeOK, LeakTemp \/ UNCHANGED strayTemps
    PROVE  strayTemps' \in Nat
BY DEF LeakTemp, TypeOK

(* The initial states satisfy IInv.                                        *)
LEMMA InitIInv == Init => IInv
<1> SUFFICES ASSUME Init PROVE IInv
  OBVIOUS
<1>1. step \in 1..Len(Plan(cmd))
  BY PlanFacts DEF Init
<1>2. QED
  BY <1>1 DEF Init, IInv, TypeOK, Commands, Phases, Results,
     DeleteOkOnlyIfDeletedByCli

-----------------------------------------------------------------------------
(* Types.                                                                  *)

LEMMA NextTypeOK == TypeOK /\ [Next]_vars => TypeOK'
<1> SUFFICES ASSUME TypeOK, [Next]_vars PROVE TypeOK'
  OBVIOUS
<1>1. CASE Expire
  BY <1>1 DEF Expire, TypeOK, cliVars
<1>2. CASE OtherDelete
  BY <1>2 DEF OtherDelete, TypeOK, cliVars
<1>3. CASE SendFails
  BY <1>3, FailTypeOK, LeakTempNat DEF SendFails, TypeOK, Results, serverVars
<1>4. CASE Unauthorized
  BY <1>4, FailTypeOK, LeakTempNat DEF Unauthorized, TypeOK, Phases, Results,
     serverVars
<1>5. CASE FindCluster
  BY <1>5, AdvanceTypeOK, FailTypeOK DEF FindCluster, TypeOK, Results, serverVars
<1>6. CASE ListClasses
  BY <1>6, AdvanceTypeOK, FailTypeOK DEF ListClasses, TypeOK, Results, serverVars
<1>7. CASE StreamLogs
  BY <1>7, AdvanceTypeOK DEF StreamLogs, TypeOK, serverVars
<1>8. CASE Download
  BY <1>8, AdvanceTypeOK, FailTypeOK, LeakTempNat DEF Download, TypeOK, Results,
     serverVars
<1>9. CASE DeleteArtifact
  BY <1>9, AdvanceTypeOK, FailTypeOK DEF DeleteArtifact, TypeOK, Results
<1>12. CASE Transfer
  BY <1>12, AdvanceTypeOK, FailTypeOK DEF Transfer, TypeOK, Results, serverVars
<1>10. CASE Refresh
  BY <1>10, FailTypeOK DEF Refresh, TypeOK, Phases, Results
<1>11. CASE Terminated \/ UNCHANGED vars
  BY <1>11 DEF Terminated, TypeOK, vars, serverVars, cliVars
<1>13. QED
  BY <1>1, <1>2, <1>3, <1>4, <1>5, <1>6, <1>7, <1>8, <1>9, <1>10, <1>11, <1>12
     DEF Next, CliNext, ServerNext

-----------------------------------------------------------------------------
(* The delete invariant.                                                   *)

(* An Advance that makes delete-custom-class return "ok" is taken on its  *)
(* last request, the DELETE.                                               *)
LEMMA DeleteOkIsLastStep ==
    ASSUME TypeOK, Advance, cmd = "delete", result' = "ok", result = "none"
    PROVE  Kind = "delete"
BY PlanFacts DEF Advance, Kind

LEMMA NextIInv == IInv /\ [Next]_vars => IInv'
<1> SUFFICES ASSUME IInv, [Next]_vars PROVE IInv'
  OBVIOUS
<1>0. TypeOK'
  BY NextTypeOK DEF IInv
<1> USE DEF IInv, DeleteOkOnlyIfDeletedByCli
<1>1. CASE Expire
  BY <1>0, <1>1 DEF Expire, cliVars
<1>2. CASE OtherDelete
  BY <1>0, <1>2 DEF OtherDelete, cliVars
<1>3. CASE SendFails
  BY <1>0, <1>3 DEF SendFails, Fail, serverVars
<1>4. CASE Unauthorized
  BY <1>0, <1>4 DEF Unauthorized, Fail, serverVars
<1>5. CASE FindCluster
  <2>1. Kind = "clusters" /\ phase = "send" /\ result = "none"
    BY <1>5 DEF FindCluster
  <2>2. cmd = "delete" => Kind # "delete" /\ Len(Plan(cmd)) = 4
    BY <2>1, PlanFacts
  <2>3. QED
    BY <1>0, <1>5, <2>1, <2>2, DeleteOkIsLastStep
       DEF FindCluster, Advance, Fail, serverVars, TypeOK
<1>6. CASE ListClasses
  <2>1. Kind = "classes" /\ phase = "send" /\ result = "none"
    BY <1>6 DEF ListClasses
  <2>2. QED
    BY <1>0, <1>6, <2>1, DeleteOkIsLastStep
       DEF ListClasses, Advance, Fail, serverVars
<1>7. CASE StreamLogs
  <2>1. Kind = "logstream" /\ phase = "send" /\ result = "none"
    BY <1>7 DEF StreamLogs
  <2>2. QED
    BY <1>0, <1>7, <2>1, DeleteOkIsLastStep
       DEF StreamLogs, Advance, serverVars
<1>8. CASE Download
  <2>1. Kind = "config" /\ phase = "send" /\ result = "none"
    BY <1>8 DEF Download
  <2>2. QED
    BY <1>0, <1>8, <2>1, DeleteOkIsLastStep
       DEF Download, Advance, Fail, serverVars
<1>9. CASE DeleteArtifact
  <2>1. phase = "send" /\ result = "none"
    BY <1>9 DEF DeleteArtifact
  <2>2. QED
    BY <1>0, <1>9, <2>1 DEF DeleteArtifact, Advance, Fail
<1>10. CASE Refresh
  BY <1>0, <1>10 DEF Refresh, Fail
<1>12. CASE Transfer
  <2>1. Kind \in {"upload", "fetch"} /\ phase = "send" /\ result = "none"
    BY <1>12 DEF Transfer
  <2>2. UNCHANGED <<serverVars, cmd>>
    BY <1>12 DEF Transfer
  <2>3. CASE Advance
    BY <1>0, <2>1, <2>2, <2>3, DeleteOkIsLastStep DEF Advance, serverVars
  <2>4. CASE Fail("httperr")
    BY <1>0, <2>1, <2>2, <2>4 DEF Fail, serverVars
  <2>5. QED
    BY <1>12, <2>3, <2>4 DEF Transfer
<1>11. CASE Terminated \/ UNCHANGED vars
  BY <1>0, <1>11 DEF Terminated, vars, serverVars, cliVars
<1>13. QED
  BY <1>1, <1>2, <1>3, <1>4, <1>5, <1>6, <1>7, <1>8, <1>9, <1>10, <1>11, <1>12
     DEF Next, CliNext, ServerNext

(* IInv holds in every state of every behaviour of Spec.                   *)
LEMMA AlwaysIInv == Spec => []IInv
BY InitIInv, NextIInv, PTL DEF Spec

(* Every reachable state of the Viridian client model is well typed.       *)
THEOREM ViridianTypeCorrect == Spec => []TypeOK
<1>1. IInv => TypeOK
  BY DEF IInv
<1>2. QED
  BY AlwaysIInv, <1>1, PTL

(* delete-custom-class prints "Custom class deleted successfully." only   *)
(* when its own doDelete removed the artifact, whatever the server's       *)
(* token expiry and another client's deletes do (DeleteOkOnlyIfDeletedByCli*)
(* of the run viridian_safety, here for every constant value).             *)
THEOREM DeleteSuccessIsOwnDelete == Spec => []DeleteOkOnlyIfDeletedByCli
<1>1. IInv => DeleteOkOnlyIfDeletedByCli
  BY DEF IInv
<1>2. QED
  BY AlwaysIInv, <1>1, PTL


(* RefreshAccessToken is called at most once per doGet/doDelete call: the *)
(* only step into "refresh" is a 401 answered with the retry flag set, and *)
(* the call a successful refresh makes has the flag cleared (OneRefresh-   *)
(* PerCall of the run viridian_safety, for every value of the constants). *)
THEOREM RefreshAtMostOncePerCall == Spec => OneRefreshPerCall
<1>1. IInv /\ [Next]_vars
        => [phase # "refresh" /\ phase' = "refresh" => ~refreshed]_vars
  <2> SUFFICES ASSUME IInv, [Next]_vars, phase # "refresh", phase' = "refresh"
               PROVE  ~refreshed
    OBVIOUS
  <2>1. Unauthorized
    <3>1. ~Expire /\ ~OtherDelete /\ ~Terminated /\ ~UNCHANGED vars
      BY DEF Expire, OtherDelete, Terminated, vars, cliVars
    <3>2. ~SendFails /\ ~Refresh
      BY DEF SendFails, Refresh, Fail
    <3>3. ~FindCluster /\ ~ListClasses /\ ~StreamLogs /\ ~Download /\ ~Transfer
          /\ ~DeleteArtifact
      BY DEF FindCluster, ListClasses, StreamLogs, Download, Transfer,
             DeleteArtifact, Advance, Fail
    <3>4. QED
      BY <3>1, <3>2, <3>3 DEF Next, CliNext, ServerNext
  <2>2. retry
    BY <2>1 DEF Unauthorized, Fail
  <2>3. QED
    BY <2>2 DEF IInv
<1>2. QED
  BY AlwaysIInv, <1>1, PTL DEF Spec, OneRefreshPerCall


=============================================================================
