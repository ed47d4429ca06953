---------------------------- MODULE StageExecutor ----------------------------
(***************************************************************************)
(* What the stage executor promises: stage.Execute(ctx, ec, input, sp)     *)
(* of clc/ux/stage.  That package is not under src/; this module follows   *)
(* spec 4.1 and 4.4 and the executor properties of spec 8.                 *)
(*                                                                         *)
(* Execute takes the stages of a fixed provider one at a time, in order.  *)
(* A stage that returns nil or an error wrapped by stage.IgnoreError lets  *)
(* the next one run; any other error stops the pipeline and is returned.   *)
(* A cancelled ctx stops the pipeline between stages.  After the last      *)
(* stage Execute returns an error if some stage's error was ignored.       *)
(*                                                                         *)
(* A stage is one step here: how it polls, queries and sleeps is the       *)
(* business of the stage (MigrationStatus models the migration's stages   *)
(* with their polling loop).  MigrationCommands composes this module with *)
(* the start and estimate commands.                                        *)
(***************************************************************************)
EXTENDS Naturals, TLAPS

CONSTANT N   \* the number of stages the provider supplies

Stages    == 1..N
Classes   == {"success", "ignored", "fatal", "cancelled", "timeout"}
Continues == {"success", "ignored"}
Aborts    == Classes \ Continues
Errors    == {"none", "ignored", "ctx"} \cup Aborts

VARIABLES
    phase,    \* "idle": Execute not called yet; "running"; "stopped": it returned
    k,        \* the stage being run; N + 1 once every stage has returned
    ret,      \* ret[i]: how stage i returned ("none": it never ran)
    err,      \* the error Execute returned ("none" while it runs)
    ctxDone   \* the caller's ctx is cancelled or past its deadline

vars == <<phase, k, ret, err, ctxDone>>

Init ==
    /\ phase = "idle"
    /\ k = 1
    /\ ret = [i \in Stages |-> "none"]
    /\ err = "none"
    /\ ctxDone = FALSE

(* Execute is called; it starts with the first stage.                      *)
Start ==
    /\ phase = "idle"
    /\ phase' = "running"
    /\ k' = 1
    /\ UNCHANGED <<ret, err, ctxDone>>

(* Stage k returns with class c.                                           *)
Return(c) ==
    /\ phase = "running"
    /\ k \in Stages
    /\ ret' = [ret EXCEPT ![k] = c]
    /\ IF c \in Continues
         THEN /\ k' = k + 1
              /\ UNCHANGED <<phase, err>>
         ELSE /\ phase' = "stopped"
              /\ err' = c
              /\ UNCHANGED k
    /\ UNCHANGED ctxDone

(* Between stages, a done ctx stops the pipeline.                          *)
StopOnCtx ==
    /\ phase = "running"
    /\ ctxDone
    /\ phase' = "stopped"
    /\ err' = "ctx"
    /\ UNCHANGED <<k, ret, ctxDone>>

(* Every stage has returned: Execute reports the ignored errors, if any.   *)
Complete ==
    /\ phase = "running"
    /\ k = N + 1
    /\ ~ctxDone
    /\ phase' = "stopped"
    /\ err' = IF \E i \in Stages : ret[i] = "ignored" THEN "ignored" ELSE "none"
    /\ UNCHANGED <<k, ret, ctxDone>>

(* The caller cancels ctx, or its deadline passes.                         *)
Cancel ==
    /\ ~ctxDone
    /\ ctxDone' = TRUE
    /\ UNCHANGED <<phase, k, ret, err>>

Next == Start \/ (\E c \in Classes : Return(c)) \/ StopOnCtx \/ Complete \/ Cancel

(* A running pipeline keeps going: the stage that runs returns (a stage    *)
(* observes ctx itself), and the executor moves on.  Nothing forces the   *)
(* caller to call Execute or to cancel ctx.                                *)
Fairness == WF_vars(StopOnCtx \/ Complete \/ \E c \in Classes : Return(c))

SafetySpec == Init /\ [][Next]_vars

Spec == SafetySpec /\ Fairness

-----------------------------------------------------------------------------
(* Properties.                                                             *)

TypeOK ==
    /\ phase \in {"idle", "running", "stopped"}
    /\ k \in 1..N + 1
    /\ ret \in [Stages -> Classes \cup {"none"}]
    /\ err \in Errors
    /\ ctxDone \in BOOLEAN

(* The contract of spec 8.  Stages run strictly in order from the first: *)
(* every stage before k went on, no stage after k ran, and stage k has    *)
(* not returned unless it stopped the pipeline.  A stage error that is    *)
(* not ignored is what Execute returns, and no later stage runs.  Execute *)
(* returns nil or the ignored-error report only after every stage ran,    *)
(* and reports the ignored errors exactly when there were some.           *)
ExecutorContract ==
    /\ phase = "idle" => k = 1
    /\ \A i \in Stages : i < k => ret[i] \in Continues
    /\ \A i \in Stages : i > k => ret[i] = "none"
    /\ phase # "stopped" => err = "none"
    /\ (k \in Stages /\ ~(phase = "stopped" /\ err \in Aborts)) => ret[k] = "none"
    /\ (phase = "stopped" /\ err \in Aborts) => k \in Stages /\ ret[k] = err
    /\ (phase = "stopped" /\ err \in {"none", "ignored"})
         => /\ k = N + 1
            /\ (err = "ignored") = \E i \in Stages : ret[i] = "ignored"

(* Each stage returns at most once, and only after every earlier stage    *)
(* went on: no step overwrites a stage's recorded class, and no step       *)
(* records one for a stage while an earlier stage has not returned or      *)
(* stopped the pipeline.                                                   *)
ReturnsOnceInOrder ==
    [][\A i \in Stages :
         ret'[i] # ret[i] => /\ ret[i] = "none"
                             /\ \A j \in Stages : j < i => ret[j] \in Continues]_vars

(* A running pipeline eventually returns.                                  *)
Terminates == phase = "running" ~> phase = "stopped"

-----------------------------------------------------------------------------
(* Proof that every behaviour of SafetySpec keeps the contract, for every *)
(* number of stages.  TypeOK /\ ExecutorContract is inductive as it is.    *)

ContractInv == TypeOK /\ ExecutorContract

LEMMA InitContract == N \in Nat /\ Init => ContractInv
<1> SUFFICES ASSUME N \in Nat, Init PROVE ContractInv
  OBVIOUS
<1>1. TypeOK
  <2>1. ret \in [Stages -> Classes \cup {"none"}]
    BY DEF Init
  <2>2. err \in Errors
    BY DEF Init, Errors
  <2>3. k \in 1..N + 1
    BY DEF Init
  <2>4. QED
    BY <2>1, <2>2, <2>3, Zenon DEF Init, TypeOK
<1>2. ExecutorContract
  BY DEF Init, ExecutorContract, Stages
<1>3. QED
  BY <1>1, <1>2 DEF ContractInv

LEMMA NextContract == N \in Nat /\ ContractInv /\ [Next]_vars => ContractInv'
<1> SUFFICES ASSUME N \in Nat, ContractInv, [Next]_vars PROVE ContractInv'
  OBVIOUS
<1> USE DEF ContractInv, TypeOK, Stages, Classes, Continues, Aborts, Errors
<1>1. CASE Start
  BY <1>1 DEF Start, ExecutorContract
<1>2. ASSUME NEW c \in Classes, Return(c) PROVE ContractInv'
  <2>1. CASE c \in Continues
    BY <1>2, <2>1 DEF Return, ExecutorContract
  <2>2. CASE c \notin Continues
    BY <1>2, <2>2 DEF Return, ExecutorContract
  <2>3. QED
    BY <2>1, <2>2
<1>3. CASE StopOnCtx
  BY <1>3 DEF StopOnCtx, ExecutorContract
<1>4. CASE Complete
  BY <1>4 DEF Complete, ExecutorContract
<1>5. CASE Cancel
  BY <1>5 DEF Cancel, ExecutorContract
<1>6. CASE UNCHANGED vars
  BY <1>6 DEF vars, ExecutorContract
<1>7. QED
  BY <1>1, <1>2, <1>3, <1>4, <1>5, <1>6 DEF Next

(* For every number of stages, stage.Execute runs the stages in order,     *)
(* returns the first error that is not ignored, runs nothing after it, and *)
(* reports ignored errors exactly when some stage's error was ignored      *)
(* (the executor properties of spec 8).                                    *)
THEOREM ContractHolds == N \in Nat => (SafetySpec => []ExecutorContract)
<1> SUFFICES ASSUME N \in Nat PROVE SafetySpec => []ExecutorContract
  OBVIOUS
<1>1. SafetySpec => []ContractInv
  BY InitContract, NextContract, PTL DEF SafetySpec
<1>2. QED
  BY <1>1, PTL DEF ContractInv

(* For every number of stages, stage.Execute runs each stage once and in   *)
(* order: a Return writes the class of stage k, which the contract keeps  *)
(* unreturned while the pipeline runs and which follows only stages that  *)
(* went on.                                                                *)
THEOREM StagesReturnOnceInOrder == N \in Nat => (SafetySpec => ReturnsOnceInOrder)
<1> SUFFICES ASSUME N \in Nat PROVE SafetySpec => ReturnsOnceInOrder
  OBVIOUS
<1> DEFINE Once == \A i \in Stages :
                     ret'[i] # ret[i] => /\ ret[i] = "none"
                                         /\ \A j \in Stages : j < i => ret[j] \in Continues
<1>1. ContractInv /\ [Next]_vars => [Once]_vars
  <2> SUFFICES ASSUME ContractInv, [Next]_vars PROVE Once
    OBVIOUS
  <2>1. ASSUME NEW c \in Classes, Return(c) PROVE Once
    <3>1. phase = "running" /\ k \in Stages /\ ret' = [ret EXCEPT ![k] = c]
      BY <2>1 DEF Return
    <3>2. ret[k] = "none" /\ \A j \in Stages : j < k => ret[j] \in Continues
      BY <3>1 DEF ContractInv, ExecutorContract
    <3>3. \A i \in Stages : i # k => ret'[i] = ret[i]
      BY <3>1 DEF ContractInv, TypeOK
    <3>4. QED
      BY <3>2, <3>3
  <2>2. CASE Start \/ StopOnCtx \/ Complete \/ Cancel \/ UNCHANGED vars
    BY <2>2 DEF Start, StopOnCtx, Complete, Cancel, vars
  <2>3. QED
    BY <2>1, <2>2 DEF Next
<1>2. SafetySpec => []ContractInv
  BY InitContract, NextContract, PTL DEF SafetySpec
<1>3. QED
  BY <1>1, <1>2, PTL DEF SafetySpec, ReturnsOnceInOrder
=============================================================================
