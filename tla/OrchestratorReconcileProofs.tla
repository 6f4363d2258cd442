--------------------- MODULE OrchestratorReconcileProofs ---------------------
(***************************************************************************)
(* Proofs about OrchestratorReconcile for any specs, any objects there     *)
(* before, and any number of faults and changes of the spec.               *)
(***************************************************************************)
EXTENDS OrchestratorReconcile, TLAPS

(* The records the model is built from are well typed.                     *)
LEMMA RecordTypes ==
  /\ NoStatus \in StatusType /\ NoCopy \in CrType
  /\ \A r \in CrType, s \in SpecType : [r EXCEPT !.spec = s] \in CrType
  /\ \A r \in CrType : [r EXCEPT !.finalizer = TRUE] \in CrType
<1>1. NoSpec \in SpecType
  BY DEF NoSpec, SpecType
<1>2. NoStatus \in StatusType
  BY DEF NoStatus, StatusType, Stages
<1>3. NoCopy \in CrType
  BY <1>1, <1>2 DEF NoCopy, CrType
<1> QED BY <1>2, <1>3 DEF CrType

(* So is a status that UpdateStatus makes.                                 *)
Conditions == {"Available", "Completed", "Degrading"}

LEMMA StatusTypes ==
  ASSUME NEW r \in CrType, stage \in Stages, NEW condition \in Conditions
  PROVE  [r EXCEPT !.status = Status(@, condition)] \in CrType
<1> DEFINE s == r.status
<1>0. s \in StatusType
  BY DEF CrType
<1>1. Status(s, condition) \in StatusType
  <2>1. CASE condition = "Available"
    BY <1>0, <2>1 DEF Status, StatusType
  <2>2. CASE condition = "Completed"
    BY <1>0, <2>2 DEF Status, StatusType
  <2>3. CASE condition = "Degrading"
    BY <1>0, <2>3 DEF Status, StatusType
  <2> QED BY <2>1, <2>2, <2>3 DEF Conditions
<1> QED BY <1>1 DEF CrType

(* The initial states are well typed.                                      *)
LEMMA TypeInit == Init => TypeOK
<1> SUFFICES ASSUME Init PROVE TypeOK
  OBVIOUS
<1>1. obj \in [Objects -> ObjStates]
  BY DEF Init, ObjStates
<1>2. cr \in CrType
  <2>1. PICK start \in Starts :
          cr = [spec |-> start.spec, finalizer |-> FALSE, status |-> NoStatus]
    BY DEF Init
  <2>2. start.spec \in SpecType
    BY StartsAssumption DEF StartType
  <2> QED BY <2>1, <2>2, RecordTypes DEF CrType
<1>3. faults \in 0..MaxFaults /\ edits \in 0..MaxEdits
  BY BoundsAssumption DEF Init
<1> QED BY <1>1, <1>2, <1>3, RecordTypes DEF Init, TypeOK, Steps, Stages

-----------------------------------------------------------------------------
(* The part of the state that belongs to the worker.                       *)
WorkerOK == /\ copy \in CrType /\ fresh \in BOOLEAN /\ queue \in BOOLEAN
            /\ pc \in Steps /\ stage \in Stages
            /\ todo \subseteq Objects /\ errs \subseteq Objects

(* The moves of the worker keep it well typed.                             *)
LEMMA MoveTypes ==
  ASSUME WorkerOK
  PROVE  /\ \A step \in Steps : Goto(step) => WorkerOK'
         /\ \A step \in Steps, set \in SUBSET Objects : Loop(step, set) => WorkerOK'
         /\ Requeue => WorkerOK'
         /\ Done => WorkerOK'
         /\ \A s \in Stages : FailIn(s) => WorkerOK'
         /\ \A s \in Stages, error \in Answers : OnError(s, error) => WorkerOK'
<1>1. \A step \in Steps : Goto(step) => WorkerOK'
  BY DEF WorkerOK, Goto, locals
<1>2. \A step \in Steps, set \in SUBSET Objects : Loop(step, set) => WorkerOK'
  BY DEF WorkerOK, Loop
<1>3. EndPass /\ queue' \in BOOLEAN => WorkerOK'
  BY RecordTypes DEF WorkerOK, EndPass, Steps, Stages
<1>4. \A s \in Stages : FailIn(s) => WorkerOK'
  BY DEF WorkerOK, FailIn, Steps
<1> QED BY <1>1, <1>2, <1>3, <1>4 DEF Requeue, Done, OnError, WorkerOK

LEMMA CountTypes ==
  ASSUME TypeOK
  PROVE  (Fault => faults' \in 0..MaxFaults) /\ (NoFault => faults' \in 0..MaxFaults)
  BY BoundsAssumption DEF TypeOK, Fault, NoFault

(* A write of the resource and a write of an object.                       *)
LEMMA UpdateTypes ==
  ASSUME TypeOK, NEW r \in CrType, NEW ok \in BOOLEAN, UpdateResource(r, ok)
  PROVE  cr' \in CrType /\ current' \in BOOLEAN /\ faults' \in 0..MaxFaults
  BY CountTypes DEF UpdateResource, TypeOK

LEMMA CreateTypes ==
  ASSUME TypeOK, NEW o \in Objects, NEW answer \in Answers
  PROVE  /\ Made(o) \in [Objects -> ObjStates]
         /\ Create(o, answer) => obj' \in [Objects -> ObjStates] /\ faults' \in 0..MaxFaults
         /\ GetCreateOrUpdate(o, answer) =>
              obj' \in [Objects -> ObjStates] /\ faults' \in 0..MaxFaults
<1>1. Made(o) \in [Objects -> ObjStates]
  BY DEF TypeOK, Made, ObjStates
<1>2. [obj EXCEPT ![o] = "adopted"] \in [Objects -> ObjStates]
  BY DEF TypeOK, ObjStates
<1>3. obj \in [Objects -> ObjStates]
  BY DEF TypeOK
<1>4. Create(o, answer) => obj' \in [Objects -> ObjStates] /\ faults' \in 0..MaxFaults
  BY <1>1, <1>3, CountTypes DEF Create
<1> QED BY <1>1, <1>2, <1>3, <1>4, CountTypes DEF GetCreateOrUpdate

-----------------------------------------------------------------------------
(* Type correctness, action by action.  What an action must show: the      *)
(* worker, the objects, the resource and the two counters.                 *)
WorldOK == /\ obj \in [Objects -> ObjStates] /\ seen \in [Objects -> ObjStates]
           /\ prereq \subseteq Prerequisites
           /\ cr \in CrType /\ crSeen \in CrType /\ current \in BOOLEAN
           /\ allErrors \subseteq Objects
           /\ faults \in 0..MaxFaults /\ edits \in 0..MaxEdits

LEMMA TypeParts == TypeOK <=> WorkerOK /\ WorldOK
  BY DEF TypeOK, WorkerOK, WorldOK

(* The steps on the resource and its status.                               *)
LEMMA TypeResource ==
  ASSUME TypeOK,
         ReconcileStart \/ Reconcile \/ addFinalizers \/ initializeStatus
         \/ refetchResource \/ FailedStatus \/ CompletedStatus
  PROVE  TypeOK'
<1>0. WorkerOK /\ WorldOK
  BY TypeParts
<1>a. FromOSL \in Steps /\ FromOSL' \in Steps /\ "status" \in Steps /\ "refetch" \in Steps
  BY DEF FromOSL, FromKnative, FromRHDH, FromNetworkPolicy, Steps
<1>1. CASE ReconcileStart
  BY <1>1 DEF ReconcileStart, TypeOK, Steps, world, resource, locals
<1>2. CASE Reconcile \/ refetchResource
  <2>1. WorldOK'
    BY <1>0, <1>2, CountTypes DEF Reconcile, refetchResource, WorldOK, world, resource
  <2>2. WorkerOK'
    BY <1>0, <1>2, <1>a, MoveTypes DEF Reconcile, refetchResource, WorkerOK, WorldOK, Steps
  <2> QED BY <2>1, <2>2 DEF TypeOK, WorkerOK, WorldOK
<1>3. CASE addFinalizers
  <2>1. PICK r \in CrType, ok \in BOOLEAN :
          /\ r = [copy EXCEPT !.finalizer = TRUE]
          /\ \/ UNCHANGED <<cr, current, faults>> /\ Goto("status")
             \/ /\ UpdateResource(r, ok)
                /\ \/ copy' = r /\ pc' = "status" /\ UNCHANGED <<queue, fresh, stage, todo, errs>>
                   \/ Requeue
    BY <1>0, <1>3, RecordTypes DEF addFinalizers, WorkerOK, NoFault
  <2>2. WorldOK'
    BY <1>0, <1>3, <2>1, UpdateTypes DEF addFinalizers, WorldOK, world
  <2>3. WorkerOK'
    BY <1>0, <1>a, <2>1, MoveTypes DEF WorkerOK
  <2> QED BY <2>2, <2>3 DEF TypeOK, WorkerOK, WorldOK
<1>4. CASE initializeStatus \/ FailedStatus \/ CompletedStatus
  <2>1. PICK condition \in Conditions, ok \in BOOLEAN :
          /\ UNCHANGED <<cr, current, faults>> \/ UpdateStatus(condition, ok)
          /\ Goto(FromOSL) \/ Goto("refetch") \/ Requeue \/ Done
    BY <1>4 DEF initializeStatus, FailedStatus, CompletedStatus, Conditions, NoFault
  <2>2. cr' \in CrType /\ current' \in BOOLEAN /\ faults' \in 0..MaxFaults
    BY <1>0, <2>1, StatusTypes, UpdateTypes DEF UpdateStatus, WorkerOK, WorldOK
  <2>3. WorldOK'
    BY <1>0, <1>4, <2>2 DEF initializeStatus, FailedStatus, CompletedStatus, WorldOK, world
  <2>4. WorkerOK'
    BY <1>0, <1>a, <2>1, MoveTypes
  <2> QED BY <2>3, <2>4 DEF TypeOK, WorkerOK, WorldOK
<1> QED BY <1>1, <1>2, <1>3, <1>4

(* The steps of the stages leave the resource, the cache and the           *)
(* prerequisites alone: what remains to show.                              *)
StageFrame == UNCHANGED <<prereq, seen, resource, edits>>

LEMMA TypeStage ==
  ASSUME TypeOK, StageFrame, WorkerOK', obj' \in [Objects -> ObjStates],
         allErrors' \subseteq Objects, faults' \in 0..MaxFaults
  PROVE  TypeOK'
  BY DEF TypeOK, WorkerOK, StageFrame, resource

(* The parameterised steps.                                                *)
LEMMA TypeCalls ==
  ASSUME TypeOK, NEW o \in Objects, NEW from, NEW crd, NEW next \in Steps, NEW s \in Stages
  PROVE  /\ Call(from, next, s) => TypeOK'
         /\ CheckCRDExists(from, crd, next, s) => TypeOK'
         /\ GetOrCreate(o, next, s) => TypeOK'
         /\ KnativeNamespace(o, next) => TypeOK'
         /\ KnativeResource(o, next) => TypeOK'
<1>0. WorkerOK /\ obj \in [Objects -> ObjStates] /\ allErrors \subseteq Objects
  BY DEF TypeOK, WorkerOK
<1>a. "knative" \in Stages
  BY DEF Stages
<1>1. ASSUME Call(from, next, s) PROVE TypeOK'
  <2>1. WorkerOK'
    BY <1>0, <1>1, MoveTypes DEF Call
  <2> QED BY <1>0, <1>1, <2>1, CountTypes, TypeStage DEF Call, StageFrame, world
<1>2. ASSUME CheckCRDExists(from, crd, next, s) PROVE TypeOK'
  <2>1. WorkerOK'
    BY <1>0, <1>2, MoveTypes DEF CheckCRDExists
  <2> QED BY <1>0, <1>2, <2>1, CountTypes, TypeStage DEF CheckCRDExists, StageFrame, world
<1>3. ASSUME GetOrCreate(o, next, s) PROVE TypeOK'
  <2>1. WorkerOK'
    BY <1>0, <1>3, MoveTypes DEF GetOrCreate
  <2>2. obj' \in [Objects -> ObjStates] /\ faults' \in 0..MaxFaults
    BY <1>0, <1>3, CreateTypes, CountTypes DEF GetOrCreate
  <2> QED BY <1>0, <1>3, <2>1, <2>2, TypeStage DEF GetOrCreate, StageFrame
<1>4. ASSUME KnativeNamespace(o, next) PROVE TypeOK'
  <2>1. WorkerOK'
    BY <1>0, <1>a, <1>4, MoveTypes DEF KnativeNamespace
  <2>2. Made(o) \in [Objects -> ObjStates]
    BY CreateTypes DEF Answers
  <2>3. obj' \in [Objects -> ObjStates] /\ faults' \in 0..MaxFaults
    BY <1>0, <1>4, <2>2, CreateTypes, CountTypes DEF KnativeNamespace
  <2> QED BY <1>0, <1>4, <2>1, <2>3, TypeStage DEF KnativeNamespace, StageFrame
<1>5. ASSUME KnativeResource(o, next) PROVE TypeOK'
  <2>1. WorkerOK'
    BY <1>0, <1>a, <1>5, MoveTypes DEF KnativeResource
  <2>2. obj' \in [Objects -> ObjStates] /\ faults' \in 0..MaxFaults
    BY <1>0, <1>5, CreateTypes, CountTypes DEF KnativeResource
  <2> QED BY <1>0, <1>5, <2>1, <2>2, TypeStage DEF KnativeResource, StageFrame
<1> QED BY <1>1, <1>2, <1>3, <1>4, <1>5

(* The three stages of the operators.                                      *)
LEMMA TypeOperators ==
  ASSUME TypeOK, reconcileServerlessLogic \/ reconcileKnative \/ reconcileRHDH
  PROVE  TypeOK'
<1>0. WorkerOK /\ obj \in [Objects -> ObjStates] /\ allErrors \subseteq Objects
  BY DEF TypeOK, WorkerOK
<1>a. /\ {"oslop", "oslcrd", "sfcp", "sfp", "knop", "evcrd", "evns", "eventing", "svcrd", "svns",
           "serving", "domain", "secret", "cm", "rhdhcrd", "backstage"} \subseteq Steps
      /\ FromKnative \in Steps /\ FromRHDH \in Steps /\ FromNetworkPolicy \in Steps
  BY DEF FromKnative, FromRHDH, FromNetworkPolicy, Steps
<1>b. {"osl", "knative", "rhdh"} \subseteq Stages
  BY DEF Stages
<1>c. /\ {"wfns", "sfcp", "sfp", "evns", "eventing", "svns", "serving", "secret", "backstage"}
         \subseteq Objects
      /\ ConfigMaps \subseteq Objects
  BY DEF Objects, OSLObjects, KnativeObjects, RHDHObjects
<1>1. CASE workflowNamespace
  <2>1. WorkerOK'
    BY <1>0, <1>a, <1>b, <1>1, MoveTypes DEF workflowNamespace
  <2>2. obj' \in [Objects -> ObjStates] /\ faults' \in 0..MaxFaults
    BY <1>0, <1>c, <1>1, CreateTypes, CountTypes DEF workflowNamespace
  <2> QED BY <1>0, <1>1, <2>1, <2>2, TypeStage DEF workflowNamespace, StageFrame
<1>2. CASE CreateRHDHSecret
  <2>1. WorkerOK'
    BY <1>0, <1>a, <1>b, <1>c, <1>2, MoveTypes DEF CreateRHDHSecret
  <2>2. obj' \in [Objects -> ObjStates] /\ faults' \in 0..MaxFaults
    BY <1>0, <1>c, <1>2, CreateTypes, CountTypes DEF CreateRHDHSecret
  <2> QED BY <1>0, <1>2, <2>1, <2>2, TypeStage DEF CreateRHDHSecret, StageFrame
<1>3. CASE GetOrCreateConfigMaps
  <2>0. todo \subseteq Objects
    BY <1>0 DEF WorkerOK
  <2>1. WorkerOK'
    <3>1. CASE Goto("rhdhcrd")
      BY <1>0, <1>a, <3>1, MoveTypes
    <3>2. CASE \E answer \in Answers : OnError("rhdh", answer)
      BY <1>0, <1>b, <3>2, MoveTypes
    <3>3. CASE todo' \subseteq todo /\ UNCHANGED <<queue, pc, copy, fresh, stage, errs>>
      BY <1>0, <3>3 DEF WorkerOK
    <3> QED BY <1>3, <3>1, <3>2, <3>3 DEF GetOrCreateConfigMaps
  <2>2. obj' \in [Objects -> ObjStates] /\ faults' \in 0..MaxFaults
    BY <1>0, <1>3, <2>0, CreateTypes, CountTypes DEF GetOrCreateConfigMaps
  <2> QED BY <1>0, <1>3, <2>1, <2>2, TypeStage DEF GetOrCreateConfigMaps, StageFrame
<1>4. CASE reconcileServerlessLogic
  BY <1>1, <1>4, <1>a, <1>b, <1>c, TypeCalls DEF reconcileServerlessLogic
<1>5. CASE reconcileKnative
  BY <1>5, <1>a, <1>b, <1>c, TypeCalls DEF reconcileKnative
<1>6. CASE reconcileRHDH
  BY <1>2, <1>3, <1>6, <1>a, <1>b, <1>c, TypeCalls DEF reconcileRHDH
<1> QED BY <1>4, <1>5, <1>6

(* Network policies and GitOps.                                            *)
LEMMA TypePolicies ==
  ASSUME TypeOK, reconcileNetworkPolicy
  PROVE  TypeOK'
<1>0. /\ WorkerOK /\ obj \in [Objects -> ObjStates] /\ allErrors \subseteq Objects
      /\ todo \subseteq Objects /\ errs \subseteq Objects
  BY DEF TypeOK, WorkerOK
<1>a. {"np", "argocrd", "cleanproject"} \subseteq Steps /\ "networkpolicy" \in Stages
  BY DEF Steps, Stages
<1>b. SelectedPolicies \subseteq Objects
  BY DEF SelectedPolicies, Objects
<1>1. CASE networkPolicyNamespace
  <2>1. WorkerOK'
    BY <1>0, <1>a, <1>b, <1>1, MoveTypes DEF networkPolicyNamespace
  <2> QED BY <1>0, <1>1, <2>1, CountTypes, TypeStage DEF networkPolicyNamespace, StageFrame, world
<1>2. CASE networkPolicyResult
  <2>1. WorkerOK'
    BY <1>0, <1>a, <1>2, MoveTypes DEF networkPolicyResult
  <2> QED BY <1>0, <1>2, <2>1, CountTypes, TypeStage DEF networkPolicyResult, StageFrame, world
<1>3. CASE handleNetworkPolicy
  <2>1. PICK o \in todo, answer \in Answers :
          /\ GetCreateOrUpdate(o, answer) /\ todo' = todo \ {o}
          /\ \/ UNCHANGED <<errs, allErrors>>
             \/ errs' = errs \union {o} /\ allErrors' = allErrors \union {o}
    BY <1>3 DEF handleNetworkPolicy
  <2>2. WorkerOK'
    BY <1>0, <1>3, <2>1 DEF handleNetworkPolicy, WorkerOK
  <2>3. obj' \in [Objects -> ObjStates] /\ faults' \in 0..MaxFaults
    BY <1>0, <2>1, CreateTypes
  <2>4. allErrors' \subseteq Objects
    BY <1>0, <2>1
  <2> QED BY <1>3, <2>2, <2>3, <2>4, TypeStage DEF handleNetworkPolicy, StageFrame
<1> QED BY <1>1, <1>2, <1>3 DEF reconcileNetworkPolicy

LEMMA TypeGitOps ==
  ASSUME TypeOK, HandleGitOps \/ HandleGitOpsCleanUp
  PROVE  TypeOK'
<1>0. /\ WorkerOK /\ obj \in [Objects -> ObjStates] /\ allErrors \subseteq Objects
      /\ todo \subseteq Objects /\ errs \subseteq Objects
  BY DEF TypeOK, WorkerOK
<1>a. /\ {"argocrd", "appproject", "taskcrd", "tasks", "pipecrd", "pipeline", "cleanproject",
           "cleanpipeline", "cleantasks", "completed"} \subseteq Steps
      /\ "gitops" \in Stages
  BY DEF Steps, Stages
<1>b. "appproject" \in Objects /\ "pipeline" \in Objects /\ tektonTaskList \subseteq Objects
  BY DEF Objects, GitOpsObjects
<1>1. CASE handleArgoCDProject
  <2>1. WorkerOK'
    BY <1>0, <1>a, <1>1, MoveTypes DEF handleArgoCDProject
  <2>2. obj' \in [Objects -> ObjStates] /\ faults' \in 0..MaxFaults
    BY <1>b, <1>1, CreateTypes DEF handleArgoCDProject
  <2> QED BY <1>0, <1>1, <2>1, <2>2, TypeStage DEF handleArgoCDProject, StageFrame
<1>2. CASE taskCRD
  <2>1. WorkerOK'
    BY <1>0, <1>a, <1>b, <1>2, MoveTypes DEF taskCRD
  <2> QED BY <1>0, <1>2, <2>1, CountTypes, TypeStage DEF taskCRD, StageFrame, world
<1>3. CASE HandleTektonTasks
  <2>1. WorkerOK'
    <3>1. CASE Goto("pipecrd")
      BY <1>0, <1>a, <3>1, MoveTypes
    <3>2. CASE \E answer \in Answers : OnError("gitops", answer)
      BY <1>0, <1>a, <3>2, MoveTypes
    <3>3. CASE /\ todo' \subseteq todo /\ UNCHANGED <<queue, pc, copy, fresh, stage>>
               /\ errs' = errs \/ \E o \in todo : errs' = errs \union {o}
      BY <1>0, <3>3 DEF WorkerOK
    <3> QED BY <1>3, <3>1, <3>2, <3>3 DEF HandleTektonTasks
  <2>2. obj' \in [Objects -> ObjStates] /\ faults' \in 0..MaxFaults
    BY <1>0, <1>3, CreateTypes, CountTypes DEF HandleTektonTasks, Answers
  <2> QED BY <1>0, <1>3, <2>1, <2>2, TypeStage DEF HandleTektonTasks, StageFrame
<1>4. CASE HandleTektonPipeline
  <2>1. WorkerOK'
    BY <1>0, <1>a, <1>4, MoveTypes DEF HandleTektonPipeline
  <2>2. obj' \in [Objects -> ObjStates] /\ faults' \in 0..MaxFaults
    BY <1>0, <1>b, <1>4, CreateTypes, CountTypes DEF HandleTektonPipeline
  <2> QED BY <1>0, <1>4, <2>1, <2>2, TypeStage DEF HandleTektonPipeline, StageFrame
<1>5. CASE HandleGitOps
  BY <1>1, <1>2, <1>3, <1>4, <1>5, <1>a, <1>b, TypeCalls DEF HandleGitOps
<1>6. ASSUME NEW from, NEW o \in Objects, NEW next \in Steps, NEW left \in SUBSET Objects,
             CleanUpOne(from, o, next, left)
      PROVE  TypeOK'
  <2>1. WorkerOK'
    BY <1>0, <1>a, <1>6, MoveTypes DEF CleanUpOne
  <2>2. obj' \in [Objects -> ObjStates] /\ faults' \in 0..MaxFaults
    BY <1>0, <1>6, CountTypes DEF CleanUpOne, ObjStates
  <2> QED BY <1>0, <1>6, <2>1, <2>2, TypeStage DEF CleanUpOne, StageFrame
<1>7. CASE handleTektonTaskCleanUp
  <2>1. WorkerOK'
    <3>1. CASE Goto("completed")
      BY <1>0, <1>a, <3>1, MoveTypes
    <3>2. CASE todo' \subseteq todo /\ UNCHANGED <<queue, pc, copy, fresh, stage, errs>>
      BY <1>0, <3>2 DEF WorkerOK
    <3> QED BY <1>7, <3>1, <3>2 DEF handleTektonTaskCleanUp
  <2>2. obj' \in [Objects -> ObjStates] /\ faults' \in 0..MaxFaults
    BY <1>0, <1>7, CountTypes DEF handleTektonTaskCleanUp, ObjStates
  <2> QED BY <1>0, <1>7, <2>1, <2>2, TypeStage DEF handleTektonTaskCleanUp, StageFrame
<1>8. CASE HandleGitOpsCleanUp
  BY <1>6, <1>7, <1>8, <1>a, <1>b DEF HandleGitOpsCleanUp
<1> QED BY <1>5, <1>8

LEMMA TypeEnvironment ==
  ASSUME TypeOK, Environment
  PROVE  TypeOK'
<1>1. CASE SyncObjects
  <2>1. seen' \in [Objects -> ObjStates]
    BY <1>1 DEF SyncObjects, TypeOK
  <2> QED BY <1>1, <2>1 DEF SyncObjects, TypeOK, world, resource, locals
<1>2. CASE SyncResource
  BY <1>2 DEF SyncResource, TypeOK, world, locals
<1>3. CASE Restart
  BY <1>3, CountTypes, RecordTypes DEF Restart, EndPass, TypeOK, Steps, Stages, world
<1>4. CASE Provide
  <2>1. Needed(cr.spec) \subseteq Prerequisites
    BY DEF Needed, Prerequisites
  <2> QED BY <1>4, <2>1 DEF Provide, TypeOK, resource, locals
<1>5. CASE EditSpec
  <2>1. cr' \in CrType
    <3> PICK change \in Changes : cr' = [cr EXCEPT !.spec = change[2]]
      BY <1>5 DEF EditSpec
    <3>1. change[2] \in SpecType
      BY ChangesAssumption
    <3> QED BY <3>1, RecordTypes DEF TypeOK
  <2>2. edits' \in 0..MaxEdits
    BY <1>5, BoundsAssumption DEF EditSpec, TypeOK
  <2> QED BY <1>5, <2>1, <2>2 DEF EditSpec, TypeOK, world
<1>6. CASE OtherWorkerFails
  <2>1. NetworkPoliciesList \subseteq Objects
    BY DEF Objects
  <2> QED BY <1>6, <2>1, CountTypes DEF OtherWorkerFails, TypeOK, world, resource, locals
<1> QED BY <1>1, <1>2, <1>3, <1>4, <1>5, <1>6 DEF Environment, Cluster

LEMMA TypeNext == TypeOK /\ [Next]_vars => TypeOK'
<1>1. TypeOK /\ UNCHANGED vars => TypeOK'
  BY DEF TypeOK, vars, world, resource, locals
<1> QED BY <1>1, TypeResource, TypeOperators, TypePolicies, TypeGitOps, TypeEnvironment
        DEF Next, Worker

(* The model is type correct.                                              *)
THEOREM TypeCorrect == Spec => []TypeOK
  BY TypeInit, TypeNext, PTL DEF Spec

-----------------------------------------------------------------------------
(* Versions of the resource.  A write takes effect on the latest version   *)
(* only, from which the worker's copy was made.                            *)
LEMMA WriteIsCurrent ==
  ASSUME TypeOK, VersionInv, NEW r, NEW ok \in BOOLEAN, UpdateResource(r, ok), pc # "refetch"
  PROVE  /\ (cr' = cr /\ current' = current) \/ (copy = cr /\ cr' = r)
         /\ current' => current /\ cr' = cr
         /\ ok => fresh /\ copy = cr /\ cr' = r
<1>1. current \in BOOLEAN /\ fresh \in BOOLEAN
  BY DEF TypeOK
<1>2. fresh => copy = cr
  BY DEF VersionInv
<1>3. CASE ok /\ fresh /\ cr' = r /\ current' = (current /\ r = cr)
  BY <1>1, <1>2, <1>3
<1>4. CASE ~ok /\ UNCHANGED <<cr, current>>
  BY <1>4
<1>5. CASE ~ok /\ fresh /\ cr' = r /\ current' = (current /\ r = cr)
  BY <1>1, <1>2, <1>5
<1> QED BY <1>3, <1>4, <1>5 DEF UpdateResource

(* What the steps of the stages do to the worker: they go on with the same *)
(* copy, or end the pass and put the request back.                         *)
StageMove ==
  /\ UNCHANGED resource
  /\ pc \notin BeforeRun \union {"refetch"} /\ pc' # "refetch"
  /\ Requeue \/ (UNCHANGED <<copy, fresh, queue>> /\ pc' # "idle")
  /\ pc' = "failed" => stage' # "none"

LEMMA VersionStage ==
  ASSUME VersionInv, StageMove
  PROVE  VersionInv'
  BY DEF VersionInv, StageMove, resource, Requeue, EndPass

LEMMA StageMoves ==
  ASSUME reconcileServerlessLogic \/ reconcileKnative \/ reconcileRHDH
         \/ reconcileNetworkPolicy \/ HandleGitOps \/ HandleGitOpsCleanUp
  PROVE  StageMove
<1> USE DEF BeforeRun
<1> DEFINE Outside == {"idle", "refetch", "failed"}
<1>a. ASSUME NEW step, Goto(step) PROVE pc' = step /\ UNCHANGED <<copy, fresh, queue>>
  BY <1>a DEF Goto, locals
<1>b. ASSUME NEW step, NEW set, Loop(step, set) PROVE pc' = step /\ UNCHANGED <<copy, fresh, queue>>
  BY <1>b DEF Loop
<1>c. ASSUME NEW s, NEW error, OnError(s, error), s # "none"
      PROVE  /\ Requeue \/ (UNCHANGED <<copy, fresh, queue>> /\ pc' # "idle")
             /\ pc' # "refetch" /\ (pc' = "failed" => stage' # "none")
  BY <1>c DEF OnError, FailIn, Requeue, EndPass
<1>d. ASSUME Requeue PROVE pc' = "idle"
  BY <1>d DEF Requeue, EndPass
<1>e. ASSUME NEW s, FailIn(s), s # "none"
      PROVE  /\ UNCHANGED <<copy, fresh, queue>> /\ pc' = "failed" /\ stage' # "none"
  BY <1>e DEF FailIn
<1>f. FromKnative \notin Outside /\ FromRHDH \notin Outside
  BY DEF FromKnative, FromRHDH, FromNetworkPolicy
<1>2. ASSUME NEW from, NEW crd, NEW next, NEW s,
             from \notin BeforeRun \union {"refetch"}, next \notin Outside, s # "none"
      PROVE  /\ Call(from, next, s) => StageMove
             /\ CheckCRDExists(from, crd, next, s) => StageMove
             /\ GetOrCreate(from, next, s) => StageMove
  <2>1. Call(from, next, s) => StageMove
    BY <1>2, <1>a, <1>c DEF Call, StageMove, resource
  <2>2. CheckCRDExists(from, crd, next, s) => StageMove
    BY <1>2, <1>a, <1>d, <1>e DEF CheckCRDExists, StageMove, resource
  <2>3. GetOrCreate(from, next, s) => StageMove
    BY <1>2, <1>a, <1>c, <1>e DEF GetOrCreate, StageMove, resource
  <2> QED BY <2>1, <2>2, <2>3
<1>2a. ASSUME NEW from, NEW next, from \notin BeforeRun \union {"refetch"}, next \notin Outside
       PROVE  /\ KnativeNamespace(from, next) => StageMove
              /\ KnativeResource(from, next) => StageMove
  <2>1. KnativeNamespace(from, next) => StageMove
    BY <1>2a, <1>a, <1>c, <1>e DEF KnativeNamespace, StageMove, resource
  <2>2. KnativeResource(from, next) => StageMove
    BY <1>2a, <1>a, <1>e DEF KnativeResource, StageMove, resource
  <2> QED BY <2>1, <2>2
<1>3. CASE reconcileServerlessLogic
  <2>1. CASE workflowNamespace
    BY <2>1, <1>a, <1>c, <1>d, <1>e DEF workflowNamespace, StageMove, resource
  <2> QED BY <1>2, <1>3, <1>f, <2>1 DEF reconcileServerlessLogic
<1>4. CASE reconcileKnative
  BY <1>2, <1>2a, <1>4, <1>f DEF reconcileKnative
<1>5. CASE reconcileRHDH
  <2>1. CASE CreateRHDHSecret
    BY <2>1, <1>b, <1>c, <1>e DEF CreateRHDHSecret, StageMove, resource
  <2>2. CASE GetOrCreateConfigMaps
    BY <2>2, <1>a, <1>c DEF GetOrCreateConfigMaps, StageMove, resource
  <2> QED BY <1>2, <1>5, <1>f, <2>1, <2>2 DEF reconcileRHDH, FromNetworkPolicy
<1>6. CASE reconcileNetworkPolicy
  BY <1>6, <1>b, <1>d, <1>e
     DEF reconcileNetworkPolicy, networkPolicyNamespace, handleNetworkPolicy,
         networkPolicyResult, StageMove, resource
<1>7. CASE HandleGitOps
  <2>1. CASE handleArgoCDProject
    BY <2>1, <1>a, <1>c DEF handleArgoCDProject, StageMove, resource
  <2>2. CASE taskCRD
    BY <2>2, <1>b, <1>d, <1>e DEF taskCRD, StageMove, resource
  <2>3. CASE HandleTektonTasks
    BY <2>3, <1>a, <1>c DEF HandleTektonTasks, StageMove, resource
  <2>4. CASE HandleTektonPipeline
    BY <2>4, <1>a, <1>c, <1>d, <1>e DEF HandleTektonPipeline, StageMove, resource
  <2> QED BY <1>2, <1>7, <2>1, <2>2, <2>3, <2>4 DEF HandleGitOps
<1>8. CASE HandleGitOpsCleanUp
  <2>1. ASSUME NEW from, NEW o, NEW next, NEW left, CleanUpOne(from, o, next, left),
               from \notin BeforeRun \union {"refetch"}, next \notin Outside
        PROVE  StageMove
    BY <2>1, <1>b, <1>d, <1>e DEF CleanUpOne, StageMove, resource
  <2>2. CASE handleTektonTaskCleanUp
    BY <2>2, <1>a DEF handleTektonTaskCleanUp, StageMove, resource
  <2> QED BY <1>8, <2>1, <2>2 DEF HandleGitOpsCleanUp
<1> QED BY <1>3, <1>4, <1>5, <1>6, <1>7, <1>8

(* The steps on the resource: each is a write of one of four kinds, or     *)
(* none.                                                                   *)
LEMMA StatusEffect ==
  ASSUME NEW r \in CrType, NEW condition \in Conditions
  PROVE  LET new == [r EXCEPT !.status = Status(@, condition)] IN
           /\ new.spec = r.spec
           /\ r.status.available => new.status.available
           /\ r.status.completed => new.status.completed
           /\ r.status.degrading # "none" /\ stage # "none" => new.status.degrading # "none"
           /\ condition = "Available" => /\ new.status.phase = "Running"
                                         /\ new.status.degrading = r.status.degrading
           /\ condition = "Completed" => /\ new.status.phase = "Completed" /\ new.status.completed
                                         /\ new.status.degrading = r.status.degrading
           /\ condition = "Degrading" => /\ new.status.phase = "Failed"
                                         /\ new.status.degrading = stage
<1> DEFINE s == r.status
<1>0. s \in StatusType
  BY DEF CrType
<1>1. CASE condition = "Available"
  BY <1>0, <1>1 DEF Status, StatusType, CrType
<1>2. CASE condition = "Completed"
  BY <1>0, <1>2 DEF Status, StatusType, CrType
<1>3. CASE condition = "Degrading"
  BY <1>0, <1>3 DEF Status, StatusType, CrType
<1> QED BY <1>1, <1>2, <1>3 DEF Conditions

(* A write of the status keeps the invariant and never takes a condition   *)
(* back.                                                                   *)
StatusOK == /\ cr.status.phase = "Completed" => cr.status.completed
            /\ cr.status.phase = "Failed" => cr.status.degrading # "none"

LEMMA StatusWrite ==
  ASSUME TypeOK, VersionInv, NEW condition \in Conditions, NEW ok \in BOOLEAN,
         UpdateStatus(condition, ok), pc # "refetch",
         condition = "Available" => ~HasConditions(copy.status),
         condition = "Degrading" => stage # "none"
  PROVE  /\ StatusGrows /\ StatusOK'
         /\ current' => current /\ cr' = cr
         /\ cr'.spec = cr.spec
<1> DEFINE new == [copy EXCEPT !.status = Status(@, condition)]
<1>1. copy \in CrType /\ cr \in CrType
  BY DEF TypeOK
<1>2. UpdateResource(new, ok)
  BY DEF UpdateStatus
<1>3. (cr' = cr /\ current' = current) \/ (copy = cr /\ cr' = new)
  BY <1>2, WriteIsCurrent
<1>4. current' => current /\ cr' = cr
  BY <1>2, WriteIsCurrent
<1>5. CASE cr' = cr
  BY <1>5, <1>4 DEF StatusGrows, VersionInv, StatusOK
<1>6. CASE copy = cr /\ cr' = new
  <2>1. /\ cr.status.available => cr'.status.available
        /\ cr.status.completed => cr'.status.completed
        /\ cr.status.degrading # "none" => cr'.status.degrading # "none"
    BY <1>1, <1>6, StatusEffect DEF Conditions
  <2>2. cr'.status.phase = "Running" => cr.status.phase \in {"none", "Running"}
    <3>1. cr'.status.phase = "Running" => condition = "Available"
      BY <1>1, <1>6, StatusEffect DEF Conditions
    <3>2. condition = "Available" => ~cr.status.completed /\ cr.status.degrading = "none"
      BY <1>6 DEF HasConditions
    <3>3. cr.status.phase \in {"none", "Running", "Completed", "Failed"}
      BY <1>1 DEF CrType, StatusType
    <3> QED BY <3>1, <3>2, <3>3 DEF VersionInv
  <2>3. StatusOK'
    BY <1>1, <1>6, StatusEffect DEF Conditions, StatusOK
  <2>4. cr'.spec = cr.spec
    BY <1>1, <1>6, StatusEffect
  <2> QED BY <1>4, <2>1, <2>2, <2>3, <2>4 DEF StatusGrows
<1> QED BY <1>3, <1>5, <1>6

LEMMA VersionResource ==
  ASSUME TypeOK, VersionInv,
         ReconcileStart \/ Reconcile \/ addFinalizers \/ initializeStatus
         \/ refetchResource \/ FailedStatus \/ CompletedStatus
  PROVE  VersionInv' /\ StatusGrows /\ cr'.spec = cr.spec
<1>a. FromOSL \notin {"refetch", "failed"} /\ FromOSL' \notin {"refetch", "failed"}
  BY DEF FromOSL, FromKnative, FromRHDH, FromNetworkPolicy
<1>b. UNCHANGED cr => StatusGrows /\ StatusOK'
  BY DEF StatusGrows, StatusOK, VersionInv
<1>1. CASE ReconcileStart
  BY <1>1, <1>b DEF ReconcileStart, VersionInv, resource, locals
<1>2. CASE Reconcile \/ refetchResource
  BY <1>2, <1>a, <1>b DEF Reconcile, refetchResource, VersionInv, resource, Requeue, EndPass
<1>3. CASE addFinalizers
  <2> DEFINE r == [copy EXCEPT !.finalizer = TRUE]
  <2>0. /\ r.status = copy.status /\ r.spec = copy.spec
        /\ pc = "finalizer" /\ crSeen' = crSeen
    BY <1>3 DEF addFinalizers, TypeOK, CrType
  <2>1. CASE UNCHANGED <<cr, current>> /\ Goto("status")
    BY <2>0, <2>1, <1>b DEF VersionInv, Goto, locals
  <2>2. ASSUME NEW ok \in BOOLEAN, UpdateResource(r, ok),
               \/ ok /\ copy' = r /\ pc' = "status" /\ UNCHANGED <<queue, fresh, stage, todo, errs>>
               \/ ~ok /\ Requeue
        PROVE  VersionInv' /\ StatusGrows /\ cr'.spec = cr.spec
    <3>1. /\ (cr' = cr /\ current' = current) \/ (copy = cr /\ cr' = r)
          /\ current' => current /\ cr' = cr
          /\ ok => fresh /\ copy = cr /\ cr' = r
      BY <2>0, <2>2, WriteIsCurrent
    <3>2. cr'.status = cr.status /\ cr'.spec = cr.spec
      BY <2>0, <3>1
    <3>3. fresh' => copy' = cr'
      BY <2>2, <3>1 DEF Requeue, EndPass
    <3>4. pc' # "failed"
      BY <2>2 DEF Requeue, EndPass
    <3> QED BY <2>0, <3>1, <3>2, <3>3, <3>4 DEF VersionInv, StatusGrows
  <2> QED BY <1>3, <2>1, <2>2 DEF addFinalizers
<1>4. CASE initializeStatus
  <2>1. CASE UNCHANGED <<cr, current>> /\ Goto(FromOSL)
    BY <1>4, <2>1, <1>a, <1>b DEF initializeStatus, VersionInv, Goto, locals
  <2>2. ASSUME NEW ok \in BOOLEAN, ~HasConditions(copy.status), UpdateStatus("Available", ok),
               Goto("refetch") \/ Requeue
        PROVE  VersionInv' /\ StatusGrows /\ cr'.spec = cr.spec
    <3>1. StatusGrows /\ StatusOK' /\ (current' => current /\ cr' = cr) /\ cr'.spec = cr.spec
      BY <1>4, <2>2, StatusWrite DEF initializeStatus, Conditions
    <3>2. crSeen' = crSeen /\ pc' # "failed" /\ (pc' = "refetch" \/ ~fresh')
      BY <1>4, <2>2 DEF initializeStatus, Goto, Requeue, EndPass
    <3> QED BY <3>1, <3>2 DEF VersionInv, StatusOK
  <2> QED BY <1>4, <2>1, <2>2 DEF initializeStatus
<1>5. CASE FailedStatus \/ CompletedStatus
  <2>1. PICK condition \in {"Degrading", "Completed"}, ok \in BOOLEAN :
          UpdateStatus(condition, ok) /\ (condition = "Degrading" => pc = "failed")
    BY <1>5 DEF FailedStatus, CompletedStatus
  <2>2. pc # "refetch" /\ crSeen' = crSeen /\ ~fresh' /\ pc' = "idle"
    BY <1>5 DEF FailedStatus, CompletedStatus, Requeue, Done, EndPass
  <2>3. StatusGrows /\ StatusOK' /\ (current' => current /\ cr' = cr) /\ cr'.spec = cr.spec
    BY <2>1, <2>2, StatusWrite DEF Conditions, VersionInv
  <2> QED BY <2>2, <2>3 DEF VersionInv, StatusOK
<1> QED BY <1>1, <1>2, <1>3, <1>4, <1>5

LEMMA VersionEnvironment ==
  ASSUME TypeOK, VersionInv, Environment
  PROVE  VersionInv' /\ StatusGrows
<1>a. ASSUME UNCHANGED cr PROVE StatusGrows
  BY <1>a DEF StatusGrows, VersionInv
<1>1. CASE SyncObjects \/ Provide \/ OtherWorkerFails
  BY <1>1, <1>a DEF SyncObjects, Provide, OtherWorkerFails, VersionInv, resource, locals
<1>3. CASE SyncResource
  BY <1>3, <1>a DEF SyncResource, VersionInv, locals
<1>4. CASE Restart
  BY <1>4, <1>a DEF Restart, EndPass, VersionInv
<1>2. CASE EditSpec
  <2>1. cr'.status = cr.status
    BY <1>2 DEF EditSpec, TypeOK, CrType
  <2> QED BY <1>2, <2>1 DEF EditSpec, VersionInv, StatusGrows
<1> QED BY <1>1, <1>2, <1>3, <1>4 DEF Environment, Cluster

LEMMA VersionNext ==
  TypeOK /\ VersionInv /\ [Next]_vars => VersionInv' /\ [StatusGrows]_vars
<1> SUFFICES ASSUME TypeOK, VersionInv, [Next]_vars PROVE VersionInv' /\ (StatusGrows \/ UNCHANGED vars)
  OBVIOUS
<1>1. CASE UNCHANGED vars
  BY <1>1 DEF VersionInv, vars, resource, locals
<1>2. CASE reconcileServerlessLogic \/ reconcileKnative \/ reconcileRHDH
           \/ reconcileNetworkPolicy \/ HandleGitOps \/ HandleGitOpsCleanUp
  <2>1. StageMove
    BY <1>2, StageMoves
  <2>2. StatusGrows
    BY <2>1 DEF StageMove, StatusGrows, resource
  <2> QED BY <2>1, <2>2, VersionStage
<1> QED BY <1>1, <1>2, VersionResource, VersionEnvironment DEF Next, Worker

LEMMA VersionInit == Init => VersionInv
<1> SUFFICES ASSUME Init PROVE VersionInv
  OBVIOUS
<1>1. cr.status = NoStatus /\ pc = "idle" /\ crSeen = cr /\ fresh = FALSE
  BY DEF Init
<1>2. cr.status.phase = "none"
  BY <1>1 DEF NoStatus
<1> QED BY <1>1, <1>2 DEF VersionInv

(* No write of the resource takes back what the status told: the API       *)
(* server refuses writes of old versions, and a pass that did not see the  *)
(* outcome of an earlier one has an old version.                           *)
THEOREM StatusKept == Spec => StatusNeverForgotten
  BY VersionInit, TypeCorrect, VersionNext, PTL DEF Spec, StatusNeverForgotten

-----------------------------------------------------------------------------
(* Completed passes.  The order of a pass: the objects whose own steps are *)
(* over when the worker goes on to another step.                           *)
LEMMA Order ==
  ASSUME NEW o \in Objects
  PROVE  /\ "wfns" \notin After(o)
         /\ "oslop" \in After(o) => o = "wfns"
         /\ "oslcrd" \in After(o) => "oslop" \in After(o)
         /\ "sfcp" \in After(o) => "oslcrd" \in After(o)
         /\ "sfp" \in After(o) => "sfcp" \in After(o) \/ o = "sfcp"
         /\ "knop" \in After(o) => "sfp" \in After(o) \/ o = "sfp"
         /\ "evcrd" \in After(o) => "knop" \in After(o)
         /\ "evns" \in After(o) => "evcrd" \in After(o)
         /\ "eventing" \in After(o) => "evns" \in After(o) \/ o = "evns"
         /\ "svcrd" \in After(o) => "eventing" \in After(o) \/ o = "eventing"
         /\ "svns" \in After(o) => "svcrd" \in After(o)
         /\ "serving" \in After(o) => "svns" \in After(o) \/ o = "svns"
         /\ "rhdhop" \in After(o) => "serving" \in After(o) \/ o = "serving"
         /\ "domain" \in After(o) => "rhdhop" \in After(o)
         /\ "secret" \in After(o) => "domain" \in After(o)
         /\ "cm" \in After(o) => "secret" \in After(o) \/ o = "secret"
         /\ "rhdhcrd" \in After(o) => "cm" \in After(o) \/ o \in ConfigMaps
         /\ "backstage" \in After(o) => "rhdhcrd" \in After(o)
         /\ "npns" \in After(o) => "backstage" \in After(o) \/ o = "backstage"
         /\ "np" \in After(o) => "npns" \in After(o)
         /\ "argocrd" \in After(o) => "np" \in After(o) \/ o \in NetworkPoliciesList
         /\ "appproject" \in After(o) => "argocrd" \in After(o)
         /\ "taskcrd" \in After(o) => "appproject" \in After(o) \/ o = "appproject"
         /\ "tasks" \in After(o) => "taskcrd" \in After(o)
         /\ "pipecrd" \in After(o) => "tasks" \in After(o) \/ o \in tektonTaskList
         /\ "pipeline" \in After(o) => "pipecrd" \in After(o)
         /\ "completed" \in After(o) => "pipeline" \in After(o) \/ o = "pipeline"
         /\ "cleanproject" \in After(o) => "np" \in After(o) \/ o \in NetworkPoliciesList
         /\ "cleanpipeline" \in After(o) => "cleanproject" \in After(o)
         /\ "cleantasks" \in After(o) => "cleanpipeline" \in After(o)
         /\ "completed" \in After(o) => "cleantasks" \in After(o) \/ o \in GitOpsObjects
         /\ "knop" \in After(o) => o \in OSLObjects
         /\ "rhdhop" \in After(o) => "knop" \in After(o) \/ o \in KnativeObjects
         /\ "npns" \in After(o) => "rhdhop" \in After(o) \/ o \in RHDHObjects
<1> USE DEF AfterTasks, AfterProject, CleanSteps, AfterPolicies, AfterRHDH, AfterMaps, AfterSecret,
            AfterServing, AfterSvns, AfterEventing, AfterEvns, AfterSfp, AfterSfcp, AfterWfns,
            OSLObjects, KnativeObjects, RHDHObjects, GitOpsObjects, ConfigMaps,
            NetworkPoliciesList, tektonTaskList
<1>1. CASE o = "wfns"
  <2>1. After(o) = AfterWfns
    BY <1>1 DEF After
  <2> QED BY <1>1, <2>1
<1>2. CASE o = "sfcp"
  <2>1. After(o) = AfterSfcp
    BY <1>2 DEF After
  <2> QED BY <1>2, <2>1
<1>3. CASE o = "sfp"
  <2>1. After(o) = AfterSfp
    BY <1>3 DEF After
  <2> QED BY <1>3, <2>1
<1>4. CASE o = "evns"
  <2>1. After(o) = AfterEvns
    BY <1>4 DEF After
  <2> QED BY <1>4, <2>1
<1>5. CASE o = "eventing"
  <2>1. After(o) = AfterEventing
    BY <1>5 DEF After
  <2> QED BY <1>5, <2>1
<1>6. CASE o = "svns"
  <2>1. After(o) = AfterSvns
    BY <1>6 DEF After
  <2> QED BY <1>6, <2>1
<1>7. CASE o = "serving"
  <2>1. After(o) = AfterServing
    BY <1>7 DEF After
  <2> QED BY <1>7, <2>1
<1>8. CASE o = "secret"
  <2>1. After(o) = AfterSecret
    BY <1>8 DEF After
  <2> QED BY <1>8, <2>1
<1>9. CASE o \in ConfigMaps
  <2>1. After(o) = AfterMaps
    BY <1>9 DEF After
  <2> QED BY <1>9, <2>1
<1>10. CASE o = "backstage"
  <2>1. After(o) = AfterRHDH
    BY <1>10 DEF After
  <2> QED BY <1>10, <2>1
<1>11. CASE o \in NetworkPoliciesList
  <2>1. After(o) = AfterPolicies
    BY <1>11 DEF After
  <2> QED BY <1>11, <2>1
<1>12. CASE o = "appproject"
  <2>1. After(o) = AfterProject
    BY <1>12 DEF After
  <2> QED BY <1>12, <2>1
<1>13. CASE o \in tektonTaskList
  <2>1. After(o) = AfterTasks
    BY <1>13 DEF After
  <2> QED BY <1>13, <2>1
<1>14. CASE o = "pipeline"
  <2>1. After(o) = {"completed"}
    BY <1>14 DEF After
  <2> QED BY <1>14, <2>1
<1> QED BY <1>1, <1>2, <1>3, <1>4, <1>5, <1>6, <1>7, <1>8, <1>9, <1>10, <1>11, <1>12, <1>13, <1>14 DEF Objects

LEMMA WantedObjects == \A s : Wanted(s) \subseteq Objects
  BY DEF Wanted, Objects

(* Objects are created and adopted, and what is there stays.               *)
Stays(o) == /\ obj[o] # "absent" => obj'[o] # "absent"
            /\ obj[o] \in {"adopted", "ours"} => obj'[o] \in {"adopted", "ours"}
Grows == \A o \in Objects : Stays(o)

LEMMA NothingChanges == ASSUME UNCHANGED obj PROVE Grows
  BY DEF Grows, Stays

(* The two namespaces of Knative are earned only by being there.           *)
LEMMA EarnedHere ==
  ASSUME NEW o \in {"evns", "svns"}
  PROVE  (Earned(o) <=> obj[o] # "absent") /\ (Earned(o)' <=> obj'[o] # "absent")
  BY DEF Earned, Fulfilled, ErrorsPassedOver, ConfigMaps, NetworkPoliciesList, GitOpsObjects,
         tektonTaskList

LEMMA EarnedStays ==
  ASSUME TypeOK, NEW o \in Objects, Earned(o), Stays(o), Fault \/ NoFault, UNCHANGED edits
  PROVE  Earned(o)'
<1>1. Fulfilled(o) => Fulfilled(o)'
  BY DEF Fulfilled, Stays
<1>2. faults > 0 => faults' > 0
  BY BoundsAssumption DEF TypeOK, Fault, NoFault
<1> QED BY <1>1, <1>2 DEF Earned

LEMMA CreateGrows ==
  ASSUME TypeOK, NEW o \in Objects, NEW answer \in Answers, Create(o, answer)
  PROVE  /\ Grows /\ (Fault \/ NoFault)
         /\ answer = "ok" => obj'[o] = "ours"
         /\ answer = "notfound" => ~Place(o)
         /\ answer = "error" => obj[o] # "absent" \/ Fault
<1>1. obj' = obj \/ (obj[o] = "absent" /\ obj' = Made(o))
  BY DEF Create
<1>2. Grows
  BY <1>1 DEF Grows, Stays, Made, TypeOK
<1> QED BY <1>1, <1>2 DEF Create, Made, TypeOK

(* A stage step that does not enter a loop: it ends the pass or fails, or  *)
(* goes on with some more objects earned.                                  *)
Moves(to, done) ==
  \/ pc' = "idle"
  \/ pc' = "failed" /\ copy' = copy
  \/ pc' = to /\ copy' = copy /\ \A o \in done : Earned(o)'

StageStep(from, to, done) ==
  StageFrame /\ (Fault \/ NoFault) /\ Grows /\ pc = from /\ Moves(to, done)

LEMMA StageEarned ==
  ASSUME TypeOK, EarnedInv, pc \notin {"idle", "get"}, StageFrame,
         \A o \in Objects : Lasting(o) => Stays(o),
         \/ pc' = "idle"
         \/ pc' = "failed" /\ copy' = copy
         \/ /\ copy' = copy /\ LoopInv' /\ PlaceInv' /\ BranchInv'
            /\ \A o \in Wanted(copy.spec) : pc' \in After(o) => Earned(o)'
  PROVE  EarnedInv'
<1>1. SpecInv'
  BY DEF EarnedInv, SpecInv, StageFrame, resource
<1>2. SeenInv'
  BY DEF EarnedInv, SeenInv, Lasting, Stays, StageFrame, resource
<1>3. CASE pc' \in {"idle", "failed"}
  <2>1. \A o \in Objects : pc' \notin After(o)
    <3>1. ASSUME NEW o \in Objects PROVE "idle" \notin After(o) /\ "failed" \notin After(o)
      BY DEF After, Objects, OSLObjects, KnativeObjects, RHDHObjects, GitOpsObjects,
             AfterTasks, AfterProject, CleanSteps, AfterPolicies, AfterRHDH, AfterMaps, AfterSecret,
             AfterServing, AfterSvns, AfterEventing, AfterEvns, AfterSfp, AfterSfcp, AfterWfns
    <3> QED BY <1>3, <3>1
  <2>2. \A o \in Wanted(copy.spec)' : pc' \notin After(o)
    BY <2>1, WantedObjects
  <2>3. LoopInv' /\ PlaceInv' /\ BranchInv'
    BY <1>3 DEF LoopInv, PlaceInv, BranchInv, GitOpsSteps, CleanSteps
  <2> QED BY <1>1, <1>2, <1>3, <2>2, <2>3 DEF EarnedInv
<1>4. CASE /\ copy' = copy /\ LoopInv' /\ PlaceInv' /\ BranchInv'
           /\ \A o \in Wanted(copy.spec) : pc' \in After(o) => Earned(o)'
  <2>1. \A o \in Wanted(copy.spec)' : pc' \in After(o) => Earned(o)'
    BY <1>4 DEF Wanted
  <2> QED BY <1>1, <1>2, <1>4, <2>1 DEF EarnedInv
<1> QED BY <1>3, <1>4

LEMMA StepEarned ==
  ASSUME TypeOK, EarnedInv, NEW from, NEW to, NEW done, StageStep(from, to, done),
         from \notin {"idle", "get"},
         to = "eventing" => "evns" \in done,
         to = "serving" => "svns" \in done,
         to \notin {"cm", "np", "tasks", "cleanproject", "cleanpipeline", "cleantasks"},
         to \in {"argocrd", "appproject", "taskcrd", "pipecrd", "pipeline"} => copy.spec.gitops,
         \A o \in Wanted(copy.spec) : to \in After(o) => from \in After(o) \/ o \in done
  PROVE  EarnedInv'
<1>1. ASSUME pc' = to, NEW o \in Wanted(copy.spec), to \in After(o), \A p \in done : Earned(p)'
      PROVE  Earned(o)'
  <2>1. o \in Objects
    BY WantedObjects
  <2>2. CASE o \in done
    BY <1>1, <2>2
  <2>3. CASE from \in After(o)
    BY <1>1, <2>1, <2>3, EarnedStays DEF EarnedInv, StageStep, Grows, StageFrame
  <2> QED BY <1>1, <2>2, <2>3
<1>2. \A o \in Objects : Lasting(o) => Stays(o)
  BY DEF StageStep, Grows
<1>3. pc' = to /\ copy' = copy => LoopInv' /\ BranchInv'
  BY DEF LoopInv, BranchInv, GitOpsSteps, CleanSteps
<1>4. ASSUME pc' = to, \A p \in done : Earned(p)' PROVE PlaceInv'
  <2>1. to = "eventing" => obj'["evns"] # "absent"
    BY <1>4, EarnedHere
  <2>2. to = "serving" => obj'["svns"] # "absent"
    BY <1>4, EarnedHere
  <2> QED BY <1>4, <2>1, <2>2 DEF PlaceInv, Place, NetworkPoliciesList, RHDHObjects, ConfigMaps,
                                GitOpsObjects, tektonTaskList
<1> QED BY <1>1, <1>2, <1>3, <1>4, StageEarned DEF StageStep, Moves

(* The parameterised steps are such steps.                                 *)
LEMMA CallSteps ==
  ASSUME TypeOK, NEW from, NEW crd, NEW next, NEW s
  PROVE  /\ Call(from, next, s) => StageStep(from, next, {})
         /\ CheckCRDExists(from, crd, next, s) => StageStep(from, next, {})
<1>1. UNCHANGED obj => Grows
  BY NothingChanges
<1> QED BY <1>1 DEF Call, CheckCRDExists, StageStep, StageFrame, Moves, Goto, OnError, FailIn,
                    Requeue, EndPass, locals, world

LEMMA CreateSteps ==
  ASSUME TypeOK, SeenInv, NEW o \in Objects \ (GitOpsObjects \union NetworkPoliciesList), NEW next
  PROVE  /\ \A s : GetOrCreate(o, next, s) => StageStep(o, next, {o})
         /\ KnativeNamespace(o, next) => StageStep(o, next, {o})
         /\ o \in ErrorsPassedOver /\ (pc = o => Place(o)) /\ KnativeResource(o, next)
              => StageStep(o, next, {o})
<1>a. seen[o] # "absent" => obj[o] # "absent"
  BY DEF SeenInv, Lasting
<1>b. o \in Objects /\ o # "appproject"
  BY DEF GitOpsObjects
<1>c. obj'[o] # "absent" => Earned(o)'
  BY <1>b DEF Earned, Fulfilled
<1>d. ASSUME NEW step, Goto(step) PROVE pc' = step /\ copy' = copy
  BY <1>d DEF Goto, locals
<1>e. ASSUME NEW s, FailIn(s) PROVE pc' = "failed" /\ copy' = copy
  BY <1>e DEF FailIn
<1>f. ASSUME NEW s, NEW error, OnError(s, error)
      PROVE  pc' = "idle" \/ (pc' = "failed" /\ copy' = copy)
  BY <1>f, <1>e DEF OnError, Requeue, EndPass
<1>g. UNCHANGED obj => Grows
  BY NothingChanges
<1>1. ASSUME NEW s, GetOrCreate(o, next, s) PROVE StageStep(o, next, {o})
  <2>1. CASE NoFault /\ seen[o] # "absent" /\ UNCHANGED obj /\ Goto(next)
    BY <1>1, <2>1, <1>a, <1>c, <1>d, <1>g DEF GetOrCreate, StageStep, StageFrame, Moves
  <2>2. CASE Fault /\ UNCHANGED obj /\ FailIn(s)
    BY <1>1, <2>2, <1>e, <1>g DEF GetOrCreate, StageStep, StageFrame, Moves
  <2>3. ASSUME NEW answer \in Answers, Create(o, answer),
               IF answer = "ok" THEN Goto(next) ELSE OnError(s, answer)
        PROVE  StageStep(o, next, {o})
    <3>1. Grows /\ (Fault \/ NoFault) /\ (answer = "ok" => obj'[o] # "absent")
      BY <1>b, <2>3, CreateGrows
    <3> QED BY <1>1, <2>3, <3>1, <1>c, <1>d, <1>f DEF GetOrCreate, StageStep, StageFrame, Moves
  <2> QED BY <1>1, <2>1, <2>2, <2>3 DEF GetOrCreate
<1>2. ASSUME KnativeNamespace(o, next) PROVE StageStep(o, next, {o})
  <2>1. CASE NoFault /\ seen[o] # "absent" /\ UNCHANGED obj /\ Goto(next)
    BY <1>2, <2>1, <1>a, <1>c, <1>d, <1>g DEF KnativeNamespace, StageStep, StageFrame, Moves
  <2>2. CASE Fault /\ obj[o] = "absent" /\ obj' = Made(o) /\ Goto(next)
    <3>1. Grows /\ obj'[o] # "absent"
      BY <1>b, <2>2 DEF Grows, Stays, Made, TypeOK
    <3> QED BY <1>2, <2>2, <3>1, <1>c, <1>d DEF KnativeNamespace, StageStep, StageFrame, Moves
  <2>3. CASE Fault /\ obj[o] # "absent" /\ UNCHANGED obj /\ FailIn("knative")
    BY <1>2, <2>3, <1>e, <1>g DEF KnativeNamespace, StageStep, StageFrame, Moves
  <2>4. ASSUME NEW answer \in Answers, Create(o, answer),
               IF answer = "ok" THEN Goto(next) ELSE OnError("knative", answer)
        PROVE  StageStep(o, next, {o})
    <3>1. Grows /\ (Fault \/ NoFault) /\ (answer = "ok" => obj'[o] # "absent")
      BY <1>b, <2>4, CreateGrows
    <3> QED BY <1>2, <2>4, <3>1, <1>c, <1>d, <1>f DEF KnativeNamespace, StageStep, StageFrame, Moves
  <2> QED BY <1>2, <2>1, <2>2, <2>3, <2>4 DEF KnativeNamespace
<1>3. ASSUME o \in ErrorsPassedOver, pc = o => Place(o), KnativeResource(o, next)
      PROVE  StageStep(o, next, {o})
  <2>1. CASE NoFault /\ seen[o] # "absent" /\ UNCHANGED obj /\ Goto(next)
    BY <1>3, <2>1, <1>a, <1>c, <1>d, <1>g DEF KnativeResource, StageStep, StageFrame, Moves
  <2>2. CASE Fault /\ UNCHANGED obj /\ FailIn("knative")
    BY <1>3, <2>2, <1>e, <1>g DEF KnativeResource, StageStep, StageFrame, Moves
  <2>3. ASSUME NEW answer \in Answers, Create(o, answer), Goto(next)
        PROVE  StageStep(o, next, {o})
    <3>1. Grows /\ (Fault \/ NoFault) /\ (obj'[o] # "absent" \/ Fault)
      <4>1. obj[o] # "absent" => obj'[o] # "absent"
        BY <1>b, <2>3, CreateGrows DEF Grows, Stays
      <4> QED BY <1>b, <1>3, <2>3, <4>1, CreateGrows DEF Answers, KnativeResource
    <3>2. Fault => faults' > 0
      BY DEF Fault, TypeOK
    <3>3. Earned(o)'
      BY <1>3, <1>c, <3>1, <3>2 DEF Earned
    <3> QED BY <1>3, <2>3, <3>1, <3>3, <1>d DEF KnativeResource, StageStep, StageFrame, Moves
  <2> QED BY <1>3, <2>1, <2>2, <2>3 DEF KnativeResource
<1> QED BY <1>1, <1>2, <1>3

(* What a spec asks for, by the stages.                                    *)
LEMMA WantedStages ==
  ASSUME NEW s, NEW o \in Wanted(s)
  PROVE  /\ o \in Objects
         /\ o \in OSLObjects => s.osl
         /\ o \in KnativeObjects => s.knative
         /\ o \in RHDHObjects => s.rhdh
         /\ o \in GitOpsObjects => s.gitops
         /\ o = "np-monitoring" => s.monitoring
  BY DEF Wanted, Objects, OSLObjects, KnativeObjects, RHDHObjects, GitOpsObjects, ConfigMaps,
         NetworkPoliciesList, tektonTaskList

(* The first stage after one passes over those that are not wanted.        *)
LEMMA FirstStage ==
  ASSUME NEW s, NEW o \in Wanted(s)
  PROVE  LET rhdh    == IF s.rhdh THEN "rhdhop" ELSE "npns"
             knative == IF s.knative THEN "knop" ELSE rhdh
             osl     == IF s.osl THEN "wfns" ELSE knative
         IN  /\ rhdh \in After(o) => "rhdhop" \in After(o)
             /\ knative \in After(o) => "knop" \in After(o)
             /\ osl \notin After(o)
<1> DEFINE rhdh    == IF s.rhdh THEN "rhdhop" ELSE "npns"
           knative == IF s.knative THEN "knop" ELSE rhdh
           osl     == IF s.osl THEN "wfns" ELSE knative
<1>1. o \in Objects
  BY WantedStages
<1>2. rhdh \in After(o) => "rhdhop" \in After(o)
  BY <1>1, Order, WantedStages
<1>3. knative \in After(o) => "knop" \in After(o)
  BY <1>1, <1>2, Order, WantedStages
<1>4. osl \notin After(o)
  BY <1>1, <1>3, Order, WantedStages
<1> QED BY <1>2, <1>3, <1>4

LEMMA FirstStages ==
  ASSUME NEW o \in Wanted(copy.spec)
  PROVE  /\ FromRHDH \in After(o) => "rhdhop" \in After(o)
         /\ FromKnative \in After(o) => "knop" \in After(o)
         /\ FromOSL \notin After(o)
  BY FirstStage DEF FromOSL, FromKnative, FromRHDH, FromNetworkPolicy

LEMMA EarnedOSL ==
  ASSUME TypeOK, EarnedInv, reconcileServerlessLogic
  PROVE  EarnedInv'
<1>0. SeenInv
  BY DEF EarnedInv
<1>a. \A o \in Wanted(copy.spec) : o \in Objects
  BY WantedObjects
<1>b. /\ {"wfns", "sfcp", "sfp"} \subseteq Objects \ (GitOpsObjects \union NetworkPoliciesList)
      /\ FromKnative \in {"knop", "rhdhop", "npns"}
  BY DEF Objects, OSLObjects, GitOpsObjects, NetworkPoliciesList, tektonTaskList,
         FromKnative, FromRHDH, FromNetworkPolicy
<1>1. CASE workflowNamespace
  <2>1. StageStep("wfns", "oslop", {"wfns"})
    <3>1. CASE NoFault /\ seen["wfns"] # "absent" /\ UNCHANGED obj /\ Goto("oslop")
      <4>1. Earned("wfns")'
        BY <3>1, <1>0, <1>b DEF SeenInv, Lasting, Earned, Fulfilled, GitOpsObjects
      <4> QED BY <1>1, <3>1, <4>1, NothingChanges
              DEF workflowNamespace, StageStep, StageFrame, Moves, Goto, locals
    <3>2. CASE Fault /\ UNCHANGED obj /\ FailIn("osl")
      BY <1>1, <3>2, NothingChanges
         DEF workflowNamespace, StageStep, StageFrame, Moves, FailIn
    <3>3. ASSUME NEW answer \in Answers, Create("wfns", answer),
                 IF answer = "ok" THEN Requeue ELSE OnError("osl", answer)
          PROVE  StageStep("wfns", "oslop", {"wfns"})
      <4>1. Grows /\ (Fault \/ NoFault)
        BY <1>b, <3>3, CreateGrows
      <4> QED BY <1>1, <3>3, <4>1
              DEF workflowNamespace, StageStep, StageFrame, Moves, OnError, FailIn, Requeue, EndPass
    <3> QED BY <1>1, <3>1, <3>2, <3>3 DEF workflowNamespace
  <2> QED BY <2>1, <1>a, Order, StepEarned
<1>2. CASE Call("oslop", "oslcrd", "osl")
  BY <1>2, <1>a, Order, StepEarned, CallSteps
<1>3. CASE CheckCRDExists("oslcrd", "sonataflow", "sfcp", "osl")
  BY <1>3, <1>a, Order, StepEarned, CallSteps
<1>4. CASE GetOrCreate("sfcp", "sfp", "osl")
  <2>1. StageStep("sfcp", "sfp", {"sfcp"})
    BY <1>0, <1>b, <1>4, CreateSteps
  <2> QED BY <2>1, <1>a, Order, StepEarned
<1>5. CASE GetOrCreate("sfp", FromKnative, "osl")
  <2>1. StageStep("sfp", FromKnative, {"sfp"})
    BY <1>0, <1>b, <1>5, CreateSteps
  <2>2. \A o \in Wanted(copy.spec) : FromKnative \in After(o) => "sfp" \in After(o) \/ o \in {"sfp"}
    BY <1>a, Order, FirstStages
  <2> QED BY <2>1, <2>2, <1>b, StepEarned
<1> QED BY <1>1, <1>2, <1>3, <1>4, <1>5 DEF reconcileServerlessLogic

LEMMA EarnedKnative ==
  ASSUME TypeOK, EarnedInv, reconcileKnative
  PROVE  EarnedInv'
<1>0. SeenInv /\ PlaceInv
  BY DEF EarnedInv
<1>a. \A o \in Wanted(copy.spec) : o \in Objects
  BY WantedObjects
<1>b. /\ {"evns", "eventing", "svns", "serving"}
         \subseteq Objects \ (GitOpsObjects \union NetworkPoliciesList)
      /\ {"eventing", "serving"} \subseteq ErrorsPassedOver
      /\ FromRHDH \in {"rhdhop", "npns"}
  BY DEF Objects, KnativeObjects, GitOpsObjects, NetworkPoliciesList, tektonTaskList,
         ErrorsPassedOver, FromRHDH, FromNetworkPolicy
<1>1. CASE Call("knop", "evcrd", "knative")
  BY <1>1, <1>a, Order, StepEarned, CallSteps
<1>2. CASE CheckCRDExists("evcrd", "knative", "evns", "knative")
  BY <1>2, <1>a, Order, StepEarned, CallSteps
<1>3. CASE KnativeNamespace("evns", "eventing")
  <2>1. StageStep("evns", "eventing", {"evns"})
    BY <1>0, <1>b, <1>3, CreateSteps
  <2> QED BY <2>1, <1>a, Order, StepEarned
<1>4. CASE KnativeResource("eventing", "svcrd")
  <2>1. StageStep("eventing", "svcrd", {"eventing"})
    BY <1>0, <1>b, <1>4, CreateSteps DEF PlaceInv
  <2> QED BY <2>1, <1>a, Order, StepEarned
<1>5. CASE CheckCRDExists("svcrd", "knative", "svns", "knative")
  BY <1>5, <1>a, Order, StepEarned, CallSteps
<1>6. CASE KnativeNamespace("svns", "serving")
  <2>1. StageStep("svns", "serving", {"svns"})
    BY <1>0, <1>b, <1>6, CreateSteps
  <2> QED BY <2>1, <1>a, Order, StepEarned
<1>7. CASE KnativeResource("serving", FromRHDH)
  <2>1. StageStep("serving", FromRHDH, {"serving"})
    BY <1>0, <1>b, <1>7, CreateSteps DEF PlaceInv
  <2>2. \A o \in Wanted(copy.spec) :
          FromRHDH \in After(o) => "serving" \in After(o) \/ o \in {"serving"}
    BY <1>a, Order, FirstStages, WantedStages DEF KnativeObjects
  <2> QED BY <2>1, <2>2, <1>b, StepEarned
<1> QED BY <1>1, <1>2, <1>3, <1>4, <1>5, <1>6, <1>7 DEF reconcileKnative

(* One round of a loop over objects.                                       *)
LEMMA LoopEarned ==
  ASSUME TypeOK, EarnedInv, pc \in {"cm", "tasks", "np"}, StageFrame, Fault \/ NoFault, Grows,
         pc' = pc, copy' = copy, NEW o \in todo, todo' = todo \ {o},
         \/ Earned(o)' /\ allErrors' = allErrors
         \/ pc = "np" /\ allErrors' # {}
  PROVE  EarnedInv'
<1>0. LoopInv
  BY DEF EarnedInv
<1>a. ASSUME NEW p \in Objects, Earned(p) PROVE Earned(p)'
  BY <1>a, EarnedStays DEF Grows, StageFrame
<1>b. /\ ConfigMaps \subseteq Objects /\ tektonTaskList \subseteq Objects
      /\ SelectedPolicies \subseteq Objects
  BY DEF Objects, RHDHObjects, GitOpsObjects, SelectedPolicies
<1>c. SelectedPolicies' = SelectedPolicies
  BY DEF SelectedPolicies
<1>1. pc = "cm" => LoopInv'
  <2>1. ASSUME pc = "cm", NEW p \in ConfigMaps \ todo' PROVE Earned(p)'
    BY <2>1, <1>0, <1>a, <1>b DEF LoopInv
  <2> QED BY <2>1, <1>0 DEF LoopInv
<1>2. pc = "tasks" => LoopInv'
  <2>1. ASSUME pc = "tasks", NEW p \in tektonTaskList \ todo' PROVE Earned(p)'
    BY <2>1, <1>0, <1>a, <1>b DEF LoopInv
  <2> QED BY <2>1, <1>0 DEF LoopInv
<1>3. pc = "np" => LoopInv'
  <2>1. CASE Earned(o)' /\ allErrors' = allErrors /\ allErrors = {}
    <3>1. ASSUME pc = "np", NEW p \in SelectedPolicies \ todo' PROVE Earned(p)'
      BY <3>1, <2>1, <1>0, <1>a, <1>b DEF LoopInv
    <3> QED BY <3>1, <1>0, <1>c DEF LoopInv
  <2>2. CASE allErrors' # {}
    BY <2>2, <1>0 DEF LoopInv
  <2> QED BY <2>1, <2>2
<1>4. \A p \in Wanted(copy.spec) : pc' \in After(p) => Earned(p)'
  BY <1>a, WantedObjects DEF EarnedInv
<1>5. BranchInv' /\ PlaceInv'
  BY DEF EarnedInv, BranchInv, PlaceInv
<1> QED BY <1>1, <1>2, <1>3, <1>4, <1>5, StageEarned DEF Grows

(* The way into a loop.                                                    *)
EntersLoop(from, to, set, done) ==
  /\ StageFrame /\ (Fault \/ NoFault) /\ Grows
  /\ pc = from /\ Loop(to, set) /\ \A o \in done : Earned(o)'

LEMMA LoopEntered ==
  ASSUME TypeOK, EarnedInv, NEW from, NEW to, NEW set, NEW done,
         EntersLoop(from, to, set, done), from \notin {"idle", "get"},
         to # "eventing" /\ to # "serving",
         to \in {"argocrd", "tasks"} => copy.spec.gitops,
         to \in {"cleanproject", "cleanpipeline", "cleantasks"} => ~copy.spec.gitops,
         to \notin {"appproject", "taskcrd", "pipecrd", "pipeline"},
         to = "cm" => set = ConfigMaps,
         to = "tasks" => set = tektonTaskList,
         to = "np" => set = SelectedPolicies,
         to = "cleantasks" => set \subseteq tektonTaskList,
         \A o \in Wanted(copy.spec) : to \in After(o) => from \in After(o) \/ o \in done
  PROVE  EarnedInv'
<1>1. pc' = to /\ todo' = set /\ copy' = copy
  BY DEF EntersLoop, Loop
<1>2. ASSUME NEW o \in Wanted(copy.spec), to \in After(o) PROVE Earned(o)'
  <2>1. CASE o \in done
    BY <2>1 DEF EntersLoop
  <2>2. CASE from \in After(o)
    BY <1>2, <2>2, EarnedStays, WantedObjects DEF EarnedInv, EntersLoop, Grows, StageFrame
  <2> QED BY <1>2, <2>1, <2>2
<1>3. LoopInv'
  <2>1. SelectedPolicies' = SelectedPolicies /\ SelectedPolicies \subseteq NetworkPoliciesList
    BY <1>1 DEF SelectedPolicies
  <2> QED BY <1>1, <2>1 DEF LoopInv
<1>4. PlaceInv' /\ BranchInv'
  BY <1>1 DEF PlaceInv, BranchInv, GitOpsSteps, CleanSteps
<1> QED BY <1>1, <1>2, <1>3, <1>4, StageEarned DEF EntersLoop, Grows

(* A pass that ends early.                                                 *)
LEMMA Aborted ==
  ASSUME TypeOK, EarnedInv, pc \notin {"idle", "get"}, StageFrame, Grows,
         Requeue \/ (\E s : FailIn(s)) \/ (\E s, error : OnError(s, error))
  PROVE  EarnedInv'
<1>1. pc' = "idle" \/ (pc' = "failed" /\ copy' = copy)
  BY DEF OnError, Requeue, EndPass, FailIn
<1> QED BY <1>1, StageEarned DEF Grows

LEMMA EarnedRHDH ==
  ASSUME TypeOK, EarnedInv, reconcileRHDH
  PROVE  EarnedInv'
<1>0. SeenInv /\ LoopInv
  BY DEF EarnedInv
<1>a. \A o \in Wanted(copy.spec) : o \in Objects
  BY WantedObjects
<1>b. /\ {"secret", "backstage"} \union ConfigMaps
         \subseteq Objects \ (GitOpsObjects \union NetworkPoliciesList)
      /\ ConfigMaps \subseteq ErrorsPassedOver
      /\ FromNetworkPolicy = "npns"
  BY DEF Objects, RHDHObjects, ConfigMaps, GitOpsObjects, NetworkPoliciesList, tektonTaskList,
         ErrorsPassedOver, FromNetworkPolicy
<1>c. ASSUME NEW o \in {"secret"} \union ConfigMaps
      PROVE  /\ seen[o] # "absent" => obj[o] # "absent"
             /\ obj'[o] # "absent" => Earned(o)'
             /\ o \in ErrorsPassedOver /\ Fault => Earned(o)'
  <2>1. o # "appproject" /\ o \notin GitOpsObjects /\ o \notin NetworkPoliciesList
    BY <1>b DEF GitOpsObjects
  <2>2. Fault => faults' > 0
    BY DEF Fault, TypeOK
  <2> QED BY <1>0, <1>b, <2>1, <2>2 DEF SeenInv, Lasting, Earned, Fulfilled
<1>1. CASE Call("rhdhop", "domain", "rhdh")
  BY <1>1, <1>a, Order, StepEarned, CallSteps
<1>2. CASE Call("domain", "secret", "rhdh")
  BY <1>2, <1>a, Order, StepEarned, CallSteps
<1>3. CASE CreateRHDHSecret
  <2>0. StageFrame /\ pc = "secret"
    BY <1>3 DEF CreateRHDHSecret, StageFrame
  <2>a. ASSUME Fault \/ NoFault, Grows, Loop("cm", ConfigMaps), obj'["secret"] # "absent"
        PROVE  EarnedInv'
    <3>1. EntersLoop("secret", "cm", ConfigMaps, {"secret"})
      BY <2>0, <2>a, <1>c DEF EntersLoop
    <3>2. \A o \in Wanted(copy.spec) : "cm" \in After(o) => "secret" \in After(o) \/ o \in {"secret"}
      BY <1>a, Order
    <3> QED BY <3>1, <3>2, LoopEntered
  <2>1. CASE NoFault /\ seen["secret"] # "absent" /\ UNCHANGED obj /\ Loop("cm", ConfigMaps)
    BY <2>1, <2>a, <1>c, NothingChanges
  <2>2. CASE Fault /\ UNCHANGED obj /\ FailIn("rhdh")
    BY <2>0, <2>2, NothingChanges, Aborted
  <2>3. ASSUME NEW answer \in Answers, Create("secret", answer),
               IF answer = "ok" THEN Loop("cm", ConfigMaps) ELSE OnError("rhdh", answer)
        PROVE  EarnedInv'
    <3>1. Grows /\ (Fault \/ NoFault) /\ (answer = "ok" => obj'["secret"] # "absent")
      BY <1>b, <2>3, CreateGrows
    <3> QED BY <2>0, <2>3, <2>a, <3>1, Aborted
  <2> QED BY <1>3, <2>1, <2>2, <2>3 DEF CreateRHDHSecret
<1>4. CASE GetOrCreateConfigMaps
  <2>0. StageFrame /\ pc = "cm" /\ allErrors' = allErrors /\ todo \subseteq ConfigMaps
    BY <1>0, <1>4 DEF GetOrCreateConfigMaps, StageFrame, LoopInv
  <2>1. CASE todo = {} /\ NoFault /\ UNCHANGED obj /\ Goto("rhdhcrd")
    <3>1. \A o \in ConfigMaps : Earned(o)
      BY <1>0, <2>0, <2>1 DEF LoopInv
    <3>2. Grows
      BY <2>1, NothingChanges
    <3>3. \A o \in ConfigMaps : Earned(o)'
      BY <1>b, <2>0, <2>1, <3>1, <3>2, EarnedStays DEF Grows, StageFrame
    <3>4. StageStep("cm", "rhdhcrd", ConfigMaps)
      BY <2>0, <2>1, <3>2, <3>3 DEF StageStep, Moves, Goto, locals
    <3> QED BY <3>4, <1>a, Order, StepEarned
  <2>2. ASSUME NEW o \in todo, (NoFault /\ seen[o] # "absent") \/ Fault,
               UNCHANGED obj, todo' = todo \ {o}, UNCHANGED <<pc, copy>>
        PROVE  EarnedInv'
    <3>1. Earned(o)'
      BY <2>0, <2>2, <1>b, <1>c
    <3> QED BY <2>0, <2>2, <3>1, NothingChanges, LoopEarned
  <2>3. ASSUME NEW o \in todo, NEW answer \in Answers, Create(o, answer),
               IF answer = "ok" THEN todo' = todo \ {o} /\ UNCHANGED <<pc, copy>>
                                ELSE OnError("rhdh", answer)
        PROVE  EarnedInv'
    <3>1. Grows /\ (Fault \/ NoFault) /\ (answer = "ok" => obj'[o] # "absent")
      BY <1>b, <2>0, <2>3, CreateGrows
    <3>2. answer = "ok" => Earned(o)'
      BY <1>c, <2>0, <3>1
    <3> QED BY <2>0, <2>3, <3>1, <3>2, LoopEarned, Aborted
  <2> QED BY <1>4, <2>1, <2>2, <2>3 DEF GetOrCreateConfigMaps
<1>5. CASE CheckCRDExists("rhdhcrd", "rhdh", "backstage", "rhdh")
  BY <1>5, <1>a, Order, StepEarned, CallSteps
<1>6. CASE GetOrCreate("backstage", FromNetworkPolicy, "rhdh")
  <2>1. StageStep("backstage", "npns", {"backstage"})
    BY <1>0, <1>b, <1>6, CreateSteps
  <2>2. \A o \in Wanted(copy.spec) :
          "npns" \in After(o) => "backstage" \in After(o) \/ o \in {"backstage"}
    BY <1>a, Order, WantedStages DEF RHDHObjects
  <2> QED BY <2>1, <2>2, StepEarned
<1> QED BY <1>1, <1>2, <1>3, <1>4, <1>5, <1>6 DEF reconcileRHDH

(* Get, Create or Update: success fulfils, of a GitOps object while none   *)
(* can be deleted.                                                         *)
LEMMA UpdateGrows ==
  ASSUME TypeOK, SeenInv, NEW o \in NetworkPoliciesList \union {"appproject"},
         NEW answer \in Answers, GetCreateOrUpdate(o, answer)
  PROVE  /\ Grows /\ (Fault \/ NoFault)
         /\ answer = "ok" /\ Lasting(o) => Fulfilled(o)'
<1>0. o \in Objects
  BY DEF Objects, GitOpsObjects
<1>1. CASE NoFault /\ seen[o] \in {"adopted", "ours"} /\ answer = "ok" /\ UNCHANGED obj
  BY <1>0, <1>1, NothingChanges DEF SeenInv, Fulfilled
<1>2. CASE seen[o] = "absent" /\ Create(o, answer)
  BY <1>0, <1>2, CreateGrows DEF Fulfilled
<1>3. CASE /\ NoFault /\ seen[o] = "other" /\ obj[o] = "other"
           /\ answer = "ok" /\ obj' = [obj EXCEPT ![o] = "adopted"]
  BY <1>0, <1>3 DEF Grows, Stays, Fulfilled, TypeOK
<1>4. CASE answer = "error" /\ UNCHANGED obj /\ (Fault \/ NoFault)
  BY <1>4, NothingChanges
<1> QED BY <1>1, <1>2, <1>3, <1>4 DEF GetCreateOrUpdate

LEMMA EarnedPolicies ==
  ASSUME TypeOK, EarnedInv, reconcileNetworkPolicy
  PROVE  EarnedInv'
<1>0. SeenInv /\ LoopInv
  BY DEF EarnedInv
<1>a. \A o \in Wanted(copy.spec) : o \in Objects
  BY WantedObjects
<1>b. UNCHANGED obj => Grows
  BY NothingChanges
<1>1. CASE networkPolicyNamespace
  <2>1. CASE NoFault /\ Loop("np", SelectedPolicies)
    <3>1. EntersLoop("npns", "np", SelectedPolicies, {})
      BY <1>1, <2>1, <1>b DEF networkPolicyNamespace, EntersLoop, StageFrame, world
    <3> QED BY <3>1, <1>a, Order, LoopEntered
  <2>2. CASE Requeue \/ FailIn("networkpolicy")
    BY <1>1, <2>2, <1>b, Aborted DEF networkPolicyNamespace, StageFrame, world
  <2> QED BY <1>1, <2>1, <2>2 DEF networkPolicyNamespace
<1>2. CASE handleNetworkPolicy
  <2>0. StageFrame /\ pc = "np" /\ UNCHANGED <<pc, copy>> /\ todo \subseteq NetworkPoliciesList
    BY <1>0, <1>2 DEF handleNetworkPolicy, StageFrame, LoopInv
  <2>1. PICK o \in todo, answer \in Answers :
          /\ GetCreateOrUpdate(o, answer)
          /\ todo' = todo \ {o}
          /\ IF answer = "ok" THEN UNCHANGED <<errs, allErrors>>
                              ELSE allErrors' = allErrors \union {o}
    BY <1>2 DEF handleNetworkPolicy
  <2>2. Grows /\ (Fault \/ NoFault) /\ (answer = "ok" => Fulfilled(o)')
    <3>1. Lasting(o)
      BY <2>0 DEF Lasting, NetworkPoliciesList, GitOpsObjects, tektonTaskList
    <3> QED BY <1>0, <2>0, <2>1, <3>1, UpdateGrows
  <2>3. (Earned(o)' /\ allErrors' = allErrors) \/ allErrors' # {}
    BY <2>1, <2>2 DEF Earned
  <2> QED BY <2>0, <2>1, <2>2, <2>3, LoopEarned
<1>3. CASE networkPolicyResult
  <2>0. StageFrame /\ pc = "np" /\ NoFault /\ Grows
    BY <1>3, <1>b DEF networkPolicyResult, StageFrame, world
  <2>1. CASE FailIn("networkpolicy")
    BY <2>0, <2>1, Aborted
  <2>2. CASE /\ allErrors = {} /\ todo = {}
             /\ Loop(IF copy.spec.gitops THEN "argocrd" ELSE "cleanproject", {})
    <3>1. \A o \in SelectedPolicies : Earned(o)
      BY <1>0, <2>0, <2>2 DEF LoopInv
    <3>2. \A o \in SelectedPolicies : Earned(o)'
      BY <2>0, <3>1, EarnedStays DEF SelectedPolicies, Objects, Grows, StageFrame
    <3>3. \A o \in Wanted(copy.spec) \intersect NetworkPoliciesList : o \in SelectedPolicies
      BY WantedStages DEF SelectedPolicies
    <3>4. CASE copy.spec.gitops
      <4>1. EntersLoop("np", "argocrd", {}, SelectedPolicies)
        BY <2>0, <2>2, <3>2, <3>4 DEF EntersLoop
      <4>2. \A o \in Wanted(copy.spec) :
              "argocrd" \in After(o) => "np" \in After(o) \/ o \in SelectedPolicies
        BY <1>a, <3>3, Order
      <4> QED BY <4>1, <4>2, <3>4, LoopEntered
    <3>5. CASE ~copy.spec.gitops
      <4>1. EntersLoop("np", "cleanproject", {}, SelectedPolicies)
        BY <2>0, <2>2, <3>2, <3>5 DEF EntersLoop
      <4>2. \A o \in Wanted(copy.spec) :
              "cleanproject" \in After(o) => "np" \in After(o) \/ o \in SelectedPolicies
        BY <1>a, <3>3, Order
      <4> QED BY <4>1, <4>2, <3>5, LoopEntered
    <3> QED BY <3>4, <3>5
  <2> QED BY <1>3, <2>1, <2>2 DEF networkPolicyResult
<1> QED BY <1>1, <1>2, <1>3 DEF reconcileNetworkPolicy

(* GitOps enabled: its objects last, unless the spec was changed.          *)
LEMMA EarnedGitOps ==
  ASSUME TypeOK, EarnedInv, HandleGitOps
  PROVE  EarnedInv'
<1>0. SeenInv /\ LoopInv /\ SpecInv /\ BranchInv
  BY DEF EarnedInv
<1>a. \A o \in Wanted(copy.spec) : o \in Objects
  BY WantedObjects
<1>b. UNCHANGED obj => Grows
  BY NothingChanges
<1>c. pc \in GitOpsSteps /\ copy.spec.gitops
  BY <1>0 DEF HandleGitOps, CheckCRDExists, handleArgoCDProject, taskCRD, HandleTektonTasks,
              HandleTektonPipeline, BranchInv, GitOpsSteps
<1>d. ASSUME NEW o \in GitOpsObjects PROVE o \in Objects /\ (edits > 0 \/ Lasting(o))
  BY <1>0, <1>c DEF Objects, Lasting, SpecInv, GitOpsSteps, TypeOK
<1>e. ASSUME NEW o \in {"pipeline"} \union tektonTaskList, StageFrame
      PROVE  /\ seen[o] # "absent" /\ UNCHANGED obj => Earned(o)'
             /\ obj'[o] # "absent" => Earned(o)'
             /\ o \in tektonTaskList /\ Fault => Earned(o)'
  <2>1. o \in GitOpsObjects /\ o # "appproject" /\ o \notin NetworkPoliciesList
    BY DEF GitOpsObjects, tektonTaskList, NetworkPoliciesList
  <2>2. Fault => faults' > 0
    BY DEF Fault, TypeOK
  <2>3. o \in tektonTaskList => o \in ErrorsPassedOver
    BY DEF ErrorsPassedOver
  <2>4. obj'[o] # "absent" => Earned(o)'
    BY <2>1 DEF Earned, Fulfilled
  <2>5. edits > 0 => Earned(o)'
    BY <1>e, <2>1 DEF Earned, StageFrame
  <2> QED BY <1>0, <1>d, <2>1, <2>2, <2>3, <2>4, <2>5 DEF SeenInv, Earned
<1>1. CASE CheckCRDExists("argocrd", "argocd", "appproject", "gitops")
  BY <1>1, <1>a, <1>c, Order, StepEarned, CallSteps
<1>2. CASE handleArgoCDProject
  <2>0. StageFrame /\ pc = "appproject"
    BY <1>2 DEF handleArgoCDProject, StageFrame
  <2>1. PICK answer \in Answers :
          /\ GetCreateOrUpdate("appproject", answer)
          /\ IF answer = "ok" THEN Goto("taskcrd") ELSE OnError("gitops", answer)
    BY <1>2 DEF handleArgoCDProject
  <2>2. "appproject" \in GitOpsObjects
    BY DEF GitOpsObjects
  <2>3. Grows /\ (Fault \/ NoFault) /\ (answer = "ok" /\ Lasting("appproject") => Fulfilled("appproject")')
    BY <1>0, <2>1, UpdateGrows
  <2>4. CASE answer = "ok"
    <3>1. Earned("appproject")'
      BY <1>d, <2>0, <2>2, <2>3, <2>4 DEF Earned, StageFrame
    <3>2. StageStep("appproject", "taskcrd", {"appproject"})
      BY <2>0, <2>1, <2>3, <2>4, <3>1 DEF StageStep, Moves, Goto, locals
    <3> QED BY <3>2, <1>a, <1>c, Order, StepEarned
  <2>5. CASE answer # "ok"
    BY <2>0, <2>1, <2>3, <2>5, Aborted
  <2> QED BY <2>4, <2>5
<1>3. CASE taskCRD
  <2>1. CASE NoFault /\ Loop("tasks", tektonTaskList)
    <3>1. EntersLoop("taskcrd", "tasks", tektonTaskList, {})
      BY <1>3, <2>1, <1>b DEF taskCRD, EntersLoop, StageFrame, world
    <3> QED BY <3>1, <1>a, <1>c, Order, LoopEntered
  <2>2. CASE Requeue \/ FailIn("gitops")
    BY <1>3, <2>2, <1>b, Aborted DEF taskCRD, StageFrame, world
  <2> QED BY <1>3, <2>1, <2>2 DEF taskCRD
<1>4. CASE HandleTektonTasks
  <2>0. StageFrame /\ pc = "tasks" /\ allErrors' = allErrors /\ todo \subseteq tektonTaskList
    BY <1>0, <1>4 DEF HandleTektonTasks, StageFrame, LoopInv
  <2>1. CASE todo = {} /\ NoFault /\ UNCHANGED obj /\ Goto("pipecrd")
    <3>1. \A o \in tektonTaskList : Earned(o)
      BY <1>0, <2>0, <2>1 DEF LoopInv
    <3>2. \A o \in tektonTaskList : Earned(o)'
      BY <1>b, <2>0, <2>1, <3>1, EarnedStays DEF Objects, GitOpsObjects, Grows, StageFrame
    <3>3. StageStep("tasks", "pipecrd", tektonTaskList)
      BY <1>b, <2>0, <2>1, <3>2 DEF StageStep, Moves, Goto, locals
    <3> QED BY <3>3, <1>a, <1>c, Order, StepEarned
  <2>2. ASSUME NEW o \in todo, todo' = todo \ {o}, UNCHANGED <<pc, copy>>,
               \/ NoFault /\ seen[o] # "absent" /\ UNCHANGED obj
               \/ Fault /\ UNCHANGED obj
               \/ Create(o, "ok")
        PROVE  EarnedInv'
    <3>1. o \in Objects
      BY <2>0 DEF Objects, GitOpsObjects
    <3>2. Grows /\ (Fault \/ NoFault)
      BY <1>b, <2>2, <3>1, CreateGrows DEF Answers
    <3>3. Earned(o)'
      BY <1>e, <2>0, <2>2, <3>1, CreateGrows DEF Answers
    <3> QED BY <2>0, <2>2, <3>2, <3>3, LoopEarned
  <2>3. ASSUME NEW o \in todo, NEW answer \in Answers, Create(o, answer), OnError("gitops", answer)
        PROVE  EarnedInv'
    <3>1. Grows
      BY <2>0, <2>3, CreateGrows DEF Objects, GitOpsObjects
    <3> QED BY <2>0, <2>3, <3>1, Aborted
  <2> QED BY <1>4, <2>1, <2>2, <2>3 DEF HandleTektonTasks
<1>5. CASE CheckCRDExists("pipecrd", "tekton", "pipeline", "gitops")
  BY <1>5, <1>a, <1>c, Order, StepEarned, CallSteps
<1>6. CASE HandleTektonPipeline
  <2>0. StageFrame /\ pc = "pipeline"
    BY <1>6 DEF HandleTektonPipeline, StageFrame
  <2>1. CASE NoFault /\ seen["pipeline"] # "absent" /\ UNCHANGED obj /\ Goto("completed")
    <3>1. StageStep("pipeline", "completed", {"pipeline"})
      BY <1>b, <1>e, <2>0, <2>1 DEF StageStep, Moves, Goto, locals
    <3>2. \A o \in Wanted(copy.spec) :
            "completed" \in After(o) => "pipeline" \in After(o) \/ o \in {"pipeline"}
      BY <1>a, Order
    <3> QED BY <3>1, <3>2, StepEarned
  <2>2. CASE UNCHANGED obj /\ FailIn("gitops")
    BY <2>0, <2>2, <1>b, Aborted
  <2>3. ASSUME NEW answer \in Answers, Create("pipeline", answer),
               Requeue \/ OnError("gitops", answer)
        PROVE  EarnedInv'
    <3>1. Grows
      BY <2>3, CreateGrows DEF Objects, GitOpsObjects
    <3> QED BY <2>0, <2>3, <3>1, Aborted
  <2> QED BY <1>6, <2>1, <2>2, <2>3 DEF HandleTektonPipeline
<1> QED BY <1>1, <1>2, <1>3, <1>4, <1>5, <1>6 DEF HandleGitOps

(* GitOps disabled: what is deleted is not of the spec, and not of the     *)
(* objects that last.                                                      *)
LEMMA CleanEarned ==
  ASSUME TypeOK, EarnedInv, StageFrame, Fault \/ NoFault,
         pc \in {"cleanproject", "cleanpipeline", "cleantasks"},
         \A o \in Objects \ GitOpsObjects : obj'[o] = obj[o],
         \/ pc' = "idle"
         \/ pc' = "failed" /\ copy' = copy
         \/ /\ copy' = copy /\ LoopInv' /\ pc' \in {"cleanpipeline", "cleantasks", "completed"}
            /\ \A o \in Objects \ GitOpsObjects : pc' \in After(o) => pc \in After(o)
  PROVE  EarnedInv'
<1>0. ~copy.spec.gitops
  BY DEF EarnedInv, BranchInv, CleanSteps
<1>1. \A o \in Objects : Lasting(o) => Stays(o)
  BY <1>0 DEF EarnedInv, SpecInv, Lasting, Stays, TypeOK
<1>2. ASSUME NEW o \in Wanted(copy.spec), pc \in After(o) PROVE Earned(o)'
  <2>1. o \in Objects \ GitOpsObjects
    BY <1>0, WantedStages
  <2>2. Earned(o)
    BY <1>2 DEF EarnedInv
  <2>3. Stays(o)
    BY <2>1 DEF Stays
  <2> QED BY <2>1, <2>2, <2>3, EarnedStays DEF StageFrame
<1>3. ASSUME copy' = copy, pc' \in {"cleanpipeline", "cleantasks", "completed"}
      PROVE  PlaceInv' /\ BranchInv'
  BY <1>0, <1>3 DEF PlaceInv, BranchInv, GitOpsSteps
<1>4. \A o \in Wanted(copy.spec) : o \in Objects \ GitOpsObjects
  BY <1>0, WantedStages
<1> QED BY <1>1, <1>2, <1>3, <1>4, StageEarned

LEMMA EarnedCleanUp ==
  ASSUME TypeOK, EarnedInv, HandleGitOpsCleanUp
  PROVE  EarnedInv'
<1>0. LoopInv
  BY DEF EarnedInv
<1>a. StageFrame
  BY DEF HandleGitOpsCleanUp, CleanUpOne, handleTektonTaskCleanUp, StageFrame
<1>b. tektonTaskList \subseteq GitOpsObjects /\ {"appproject", "pipeline"} \subseteq GitOpsObjects
  BY DEF GitOpsObjects
<1>1. ASSUME NEW from \in {"cleanproject", "cleanpipeline"}, NEW o \in GitOpsObjects,
             NEW next \in {"cleanpipeline", "cleantasks"}, NEW left \in SUBSET tektonTaskList,
             CleanUpOne(from, o, next, left),
             \A p \in Objects : next \in After(p) => from \in After(p)
      PROVE  EarnedInv'
  <2>1. \A p \in Objects \ GitOpsObjects : obj'[p] = obj[p]
    BY <1>1 DEF CleanUpOne, TypeOK
  <2>2. pc = from /\ (Fault \/ NoFault)
    BY <1>1 DEF CleanUpOne
  <2>3. Loop(next, left) => copy' = copy /\ pc' = next /\ LoopInv'
    BY <1>1 DEF Loop, LoopInv
  <2>4. Requeue \/ FailIn("gitops") => pc' = "idle" \/ (pc' = "failed" /\ copy' = copy)
    BY DEF Requeue, EndPass, FailIn
  <2>5. Loop(next, left) \/ Requeue \/ FailIn("gitops")
    BY <1>1 DEF CleanUpOne
  <2> QED BY <1>a, <1>1, <2>1, <2>2, <2>3, <2>4, <2>5, CleanEarned
<1>2. CASE handleTektonTaskCleanUp
  <2>0. pc = "cleantasks" /\ todo \subseteq tektonTaskList /\ (Fault \/ NoFault)
    BY <1>0, <1>2 DEF handleTektonTaskCleanUp, LoopInv
  <2>1. \A p \in Objects \ GitOpsObjects : obj'[p] = obj[p]
    BY <1>2, <1>b, <2>0 DEF handleTektonTaskCleanUp, TypeOK
  <2>2. CASE todo = {} /\ Goto("completed")
    <3>1. copy' = copy /\ pc' = "completed" /\ LoopInv'
      BY <2>2 DEF Goto, locals, LoopInv
    <3>2. \A p \in Objects \ GitOpsObjects : "completed" \in After(p) => "cleantasks" \in After(p)
      BY Order
    <3> QED BY <1>a, <2>0, <2>1, <3>1, <3>2, CleanEarned
  <2>3. CASE \E o \in todo : todo' = todo \ {o} /\ UNCHANGED <<pc, copy>>
    <3>1. LoopInv'
      BY <2>0, <2>3 DEF LoopInv
    <3> QED BY <1>a, <2>0, <2>1, <2>3, <3>1, CleanEarned
  <2> QED BY <1>2, <2>2, <2>3 DEF handleTektonTaskCleanUp
<1>3. CASE CleanUpOne("cleanproject", "appproject", "cleanpipeline", {})
  <2>1. \A p \in Objects : "cleanpipeline" \in After(p) => "cleanproject" \in After(p)
    BY Order
  <2> QED BY <1>b, <1>1, <1>3, <2>1
<1>4. CASE CleanUpOne("cleanpipeline", "pipeline", "cleantasks", tektonTaskList)
  <2>1. \A p \in Objects : "cleantasks" \in After(p) => "cleanpipeline" \in After(p)
    BY Order
  <2> QED BY <1>b, <1>1, <1>4, <2>1
<1> QED BY <1>2, <1>3, <1>4 DEF HandleGitOpsCleanUp

(* The steps on the resource: they leave the objects alone, and no stage   *)
(* is over.                                                                *)
LEMMA QuietEarned ==
  ASSUME TypeOK, EarnedInv, UNCHANGED <<obj, seen, edits>>, SpecInv', cr'.spec = cr.spec,
         \A o \in Wanted(copy.spec)' : pc' \notin After(o),
         pc' \in {"idle", "get", "finalizer", "status", "refetch", "wfns", "knop", "rhdhop", "npns"}
  PROVE  EarnedInv'
<1>1. SeenInv'
  BY DEF EarnedInv, SeenInv, Lasting
<1>2. LoopInv' /\ PlaceInv' /\ BranchInv'
  BY DEF LoopInv, PlaceInv, BranchInv, GitOpsSteps, CleanSteps
<1> QED BY <1>1, <1>2 DEF EarnedInv

LEMMA BeforeStages ==
  ASSUME NEW o \in Objects,
         NEW step \in {"idle", "get", "finalizer", "status", "refetch"}
  PROVE  step \notin After(o)
  BY DEF After, Objects, OSLObjects, KnativeObjects, RHDHObjects, GitOpsObjects,
         AfterTasks, AfterProject, CleanSteps, AfterPolicies, AfterRHDH, AfterMaps, AfterSecret,
         AfterServing, AfterSvns, AfterEventing, AfterEvns, AfterSfp, AfterSfcp, AfterWfns

LEMMA EarnedResource ==
  ASSUME TypeOK, VersionInv, EarnedInv,
         ReconcileStart \/ Reconcile \/ addFinalizers \/ initializeStatus
         \/ refetchResource \/ FailedStatus \/ CompletedStatus
  PROVE  EarnedInv'
<1>0. cr'.spec = cr.spec /\ SpecInv
  BY VersionResource DEF EarnedInv
<1>a. UNCHANGED <<obj, seen, edits, crSeen>>
  BY DEF ReconcileStart, Reconcile, addFinalizers, initializeStatus, refetchResource,
         FailedStatus, CompletedStatus, world, resource
<1>b. ASSUME pc' \in {"idle", "get", "finalizer", "status", "refetch"}, SpecInv'
      PROVE  EarnedInv'
  <2>1. \A o \in Wanted(copy.spec)' : pc' \notin After(o)
    BY <1>b, BeforeStages, WantedObjects
  <2> QED BY <1>0, <1>a, <1>b, <2>1, QuietEarned
<1>c. ASSUME pc' = "idle" PROVE EarnedInv'
  BY <1>0, <1>a, <1>b, <1>c DEF SpecInv
<1>1. CASE ReconcileStart
  <2>1. pc' = "get" /\ SpecInv'
    BY <1>0, <1>a, <1>1 DEF ReconcileStart, SpecInv
  <2> QED BY <2>1, <1>b
<1>2. CASE Reconcile
  <2>1. CASE copy' = crSeen /\ pc' = "finalizer"
    <3>1. SpecInv'
      BY <1>0, <1>a, <2>1 DEF SpecInv
    <3> QED BY <2>1, <3>1, <1>b
  <2> QED BY <1>2, <2>1, <1>c DEF Reconcile, Requeue, EndPass
<1>3. CASE addFinalizers
  <2>1. ASSUME pc' = "status", copy'.spec = copy.spec PROVE EarnedInv'
    <3>1. SpecInv'
      BY <1>0, <1>a, <1>3, <2>1 DEF SpecInv, addFinalizers
    <3> QED BY <2>1, <3>1, <1>b
  <2>2. [copy EXCEPT !.finalizer = TRUE].spec = copy.spec
    BY DEF TypeOK, CrType
  <2>3. (pc' = "status" /\ copy'.spec = copy.spec) \/ pc' = "idle"
    BY <1>3, <2>2 DEF addFinalizers, Goto, locals, Requeue, EndPass
  <2> QED BY <2>1, <2>3, <1>c
<1>4. CASE initializeStatus
  <2>1. pc = "status" /\ (pc' = "idle" \/ (copy' = copy /\ pc' \in {FromOSL, "refetch"}))
    BY <1>4 DEF initializeStatus, Goto, locals, Requeue, EndPass
  <2>2. ASSUME copy' = copy PROVE SpecInv'
    BY <1>0, <1>a, <2>1, <2>2 DEF SpecInv
  <2>3. CASE copy' = copy /\ pc' = FromOSL
    <3>1. \A o \in Wanted(copy.spec)' : pc' \notin After(o)
      BY <2>3, FirstStages DEF Wanted
    <3>2. pc' \in {"wfns", "knop", "rhdhop", "npns"}
      BY <2>3 DEF FromOSL, FromKnative, FromRHDH, FromNetworkPolicy
    <3> QED BY <1>0, <1>a, <2>2, <2>3, <3>1, <3>2, QuietEarned
  <2> QED BY <2>1, <2>2, <2>3, <1>b, <1>c
<1>5. CASE refetchResource
  <2>1. CASE copy' = crSeen /\ pc' = FromOSL'
    <3>1. ASSUME NEW o \in Wanted(copy'.spec) PROVE pc' \notin After(o)
      BY <2>1, <3>1, FirstStage DEF FromOSL, FromKnative, FromRHDH, FromNetworkPolicy
    <3>2. pc' \in {"wfns", "knop", "rhdhop", "npns"}
      BY <2>1 DEF FromOSL, FromKnative, FromRHDH, FromNetworkPolicy
    <3>3. SpecInv'
      BY <1>0, <1>a, <2>1 DEF SpecInv
    <3>4. \A o \in Wanted(copy.spec)' : pc' \notin After(o)
      BY <3>1 DEF Wanted
    <3> QED BY <1>0, <1>a, <3>2, <3>3, <3>4, QuietEarned
  <2> QED BY <1>5, <2>1, <1>c DEF refetchResource, Requeue, EndPass
<1>6. CASE FailedStatus \/ CompletedStatus
  BY <1>6, <1>c DEF FailedStatus, CompletedStatus, Requeue, Done, EndPass
<1> QED BY <1>1, <1>2, <1>3, <1>4, <1>5, <1>6

LEMMA EarnedEnvironment ==
  ASSUME TypeOK, EarnedInv, Environment
  PROVE  EarnedInv'
<1>0. SpecInv /\ SeenInv
  BY DEF EarnedInv
<1>a. ASSUME UNCHANGED <<obj, pc, copy, todo, allErrors, faults>>, edits > 0 => edits' > 0, prereq \subseteq prereq',
             SpecInv', SeenInv'
      PROVE  EarnedInv'
  <2>1. \A o : Earned(o) => Earned(o)'
    BY <1>a DEF Earned, Fulfilled, TypeOK
  <2>2. LoopInv' /\ PlaceInv' /\ BranchInv'
    BY <1>a, <2>1 DEF EarnedInv, LoopInv, PlaceInv, Place, BranchInv, SelectedPolicies
  <2>3. \A o \in Wanted(copy.spec)' : pc' \in After(o) => Earned(o)'
    BY <1>a, <2>1 DEF EarnedInv, Wanted
  <2> QED BY <1>a, <2>2, <2>3 DEF EarnedInv
<1>1. CASE SyncObjects
  <2>1. seen' \in [Objects -> ObjStates] /\ \A o \in Objects : seen'[o] = obj[o] \/ seen'[o] = seen[o]
    BY <1>1, TypeNext DEF SyncObjects, TypeOK, Next, Environment, Cluster
  <2>2. UNCHANGED <<world, resource, pc, copy, todo, allErrors, faults, edits>>
    BY <1>1 DEF SyncObjects, locals
  <2>3. SeenInv' /\ SpecInv'
    BY <1>0, <2>1, <2>2 DEF SeenInv, SpecInv, Lasting, world, resource
  <2> QED BY <1>a, <2>2, <2>3 DEF world, TypeOK
<1>2. CASE SyncResource
  <2>1. SeenInv' /\ SpecInv'
    BY <1>0, <1>2 DEF SyncResource, SeenInv, SpecInv, Lasting, world, locals
  <2> QED BY <1>a, <1>2, <2>1 DEF SyncResource, world, locals, TypeOK
<1>3. CASE Restart
  <2>1. UNCHANGED <<obj, cr, edits>> /\ seen' = obj /\ crSeen' = cr /\ pc' = "idle"
    BY <1>3 DEF Restart, EndPass, world
  <2>2. SpecInv' /\ SeenInv'
    BY <2>1 DEF SpecInv, SeenInv
  <2>3. LoopInv' /\ PlaceInv' /\ BranchInv'
    BY <2>1 DEF LoopInv, PlaceInv, BranchInv, GitOpsSteps, CleanSteps
  <2>4. \A o \in Wanted(copy.spec)' : pc' \notin After(o)
    BY <2>1, BeforeStages, WantedObjects
  <2> QED BY <2>2, <2>3, <2>4 DEF EarnedInv
<1>4. CASE Provide
  <2>1. SeenInv' /\ SpecInv'
    BY <1>0, <1>4 DEF Provide, SeenInv, SpecInv, Lasting, resource, locals
  <2> QED BY <1>a, <1>4, <2>1 DEF Provide, locals, TypeOK
<1>5. CASE EditSpec
  <2>1. edits' = edits + 1 /\ edits \in Nat
    BY <1>5 DEF EditSpec, TypeOK
  <2>2. SpecInv' /\ SeenInv'
    BY <1>0, <1>5, <2>1 DEF EditSpec, SeenInv, SpecInv, Lasting, world
  <2> QED BY <1>a, <1>5, <2>1, <2>2 DEF EditSpec, world
<1>6. CASE OtherWorkerFails
  <2>1. UNCHANGED <<world, seen, resource, pc, locals, edits>> /\ allErrors' # {}
    BY <1>6 DEF OtherWorkerFails
  <2>2. faults' > 0
    BY <1>6, BoundsAssumption DEF OtherWorkerFails, Fault, TypeOK
  <2>3. SeenInv' /\ SpecInv'
    BY <1>0, <2>1 DEF SeenInv, SpecInv, Lasting, world, resource, locals
  <2>4. \A o : (Earned(o) => Earned(o)') /\ (Place(o) => Place(o)')
    BY <2>1, <2>2 DEF Earned, Fulfilled, Place, world
  <2>5. LoopInv' /\ PlaceInv' /\ BranchInv'
    BY <2>1, <2>4 DEF EarnedInv, LoopInv, PlaceInv, BranchInv, SelectedPolicies, locals
  <2>6. \A o \in Wanted(copy.spec)' : pc' \in After(o) => Earned(o)'
    BY <2>1, <2>4 DEF EarnedInv, Wanted, locals
  <2> QED BY <2>3, <2>5, <2>6 DEF EarnedInv
<1> QED BY <1>1, <1>2, <1>3, <1>4, <1>5, <1>6 DEF Environment, Cluster

LEMMA EarnedNext ==
  TypeOK /\ VersionInv /\ EarnedInv /\ [Next]_vars => EarnedInv'
<1> SUFFICES ASSUME TypeOK, VersionInv, EarnedInv, [Next]_vars PROVE EarnedInv'
  OBVIOUS
<1>1. CASE UNCHANGED vars
  <2>1. UNCHANGED <<obj, prereq, seen, cr, crSeen, pc, copy, todo, allErrors, faults, edits>>
    BY <1>1 DEF vars, world, resource, locals
  <2>2. \A o : (Earned(o)' <=> Earned(o)) /\ (Lasting(o)' <=> Lasting(o)) /\ (Place(o)' <=> Place(o))
    BY <2>1 DEF Earned, Fulfilled, Lasting, Place
  <2>3. SpecInv' /\ SeenInv' /\ LoopInv' /\ PlaceInv' /\ BranchInv'
    BY <2>1, <2>2 DEF EarnedInv, SpecInv, SeenInv, LoopInv, PlaceInv, BranchInv, SelectedPolicies
  <2> QED BY <2>1, <2>2, <2>3 DEF EarnedInv, Wanted
<1>2. CASE Worker
  BY <1>2, EarnedResource, EarnedOSL, EarnedKnative, EarnedRHDH, EarnedPolicies, EarnedGitOps,
     EarnedCleanUp DEF Worker
<1>3. CASE Environment
  BY <1>3, EarnedEnvironment
<1> QED BY <1>1, <1>2, <1>3 DEF Next

LEMMA EarnedInit == Init => EarnedInv
<1> SUFFICES ASSUME Init PROVE EarnedInv
  OBVIOUS
<1>1. pc = "idle" /\ seen = obj /\ crSeen = cr
  BY DEF Init
<1>2. SpecInv /\ SeenInv /\ LoopInv /\ PlaceInv /\ BranchInv
  BY <1>1 DEF SpecInv, SeenInv, LoopInv, PlaceInv, BranchInv, GitOpsSteps, CleanSteps
<1>3. \A o \in Wanted(copy.spec) : pc \notin After(o)
  BY <1>1, BeforeStages, WantedObjects
<1> QED BY <1>2, <1>3 DEF EarnedInv

LEMMA EarnedAtEnd == EarnedInv => CompletedIsEarned
<1> SUFFICES ASSUME EarnedInv, pc = "completed", NEW o \in Wanted(copy.spec) PROVE Earned(o)
  BY DEF CompletedIsEarned
<1>1. "completed" \in After(o)
  BY WantedObjects DEF After, Objects, OSLObjects, KnativeObjects, RHDHObjects, GitOpsObjects,
         AfterTasks, AfterProject, CleanSteps, AfterPolicies, AfterRHDH, AfterMaps, AfterSecret,
         AfterServing, AfterSvns, AfterEventing, AfterEvns, AfterSfp, AfterSfcp, AfterWfns
<1> QED BY <1>1 DEF EarnedInv

(* A pass that ends as completed has each object of its spec in place,     *)
(* whatever the specs, the objects met, the faults and the changes of the  *)
(* spec on the way, with the exceptions that Earned names: each stage      *)
(* either returns an error or leaves what it is to create, which a stale   *)
(* cache cannot feign as long as nothing is deleted.                       *)
THEOREM CompletedEarned == Spec => []CompletedIsEarned
  BY VersionInit, EarnedInit, TypeCorrect, VersionNext, EarnedNext, EarnedAtEnd, PTL DEF Spec

-----------------------------------------------------------------------------
(* No resource is forgotten.                                               *)
LEMMA RestInit == Init => RestInv
  BY DEF Init, RestInv, RestsWhenDone, Resting

(* What is earned stays so where objects stay and faults are only counted. *)
LEMMA QuietRest ==
  ASSUME TypeOK, RestInv, UNCHANGED <<obj, resource, queue, pc, fresh, edits>>,
         faults' = faults \/ faults' > 0
  PROVE  RestInv'
<1>1. \A o : Earned(o) => Earned(o)'
  BY DEF Earned, Fulfilled, TypeOK
<1> QED BY <1>1 DEF RestInv, RestsWhenDone, Resting, Wanted, resource

LEMMA FaultCounts == TypeOK /\ Fault => faults' > 0
  BY DEF Fault, TypeOK

(* A pass goes on with a copy that is fresh, unless another version is on  *)
(* its way, and ends without a request only as completed.                  *)
LEMMA RestResource ==
  ASSUME TypeOK, VersionInv, EarnedInv, RestInv,
         ReconcileStart \/ Reconcile \/ addFinalizers \/ initializeStatus
         \/ refetchResource \/ FailedStatus \/ CompletedStatus
  PROVE  RestInv'
<1>a. ASSUME Requeue PROVE RestInv'
  BY <1>a DEF Requeue, EndPass, RestInv, RestsWhenDone, Resting
<1>b. ASSUME pc \notin {"idle", "get"}, pc' # "idle", current' => current, UNCHANGED <<fresh, queue>>
      PROVE  RestInv'
  BY <1>b DEF RestInv, RestsWhenDone, Resting
<1>1. CASE ReconcileStart
  BY <1>1 DEF ReconcileStart, RestInv, RestsWhenDone, Resting
<1>2. CASE Reconcile \/ refetchResource
  <2>1. CASE fresh' = current /\ current' = current /\ pc' # "idle"
    BY <2>1 DEF RestInv, RestsWhenDone, Resting
  <2>2. FromOSL' # "idle"
    BY DEF FromOSL, FromKnative, FromRHDH, FromNetworkPolicy
  <2> QED BY <1>2, <1>a, <2>1, <2>2 DEF Reconcile, refetchResource, resource
<1>3. CASE addFinalizers
  <2>1. ASSUME NEW r, NEW ok \in BOOLEAN, UpdateResource(r, ok) PROVE current' => current
    BY <2>1, <1>3, WriteIsCurrent DEF addFinalizers
  <2> QED BY <1>3, <1>a, <1>b, <2>1 DEF addFinalizers, Goto, locals
<1>4. CASE initializeStatus
  <2>1. ASSUME NEW ok \in BOOLEAN, UpdateStatus("Available", ok) PROVE current' => current
    BY <2>1, <1>4, WriteIsCurrent DEF initializeStatus, UpdateStatus
  <2>2. FromOSL # "idle"
    BY DEF FromOSL, FromKnative, FromRHDH, FromNetworkPolicy
  <2> QED BY <1>4, <1>a, <1>b, <2>1, <2>2 DEF initializeStatus, Goto, locals
<1>5. CASE FailedStatus
  BY <1>5, <1>a DEF FailedStatus
<1>6. CASE CompletedStatus
  <2> DEFINE r == [copy EXCEPT !.status = Status(@, "Completed")]
  <2>1. PICK ok \in BOOLEAN : UpdateResource(r, ok)
    BY <1>6 DEF CompletedStatus, UpdateStatus
  <2>2. pc = "completed" /\ pc' = "idle" /\ queue' = queue /\ UNCHANGED <<obj, edits>>
    BY <1>6 DEF CompletedStatus, Done, EndPass, world
  <2>3. /\ current' => current /\ cr' = cr
        /\ ok => cr' = r
    BY <2>1, <2>2, WriteIsCurrent
  <2>4. SUFFICES ASSUME Resting' PROVE RestsWhenDone'
    BY <2>2 DEF RestInv, RestsWhenDone
  <2>5. fresh /\ copy = cr /\ cr' = cr
    BY <2>2, <2>3, <2>4 DEF Resting, RestInv, VersionInv
  <2>6. ASSUME NEW o \in Wanted(cr.spec)' PROVE Earned(o)'
    <3>1. Earned(o)
      BY <2>2, <2>5, <2>6, EarnedAtEnd DEF CompletedIsEarned, Wanted
    <3>2. faults' = faults \/ faults' > 0
      BY <2>1, FaultCounts DEF UpdateResource, NoFault
    <3> QED BY <2>2, <3>1, <3>2 DEF Earned, Fulfilled
  <2>7. cr'.status.phase = "Completed" \/ faults' > 0
    <3>1. CASE ok
      <4>1. copy \in CrType
        BY DEF TypeOK
      <4>2. r.status.phase = "Completed"
        BY <4>1, StatusEffect DEF Conditions
      <4> QED BY <2>3, <3>1, <4>2
    <3>2. CASE ~ok
      BY <2>1, <2>5, <3>2, FaultCounts DEF UpdateResource
    <3> QED BY <3>1, <3>2
  <2> QED BY <2>6, <2>7 DEF RestsWhenDone
<1> QED BY <1>1, <1>2, <1>3, <1>4, <1>5, <1>6

LEMMA RestNext ==
  ASSUME TypeOK, VersionInv, EarnedInv, RestInv, [Next]_vars
  PROVE  RestInv'
<1>1. CASE UNCHANGED vars
  BY <1>1, QuietRest DEF vars, world, resource, locals
<1>2. CASE reconcileServerlessLogic \/ reconcileKnative \/ reconcileRHDH
           \/ reconcileNetworkPolicy \/ HandleGitOps \/ HandleGitOpsCleanUp
  <2>1. StageMove
    BY <1>2, StageMoves
  <2> QED BY <2>1 DEF StageMove, BeforeRun, Requeue, EndPass, RestInv, RestsWhenDone, Resting, resource
<1>3. CASE SyncObjects \/ Provide \/ OtherWorkerFails
  <2>1. UNCHANGED <<obj, resource, queue, pc, fresh, edits>>
    BY <1>3 DEF SyncObjects, Provide, OtherWorkerFails, world, locals
  <2>2. faults' = faults \/ faults' > 0
    BY <1>3, FaultCounts DEF SyncObjects, Provide, OtherWorkerFails
  <2> QED BY <2>1, <2>2, QuietRest
<1>4. CASE SyncResource \/ Restart
  BY <1>4 DEF SyncResource, Restart, RestInv, RestsWhenDone, Resting, EndPass
<1>5. CASE EditSpec
  BY <1>5 DEF EditSpec, RestInv, RestsWhenDone, Resting
<1> QED BY <1>1, <1>2, <1>3, <1>4, <1>5, RestResource DEF Next, Worker, Environment, Cluster

(* A resource at rest is done: for any specs, any objects met, any faults  *)
(* and changes of the spec, when the worker does not hold the request and  *)
(* no version is on its way to the informer, what the latest spec asks for *)
(* is earned and the status says Completed (but for a lost update of it).  *)
(* The safety half of ObjectsConverge and StatusConverges.                 *)
THEOREM RestCorrect == Spec => []RestsWhenDone
<1>1. RestInv => RestsWhenDone
  BY DEF RestInv
<1> QED BY <1>1, RestInit, VersionInit, EarnedInit, TypeCorrect, VersionNext, EarnedNext, RestNext,
        PTL DEF Spec

-----------------------------------------------------------------------------
(* A step within a stage: it goes on in it, leaves it for a later one,     *)
(* fails in its name, or ends the pass.                                    *)
Within(s, steps, later) ==
  \/ Requeue
  \/ /\ copy' = copy
     /\ \/ pc' \in steps \union {later}
        \/ pc' = "failed" /\ stage' = s

LEMMA WithinOSL ==
  ASSUME reconcileServerlessLogic
  PROVE  pc \in OSLSteps /\ Within("osl", OSLSteps, FromKnative)
  BY DEF reconcileServerlessLogic, workflowNamespace, Call, CheckCRDExists, GetOrCreate,
         Within, OSLSteps, Goto, OnError, FailIn, locals

LEMMA WithinKnative ==
  ASSUME reconcileKnative
  PROVE  pc \in KnativeSteps /\ Within("knative", KnativeSteps, FromRHDH)
  BY DEF reconcileKnative, KnativeNamespace, KnativeResource, Call, CheckCRDExists,
         Within, KnativeSteps, Goto, OnError, FailIn, locals

LEMMA WithinRHDH ==
  ASSUME reconcileRHDH
  PROVE  pc \in RHDHSteps /\ Within("rhdh", RHDHSteps, FromNetworkPolicy)
  BY DEF reconcileRHDH, CreateRHDHSecret, GetOrCreateConfigMaps, Call, CheckCRDExists,
         GetOrCreate, Within, RHDHSteps, Goto, Loop, OnError, FailIn, locals

LEMMA WithinPolicies ==
  ASSUME reconcileNetworkPolicy
  PROVE  Within("networkpolicy", {"np", "argocrd"}, "cleanproject")
  BY DEF reconcileNetworkPolicy, networkPolicyNamespace, handleNetworkPolicy, networkPolicyResult,
         Within, Goto, Loop, FailIn

LEMMA WithinGitOps ==
  ASSUME HandleGitOps \/ HandleGitOpsCleanUp
  PROVE  Within("gitops", GitOpsSteps \union CleanSteps, "completed")
<1>1. CASE HandleGitOps
  BY <1>1 DEF HandleGitOps, handleArgoCDProject, taskCRD, HandleTektonTasks, HandleTektonPipeline,
         CheckCRDExists, Within, GitOpsSteps, Goto, Loop, OnError, FailIn, locals
<1>2. CASE HandleGitOpsCleanUp
  BY <1>2 DEF HandleGitOpsCleanUp, CleanUpOne, handleTektonTaskCleanUp,
         Within, CleanSteps, Goto, Loop, FailIn, locals
<1> QED BY <1>1, <1>2

LEMMA StageNext ==
  ASSUME StageInv, [Next]_vars
  PROVE  StageInv'
<1> USE DEF OSLSteps, KnativeSteps, RHDHSteps
<1>a. ASSUME pc' \notin OSLSteps \union KnativeSteps \union RHDHSteps \union {"failed"} PROVE StageInv'
  BY <1>a DEF StageInv
<1>b. Requeue => StageInv'
  BY <1>a DEF Requeue, EndPass
<1>c. /\ "osl" \in Enabled(copy.spec) <=> copy.spec.osl
      /\ "knative" \in Enabled(copy.spec) <=> copy.spec.knative
      /\ "rhdh" \in Enabled(copy.spec) <=> copy.spec.rhdh
      /\ {"networkpolicy", "gitops"} \subseteq Enabled(copy.spec)
      /\ copy' = copy => Enabled(copy.spec)' = Enabled(copy.spec)
  BY DEF Enabled
<1>1. CASE reconcileServerlessLogic
  BY <1>1, <1>b, <1>c, WithinOSL
     DEF StageInv, Within, FromKnative, FromRHDH, FromNetworkPolicy
<1>2. CASE reconcileKnative
  BY <1>2, <1>b, <1>c, WithinKnative DEF StageInv, Within, FromRHDH, FromNetworkPolicy
<1>3. CASE reconcileRHDH
  BY <1>3, <1>b, <1>c, WithinRHDH DEF StageInv, Within, FromNetworkPolicy
<1>4. CASE reconcileNetworkPolicy
  BY <1>4, <1>a, <1>b, <1>c, WithinPolicies DEF StageInv, Within
<1>5. CASE HandleGitOps \/ HandleGitOpsCleanUp
  BY <1>5, <1>a, <1>b, <1>c, WithinGitOps DEF StageInv, Within, GitOpsSteps, CleanSteps
<1>6. CASE UNCHANGED <<pc, copy, stage>>
  BY <1>6 DEF StageInv, Enabled
<1>7. CASE ReconcileStart \/ Reconcile \/ addFinalizers \/ FailedStatus \/ CompletedStatus \/ Restart
  BY <1>7, <1>a, <1>b DEF ReconcileStart, Reconcile, addFinalizers, FailedStatus, CompletedStatus,
     Restart, Goto, Done, EndPass
<1>8. CASE initializeStatus
  BY <1>8, <1>b DEF initializeStatus, Goto, locals, StageInv, FromOSL, FromKnative, FromRHDH,
     FromNetworkPolicy
<1>9. CASE refetchResource
  BY <1>9, <1>b DEF refetchResource, StageInv, FromOSL, FromKnative, FromRHDH, FromNetworkPolicy
<1>10. CASE SyncObjects \/ SyncResource \/ Provide \/ OtherWorkerFails \/ EditSpec \/ UNCHANGED vars
  BY <1>10, <1>6 DEF SyncObjects, SyncResource, Provide, OtherWorkerFails, EditSpec, locals, vars
<1> QED BY <1>1, <1>2, <1>3, <1>4, <1>5, <1>7, <1>8, <1>9, <1>10
        DEF Next, Worker, Environment, Cluster

LEMMA StageInit == Init => StageInv
  BY DEF Init, StageInv, OSLSteps, KnativeSteps, RHDHSteps

-----------------------------------------------------------------------------
(* What the stages do to the objects: what lasts is never lost.            *)
StageGrow == StageFrame /\ (Fault \/ NoFault) /\ \A o \in Objects : Lasting(o) => Stays(o)

LEMMA CallGrows ==
  ASSUME TypeOK, NEW o \in Objects, NEW from, NEW crd, NEW next, NEW s
  PROVE  /\ Call(from, next, s) => StageGrow
         /\ CheckCRDExists(from, crd, next, s) => StageGrow
         /\ GetOrCreate(o, next, s) => StageGrow
         /\ KnativeNamespace(o, next) => StageGrow
         /\ KnativeResource(o, next) => StageGrow
<1>a. Grows => \A p \in Objects : Lasting(p) => Stays(p)
  BY DEF Grows
<1>b. UNCHANGED obj => Grows
  BY NothingChanges
<1>c. \A answer \in Answers : Create(o, answer) => Grows /\ (Fault \/ NoFault)
  BY CreateGrows
<1>d. obj' = Made(o) => Grows
  BY DEF Made, Grows, Stays, TypeOK
<1>1. Call(from, next, s) => StageGrow
  BY <1>a, <1>b DEF Call, StageGrow, StageFrame, world
<1>2. CheckCRDExists(from, crd, next, s) => StageGrow
  BY <1>a, <1>b DEF CheckCRDExists, StageGrow, StageFrame, world
<1>3. GetOrCreate(o, next, s) => StageGrow
  BY <1>a, <1>b, <1>c DEF GetOrCreate, StageGrow, StageFrame
<1>4. KnativeNamespace(o, next) => StageGrow
  BY <1>a, <1>b, <1>c, <1>d DEF KnativeNamespace, StageGrow, StageFrame
<1>5. KnativeResource(o, next) => StageGrow
  BY <1>a, <1>b, <1>c DEF KnativeResource, StageGrow, StageFrame
<1> QED BY <1>1, <1>2, <1>3, <1>4, <1>5

LEMMA StageGrows ==
  ASSUME TypeOK, EarnedInv,
         reconcileServerlessLogic \/ reconcileKnative \/ reconcileRHDH
         \/ reconcileNetworkPolicy \/ HandleGitOps \/ HandleGitOpsCleanUp
  PROVE  StageGrow
<1>a. Grows => \A o \in Objects : Lasting(o) => Stays(o)
  BY DEF Grows
<1>b. UNCHANGED obj => Grows
  BY NothingChanges
<1>c. \A o \in Objects, answer \in Answers : Create(o, answer) => Grows /\ (Fault \/ NoFault)
  BY CreateGrows
<1>d. SeenInv /\ LoopInv /\ SpecInv /\ BranchInv
  BY DEF EarnedInv
<1>e. /\ OSLObjects \union KnativeObjects \union RHDHObjects \union NetworkPoliciesList
         \union GitOpsObjects \subseteq Objects
      /\ ConfigMaps \subseteq Objects /\ tektonTaskList \subseteq Objects
  BY DEF Objects, RHDHObjects, GitOpsObjects
<1>1. CASE reconcileServerlessLogic
  <2>1. CASE workflowNamespace
    BY <2>1, <1>a, <1>b, <1>c, <1>e DEF workflowNamespace, OSLObjects, StageGrow, StageFrame
  <2> QED BY <1>1, <1>e, <2>1, CallGrows DEF reconcileServerlessLogic, OSLObjects
<1>2. CASE reconcileKnative
  BY <1>2, <1>e, CallGrows DEF reconcileKnative, KnativeObjects
<1>3. CASE reconcileRHDH
  <2>1. CASE CreateRHDHSecret
    BY <2>1, <1>a, <1>b, <1>c, <1>e DEF CreateRHDHSecret, RHDHObjects, StageGrow, StageFrame
  <2>2. CASE GetOrCreateConfigMaps
    BY <2>2, <1>a, <1>b, <1>c, <1>d, <1>e DEF GetOrCreateConfigMaps, LoopInv, StageGrow, StageFrame
  <2> QED BY <1>3, <1>e, <2>1, <2>2, CallGrows DEF reconcileRHDH, RHDHObjects
<1>4. CASE reconcileNetworkPolicy
  <2>1. CASE networkPolicyNamespace \/ networkPolicyResult
    BY <2>1, <1>a, <1>b DEF networkPolicyNamespace, networkPolicyResult, StageGrow, StageFrame, world
  <2>2. CASE handleNetworkPolicy
    <3>1. PICK o \in NetworkPoliciesList, answer \in Answers : GetCreateOrUpdate(o, answer)
      BY <2>2, <1>d DEF handleNetworkPolicy, LoopInv
    <3>2. Grows /\ (Fault \/ NoFault)
      BY <1>d, <3>1, UpdateGrows
    <3> QED BY <2>2, <3>2, <1>a DEF handleNetworkPolicy, StageGrow, StageFrame
  <2> QED BY <1>4, <2>1, <2>2 DEF reconcileNetworkPolicy
<1>5. CASE HandleGitOps
  <2>1. CASE handleArgoCDProject
    <3>1. PICK answer \in Answers : GetCreateOrUpdate("appproject", answer)
      BY <2>1 DEF handleArgoCDProject
    <3>2. Grows /\ (Fault \/ NoFault)
      BY <1>d, <3>1, UpdateGrows
    <3> QED BY <2>1, <3>2, <1>a DEF handleArgoCDProject, StageGrow, StageFrame
  <2>2. CASE taskCRD
    BY <2>2, <1>a, <1>b DEF taskCRD, StageGrow, StageFrame, world
  <2>3. CASE HandleTektonTasks
    <3>1. todo \subseteq Objects
      BY DEF TypeOK
    <3> QED BY <2>3, <3>1, <1>a, <1>b, <1>c DEF HandleTektonTasks, Answers, StageGrow, StageFrame
  <2>4. CASE HandleTektonPipeline
    BY <2>4, <1>a, <1>b, <1>c, <1>e DEF HandleTektonPipeline, GitOpsObjects, StageGrow, StageFrame
  <2> QED BY <1>5, <1>e, <2>1, <2>2, <2>3, <2>4, CallGrows DEF HandleGitOps, GitOpsObjects
<1>6. CASE HandleGitOpsCleanUp
  <2>1. pc \in CleanSteps /\ StageFrame /\ (Fault \/ NoFault)
    BY <1>6 DEF HandleGitOpsCleanUp, CleanUpOne, handleTektonTaskCleanUp, CleanSteps, StageFrame
  <2>2. \A o \in Objects \ GitOpsObjects : obj'[o] = obj[o]
    BY <1>6, <1>d DEF HandleGitOpsCleanUp, CleanUpOne, handleTektonTaskCleanUp, LoopInv,
                      GitOpsObjects, TypeOK
  <2>3. \A o \in GitOpsObjects : ~Lasting(o)
    BY <2>1, <1>d DEF Lasting, SpecInv, BranchInv, CleanSteps
  <2> QED BY <2>1, <2>2, <2>3 DEF Stays, StageGrow
<1> QED BY <1>1, <1>2, <1>3, <1>4, <1>5, <1>6

-----------------------------------------------------------------------------
(* The status along a pass.                                                *)
LEMMA StatusStart == Init => StatusInv
<1> SUFFICES ASSUME Init PROVE StatusInv
  OBVIOUS
<1>1. /\ cr.status = NoStatus /\ crSeen = cr /\ copy = NoCopy /\ pc = "idle"
  BY DEF Init
<1>2. NoCopy.status = NoStatus /\ ~NoCopy.finalizer
  BY DEF NoCopy
<1>3. ~HasConditions(NoStatus) /\ NoStatus.phase = "none" /\ ~NoStatus.available
  BY DEF HasConditions, NoStatus
<1> QED BY <1>1, <1>2, <1>3 DEF StatusInv, BeforeRun

(* A write of the resource, and what it does to those who read it later.   *)
LEMMA StatusStays ==
  ASSUME StatusInv, cr.finalizer => cr'.finalizer, cr.status.available => cr'.status.available,
         crSeen' \in {cr', cr, crSeen}, copy' \in {cr', cr, crSeen, copy, NoCopy},
         HasConditions(cr'.status) => cr'.status.available,
         cr'.status.available <=> cr'.status.phase # "none",
         \/ pc' \in {"idle", "get", "finalizer"}
         \/ pc' = "status" /\ cr'.finalizer
         \/ cr'.finalizer /\ cr'.status.available
  PROVE  StatusInv'
<1>1. NoCopy.status = NoStatus /\ ~NoCopy.finalizer /\ ~HasConditions(NoStatus)
  BY DEF NoCopy, HasConditions, NoStatus
<1>2. \A r \in {cr', cr, crSeen, copy, NoCopy} :
        /\ r.finalizer => cr'.finalizer
        /\ HasConditions(r.status) => cr'.status.available
  BY <1>1 DEF StatusInv
<1>3. \A r : HasConditions(r.status)' <=> HasConditions(r.status')
  BY DEF HasConditions
<1> QED BY <1>2, <1>3 DEF StatusInv, BeforeRun, HasConditions

-----------------------------------------------------------------------------
(* UpdateStatus, field by field.                                           *)
LEMMA StatusFields ==
  ASSUME NEW s \in StatusType, NEW condition \in Conditions
  PROVE  /\ Status(s, condition).available <=> s.available \/ condition = "Available"
         /\ Status(s, condition).completed <=> s.completed \/ condition = "Completed"
         /\ condition = "Available" => /\ Status(s, condition).phase = "Running"
                                       /\ Status(s, condition).degrading = s.degrading
         /\ condition = "Completed" => /\ Status(s, condition).phase = "Completed"
                                       /\ Status(s, condition).degrading = s.degrading
         /\ condition = "Degrading" => /\ Status(s, condition).phase = "Failed"
                                       /\ Status(s, condition).degrading = stage
<1>1. CASE condition = "Available"
  BY <1>1 DEF Status, StatusType
<1>2. CASE condition = "Completed"
  BY <1>2 DEF Status, StatusType
<1>3. CASE condition = "Degrading"
  BY <1>3 DEF Status, StatusType
<1> QED BY <1>1, <1>2, <1>3 DEF Conditions

(* A write of the status changes nothing or the latest version.            *)
StatusWritten(condition) ==
  /\ copy = cr
  /\ cr'.spec = cr.spec /\ cr'.finalizer = cr.finalizer
  /\ cr'.status = Status(cr.status, condition)

LEMMA StatusWrites ==
  ASSUME TypeOK, VersionInv, NEW condition \in Conditions, NEW ok \in BOOLEAN,
         UpdateStatus(condition, ok), pc # "refetch"
  PROVE  /\ cr' = cr \/ StatusWritten(condition)
         /\ ok => StatusWritten(condition)
         /\ faults' = faults \/ faults' > 0
<1> DEFINE new == [copy EXCEPT !.status = Status(@, condition)]
<1>1. UpdateResource(new, ok) /\ copy \in CrType
  BY DEF UpdateStatus, TypeOK
<1>2. copy = cr /\ cr' = new => StatusWritten(condition)
  BY <1>1 DEF StatusWritten, CrType
<1>3. faults' = faults \/ faults' > 0
  BY <1>1, FaultCounts DEF UpdateResource, NoFault
<1>4. (cr' = cr \/ (copy = cr /\ cr' = new)) /\ (ok => copy = cr /\ cr' = new)
  BY <1>1, WriteIsCurrent
<1> HIDE DEF new
<1> QED BY <1>2, <1>3, <1>4

LEMMA StatusResource ==
  ASSUME TypeOK, VersionInv, StatusInv,
         ReconcileStart \/ Reconcile \/ addFinalizers \/ initializeStatus
         \/ refetchResource \/ FailedStatus \/ CompletedStatus
  PROVE  StatusInv'
<1>a. /\ HasConditions(cr.status) => cr.status.available
      /\ cr.status.available <=> cr.status.phase # "none"
  BY DEF StatusInv
<1>b. ASSUME NEW condition \in Conditions, StatusWritten(condition),
             cr.status.available \/ condition = "Available"
      PROVE  cr'.status.available /\ cr'.status.phase # "none"
  <2>1. cr.status \in StatusType
    BY DEF TypeOK, CrType
  <2> QED BY <1>b, <2>1, StatusFields DEF StatusWritten, Conditions
<1>1. CASE ReconcileStart
  BY <1>1, <1>a, StatusStays DEF ReconcileStart, resource, locals
<1>2. CASE Reconcile \/ refetchResource
  <2>1. UNCHANGED resource /\ copy' \in {crSeen, NoCopy}
    BY <1>2 DEF Reconcile, refetchResource, Requeue, EndPass
  <2>2. \/ pc' \in {"idle", "finalizer"}
        \/ cr.finalizer /\ cr.status.available
    BY <1>2 DEF Reconcile, refetchResource, Requeue, EndPass, StatusInv, BeforeRun
  <2> QED BY <1>a, <2>1, <2>2, StatusStays DEF resource
<1>3. CASE addFinalizers
  <2> DEFINE r == [copy EXCEPT !.finalizer = TRUE]
  <2>0. r.status = copy.status /\ r.finalizer /\ pc = "finalizer" /\ crSeen' = crSeen
    BY <1>3 DEF addFinalizers, TypeOK, CrType
  <2>1. CASE copy.finalizer /\ UNCHANGED cr /\ Goto("status")
    BY <1>a, <2>0, <2>1, StatusStays DEF Goto, locals, StatusInv
  <2>2. ASSUME NEW ok \in BOOLEAN, UpdateResource(r, ok),
               \/ ok /\ copy' = r /\ pc' = "status"
               \/ ~ok /\ Requeue
        PROVE  StatusInv'
    <3>1. cr' = cr \/ (copy = cr /\ cr' = r)
      BY <2>0, <2>2, WriteIsCurrent
    <3>2. ok => cr' = r
      BY <2>0, <2>2, WriteIsCurrent
    <3>3. cr'.status = cr.status /\ (cr.finalizer => cr'.finalizer)
      BY <2>0, <3>1
    <3>4. copy' \in {cr', NoCopy} /\ (pc' = "idle" \/ (pc' = "status" /\ cr'.finalizer))
      BY <2>0, <2>2, <3>2 DEF Requeue, EndPass
    <3> QED BY <1>a, <2>0, <3>3, <3>4, StatusStays
  <2> QED BY <1>3, <2>1, <2>2 DEF addFinalizers
<1>4. CASE initializeStatus
  <2>0. pc = "status" /\ cr.finalizer /\ crSeen' = crSeen
    BY <1>4 DEF initializeStatus, StatusInv
  <2>1. CASE HasConditions(copy.status) /\ UNCHANGED cr /\ Goto(FromOSL)
    BY <1>a, <2>0, <2>1, StatusStays DEF Goto, locals, StatusInv
  <2>2. ASSUME NEW ok \in BOOLEAN, UpdateStatus("Available", ok),
               IF ok THEN Goto("refetch") ELSE Requeue
        PROVE  StatusInv'
    <3>1. (cr' = cr \/ StatusWritten("Available")) /\ (ok => StatusWritten("Available"))
      BY <2>0, <2>2, StatusWrites DEF Conditions
    <3>2. StatusWritten("Available") => cr'.status.available /\ cr'.status.phase # "none" /\ cr'.finalizer
      BY <1>b, <2>0 DEF Conditions, StatusWritten
    <3>3. copy' \in {copy, NoCopy} /\ (pc' = "idle" \/ ok)
      BY <2>2 DEF Requeue, EndPass, Goto, locals
    <3> QED BY <1>a, <2>0, <3>1, <3>2, <3>3, StatusStays
  <2> QED BY <1>4, <2>1, <2>2 DEF initializeStatus
<1>5. CASE FailedStatus \/ CompletedStatus
  <2>1. PICK condition \in {"Degrading", "Completed"}, ok \in BOOLEAN : UpdateStatus(condition, ok)
    BY <1>5 DEF FailedStatus, CompletedStatus
  <2>2. pc \notin BeforeRun \union {"refetch"} /\ crSeen' = crSeen /\ copy' = NoCopy /\ pc' = "idle"
    BY <1>5 DEF FailedStatus, CompletedStatus, Requeue, Done, EndPass, BeforeRun
  <2>3. cr.status.available
    BY <2>2 DEF StatusInv
  <2>4. cr' = cr \/ StatusWritten(condition)
    BY <2>1, <2>2, StatusWrites DEF Conditions
  <2>5. StatusWritten(condition) =>
          cr'.status.available /\ cr'.status.phase # "none" /\ cr'.finalizer = cr.finalizer
    BY <1>b, <2>3 DEF Conditions, StatusWritten
  <2> QED BY <1>a, <2>2, <2>4, <2>5, StatusStays
<1> QED BY <1>1, <1>2, <1>3, <1>4, <1>5

LEMMA StatusNext ==
  ASSUME TypeOK, VersionInv, StatusInv, [Next]_vars
  PROVE  StatusInv'
<1>a. /\ HasConditions(cr.status) => cr.status.available
      /\ cr.status.available <=> cr.status.phase # "none"
  BY DEF StatusInv
<1>1. CASE reconcileServerlessLogic \/ reconcileKnative \/ reconcileRHDH
           \/ reconcileNetworkPolicy \/ HandleGitOps \/ HandleGitOpsCleanUp
  <2>1. StageMove
    BY <1>1, StageMoves
  <2>2. cr.finalizer /\ cr.status.available
    BY <2>1 DEF StageMove, StatusInv, BeforeRun
  <2>3. copy' \in {copy, NoCopy} /\ UNCHANGED resource
    BY <2>1 DEF StageMove, Requeue, EndPass
  <2> QED BY <1>a, <2>2, <2>3, StatusStays DEF resource
<1>2. CASE Environment
  <2>1. cr'.status = cr.status /\ cr'.finalizer = cr.finalizer
    <3>1. CASE EditSpec
      BY <3>1 DEF EditSpec, TypeOK, CrType
    <3> QED BY <1>2, <3>1 DEF Environment, Cluster, SyncObjects, SyncResource, Provide, Restart,
                              OtherWorkerFails, resource
  <2>2. crSeen' \in {cr, crSeen} /\ copy' \in {copy, NoCopy} /\ pc' \in {pc, "idle"}
    BY <1>2 DEF Environment, Cluster, SyncObjects, SyncResource, Provide, Restart, EndPass,
                OtherWorkerFails, EditSpec, resource, locals
  <2>3. \/ pc \in {"idle", "get", "finalizer"}
        \/ pc = "status" /\ cr.finalizer
        \/ cr.finalizer /\ cr.status.available
    BY DEF StatusInv, BeforeRun
  <2> QED BY <1>a, <2>1, <2>2, <2>3, StatusStays
<1>3. CASE UNCHANGED vars
  BY <1>3 DEF StatusInv, HasConditions, vars, resource, locals
<1> QED BY <1>1, <1>2, <1>3, StatusResource DEF Next, Worker

-----------------------------------------------------------------------------
(* The passes implement StatusContract.                                    *)
(* As long as the spec is the same, objects and faults only come, and what *)
(* is missing gets less.                                                   *)
LEMMA MissingShrinks ==
  ASSUME TypeOK, UNCHANGED <<Wanted(cr.spec), Enabled(cr.spec)>>,
         edits' = edits \/ edits' > 0, faults' = faults \/ faults' > 0,
         \A o \in Objects : Lasting(o) => Stays(o)
  PROVE  Contract!Meanwhile
<1>1. ASSUME NEW o \in Wanted(cr.spec), Earned(o) PROVE Earned(o)'
  <2>1. CASE Lasting(o)
    <3>1. Fulfilled(o) => Fulfilled(o)'
      BY <1>1, <2>1, WantedStages DEF Fulfilled, Stays
    <3> QED BY <1>1, <3>1 DEF Earned, TypeOK
  <2>2. CASE ~Lasting(o)
    <3>1. o \in GitOpsObjects /\ edits > 0
      BY <1>1, <2>2, WantedStages DEF Lasting, TypeOK
    <3> QED BY <3>1 DEF Earned
  <2> QED BY <2>1, <2>2
<1>2. Missing' \in SUBSET Missing
  BY <1>1 DEF Missing
<1> QED BY <1>2 DEF Contract!Meanwhile, Contract!spec

LEMMA SameSpec ==
  ASSUME cr'.spec = cr.spec
  PROVE  UNCHANGED <<Wanted(cr.spec), Enabled(cr.spec)>>
  BY DEF Wanted, Enabled

(* Where the resource stays as it is, things are made.                     *)
LEMMA MakeStep ==
  ASSUME Contract!Meanwhile, cr'.finalizer = cr.finalizer, cr'.status = cr.status
  PROVE  Contract!Next
<1>1. Reports(cr.status)' = Reports(cr.status)
  BY DEF Reports
<1> QED BY <1>1 DEF Contract!Next, Contract!Make, Contract!report

LEMMA ContractResource ==
  ASSUME TypeOK, VersionInv, EarnedInv, StageInv, StatusInv,
         ReconcileStart \/ Reconcile \/ addFinalizers \/ initializeStatus
         \/ refetchResource \/ FailedStatus \/ CompletedStatus
  PROVE  Contract!Next
<1>a. cr'.spec = cr.spec
  BY VersionResource
<1>b. UNCHANGED obj /\ UNCHANGED edits
  BY DEF ReconcileStart, Reconcile, addFinalizers, initializeStatus, refetchResource,
         FailedStatus, CompletedStatus, world
<1>c. ASSUME faults' = faults \/ faults' > 0 PROVE Contract!Meanwhile
  BY <1>a, <1>b, <1>c, MissingShrinks, SameSpec DEF Stays
<1>d. cr.status \in StatusType /\ cr \in CrType /\ copy \in CrType
  BY DEF TypeOK, CrType
<1>1. CASE ReconcileStart \/ Reconcile \/ refetchResource
  <2>1. faults' = faults \/ faults' > 0
    BY <1>1, FaultCounts DEF ReconcileStart, Reconcile, refetchResource, NoFault
  <2> QED BY <1>1, <1>c, <2>1, MakeStep DEF ReconcileStart, Reconcile, refetchResource, resource
<1>2. CASE addFinalizers
  <2> DEFINE r == [copy EXCEPT !.finalizer = TRUE]
  <2>1. r.status = copy.status /\ r.finalizer = TRUE /\ pc = "finalizer"
    BY <1>2, <1>d DEF addFinalizers, CrType
  <2>2. CASE UNCHANGED cr /\ NoFault
    BY <2>2, <1>c, MakeStep DEF NoFault
  <2>3. ASSUME NEW ok \in BOOLEAN, UpdateResource(r, ok), ~copy.finalizer PROVE Contract!Next
    <3>1. Contract!Meanwhile
      BY <2>3, <1>c, FaultCounts DEF UpdateResource, NoFault
    <3>2. cr' = cr \/ (copy = cr /\ cr' = r)
      BY <2>1, <2>3, WriteIsCurrent
    <3>3. CASE copy = cr /\ cr' = r
      <4>1. Reports(cr.status)' = Reports(cr.status)
        BY <2>1, <3>3 DEF Reports
      <4>2. ~cr.finalizer /\ cr'.finalizer = TRUE /\ cr'.status = cr.status
        BY <2>1, <2>3, <3>3
      <4> QED BY <3>1, <4>1, <4>2 DEF Contract!Next, Contract!Hold, Contract!report
    <3> QED BY <3>1, <3>2, <3>3, MakeStep
  <2> QED BY <1>2, <2>2, <2>3 DEF addFinalizers
<1>3. CASE initializeStatus
  <2>1. pc = "status" /\ cr.finalizer
    BY <1>3 DEF initializeStatus, StatusInv
  <2>2. CASE UNCHANGED cr /\ NoFault
    BY <2>2, <1>c, MakeStep DEF NoFault
  <2>3. ASSUME NEW ok \in BOOLEAN, UpdateStatus("Available", ok), ~HasConditions(copy.status)
        PROVE  Contract!Next
    <3>1. (cr' = cr \/ StatusWritten("Available")) /\ Contract!Meanwhile
      BY <2>1, <2>3, <1>c, StatusWrites DEF Conditions
    <3>2. CASE StatusWritten("Available")
      <4>1. ~cr.status.available /\ ~cr.status.completed /\ cr.status.phase = "none"
        BY <2>3, <3>2 DEF StatusWritten, HasConditions, StatusInv
      <4>2. /\ cr'.status.available /\ ~cr'.status.completed
            /\ cr'.status.phase = "Running" /\ cr'.status.degrading = cr.status.degrading
        BY <1>d, <3>2, <4>1, StatusFields DEF StatusWritten, Conditions
      <4>3. Reports(cr.status)' = {"Available"}
        BY <4>2 DEF Reports
      <4>4. cr'.finalizer = cr.finalizer
        BY <3>2 DEF StatusWritten
      <4> QED BY <2>1, <3>1, <4>1, <4>2, <4>3, <4>4 DEF Contract!Next, Contract!Run
    <3> QED BY <3>1, <3>2, MakeStep
  <2> QED BY <1>3, <2>2, <2>3 DEF initializeStatus
<1>4. CASE FailedStatus
  <2>1. PICK ok \in BOOLEAN : UpdateStatus("Degrading", ok)
    BY <1>4 DEF FailedStatus
  <2>2. pc = "failed" /\ cr.status.available /\ cr.status.phase # "none"
    BY <1>4 DEF FailedStatus, StatusInv, BeforeRun
  <2>3. (cr' = cr \/ StatusWritten("Degrading")) /\ Contract!Meanwhile
    BY <2>1, <2>2, <1>c, StatusWrites DEF Conditions
  <2>4. CASE StatusWritten("Degrading")
    <3>1. /\ cr'.status.available /\ (cr'.status.completed <=> cr.status.completed)
          /\ cr'.status.phase = "Failed" /\ cr'.status.degrading = stage
          /\ cr'.finalizer = cr.finalizer
      BY <1>d, <2>2, <2>4, StatusFields DEF StatusWritten, Conditions
    <3>2. Reports(cr.status)' = Reports(cr.status)
      BY <2>2, <3>1 DEF Reports
    <3>3. stage \in Enabled(cr.spec) /\ stage \in Stages \ {"none"}
      BY <2>2, <2>4 DEF StageInv, StatusWritten, VersionInv, TypeOK
    <3>4. Contract!Fail(stage)
      BY <2>2, <2>3, <3>1, <3>2, <3>3 DEF Contract!Fail
    <3> QED BY <3>3, <3>4 DEF Contract!Next
  <2> QED BY <2>3, <2>4, MakeStep
<1>5. CASE CompletedStatus
  <2>1. PICK ok \in BOOLEAN : UpdateStatus("Completed", ok)
    BY <1>5 DEF CompletedStatus
  <2>2. pc = "completed" /\ cr.status.available /\ cr.status.phase # "none"
    BY <1>5 DEF CompletedStatus, StatusInv, BeforeRun
  <2>3. (cr' = cr \/ StatusWritten("Completed")) /\ Contract!Meanwhile
    BY <2>1, <2>2, <1>c, StatusWrites DEF Conditions
  <2>4. CASE StatusWritten("Completed")
    <3>1. /\ cr'.status.available /\ cr'.status.completed
          /\ cr'.status.phase = "Completed" /\ cr'.status.degrading = cr.status.degrading
          /\ cr'.finalizer = cr.finalizer
      BY <1>d, <2>2, <2>4, StatusFields DEF StatusWritten, Conditions
    <3>2. Reports(cr.status)' = Reports(cr.status) \union {"Completed"}
      BY <2>2, <3>1 DEF Reports
    <3>3. Missing = {}
      BY <2>2, <2>4, EarnedAtEnd DEF CompletedIsEarned, Missing, StatusWritten
    <3> QED BY <2>2, <2>3, <3>1, <3>2, <3>3 DEF Contract!Next, Contract!Complete
  <2> QED BY <2>3, <2>4, MakeStep
<1> QED BY <1>1, <1>2, <1>3, <1>4, <1>5

LEMMA ContractEnvironment ==
  ASSUME TypeOK, Environment
  PROVE  Contract!Next
<1>1. CASE SyncObjects \/ SyncResource \/ Provide \/ Restart \/ OtherWorkerFails
  <2>1. UNCHANGED <<obj, cr, edits>> /\ (faults' = faults \/ faults' > 0)
    BY <1>1, FaultCounts DEF SyncObjects, SyncResource, Provide, Restart, OtherWorkerFails,
                             world, resource
  <2> QED BY <2>1, MissingShrinks, SameSpec, MakeStep DEF Stays
<1>2. CASE EditSpec
  <2>1. cr'.finalizer = cr.finalizer /\ cr'.status = cr.status
    BY <1>2 DEF EditSpec, TypeOK, CrType
  <2>2. Reports(cr.status)' = Reports(cr.status)
    BY <2>1 DEF Reports
  <2>3. /\ Enabled(cr.spec)' \in SUBSET (Stages \ {"none"})
        /\ Wanted(cr.spec)' \in SUBSET Objects
        /\ Missing' \in SUBSET Wanted(cr.spec)'
    BY WantedObjects DEF Enabled, Stages, Wanted, Objects, Missing
  <2>4. CASE UNCHANGED <<Wanted(cr.spec), Enabled(cr.spec)>>
    <3>1. edits' = edits + 1 /\ UNCHANGED <<obj, faults>>
      BY <1>2 DEF EditSpec, world
    <3>2. edits' > 0 /\ \A o \in Objects : Stays(o)
      BY <3>1 DEF Stays, TypeOK
    <3> QED BY <2>1, <2>4, <3>1, <3>2, MissingShrinks, MakeStep
  <2>5. CASE ~UNCHANGED <<Wanted(cr.spec), Enabled(cr.spec)>>
    BY <2>1, <2>2, <2>3, <2>5 DEF Contract!Next, Contract!Edit, Contract!report, Contract!spec
  <2> QED BY <2>4, <2>5
<1> QED BY <1>1, <1>2 DEF Environment, Cluster

LEMMA ContractNext ==
  ASSUME TypeOK, VersionInv, EarnedInv, StageInv, StatusInv, [Next]_vars
  PROVE  [Contract!Next]_(Contract!status)
<1>1. CASE reconcileServerlessLogic \/ reconcileKnative \/ reconcileRHDH
           \/ reconcileNetworkPolicy \/ HandleGitOps \/ HandleGitOpsCleanUp
  <2>1. UNCHANGED <<cr, edits>>
    BY <1>1, StageMoves, StageGrows DEF StageMove, StageGrow, StageFrame, resource
  <2>2. \A o \in Objects : Lasting(o) => Stays(o)
    BY <1>1, StageGrows DEF StageGrow
  <2>3. faults' = faults \/ faults' > 0
    BY <1>1, StageGrows, FaultCounts DEF StageGrow, NoFault
  <2> QED BY <2>1, <2>2, <2>3, MissingShrinks, SameSpec, MakeStep
<1>2. CASE UNCHANGED vars
  <2>1. UNCHANGED <<obj, cr, edits, faults>>
    BY <1>2 DEF vars, world, resource
  <2> QED BY <2>1, MissingShrinks, SameSpec, MakeStep DEF Stays
<1> QED BY <1>1, <1>2, ContractResource, ContractEnvironment DEF Next, Worker

LEMMA ContractInit == Init => Contract!Init
<1> SUFFICES ASSUME Init PROVE Contract!Init
  OBVIOUS
<1>1. cr.finalizer = FALSE /\ cr.status = NoStatus
  BY DEF Init
<1>2. Reports(cr.status) = {} /\ cr.status.phase = "none" /\ cr.status.degrading = "none"
  BY <1>1 DEF NoStatus, Reports
<1>3. /\ Enabled(cr.spec) \in SUBSET (Stages \ {"none"})
      /\ Wanted(cr.spec) \in SUBSET Objects /\ Missing \in SUBSET Wanted(cr.spec)
  BY WantedObjects DEF Enabled, Stages, Missing
<1> QED BY <1>1, <1>2, <1>3 DEF Contract!Init

(* Every pass, over whatever stale copy, tells of the resource only what   *)
(* StatusContract allows: the finalizer before any status, Completed only  *)
(* while nothing the spec asks for is missing, Failed only for a stage the *)
(* spec enables, and no report taken back.                                 *)
THEOREM StatusImplemented == Spec => ImplementsStatus
<1>1. Init => Contract!Init /\ StageInv /\ StatusInv
  BY ContractInit, StageInit, StatusStart
<1>2. TypeOK /\ VersionInv /\ StageInv /\ StatusInv /\ [Next]_vars => StageInv' /\ StatusInv'
  BY StageNext, StatusNext
<1>3. TypeOK /\ VersionInv /\ EarnedInv /\ StageInv /\ StatusInv /\ [Next]_vars
        => [Contract!Next]_(Contract!status)
  BY ContractNext
<1> QED BY <1>1, <1>2, <1>3, VersionInit, EarnedInit, TypeCorrect, VersionNext, EarnedNext,
        PTL DEF Spec, ImplementsStatus, Contract!Spec
=============================================================================
