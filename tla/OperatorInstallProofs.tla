----------------------- MODULE OperatorInstallProofs -----------------------
(***************************************************************************)
(* Proofs about OperatorInstall for any set of workers, any set of plan    *)
(* names, any of the three flows and any bounds.                           *)
(***************************************************************************)
EXTENDS OperatorInstall, TLAPS

(* The records the model is built from are well typed.                     *)
LEMMA RecordTypes ==
  /\ NoSub \in Subs
  /\ UserSub \in Subs
  /\ Unused \in Plans
  /\ plans \in [PlanIds -> Plans] => PlanView \in [PlanIds -> PlanViews]
<1>1. NoSub \in Subs
  BY DEF NoSub, Subs, CSVs, NoCSV
<1>2. UserSub \in Subs
  BY <1>1 DEF NoSub, UserSub, Subs, CSVs, NoCSV
<1>3. Unused \in Plans
  BY DEF Unused, Plans, CSVs, NoCSV
<1>4. PlanView \in [PlanIds -> PlanViews]
  BY DEF PlanView, PlanViews
<1> QED BY <1>1, <1>2, <1>3, <1>4

(* The initial states are well typed.                                      *)
LEMMA TypeInit == Init => TypeOK
<1> SUFFICES ASSUME Init PROVE TypeOK
  OBVIOUS
<1>1. ns \in NsStates /\ og \in BOOLEAN /\ sub \in Subs /\ rev \in Nat
  BY RecordTypes DEF Init, NsStates
<1>2. plans \in [PlanIds -> Plans]
  BY RecordTypes DEF Init
<1>3. crd \in BOOLEAN /\ installed \in BOOLEAN
  BY BoundsAssumption DEF Init
<1>4. cache \in [ns: NsStates, og: BOOLEAN, plans: [PlanIds -> PlanViews]]
  BY <1>1, <1>2, RecordTypes DEF Init
<1>5. pc \in [Actors -> Steps] /\ snap \in [Actors -> Subs]
  BY RecordTypes DEF Init, Steps
<1>6. queue \in SUBSET Workers /\ event \in BOOLEAN
  BY DEF Init
<1>7. faults \in 0..MaxFaults /\ edits \in 0..MaxEdits
  BY BoundsAssumption DEF Init
<1>8. deleted \in BOOLEAN
  BY DEF Init
<1> QED BY <1>1, <1>2, <1>3, <1>4, <1>5, <1>6, <1>7, <1>8 DEF TypeOK

-----------------------------------------------------------------------------
(* The moves of an actor keep the control state well typed.                *)
ControlOK == pc \in [Actors -> Steps] /\ snap \in [Actors -> Subs]
             /\ queue \in SUBSET Workers

LEMMA MoveTypes ==
  ASSUME ControlOK, NEW a \in Actors
  PROVE  /\ \A step \in Steps : Goto(a, step) => ControlOK'
         /\ ReturnErr(a) => ControlOK'
         /\ ReturnNil(a) => ControlOK'
         /\ \A s \in Subs : GotoApproval(a, s) => ControlOK'
<1>1. \A step \in Steps : Goto(a, step) => ControlOK'
  BY DEF ControlOK, Goto
<1>2. ReturnErr(a) => ControlOK'
  BY RecordTypes DEF ControlOK, ReturnErr, Forget, Steps, Actors
<1>3. ReturnNil(a) => ControlOK'
  BY RecordTypes DEF ControlOK, ReturnNil, Forget, Steps
<1>4. \A s \in Subs : GotoApproval(a, s) => ControlOK'
  BY <1>3 DEF ControlOK, GotoApproval, Steps
<1> QED BY <1>1, <1>2, <1>3, <1>4

(* The call after the namespace stage: the actor moves, nothing else does. *)
LEMMA NamespaceMoveTypes ==
  ASSUME ControlOK, NEW a \in Actors, NEW outcome, AfterNamespace(a, outcome)
  PROVE  ControlOK'
  BY MoveTypes DEF AfterNamespace, handleServerlessLogicOperatorInstallation,
     HandleKNativeOperatorInstallation, HandleRHDHOperatorInstallation, Steps

(* Writing and deleting the Subscription.                                  *)
LEMMA WriteTypes ==
  ASSUME TypeOK
  PROVE  /\ \A s \in Subs : WriteSub(s) => sub' \in Subs /\ rev' \in Nat /\ event' \in BOOLEAN
         /\ DropSub => sub' \in Subs /\ event' \in BOOLEAN /\ plans' \in [PlanIds -> Plans]
<1>1. ASSUME NEW s \in Subs, WriteSub(s)
      PROVE  sub' \in Subs /\ rev' \in Nat /\ event' \in BOOLEAN
  BY <1>1 DEF TypeOK, WriteSub, Subs
<1>2. ASSUME DropSub
      PROVE  sub' \in Subs /\ event' \in BOOLEAN /\ plans' \in [PlanIds -> Plans]
  BY <1>2, RecordTypes DEF TypeOK, DropSub, Plans
<1> QED BY <1>1, <1>2

(* A call fails by a fault or does not; users edit within their bound.     *)
LEMMA CountTypes ==
  ASSUME TypeOK
  PROVE  /\ Fault => faults' \in 0..MaxFaults
         /\ NoFault => faults' \in 0..MaxFaults
         /\ \A e : Edit(e) => edits' \in 0..MaxEdits /\ deleted' \in BOOLEAN
<1>1. /\ Fault => faults' \in 0..MaxFaults
      /\ NoFault => faults' \in 0..MaxFaults
  BY BoundsAssumption DEF TypeOK, Fault, NoFault
<1>2. ASSUME NEW e, Edit(e) PROVE edits' \in 0..MaxEdits
  BY <1>2, BoundsAssumption DEF TypeOK, Edit
<1>3. ASSUME NEW e, Edit(e) PROVE deleted' \in BOOLEAN
  BY <1>3, Zenon DEF Edit
<1> QED BY <1>1, <1>2, <1>3

(* Every step of an actor keeps the state well typed.                      *)
LEMMA TypeActorStep ==
  ASSUME TypeOK, NEW a \in Actors, ActorStep(a)
  PROVE  TypeOK'
<1> USE DEF cluster
<1>0. ControlOK
  BY DEF TypeOK, ControlOK
<1>a. {"idle", "ns", "label", "createns", "sub", "group", "creategroup",
       "createsub", "updatesub", "plan", "approve", "crd"} \subseteq Steps
  BY DEF Steps
<1>s. sub \in Subs /\ snap[a] \in Subs
  BY DEF TypeOK
<1>1. CASE CheckNamespaceExist(a)
  <2>1. ControlOK'
    BY <1>0, <1>1, <1>a, MoveTypes, NamespaceMoveTypes DEF CheckNamespaceExist
  <2>2. faults' \in 0..MaxFaults
    BY <1>1, CountTypes DEF CheckNamespaceExist
  <2> QED BY <1>1, <2>1, <2>2 DEF CheckNamespaceExist, TypeOK, ControlOK, PlanViews
<1>2. CASE updateNamespaceLabel(a)
  <2>1. ControlOK'
    BY <1>0, <1>2, <1>a, MoveTypes DEF updateNamespaceLabel
  <2>2. faults' \in 0..MaxFaults
    BY <1>2, CountTypes DEF updateNamespaceLabel
  <2> QED BY <1>2, <2>1, <2>2 DEF updateNamespaceLabel, TypeOK, ControlOK, NsStates
<1>3. CASE CreateNamespace(a)
  <2>1. ControlOK'
    BY <1>0, <1>3, NamespaceMoveTypes DEF CreateNamespace
  <2>2. faults' \in 0..MaxFaults
    BY <1>3, CountTypes DEF CreateNamespace
  <2> QED BY <1>3, <2>1, <2>2 DEF CreateNamespace, TypeOK, ControlOK, NsStates
<1>4. CASE CheckSubscriptionExists(a)
  <2>1. ControlOK'
    <3>1. CASE pc' = [pc EXCEPT ![a] = "updatesub"]
               /\ snap' = [snap EXCEPT ![a] = sub] /\ UNCHANGED queue
      BY <1>0, <1>a, <1>s, <3>1 DEF ControlOK
    <3> QED BY <1>0, <1>4, <1>a, <1>s, <3>1, MoveTypes DEF CheckSubscriptionExists
  <2>2. faults' \in 0..MaxFaults
    BY <1>4, CountTypes DEF CheckSubscriptionExists
  <2> QED BY <1>4, <2>1, <2>2 DEF CheckSubscriptionExists, TypeOK, ControlOK
<1>5. CASE getOperatorGroup(a)
  <2>1. ControlOK'
    BY <1>0, <1>5, <1>a, MoveTypes DEF getOperatorGroup
  <2>2. faults' \in 0..MaxFaults
    BY <1>5, CountTypes DEF getOperatorGroup
  <2> QED BY <1>5, <2>1, <2>2 DEF getOperatorGroup, TypeOK, ControlOK
<1>6. CASE createOperatorGroup(a)
  <2>1. ControlOK'
    BY <1>0, <1>6, <1>a, MoveTypes DEF createOperatorGroup
  <2>2. faults' \in 0..MaxFaults
    BY <1>6, CountTypes DEF createOperatorGroup
  <2> QED BY <1>6, <2>1, <2>2 DEF createOperatorGroup, TypeOK, ControlOK
<1>7. CASE createSubscription(a)
  <2>1. ControlOK'
    BY <1>0, <1>7, MoveTypes DEF createSubscription
  <2>2. faults' \in 0..MaxFaults
    BY <1>7, CountTypes DEF createSubscription
  <2>3. sub' \in Subs /\ rev' \in Nat /\ event' \in BOOLEAN
    <3>1. [NoSub EXCEPT !.exists = TRUE, !.labelled = TRUE] \in Subs
      BY RecordTypes DEF Subs
    <3> QED BY <1>7, <3>1, WriteTypes DEF createSubscription, TypeOK
  <2> QED BY <1>7, <2>1, <2>2, <2>3 DEF createSubscription, TypeOK, ControlOK
<1>8. CASE updateSubscription(a)
  <2>1. ControlOK'
    BY <1>0, <1>8, <1>s, MoveTypes DEF updateSubscription
  <2>2. faults' \in 0..MaxFaults
    BY <1>8, CountTypes DEF updateSubscription
  <2>3. sub' \in Subs /\ rev' \in Nat /\ event' \in BOOLEAN
    <3>1. [sub EXCEPT !.spec = "desired"] \in Subs
      BY <1>s DEF Subs
    <3> QED BY <1>8, <3>1, WriteTypes DEF updateSubscription, TypeOK
  <2> QED BY <1>8, <2>1, <2>2, <2>3 DEF updateSubscription, TypeOK, ControlOK
<1>9. CASE getInstallPlan(a)
  <2>1. ControlOK'
    BY <1>0, <1>9, <1>a, MoveTypes DEF getInstallPlan
  <2>2. faults' \in 0..MaxFaults
    BY <1>9, CountTypes DEF getInstallPlan
  <2> QED BY <1>9, <2>1, <2>2 DEF getInstallPlan, TypeOK, ControlOK
<1>10. CASE ApproveInstallPlan(a)
  <2>1. ControlOK'
    BY <1>0, <1>10, MoveTypes DEF ApproveInstallPlan
  <2>2. faults' \in 0..MaxFaults
    BY <1>10, CountTypes DEF ApproveInstallPlan
  <2>3. plans' \in [PlanIds -> Plans]
    BY <1>10 DEF ApproveInstallPlan, TypeOK, Plans
  <2> QED BY <1>10, <2>1, <2>2, <2>3 DEF ApproveInstallPlan, TypeOK, ControlOK
<1> QED BY <1>1, <1>2, <1>3, <1>4, <1>5, <1>6, <1>7, <1>8, <1>9, <1>10 DEF ActorStep

(* Every step of the environment keeps the state well typed.               *)
LEMMA TypeEnvironment ==
  ASSUME TypeOK, Environment
  PROVE  TypeOK'
<1> USE DEF cluster, control
<1>1. CASE CacheSync
  BY <1>1, RecordTypes DEF CacheSync, SyncNamespace, SyncGroup, SyncPlans, TypeOK
<1>2. ASSUME NEW w \in Workers, Resync(w) PROVE TypeOK'
  BY <1>2 DEF Resync, TypeOK
<1>3. CASE Restart
  <2>1. faults' \in 0..MaxFaults
    BY <1>3, CountTypes DEF Restart
  <2>2. pc' \in [Actors -> Steps] /\ snap' \in [Actors -> Subs]
        /\ queue' \in SUBSET Workers
    BY <1>3, RecordTypes DEF Restart, Steps
  <2>3. event' \in BOOLEAN
    BY <1>3 DEF Restart, TypeOK, Subs
  <2>4. cache' \in [ns: NsStates, og: BOOLEAN, plans: [PlanIds -> PlanViews]]
    BY <1>3, RecordTypes DEF Restart, TypeOK
  <2> QED BY <1>3, <2>1, <2>2, <2>3, <2>4 DEF Restart, TypeOK
<1>4. CASE OLMCreatePlan
  <2>1. plans' \in [PlanIds -> Plans]
    BY <1>4 DEF OLMCreatePlan, TypeOK, Plans, CSVs
  <2> QED BY <1>4, <2>1 DEF OLMCreatePlan, TypeOK
<1>5. CASE OLMUpdateStatus
  <2>1. PICK p \in PlanIds :
          /\ plans[p].st = "new"
          /\ plans' = [plans EXCEPT ![p].st = "referenced"]
          /\ WriteSub([sub EXCEPT !.plan = p, !.csv = plans[p].csv])
    BY <1>5 DEF OLMUpdateStatus
  <2>2. plans' \in [PlanIds -> Plans]
    BY <2>1 DEF TypeOK, Plans
  <2>3. [sub EXCEPT !.plan = p, !.csv = plans[p].csv] \in Subs
    BY DEF TypeOK, Subs, Plans
  <2>4. sub' \in Subs /\ rev' \in Nat /\ event' \in BOOLEAN
    BY <2>1, <2>3, WriteTypes
  <2> QED BY <1>5, <2>2, <2>4 DEF OLMUpdateStatus, TypeOK
<1>6. CASE OLMInstall
  BY <1>6 DEF OLMInstall, TypeOK
<1>7. CASE UserEditSubscription
  <2>1. edits' \in 0..MaxEdits /\ deleted' \in BOOLEAN
    BY <1>7, CountTypes DEF UserEditSubscription
  <2>2. [sub EXCEPT !.spec = "drifted"] \in Subs
    BY DEF TypeOK, Subs
  <2>3. sub' \in Subs /\ rev' \in Nat /\ event' \in BOOLEAN
    BY <1>7, <2>2, WriteTypes DEF UserEditSubscription
  <2> QED BY <1>7, <2>1, <2>3 DEF UserEditSubscription, TypeOK
<1>8. CASE UserDeleteSubscription
  <2>1. edits' \in 0..MaxEdits /\ deleted' \in BOOLEAN
    BY <1>8, CountTypes DEF UserDeleteSubscription
  <2> QED BY <1>8, <2>1, WriteTypes DEF UserDeleteSubscription, TypeOK
<1>9. CASE UserApprovePlan
  <2>1. edits' \in 0..MaxEdits /\ deleted' \in BOOLEAN
    BY <1>9, CountTypes DEF UserApprovePlan
  <2>2. plans' \in [PlanIds -> Plans]
    BY <1>9 DEF UserApprovePlan, TypeOK, Plans
  <2> QED BY <1>9, <2>1, <2>2 DEF UserApprovePlan, TypeOK
<1>10. CASE DeleteNamespace
  <2>1. edits' \in 0..MaxEdits /\ deleted' \in BOOLEAN
    BY <1>10, CountTypes DEF DeleteNamespace
  <2> QED BY <1>10, <2>1 DEF DeleteNamespace, TypeOK, NsStates
<1>11. CASE NamespaceEmptied
  BY <1>11, WriteTypes DEF NamespaceEmptied, TypeOK
<1>12. CASE NamespaceGone
  BY <1>12 DEF NamespaceGone, TypeOK, NsStates
<1> QED BY <1>1, <1>2, <1>3, <1>4, <1>5, <1>6, <1>7, <1>8, <1>9, <1>10,
           <1>11, <1>12 DEF Environment, OLM, NamespaceController

(* A step of the whole system keeps the state well typed.                  *)
LEMMA TypeNext == TypeOK /\ [Next]_vars => TypeOK'
<1> SUFFICES ASSUME TypeOK, [Next]_vars PROVE TypeOK'
  OBVIOUS
<1> USE DEF cluster
<1>0. ControlOK
  BY DEF TypeOK, ControlOK
<1>1. ASSUME NEW w \in Workers, ReconcileStart(w) PROVE TypeOK'
  BY <1>1 DEF ReconcileStart, TypeOK, Steps, Actors
<1>2. ASSUME NEW w \in Workers, CheckCRDExists(w) PROVE TypeOK'
  <2>1. w \in Actors /\ "done" \in Steps
    BY DEF Actors, Steps
  <2>2. ControlOK'
    BY <1>0, <1>2, <2>1, MoveTypes DEF CheckCRDExists
  <2>3. faults' \in 0..MaxFaults
    BY <1>2, CountTypes DEF CheckCRDExists
  <2> QED BY <1>2, <2>2, <2>3 DEF CheckCRDExists, TypeOK, ControlOK
<1>3. CASE reconcileSubscription
  <2>1. Watch \in Actors /\ {"idle", "ns"} \subseteq Steps
    BY DEF Actors, Steps
  <2>2. ControlOK'
    BY <1>0, <1>3, <2>1, MoveTypes DEF reconcileSubscription
  <2> QED BY <1>3, <2>2 DEF reconcileSubscription, TypeOK, ControlOK
<1>4. CASE UNCHANGED vars
  BY <1>4 DEF vars, control, TypeOK, PlanView
<1> QED BY <1>1, <1>2, <1>3, <1>4, TypeActorStep, TypeEnvironment DEF Next, Worker, Watcher, Actors

(***************************************************************************)
(* The state of every reachable configuration is well typed.               *)
(***************************************************************************)
THEOREM TypeCorrect == Spec => []TypeOK
<1>1. Init => TypeOK
  BY TypeInit
<1>2. TypeOK /\ [Next]_vars => TypeOK'
  BY TypeNext
<1> QED BY <1>1, <1>2, PTL DEF Spec

-----------------------------------------------------------------------------
(* A plan that OLM has made keeps its CSV.                                 *)
PlansKept == \A p \in PlanIds : plans[p].st # "unused" =>
                plans'[p].st # "unused" /\ plans'[p].csv = plans[p].csv

LEMMA PlansAreKept == TypeOK /\ [Next]_vars => PlansKept
<1> SUFFICES ASSUME TypeOK, [Next]_vars PROVE PlansKept
  OBVIOUS
<1> USE DEF cluster
<1>1. CASE UNCHANGED plans
  BY <1>1 DEF PlansKept
<1>2. ASSUME NEW a \in Actors, ApproveInstallPlan(a) PROVE PlansKept
  BY <1>2 DEF ApproveInstallPlan, PlansKept, TypeOK, Plans
<1>3. CASE OLMCreatePlan
  BY <1>3 DEF OLMCreatePlan, PlansKept, TypeOK
<1>4. CASE OLMUpdateStatus
  BY <1>4 DEF OLMUpdateStatus, PlansKept, TypeOK, Plans
<1>5. CASE DropSub
  BY <1>5 DEF DropSub, PlansKept, TypeOK, Plans
<1>6. CASE UserApprovePlan
  BY <1>6 DEF UserApprovePlan, PlansKept, TypeOK, Plans
<1>7. ASSUME NEW a \in Actors, ActorStep(a) PROVE PlansKept
  BY <1>1, <1>2, <1>7 DEF ActorStep, CheckNamespaceExist, updateNamespaceLabel,
     CreateNamespace, CheckSubscriptionExists, getOperatorGroup, createOperatorGroup,
     createSubscription, updateSubscription, getInstallPlan
<1>8. CASE Environment
  BY <1>1, <1>3, <1>4, <1>5, <1>6, <1>8 DEF Environment, OLM, NamespaceController, CacheSync, Resync, Restart,
     OLMInstall, UserEditSubscription, UserDeleteSubscription, DeleteNamespace,
     NamespaceEmptied, NamespaceGone
<1>9. CASE \E w \in Workers : ReconcileStart(w) \/ CheckCRDExists(w)
  BY <1>1, <1>9 DEF ReconcileStart, CheckCRDExists
<1>10. CASE reconcileSubscription
  BY <1>1, <1>10 DEF reconcileSubscription
<1>11. CASE UNCHANGED vars
  BY <1>1, <1>11 DEF vars
<1> QED BY <1>7, <1>8, <1>9, <1>10, <1>11 DEF Next, Worker, Watcher, Actors

(* A reference that holds before a step holds after it.                    *)
RefersNext(s) == s.plan # NoPlan => /\ plans'[s.plan].st # "unused"
                                    /\ plans'[s.plan].csv = s.csv

LEMMA RefersKept ==
  ASSUME TypeOK, PlansKept
  PROVE  \A s \in Subs : Refers(s) => RefersNext(s)
  BY DEF TypeOK, PlansKept, Refers, RefersNext, Subs

(* The actors' part of PlanInv, and how a move of an actor keeps it.       *)
SnapInv ==
  /\ \A a \in Actors : Refers(snap[a])
  /\ \A a \in Actors : pc[a] \in {"plan", "approve"} => NeedsApproval(snap[a])

LEMMA SnapMoves ==
  ASSUME TypeOK, PlansKept, SnapInv, NEW a \in Actors
  PROVE  /\ \A step \in Steps \ {"plan", "approve"} : Goto(a, step) => SnapInv'
         /\ ReturnErr(a) => SnapInv'
         /\ ReturnNil(a) => SnapInv'
         /\ \A s \in Subs : Refers(s) /\ GotoApproval(a, s) => SnapInv'
<1>1. \A b \in Actors : RefersNext(snap[b])
  BY RefersKept DEF SnapInv, TypeOK
<1>2. RefersNext(NoSub)
  BY DEF RefersNext, NoSub
<1>3. ASSUME NEW step \in Steps \ {"plan", "approve"}, Goto(a, step) PROVE SnapInv'
  BY <1>1, <1>3 DEF Goto, SnapInv, Refers, RefersNext, NeedsApproval, TypeOK
<1>4. ASSUME snap' = [snap EXCEPT ![a] = NoSub], NEW step \in Steps \ {"plan", "approve"},
             pc' = [pc EXCEPT ![a] = step]
      PROVE  SnapInv'
  BY <1>1, <1>2, <1>4 DEF SnapInv, Refers, RefersNext, NeedsApproval, TypeOK
<1>5. ReturnErr(a) => SnapInv'
  BY <1>4 DEF ReturnErr, Forget, Steps
<1>6. ReturnNil(a) => SnapInv'
  BY <1>4 DEF ReturnNil, Forget, Steps
<1>7. ASSUME NEW s \in Subs, Refers(s), GotoApproval(a, s) PROVE SnapInv'
  <2>1. RefersNext(s)
    BY <1>7, RefersKept
  <2>2. CASE NeedsApproval(s) /\ pc' = [pc EXCEPT ![a] = "plan"]
             /\ snap' = [snap EXCEPT ![a] = s]
    BY <1>1, <2>1, <2>2 DEF SnapInv, Refers, RefersNext, NeedsApproval, TypeOK
  <2> QED BY <1>6, <1>7, <2>2 DEF GotoApproval
<1> QED BY <1>3, <1>5, <1>6, <1>7

(* Steps that leave the actors alone keep SnapInv.                         *)
LEMMA SnapStutter ==
  ASSUME TypeOK, PlansKept, SnapInv, UNCHANGED <<pc, snap>>
  PROVE  SnapInv'
<1>1. \A b \in Actors : RefersNext(snap[b])
  BY RefersKept DEF SnapInv, TypeOK
<1> QED BY <1>1 DEF SnapInv, Refers, RefersNext, NeedsApproval

(* Every step of an actor keeps PlanInv.                                   *)
LEMMA PlanActorStep ==
  ASSUME TypeOK, PlanInv, PlansKept, NEW a \in Actors, ActorStep(a)
  PROVE  PlanInv'
<1> USE DEF cluster
<1>0. SnapInv
  BY DEF PlanInv, SnapInv
<1>s. Refers(sub) /\ Refers(snap[a]) /\ sub \in Subs /\ snap[a] \in Subs
  BY DEF PlanInv, TypeOK
<1>p. {"idle", "ns", "label", "createns", "sub", "group", "creategroup",
       "createsub", "updatesub", "crd"} \subseteq Steps \ {"plan", "approve"}
  BY DEF Steps
<1>a. ASSUME SnapInv', UNCHANGED <<sub, plans>> PROVE PlanInv'
  BY <1>a DEF PlanInv, SnapInv, Refers, OnlyStartingCSVApproved
<1>b. ASSUME SnapInv', UNCHANGED plans, Refers(sub') PROVE PlanInv'
  BY <1>b DEF PlanInv, SnapInv, Refers, OnlyStartingCSVApproved
<1>1. CASE CheckNamespaceExist(a)
  BY <1>0, <1>1, <1>a, <1>p, SnapMoves DEF CheckNamespaceExist, AfterNamespace,
     handleServerlessLogicOperatorInstallation, HandleKNativeOperatorInstallation,
     HandleRHDHOperatorInstallation
<1>2. CASE updateNamespaceLabel(a)
  BY <1>0, <1>2, <1>a, <1>p, SnapMoves DEF updateNamespaceLabel
<1>3. CASE CreateNamespace(a)
  BY <1>0, <1>3, <1>a, <1>p, SnapMoves DEF CreateNamespace, AfterNamespace,
     handleServerlessLogicOperatorInstallation, HandleKNativeOperatorInstallation,
     HandleRHDHOperatorInstallation
<1>4. CASE CheckSubscriptionExists(a)
  <2>1. CASE pc' = [pc EXCEPT ![a] = "updatesub"] /\ snap' = [snap EXCEPT ![a] = sub]
    <3>1. UNCHANGED <<sub, plans>>
      BY <1>4 DEF CheckSubscriptionExists
    <3>2. SnapInv'
      BY <1>0, <1>s, <2>1, <3>1 DEF SnapInv, Refers, NeedsApproval, TypeOK
    <3> QED BY <1>a, <3>1, <3>2
  <2> QED BY <1>0, <1>4, <1>a, <1>p, <1>s, <2>1, SnapMoves DEF CheckSubscriptionExists
<1>5. CASE getOperatorGroup(a)
  BY <1>0, <1>5, <1>a, <1>p, SnapMoves DEF getOperatorGroup
<1>6. CASE createOperatorGroup(a)
  BY <1>0, <1>6, <1>a, <1>p, SnapMoves DEF createOperatorGroup
<1>7. CASE createSubscription(a)
  <2>1. SnapInv' /\ UNCHANGED plans
    BY <1>0, <1>7, SnapMoves DEF createSubscription
  <2>2. Refers(sub')
    BY <1>7, <1>s DEF createSubscription, WriteSub, NoSub, Refers
  <2> QED BY <1>b, <2>1, <2>2
<1>8. CASE updateSubscription(a)
  <2>1. SnapInv' /\ UNCHANGED plans
    BY <1>0, <1>8, <1>s, SnapMoves DEF updateSubscription
  <2>2. Refers(sub')
    BY <1>8, <1>s DEF updateSubscription, WriteSub, Refers, Subs
  <2> QED BY <1>b, <2>1, <2>2
<1>9. CASE getInstallPlan(a)
  <2>1. CASE Goto(a, "approve")
    <3>1. UNCHANGED <<sub, plans>>
      BY <1>9 DEF getInstallPlan
    <3>2. SnapInv'
      BY <1>0, <1>9, <2>1, <3>1 DEF getInstallPlan, Goto, SnapInv, Refers, NeedsApproval, TypeOK
    <3> QED BY <1>a, <3>1, <3>2
  <2> QED BY <1>0, <1>9, <1>a, <2>1, SnapMoves DEF getInstallPlan
<1>10. CASE ApproveInstallPlan(a)
  <2>1. SnapInv'
    BY <1>0, <1>10, SnapMoves DEF ApproveInstallPlan
  <2>2. NeedsApproval(snap[a])
    BY <1>0, <1>10 DEF SnapInv, ApproveInstallPlan
  <2>3. plans[snap[a].plan].csv = Starting
    BY <1>s, <2>2 DEF Refers, NeedsApproval
  <2>4. OnlyStartingCSVApproved'
    BY <1>10, <2>3 DEF ApproveInstallPlan, OnlyStartingCSVApproved, PlanInv, TypeOK, Plans
  <2>5. Refers(sub)'
    BY <1>10, <1>s, RefersKept DEF ApproveInstallPlan, Refers, RefersNext
  <2> QED BY <2>1, <2>4, <2>5 DEF PlanInv, SnapInv
<1> QED BY <1>1, <1>2, <1>3, <1>4, <1>5, <1>6, <1>7, <1>8, <1>9, <1>10 DEF ActorStep

(* Every step of the environment keeps PlanInv.                            *)
LEMMA PlanEnvironment ==
  ASSUME TypeOK, PlanInv, PlansKept, Environment
  PROVE  PlanInv'
<1> USE DEF cluster, control
<1>0. SnapInv /\ Refers(sub) /\ OnlyStartingCSVApproved /\ sub \in Subs
  BY DEF PlanInv, SnapInv, TypeOK
<1>a. ASSUME UNCHANGED <<sub, plans, pc, snap>> PROVE PlanInv'
  BY <1>a DEF PlanInv, Refers, OnlyStartingCSVApproved
<1>b. ASSUME UNCHANGED <<pc, snap>>, OnlyStartingCSVApproved', Refers(sub)' PROVE PlanInv'
  BY <1>0, <1>b, SnapStutter DEF PlanInv, SnapInv
<1>1. CASE Restart
  BY <1>0, <1>1 DEF Restart, PlanInv, Refers, NoSub, OnlyStartingCSVApproved
<1>2. CASE OLMCreatePlan
  <2>1. OnlyStartingCSVApproved'
    BY <1>0, <1>2 DEF OLMCreatePlan, OnlyStartingCSVApproved, TypeOK
  <2>2. Refers(sub)'
    BY <1>0, <1>2, RefersKept DEF OLMCreatePlan, Refers, RefersNext
  <2> QED BY <1>2, <1>b, <2>1, <2>2 DEF OLMCreatePlan
<1>3. CASE OLMUpdateStatus
  <2>1. OnlyStartingCSVApproved'
    BY <1>0, <1>3 DEF OLMUpdateStatus, OnlyStartingCSVApproved, TypeOK, Plans
  <2>2. Refers(sub)'
    BY <1>0, <1>3 DEF OLMUpdateStatus, WriteSub, Refers, TypeOK, Plans, Subs
  <2> QED BY <1>3, <1>b, <2>1, <2>2 DEF OLMUpdateStatus
<1>4. CASE UserEditSubscription
  <2>1. OnlyStartingCSVApproved'
    BY <1>0, <1>4 DEF UserEditSubscription, OnlyStartingCSVApproved
  <2>2. Refers(sub)'
    BY <1>0, <1>4 DEF UserEditSubscription, WriteSub, Refers, Subs
  <2> QED BY <1>4, <1>b, <2>1, <2>2 DEF UserEditSubscription
<1>5. CASE DropSub /\ UNCHANGED <<pc, snap>>
  <2>1. OnlyStartingCSVApproved'
    BY <1>0, <1>5 DEF DropSub, OnlyStartingCSVApproved, TypeOK, Plans
  <2>2. Refers(sub)'
    BY <1>5 DEF DropSub, Refers, NoSub
  <2> QED BY <1>5, <1>b, <2>1, <2>2
<1>6. CASE UserApprovePlan
  <2>1. OnlyStartingCSVApproved'
    BY <1>0, <1>6 DEF UserApprovePlan, OnlyStartingCSVApproved, TypeOK, Plans
  <2>2. Refers(sub)'
    BY <1>0, <1>6, RefersKept DEF UserApprovePlan, Refers, RefersNext
  <2> QED BY <1>6, <1>b, <2>1, <2>2 DEF UserApprovePlan
<1> QED BY <1>1, <1>2, <1>3, <1>4, <1>5, <1>6, <1>a DEF Environment, OLM, NamespaceController, CacheSync, Resync,
           OLMInstall, UserDeleteSubscription, DeleteNamespace, NamespaceEmptied, NamespaceGone

(* PlanInv is inductive.                                                   *)
LEMMA PlanNext == TypeOK /\ PlanInv /\ [Next]_vars => PlanInv'
<1> SUFFICES ASSUME TypeOK, PlanInv, [Next]_vars PROVE PlanInv'
  OBVIOUS
<1> USE DEF cluster
<1>0. PlansKept /\ SnapInv
  BY PlansAreKept DEF PlanInv, SnapInv
<1>a. ASSUME SnapInv', UNCHANGED <<sub, plans>> PROVE PlanInv'
  BY <1>a DEF PlanInv, SnapInv, Refers, OnlyStartingCSVApproved
<1>1. ASSUME NEW w \in Workers, ReconcileStart(w) PROVE PlanInv'
  BY <1>0, <1>1, <1>a DEF ReconcileStart, SnapInv, Refers, NeedsApproval, TypeOK, Actors
<1>2. ASSUME NEW w \in Workers, CheckCRDExists(w) PROVE PlanInv'
  BY <1>0, <1>2, <1>a, SnapMoves DEF CheckCRDExists, Actors, Steps
<1>3. CASE reconcileSubscription
  BY <1>0, <1>3, <1>a, SnapMoves DEF reconcileSubscription, Actors, Steps
<1>4. CASE UNCHANGED vars
  BY <1>4 DEF vars, control, PlanInv, Refers, OnlyStartingCSVApproved
<1> QED BY <1>0, <1>1, <1>2, <1>3, <1>4, PlanActorStep, PlanEnvironment DEF Next, Worker, Watcher, Actors

LEMMA PlanInit == Init => PlanInv
<1> SUFFICES ASSUME Init PROVE PlanInv
  OBVIOUS
<1>1. NoSub.plan = NoPlan /\ UserSub.plan = NoPlan
  BY DEF NoSub, UserSub
<1>2. Refers(sub) /\ \A a \in Actors : Refers(snap[a])
  BY <1>1 DEF Init, Refers
<1>3. \A a \in Actors : pc[a] \notin {"plan", "approve"}
  BY DEF Init
<1>4. OnlyStartingCSVApproved
  BY DEF Init, Unused, OnlyStartingCSVApproved
<1> QED BY <1>2, <1>3, <1>4 DEF PlanInv

(***************************************************************************)
(* Only plans for the starting CSV are ever approved by the operator.      *)
(***************************************************************************)
THEOREM ApprovalsCorrect == Spec => []OnlyStartingCSVApproved
<1>1. PlanInv => OnlyStartingCSVApproved
  BY DEF PlanInv
<1> QED BY <1>1, TypeCorrect, PlanInit, PlanNext, PTL DEF Spec

-----------------------------------------------------------------------------
(* A move of actor a changes no other actor's step.                        *)
LEMMA PcMoves ==
  ASSUME TypeOK, NEW a \in Actors
  PROVE  /\ \A step : Goto(a, step) => pc' = [pc EXCEPT ![a] = step]
         /\ ReturnErr(a) => pc' = [pc EXCEPT ![a] = "idle"]
         /\ ReturnNil(a) => \E step \in {"idle", "crd"} : pc' = [pc EXCEPT ![a] = step]
         /\ \A s : GotoApproval(a, s) =>
              \E step \in {"idle", "crd", "plan"} : pc' = [pc EXCEPT ![a] = step]
  BY DEF Goto, ReturnErr, ReturnNil, GotoApproval

LEMMA PcAfterNamespace ==
  ASSUME TypeOK, NEW a \in Actors, NEW outcome, AfterNamespace(a, outcome)
  PROVE  \E step \in {"idle", "crd", "sub"} : pc' = [pc EXCEPT ![a] = step]
  BY PcMoves DEF AfterNamespace, handleServerlessLogicOperatorInstallation,
     HandleKNativeOperatorInstallation, HandleRHDHOperatorInstallation

(* Every step of an actor keeps GroupInv.                                  *)
LEMMA GroupActorStep ==
  ASSUME TypeOK, GroupInv, NEW a \in Actors, ActorStep(a)
  PROVE  GroupInv'
<1> USE DEF cluster
<1>0. deleted' = deleted
  BY DEF ActorStep, CheckNamespaceExist, updateNamespaceLabel,
     CreateNamespace, CheckSubscriptionExists, getOperatorGroup, createOperatorGroup,
     createSubscription, updateSubscription, getInstallPlan, ApproveInstallPlan
<1>1. CASE deleted
  BY <1>0, <1>1 DEF GroupInv
<1> SUFFICES ASSUME ns # "terminating", cache.og \/ sub.exists => og,
                    \A b \in Actors : pc[b] = "createsub" => og
             PROVE  GroupInv'
  BY <1>1 DEF GroupInv
<1>a. ASSUME UNCHANGED <<og, sub, cache>>, ns' # "terminating",
             NEW step, step = "createsub" => og, pc' = [pc EXCEPT ![a] = step]
      PROVE  GroupInv'
  BY <1>a DEF GroupInv, TypeOK
<1>2. CASE CheckNamespaceExist(a)
  BY <1>2, <1>a, PcMoves, PcAfterNamespace DEF CheckNamespaceExist
<1>3. CASE updateNamespaceLabel(a)
  BY <1>3, <1>a, PcMoves DEF updateNamespaceLabel
<1>4. CASE CreateNamespace(a)
  BY <1>4, <1>a, PcAfterNamespace DEF CreateNamespace
<1>5. CASE CheckSubscriptionExists(a)
  BY <1>5, <1>a, PcMoves DEF CheckSubscriptionExists
<1>6. CASE getOperatorGroup(a)
  BY <1>6, <1>a, PcMoves DEF getOperatorGroup
<1>7. CASE createOperatorGroup(a)
  <2>1. CASE og'
    BY <1>7, <2>1 DEF createOperatorGroup, GroupInv
  <2>2. CASE ~og' /\ ReturnErr(a) /\ og' = og
    BY <1>7, <1>a, <2>2, PcMoves DEF createOperatorGroup
  <2> QED BY <1>7, <2>1, <2>2 DEF createOperatorGroup
<1>8. CASE createSubscription(a)
  <2>1. og /\ UNCHANGED <<og, ns, cache>>
    BY <1>8 DEF createSubscription
  <2> QED BY <2>1 DEF GroupInv
<1>9. CASE updateSubscription(a)
  <2>1. CASE sub.exists
    BY <1>9, <2>1 DEF updateSubscription, GroupInv
  <2>2. CASE ~sub.exists
    BY <1>9, <1>a, <2>2, PcMoves DEF updateSubscription
  <2> QED BY <2>1, <2>2
<1>10. CASE getInstallPlan(a)
  BY <1>10, <1>a, PcMoves DEF getInstallPlan
<1>11. CASE ApproveInstallPlan(a)
  BY <1>11, <1>a, PcMoves DEF ApproveInstallPlan
<1> QED BY <1>2, <1>3, <1>4, <1>5, <1>6, <1>7, <1>8, <1>9, <1>10, <1>11 DEF ActorStep

(* Every step of the environment keeps GroupInv.                           *)
LEMMA GroupEnvironment ==
  ASSUME TypeOK, GroupInv, Environment
  PROVE  GroupInv'
<1> USE DEF cluster, control
<1>0. deleted => deleted'
  BY DEF Environment, OLM, NamespaceController, CacheSync, Resync, Restart, OLMCreatePlan, OLMUpdateStatus,
     OLMInstall, UserEditSubscription, UserDeleteSubscription, UserApprovePlan,
     DeleteNamespace, NamespaceEmptied, NamespaceGone, Edit
<1>1. CASE deleted
  BY <1>0, <1>1 DEF GroupInv
<1> SUFFICES ASSUME ns # "terminating", cache.og \/ sub.exists => og,
                    \A b \in Actors : pc[b] = "createsub" => og
             PROVE  GroupInv'
  BY <1>1 DEF GroupInv
<1>2. CASE CacheSync
  BY <1>2 DEF CacheSync, SyncNamespace, SyncGroup, SyncPlans, GroupInv, TypeOK
<1>3. CASE Restart
  BY <1>3 DEF Restart, GroupInv
<1>4. CASE OLMUpdateStatus \/ UserEditSubscription
  <2>1. sub.exists /\ UNCHANGED <<ns, og, cache, pc>>
    BY <1>4 DEF OLMUpdateStatus, UserEditSubscription
  <2> QED BY <2>1 DEF GroupInv
<1>5. CASE UserDeleteSubscription
  BY <1>5 DEF UserDeleteSubscription, DropSub, NoSub, GroupInv
<1>6. CASE DeleteNamespace
  BY <1>6 DEF DeleteNamespace, Edit, GroupInv, TypeOK
<1>7. CASE UNCHANGED <<ns, og, sub, cache, pc>>
  BY <1>7 DEF GroupInv
<1> QED BY <1>2, <1>3, <1>4, <1>5, <1>6, <1>7 DEF Environment, OLM, NamespaceController, Resync, OLMCreatePlan,
           OLMInstall, UserApprovePlan, NamespaceEmptied, NamespaceGone

(* GroupInv is inductive.                                                  *)
LEMMA GroupNext == TypeOK /\ GroupInv /\ [Next]_vars => GroupInv'
<1> SUFFICES ASSUME TypeOK, GroupInv, [Next]_vars PROVE GroupInv'
  OBVIOUS
<1>a. ASSUME NEW a \in Actors, UNCHANGED <<ns, og, sub, cache, deleted>>,
             NEW step, step # "createsub", pc' = [pc EXCEPT ![a] = step]
      PROVE  GroupInv'
  BY <1>a DEF GroupInv, TypeOK
<1>1. ASSUME NEW w \in Workers, ReconcileStart(w) PROVE GroupInv'
  BY <1>1, <1>a DEF ReconcileStart, cluster, Actors
<1>2. ASSUME NEW w \in Workers, CheckCRDExists(w) PROVE GroupInv'
  BY <1>2, <1>a, PcMoves DEF CheckCRDExists, cluster, Actors
<1>3. CASE reconcileSubscription
  BY <1>3, <1>a, PcMoves DEF reconcileSubscription, cluster, Actors
<1>4. CASE UNCHANGED vars
  BY <1>4 DEF vars, cluster, control, GroupInv
<1> QED BY <1>1, <1>2, <1>3, <1>4, GroupActorStep, GroupEnvironment DEF Next, Worker, Watcher, Actors

(***************************************************************************)
(* No Subscription of the operator stands without its OperatorGroup.       *)
(***************************************************************************)
THEOREM GroupsCorrect == Spec => []SubscriptionHasGroup
<1>1. Init => GroupInv
  BY DEF Init, GroupInv, NoSub
<1>2. GroupInv => SubscriptionHasGroup
  BY DEF GroupInv, SubscriptionHasGroup
<1> QED BY <1>1, <1>2, TypeCorrect, GroupNext, PTL DEF Spec

-----------------------------------------------------------------------------
(* Faults are counted and not forgotten.                                   *)
LEMMA FaultsGrow ==
  ASSUME TypeOK, faults > 0, NoFault \/ Fault
  PROVE  faults' > 0
  BY DEF TypeOK, NoFault, Fault

(* Every step of an actor keeps LabelInv.                                  *)
LEMMA LabelActorStep ==
  ASSUME TypeOK, LabelInv, NEW a \in Actors, ActorStep(a)
  PROVE  LabelInv'
<1> USE DEF cluster, PastLabel
<1>0. NoFault \/ Fault
  BY DEF ActorStep, CheckNamespaceExist, updateNamespaceLabel,
     CreateNamespace, CheckSubscriptionExists, getOperatorGroup, createOperatorGroup,
     createSubscription, updateSubscription, getInstallPlan, ApproveInstallPlan
<1>1. CASE faults > 0
  BY <1>0, <1>1, FaultsGrow DEF LabelInv
<1>2. CASE Fault
  BY <1>2 DEF Fault, LabelInv, TypeOK
<1> SUFFICES ASSUME NoFault, ns = "plain" => cache.ns = "plain",
                    \A b \in Actors : pc[b] \in PastLabel => ns # "plain",
                    sub.exists /\ sub.labelled => ns # "plain"
             PROVE  LabelInv'
  BY <1>0, <1>1, <1>2 DEF LabelInv
<1>n. ~Fault
  BY DEF NoFault, Fault, TypeOK
<1>a. ASSUME UNCHANGED <<sub, cache>>, ns' = "plain" => ns = "plain",
             NEW step, step \in PastLabel => ns' # "plain", pc' = [pc EXCEPT ![a] = step]
      PROVE  LabelInv'
  BY <1>a DEF LabelInv, TypeOK
<1>3. CASE CheckNamespaceExist(a)
  BY <1>3, <1>a, <1>n, PcMoves DEF CheckNamespaceExist
<1>4. CASE updateNamespaceLabel(a)
  BY <1>4, <1>a, <1>n, PcMoves DEF updateNamespaceLabel
<1>5. CASE CreateNamespace(a)
  BY <1>5, <1>a, <1>n, PcAfterNamespace DEF CreateNamespace
<1>6. CASE CheckSubscriptionExists(a)
  BY <1>6, <1>a, <1>n, PcMoves DEF CheckSubscriptionExists
<1>7. CASE getOperatorGroup(a)
  BY <1>7, <1>a, <1>n, PcMoves DEF getOperatorGroup
<1>8. CASE createOperatorGroup(a)
  BY <1>8, <1>a, <1>n, PcMoves DEF createOperatorGroup
<1>9. CASE createSubscription(a)
  <2>1. ns # "plain" /\ ns' = ns /\ cache' = cache
    BY <1>9 DEF createSubscription
  <2> QED BY <2>1 DEF LabelInv
<1>10. CASE updateSubscription(a)
  <2>1. UNCHANGED <<ns, cache>>
    BY <1>10 DEF updateSubscription
  <2>2. sub'.exists /\ sub'.labelled => sub.exists /\ sub.labelled
    BY <1>10 DEF updateSubscription, WriteSub, TypeOK, Subs
  <2>3. \E step : step \notin PastLabel /\ pc' = [pc EXCEPT ![a] = step]
    BY <1>10, PcMoves DEF updateSubscription
  <2> QED BY <2>1, <2>2, <2>3 DEF LabelInv, TypeOK
<1>11. CASE getInstallPlan(a)
  BY <1>11, <1>a, PcMoves DEF getInstallPlan
<1>12. CASE ApproveInstallPlan(a)
  BY <1>12, <1>a, PcMoves DEF ApproveInstallPlan
<1> QED BY <1>3, <1>4, <1>5, <1>6, <1>7, <1>8, <1>9, <1>10, <1>11, <1>12 DEF ActorStep

(* Every step of the environment keeps LabelInv.                           *)
LEMMA LabelEnvironment ==
  ASSUME TypeOK, LabelInv, Environment
  PROVE  LabelInv'
<1> USE DEF cluster, control, PastLabel
<1>0. NoFault \/ Fault
  BY DEF Environment, OLM, NamespaceController, CacheSync, Resync, Restart, OLMCreatePlan, OLMUpdateStatus,
     OLMInstall, UserEditSubscription, UserDeleteSubscription, UserApprovePlan,
     DeleteNamespace, NamespaceEmptied, NamespaceGone, NoFault
<1>1. CASE faults > 0
  BY <1>0, <1>1, FaultsGrow DEF LabelInv
<1>2. CASE Fault
  BY <1>2 DEF Fault, LabelInv, TypeOK
<1> SUFFICES ASSUME NoFault, ns = "plain" => cache.ns = "plain",
                    \A b \in Actors : pc[b] \in PastLabel => ns # "plain",
                    sub.exists /\ sub.labelled => ns # "plain"
             PROVE  LabelInv'
  BY <1>0, <1>1, <1>2 DEF LabelInv
<1>3. CASE CacheSync
  BY <1>3 DEF CacheSync, SyncNamespace, SyncGroup, SyncPlans, LabelInv, TypeOK
<1>4. CASE Restart
  BY <1>2, <1>4 DEF Restart
<1>5. CASE OLMUpdateStatus \/ UserEditSubscription
  <2>1. sub'.exists /\ sub'.labelled => sub.exists /\ sub.labelled
    BY <1>5 DEF OLMUpdateStatus, UserEditSubscription, WriteSub, TypeOK, Subs
  <2>2. UNCHANGED <<ns, cache, pc>>
    BY <1>5 DEF OLMUpdateStatus, UserEditSubscription
  <2> QED BY <2>1, <2>2 DEF LabelInv
<1>6. CASE UNCHANGED <<ns, cache, pc>> /\ DropSub
  BY <1>6 DEF DropSub, NoSub, LabelInv
<1>7. CASE ns' # "plain" /\ UNCHANGED <<sub, cache, pc>>
  BY <1>7 DEF LabelInv
<1>8. CASE UNCHANGED <<ns, sub, cache, pc>>
  BY <1>8 DEF LabelInv
<1> QED BY <1>3, <1>4, <1>5, <1>6, <1>7, <1>8 DEF Environment, OLM, NamespaceController, Resync, OLMCreatePlan,
           OLMInstall, UserApprovePlan, UserDeleteSubscription, DeleteNamespace,
           NamespaceEmptied, NamespaceGone

(* LabelInv is inductive.                                                  *)
LEMMA LabelNext == TypeOK /\ LabelInv /\ [Next]_vars => LabelInv'
<1> SUFFICES ASSUME TypeOK, LabelInv, [Next]_vars PROVE LabelInv'
  OBVIOUS
<1>a. ASSUME NEW a \in Actors, UNCHANGED <<ns, sub, cache>>, NoFault \/ Fault,
             NEW step, step \notin PastLabel, pc' = [pc EXCEPT ![a] = step]
      PROVE  LabelInv'
  BY <1>a DEF LabelInv, NoFault, Fault, TypeOK
<1>1. ASSUME NEW w \in Workers, ReconcileStart(w) PROVE LabelInv'
  BY <1>1, <1>a DEF ReconcileStart, cluster, Actors, PastLabel, NoFault
<1>2. ASSUME NEW w \in Workers, CheckCRDExists(w) PROVE LabelInv'
  BY <1>2, <1>a, PcMoves DEF CheckCRDExists, cluster, Actors, PastLabel
<1>3. CASE reconcileSubscription
  BY <1>3, <1>a, PcMoves DEF reconcileSubscription, cluster, Actors, PastLabel, NoFault
<1>4. CASE UNCHANGED vars
  BY <1>4 DEF vars, cluster, control, LabelInv
<1> QED BY <1>1, <1>2, <1>3, <1>4, LabelActorStep, LabelEnvironment DEF Next, Worker, Watcher, Actors

(***************************************************************************)
(* Without faults, the namespace of the operator's Subscription is always  *)
(* labelled, so that CleanUpNamespace will delete it.                      *)
(***************************************************************************)
THEOREM LabelsCorrect == Spec => []NamespaceCanBeCleanedUp
<1>1. Init => LabelInv
  <2> SUFFICES ASSUME Init PROVE LabelInv
    OBVIOUS
  <2>1. ~NoSub.labelled /\ ~UserSub.labelled
    BY DEF NoSub, UserSub
  <2>2. ~sub.labelled
    BY <2>1 DEF Init
  <2>3. \A a \in Actors : pc[a] = "idle"
    BY DEF Init
  <2>4. cache.ns = ns
    BY DEF Init
  <2> QED BY <2>2, <2>3, <2>4 DEF LabelInv, PastLabel
<1>2. TypeOK /\ LabelInv => NamespaceCanBeCleanedUp
  BY DEF LabelInv, NamespaceCanBeCleanedUp
<1> QED BY <1>1, <1>2, TypeCorrect, LabelNext, PTL DEF Spec
-----------------------------------------------------------------------------
(* Every step of an actor of the Knative procedure keeps CRDInv.           *)
LEMMA CRDActorStep ==
  ASSUME Flow = "knative", TypeOK, CRDInv, NEW a \in Actors, ActorStep(a)
  PROVE  CRDInv'
<1> USE DEF cluster
<1>0. edits' = edits
  BY DEF ActorStep, CheckNamespaceExist, updateNamespaceLabel,
     CreateNamespace, CheckSubscriptionExists, getOperatorGroup, createOperatorGroup,
     createSubscription, updateSubscription, getInstallPlan, ApproveInstallPlan
<1>1. CASE edits > 0
  BY <1>0, <1>1 DEF CRDInv
<1> SUFFICES ASSUME ns # "terminating",
                    \A b \in Actors : pc[b] \in PastSubscription => sub.exists
             PROVE  CRDInv'
  BY <1>1 DEF CRDInv
<1>a. ASSUME sub'.exists = sub.exists, ns' # "terminating",
             NEW step, step \in PastSubscription => sub.exists, pc' = [pc EXCEPT ![a] = step]
      PROVE  CRDInv'
  BY <1>a DEF CRDInv, TypeOK
<1>b. ASSUME sub'.exists, ns' # "terminating" PROVE CRDInv'
  BY <1>b DEF CRDInv
<1>c. ASSUME NEW outcome, AfterNamespace(a, outcome)
      PROVE  \E step \in {"idle", "sub"} : pc' = [pc EXCEPT ![a] = step]
  BY <1>c, PcMoves DEF AfterNamespace, HandleKNativeOperatorInstallation
<1>2. CASE CheckNamespaceExist(a)
  BY <1>2, <1>a, <1>c, PcMoves DEF CheckNamespaceExist, PastSubscription
<1>3. CASE updateNamespaceLabel(a)
  BY <1>3, <1>a, PcMoves DEF updateNamespaceLabel, PastSubscription
<1>4. CASE CreateNamespace(a)
  BY <1>4, <1>a, <1>c DEF CreateNamespace, PastSubscription
<1>5. CASE CheckSubscriptionExists(a)
  <2>1. CASE sub.exists
    BY <1>5, <1>b, <2>1 DEF CheckSubscriptionExists
  <2>2. CASE ~sub.exists
    BY <1>5, <1>a, <2>2, PcMoves DEF CheckSubscriptionExists, PastSubscription
  <2> QED BY <2>1, <2>2
<1>6. CASE getOperatorGroup(a)
  BY <1>6, <1>a, PcMoves DEF getOperatorGroup, PastSubscription
<1>7. CASE createOperatorGroup(a)
  BY <1>7, <1>a, PcMoves DEF createOperatorGroup, PastSubscription
<1>8. CASE createSubscription(a)
  <2>1. CASE sub'.exists
    BY <1>8, <1>b, <2>1 DEF createSubscription
  <2>2. CASE UNCHANGED sub /\ ReturnErr(a)
    BY <1>8, <1>a, <2>2, PcMoves DEF createSubscription, PastSubscription
  <2>3. sub \in Subs /\ NoSub \in Subs
    BY DEF TypeOK, NoSub, Subs, CSVs
  <2> QED BY <1>8, <2>1, <2>2, <2>3 DEF createSubscription, WriteSub, Subs
<1>9. CASE updateSubscription(a)
  <2>1. sub'.exists = sub.exists
    BY <1>9 DEF updateSubscription, WriteSub, TypeOK, Subs
  <2>2. CASE sub.exists
    BY <1>9, <1>b, <2>1, <2>2 DEF updateSubscription
  <2>3. CASE ~sub.exists
    BY <1>9, <1>a, <2>1, <2>3, PcMoves DEF updateSubscription, PastSubscription
  <2> QED BY <2>2, <2>3
<1>10. CASE getInstallPlan(a)
  <2>1. sub.exists
    BY <1>10 DEF getInstallPlan, PastSubscription
  <2> QED BY <1>10, <1>b, <2>1 DEF getInstallPlan
<1>11. CASE ApproveInstallPlan(a)
  <2>1. sub.exists
    BY <1>11 DEF ApproveInstallPlan, PastSubscription
  <2> QED BY <1>11, <1>b, <2>1 DEF ApproveInstallPlan
<1> QED BY <1>2, <1>3, <1>4, <1>5, <1>6, <1>7, <1>8, <1>9, <1>10, <1>11 DEF ActorStep

(* Every step of the environment keeps CRDInv.                             *)
LEMMA CRDEnvironment ==
  ASSUME TypeOK, CRDInv, Environment
  PROVE  CRDInv'
<1> USE DEF cluster, control
<1>0. edits \in Nat
  BY DEF TypeOK
<1>1. CASE edits' = edits + 1
  BY <1>0, <1>1 DEF CRDInv
<1>2. CASE UNCHANGED <<ns, sub, pc, edits>>
  BY <1>2 DEF CRDInv
<1>3. CASE Restart
  <2>1. \A a \in Actors : pc'[a] = "idle"
    BY <1>3 DEF Restart
  <2> QED BY <1>3, <2>1 DEF Restart, CRDInv, PastSubscription
<1>4. CASE OLMUpdateStatus
  <2>1. sub'.exists /\ sub.exists
    BY <1>4 DEF OLMUpdateStatus, WriteSub, TypeOK, Subs
  <2> QED BY <1>4, <2>1 DEF OLMUpdateStatus, CRDInv
<1>5. CASE NamespaceController
  <2>1. ns = "terminating"
    BY <1>5 DEF NamespaceController, NamespaceEmptied, NamespaceGone
  <2>2. edits' = edits
    BY <1>5 DEF NamespaceController, NamespaceEmptied, NamespaceGone
  <2> QED BY <2>1, <2>2 DEF CRDInv
<1> QED BY <1>1, <1>2, <1>3, <1>4, <1>5 DEF Environment, OLM, CacheSync, Resync,
           OLMCreatePlan, OLMInstall, UserEditSubscription, UserDeleteSubscription,
           UserApprovePlan, DeleteNamespace, Edit

LEMMA CRDNext == Flow = "knative" => (TypeOK /\ CRDInv /\ [Next]_vars => CRDInv')
<1> SUFFICES ASSUME Flow = "knative", TypeOK, CRDInv, [Next]_vars PROVE CRDInv'
  OBVIOUS
<1>a. ASSUME NEW a \in Actors, UNCHANGED <<ns, sub, edits>>,
             NEW step, step \in PastSubscription => pc[a] \in PastSubscription,
             pc' = [pc EXCEPT ![a] = step]
      PROVE  CRDInv'
  BY <1>a DEF CRDInv, TypeOK
<1>1. ASSUME NEW w \in Workers, ReconcileStart(w) PROVE CRDInv'
  BY <1>1, <1>a DEF ReconcileStart, cluster, Actors, PastSubscription
<1>2. ASSUME NEW w \in Workers, CheckCRDExists(w) PROVE CRDInv'
  BY <1>2, <1>a, PcMoves DEF CheckCRDExists, cluster, Actors, PastSubscription
<1>3. CASE reconcileSubscription
  BY <1>3, <1>a, PcMoves DEF reconcileSubscription, cluster, Actors, PastSubscription
<1>4. CASE UNCHANGED vars
  BY <1>4 DEF vars, cluster, control, CRDInv
<1> QED BY <1>1, <1>2, <1>3, <1>4, CRDActorStep, CRDEnvironment
        DEF Next, Worker, Watcher, Actors

(***************************************************************************)
(* In the Knative procedure the Subscription exists when a worker looks up *)
(* the CRDs, unless users deleted it.                                      *)
(***************************************************************************)
THEOREM KnativeCRDCheckCorrect ==
  Flow = "knative" => (Spec => []SubscriptionExistsAtCRDCheck)
<1> SUFFICES ASSUME Flow = "knative" PROVE Spec => []SubscriptionExistsAtCRDCheck
  OBVIOUS
<1>1. Init => CRDInv
  BY DEF Init, CRDInv, PastSubscription
<1>2. CRDInv => SubscriptionExistsAtCRDCheck
  BY DEF CRDInv, SubscriptionExistsAtCRDCheck, PastSubscription, Actors
<1>3. TypeOK /\ CRDInv /\ [Next]_vars => CRDInv'
  BY CRDNext
<1> QED BY <1>1, <1>2, <1>3, TypeCorrect, PTL DEF Spec

-----------------------------------------------------------------------------
(* The steps of the actors towards OperatorLifecycle.  The plans a         *)
(* snapshot may name from here on: it keeps them, or takes those of sub.   *)
SnapsKept ==
  \A a \in Actors : snap'[a].plan \in {NoPlan, snap[a].plan, sub.plan}

LEMMA SnapsStep ==
  ASSUME TypeOK, [Next]_vars
  PROVE  SnapsKept
<1> USE DEF cluster, control
<1>t. snap \in [Actors -> Subs]
  BY DEF TypeOK
<1>0. NoSub.plan = NoPlan
  BY DEF NoSub
<1>a. ASSUME UNCHANGED snap PROVE SnapsKept
  BY <1>a DEF SnapsKept
<1>b. ASSUME NEW a \in Actors, NEW s \in {NoSub, sub, snap[a]}, snap' = [snap EXCEPT ![a] = s]
      PROVE  SnapsKept
  BY <1>t, <1>0, <1>b DEF SnapsKept
<1>c. ASSUME NEW a \in Actors, ReturnErr(a) \/ ReturnNil(a) PROVE SnapsKept
  BY <1>b, <1>c DEF ReturnErr, ReturnNil, Forget
<1>d. ASSUME NEW a \in Actors, NEW step, Goto(a, step) PROVE SnapsKept
  BY <1>a, <1>d DEF Goto
<1>e. ASSUME NEW a \in Actors, NEW s \in {sub, snap[a]}, GotoApproval(a, s) PROVE SnapsKept
  BY <1>b, <1>c, <1>e DEF GotoApproval
<1>1. ASSUME NEW a \in Actors, ActorStep(a) PROVE SnapsKept
  BY <1>1, <1>b, <1>c, <1>d, <1>e DEF ActorStep, CheckNamespaceExist, updateNamespaceLabel,
     CreateNamespace, CheckSubscriptionExists, getOperatorGroup, createOperatorGroup,
     createSubscription, updateSubscription, getInstallPlan, ApproveInstallPlan,
     AfterNamespace, handleServerlessLogicOperatorInstallation,
     HandleKNativeOperatorInstallation, HandleRHDHOperatorInstallation
<1>2. ASSUME NEW w \in Workers, ReconcileStart(w) PROVE SnapsKept
  BY <1>2, <1>a DEF ReconcileStart
<1>3. ASSUME NEW w \in Workers, CheckCRDExists(w) PROVE SnapsKept
  BY <1>3, <1>c, <1>d DEF CheckCRDExists, Actors
<1>4. CASE reconcileSubscription
  BY <1>4, <1>d DEF reconcileSubscription, Actors
<1>5. CASE Restart
  BY <1>5, <1>0 DEF Restart, SnapsKept
<1>6. CASE Environment /\ ~Restart
  BY <1>6, <1>a DEF Environment, OLM, NamespaceController, CacheSync, Resync, OLMCreatePlan,
     OLMUpdateStatus, OLMInstall, UserEditSubscription, UserDeleteSubscription,
     UserApprovePlan, DeleteNamespace, NamespaceEmptied, NamespaceGone
<1>7. CASE UNCHANGED vars
  BY <1>7, <1>a DEF vars
<1> QED BY <1>1, <1>2, <1>3, <1>4, <1>5, <1>6, <1>7 DEF Next, Worker, Watcher, Actors

(* ProposalInv is inductive beside PlanInv.                                *)
LEMMA ProposalNext ==
  TypeOK /\ PlanInv /\ ProposalInv /\ [Next]_vars => ProposalInv'
<1> SUFFICES ASSUME TypeOK, PlanInv, ProposalInv, [Next]_vars PROVE ProposalInv'
  OBVIOUS
<1> USE DEF cluster, control
<1>t. sub \in Subs /\ plans \in [PlanIds -> Plans] /\ NoPlan \notin PlanIds
      /\ \A a \in Actors : snap[a].plan \in PlanIds \union {NoPlan}
  BY PlanAssumption DEF TypeOK, Subs
<1>s. SnapsKept
  BY SnapsStep
<1>r. \A p \in PlanIds : p = sub.plan \/ (\E a \in Actors : p = snap[a].plan) =>
        plans[p].st \notin {"new", "unused"}
  BY <1>t DEF ProposalInv, PlanInv, Refers
<1>n. NoSub.plan = NoPlan
  BY DEF NoSub
<1>a. ASSUME UNCHANGED <<plans, installed>>, sub'.plan = sub.plan, sub'.exists = sub.exists
      PROVE  ProposalInv'
  BY <1>a, <1>s DEF ProposalInv, SnapsKept
<1>b. ASSUME UNCHANGED <<sub, installed>>, plans' \in [PlanIds -> Plans],
             \A p \in PlanIds : /\ plans'[p].st = plans[p].st
                                /\ plans'[p].csv = plans[p].csv
                                /\ plans[p].st = "new" => plans'[p].by = plans[p].by
      PROVE  ProposalInv'
  <2>1. \A p, q \in PlanIds : plans'[p].st = "new" /\ plans'[q].st = "new" => p = q
    BY <1>b DEF ProposalInv
  <2>2. \A p \in PlanIds : plans'[p].st = "new" =>
           /\ sub'.plan = NoPlan \/ installed'
           /\ plans'[p].csv = IF installed' THEN Newer ELSE Starting
           /\ plans'[p].by # "operator"
    BY <1>b DEF ProposalInv
  <2>3. sub'.plan # NoPlan => sub'.exists /\ plans'[sub'.plan].st # "new"
    BY <1>b, <1>t DEF ProposalInv, Subs
  <2>4. \A a \in Actors : snap'[a].plan # NoPlan => plans'[snap'[a].plan].st # "new"
    <3> SUFFICES ASSUME NEW a \in Actors, snap'[a].plan # NoPlan
                 PROVE  plans'[snap'[a].plan].st # "new"
      OBVIOUS
    <3>1. snap'[a].plan \in {snap[a].plan, sub.plan}
      BY <1>s DEF SnapsKept
    <3>2. snap'[a].plan \in PlanIds
      BY <3>1, <1>t DEF Subs
    <3> QED BY <3>1, <3>2, <1>b, <1>r
  <2>5. \A p \in PlanIds : plans'[p].st # "unused" => plans'[p].csv # NoCSV
    BY <1>b DEF ProposalInv
  <2> QED BY <2>1, <2>2, <2>3, <2>4, <2>5 DEF ProposalInv
<1>c. ASSUME DropSub PROVE ProposalInv'
  <2>1. \A p \in PlanIds : plans'[p].st # "new"
    BY <1>c, <1>t DEF DropSub, Plans
  <2>2. sub'.plan = NoPlan
    BY <1>c, <1>n DEF DropSub
  <2>3. \A a \in Actors : snap'[a].plan # NoPlan => snap'[a].plan \in PlanIds
    BY <1>s, <1>t DEF SnapsKept, Subs
  <2>4. \A p \in PlanIds : plans'[p].st # "unused" => plans'[p].csv # NoCSV
    BY <1>c, <1>t DEF DropSub, Plans, ProposalInv
  <2> QED BY <2>1, <2>2, <2>3, <2>4 DEF ProposalInv
<1>1. CASE UNCHANGED <<sub, plans, installed>>
  BY <1>1, <1>a
<1>2. ASSUME NEW a \in Actors, createSubscription(a) PROVE ProposalInv'
  <2>1. CASE UNCHANGED sub
    BY <1>2, <2>1, <1>a DEF createSubscription
  <2>2. CASE ~sub.exists /\ sub' = [NoSub EXCEPT !.exists = TRUE, !.labelled = TRUE, !.rv = rev + 1]
    <3>1. sub'.plan = NoPlan /\ sub.plan = NoPlan
      BY <2>2, <1>n DEF NoSub, ProposalInv
    <3> QED BY <1>2, <1>s, <3>1 DEF createSubscription, ProposalInv, SnapsKept
  <2> QED BY <1>2, <2>1, <2>2 DEF createSubscription, WriteSub, NoSub
<1>3. ASSUME NEW a \in Actors, updateSubscription(a) PROVE ProposalInv'
  BY <1>3, <1>a, <1>t DEF updateSubscription, WriteSub, Subs
<1>4. ASSUME NEW a \in Actors, ApproveInstallPlan(a) PROVE ProposalInv'
  <2>1. CASE UNCHANGED plans
    BY <1>1, <1>4, <2>1 DEF ApproveInstallPlan
  <2>2. CASE plans' = [plans EXCEPT ![snap[a].plan].by = "operator"]
    <3>1. snap[a].plan \in PlanIds
      BY <1>4, <1>t DEF ApproveInstallPlan, PlanInv, NeedsApproval
    <3>2. plans[snap[a].plan].st # "new"
      BY <3>1, <1>r
    <3> QED BY <1>4, <1>b, <1>t, <2>2, <3>1, <3>2 DEF ApproveInstallPlan, Plans
  <2> QED BY <1>4, <2>1, <2>2 DEF ApproveInstallPlan
<1>5. ASSUME NEW a \in Actors, ActorStep(a) PROVE ProposalInv'
  BY <1>1, <1>2, <1>3, <1>4, <1>5 DEF ActorStep, CheckNamespaceExist, updateNamespaceLabel,
     CreateNamespace, CheckSubscriptionExists, getOperatorGroup, createOperatorGroup,
     getInstallPlan
<1>6. CASE OLMCreatePlan
  <2> PICK p \in PlanIds :
        /\ plans[p].st = "unused"
        /\ plans' = [plans EXCEPT ![p] =
             [st |-> "new", csv |-> IF installed THEN Newer ELSE Starting,
              by |-> IF sub.spec = "drifted" THEN "other" ELSE "nobody"]]
    BY <1>6 DEF OLMCreatePlan
  <2>1. \A q \in PlanIds \ {p} : plans'[q] = plans[q]
    BY <1>t
  <2>2. /\ plans'[p].st = "new" /\ plans'[p].by # "operator"
        /\ plans'[p].csv = IF installed THEN Newer ELSE Starting
    BY <1>t
  <2>3. (sub.plan = NoPlan \/ installed) /\ UNCHANGED <<sub, installed>>
    BY <1>6 DEF OLMCreatePlan
  <2>4. p # sub.plan /\ \A a \in Actors : p # snap[a].plan
    BY <1>r
  <2>5. \A q \in PlanIds : plans[q].st # "new"
    BY <1>6 DEF OLMCreatePlan
  <2>6. plans'[p].csv # NoCSV
    BY <2>2 DEF NoCSV, Newer, Starting
  <2> QED BY <1>s, <1>t, <2>1, <2>2, <2>3, <2>4, <2>5, <2>6 DEF ProposalInv, SnapsKept
<1>7. CASE OLMUpdateStatus
  <2> PICK p \in PlanIds :
        /\ plans[p].st = "new"
        /\ plans' = [plans EXCEPT ![p].st = "referenced"]
        /\ WriteSub([sub EXCEPT !.plan = p, !.csv = plans[p].csv])
    BY <1>7 DEF OLMUpdateStatus
  <2>0. sub.exists /\ UNCHANGED installed
    BY <1>7 DEF OLMUpdateStatus
  <2>1. sub'.plan = p /\ sub'.exists
    BY <1>t, <2>0 DEF WriteSub, Subs
  <2>3. plans'[p].st = "referenced" /\ \A q \in PlanIds \ {p} : plans'[q] = plans[q]
    BY <1>t DEF Plans
  <2>4. \A q \in PlanIds \ {p} : plans[q].st # "new"
    BY DEF ProposalInv
  <2>5. plans'[p].csv # NoCSV
    BY <1>t DEF ProposalInv, Plans
  <2> QED BY <1>s, <1>t, <2>0, <2>1, <2>3, <2>4, <2>5 DEF ProposalInv, SnapsKept
<1>8. CASE OLMInstall
  <2>1. sub.plan # NoPlan /\ ~installed
    BY <1>8 DEF OLMInstall
  <2>2. \A p \in PlanIds : plans[p].st # "new"
    BY <2>1 DEF ProposalInv
  <2> QED BY <1>8, <1>s, <2>2 DEF OLMInstall, ProposalInv, SnapsKept
<1>9. CASE UserEditSubscription
  BY <1>9, <1>a, <1>t DEF UserEditSubscription, WriteSub, Subs
<1>10. CASE UserDeleteSubscription
  BY <1>10, <1>c DEF UserDeleteSubscription
<1>11. CASE UserApprovePlan
  BY <1>11, <1>b, <1>t DEF UserApprovePlan, Plans
<1>12. CASE NamespaceEmptied
  BY <1>12, <1>c DEF NamespaceEmptied
<1>13. CASE Environment
  BY <1>1, <1>6, <1>7, <1>8, <1>9, <1>10, <1>11, <1>12, <1>13
  DEF Environment, OLM, NamespaceController, CacheSync, Resync, Restart, DeleteNamespace,
      NamespaceGone
<1>14. ASSUME NEW w \in Workers, ReconcileStart(w) \/ CheckCRDExists(w) PROVE ProposalInv'
  BY <1>1, <1>14 DEF ReconcileStart, CheckCRDExists
<1>15. CASE reconcileSubscription \/ UNCHANGED vars
  BY <1>1, <1>15 DEF reconcileSubscription, vars
<1> QED BY <1>5, <1>13, <1>14, <1>15 DEF Next, Worker, Watcher, Actors

LEMMA ProposalInit == Init => ProposalInv
<1>1. NoSub.plan = NoPlan /\ UserSub.plan = NoPlan
  BY DEF NoSub, UserSub
<1> QED BY <1>1 DEF Init, ProposalInv, Unused

(* Every step is one of OperatorLifecycle's, or changes nothing there.     *)
LEMMA LifecycleInit == Init => Lifecycle!Init
<1>1. /\ NoSub.plan = NoPlan /\ UserSub.plan = NoPlan
      /\ NoSub.exists = FALSE /\ UserSub.exists = TRUE
  BY DEF NoSub, UserSub
<1> QED BY <1>1 DEF Init, Lifecycle!Init, Lifecycle!None, Proposal

LEMMA LifecycleStep ==
  TypeOK /\ PlanInv /\ ProposalInv /\ [Next]_vars => [Lifecycle!Next]_(Lifecycle!lifecycle)
<1> DEFINE Goal == [Lifecycle!Next]_(Lifecycle!lifecycle)
<1> SUFFICES ASSUME TypeOK, PlanInv, ProposalInv, [Next]_vars PROVE Goal
  OBVIOUS
<1> USE DEF cluster, control
<1>t. /\ sub \in Subs /\ plans \in [PlanIds -> Plans] /\ NoPlan \notin PlanIds
      /\ installed \in BOOLEAN
      /\ \A a \in Actors : snap[a].plan \in PlanIds \union {NoPlan}
  BY PlanAssumption DEF TypeOK, Subs
<1>n. NoSub.plan = NoPlan /\ NoSub.exists = FALSE
  BY DEF NoSub
<1>a. ASSUME UNCHANGED <<plans, installed>>, sub'.plan = sub.plan, sub'.exists = sub.exists
      PROVE  Goal
  BY <1>a DEF Lifecycle!lifecycle, Proposal
<1>b. ASSUME UNCHANGED <<sub, installed>>,
             sub.plan # NoPlan => plans'[sub.plan].csv = plans[sub.plan].csv
                                  /\ plans'[sub.plan].by = plans[sub.plan].by
      PROVE  Goal
  BY <1>b DEF Lifecycle!lifecycle, Proposal
<1>c. ASSUME DropSub, installed' \in {installed, FALSE} PROVE Goal
  <2>1. Lifecycle!Remove
    BY <1>c, <1>n DEF DropSub, Lifecycle!Remove, Lifecycle!None, Proposal
  <2> QED BY <2>1 DEF Lifecycle!Next
<1>1. CASE UNCHANGED <<sub, plans, installed>>
  BY <1>1, <1>a
<1>2. ASSUME NEW a \in Actors, createSubscription(a) PROVE Goal
  <2>1. CASE UNCHANGED sub
    BY <1>1, <1>2, <2>1 DEF createSubscription
  <2>2. CASE ~sub.exists /\ sub' = [NoSub EXCEPT !.exists = TRUE, !.labelled = TRUE, !.rv = rev + 1]
    <3>1. sub'.plan = NoPlan /\ sub.plan = NoPlan /\ sub'.exists = TRUE
      BY <2>2, <1>n DEF NoSub, ProposalInv
    <3>2. Lifecycle!Subscribe
      BY <1>2, <2>2, <3>1 DEF createSubscription, Lifecycle!Subscribe, Proposal
    <3> QED BY <3>2 DEF Lifecycle!Next
  <2> QED BY <1>2, <2>1, <2>2 DEF createSubscription, WriteSub, NoSub
<1>3. ASSUME NEW a \in Actors, updateSubscription(a) PROVE Goal
  BY <1>3, <1>a, <1>t DEF updateSubscription, WriteSub, Subs
<1>4. ASSUME NEW a \in Actors, ApproveInstallPlan(a) PROVE Goal
  <2>1. CASE UNCHANGED plans
    BY <1>1, <1>4, <2>1 DEF ApproveInstallPlan
  <2>2. CASE /\ plans' = [plans EXCEPT ![snap[a].plan].by = "operator"]
             /\ PlanView[snap[a].plan] = "open"
    <3>1. snap[a].plan \in PlanIds /\ UNCHANGED <<sub, installed>>
      BY <1>4, <1>t DEF ApproveInstallPlan, PlanInv, NeedsApproval
    <3>2. plans[snap[a].plan].csv = Starting /\ plans[snap[a].plan].by = "nobody"
      BY <1>4, <2>2, <3>1 DEF ApproveInstallPlan, PlanInv, NeedsApproval, Refers, PlanView
    <3>3. CASE snap[a].plan = sub.plan
      <4>1. Proposal = [csv |-> "starting", by |-> "nobody"]
        BY <1>t, <3>1, <3>2, <3>3 DEF Proposal, Starting
      <4>2. Proposal' = [csv |-> "starting", by |-> "operator"]
        BY <1>t, <2>2, <3>1, <3>2, <3>3 DEF Proposal, Starting, Plans
      <4>3. Lifecycle!OperatorApproves
        BY <3>1, <4>1, <4>2 DEF Lifecycle!OperatorApproves
      <4> QED BY <4>3 DEF Lifecycle!Next
    <3>4. CASE snap[a].plan # sub.plan
      BY <1>b, <1>t, <2>2, <3>1, <3>4 DEF Subs, Plans
    <3> QED BY <3>3, <3>4
  <2> QED BY <1>4, <2>1, <2>2 DEF ApproveInstallPlan
<1>5. ASSUME NEW a \in Actors, ActorStep(a) PROVE Goal
  BY <1>1, <1>2, <1>3, <1>4, <1>5 DEF ActorStep, CheckNamespaceExist, updateNamespaceLabel,
     CreateNamespace, CheckSubscriptionExists, getOperatorGroup, createOperatorGroup,
     getInstallPlan
<1>6. CASE OLMCreatePlan
  <2>1. sub.plan # NoPlan => plans'[sub.plan] = plans[sub.plan]
    BY <1>6, <1>t DEF OLMCreatePlan, PlanInv, Refers, Subs
  <2> QED BY <1>6, <1>b, <2>1 DEF OLMCreatePlan
<1>7. CASE OLMUpdateStatus
  <2> PICK p \in PlanIds :
        /\ plans[p].st = "new"
        /\ plans' = [plans EXCEPT ![p].st = "referenced"]
        /\ WriteSub([sub EXCEPT !.plan = p, !.csv = plans[p].csv])
    BY <1>7 DEF OLMUpdateStatus
  <2>0. sub.exists = TRUE /\ UNCHANGED installed
    BY <1>7, <1>t DEF OLMUpdateStatus, Subs
  <2>1. sub'.plan = p /\ sub'.exists = TRUE
    BY <1>t, <2>0 DEF WriteSub, Subs
  <2>2. /\ sub.plan = NoPlan \/ installed
        /\ plans[p].csv = IF installed THEN Newer ELSE Starting
        /\ plans[p].by \in {"nobody", "other"}
    BY <1>t DEF ProposalInv, Plans
  <2>3. plans'[p].csv = plans[p].csv /\ plans'[p].by = plans[p].by
    BY <1>t DEF Plans
  <2>4. Proposal' = [csv |-> IF installed THEN "newer" ELSE "starting", by |-> plans[p].by]
    BY <1>t, <2>1, <2>2, <2>3 DEF Proposal, Newer, Starting
  <2>5. sub.plan = NoPlan => Proposal = Lifecycle!None
    BY DEF Proposal, Lifecycle!None
  <2>6. Lifecycle!Propose
    BY <2>0, <2>1, <2>2, <2>4, <2>5 DEF Lifecycle!Propose
  <2> QED BY <2>6 DEF Lifecycle!Next
<1>8. CASE OLMInstall
  <2>1. Proposal.by # "nobody" /\ UNCHANGED Proposal
    BY <1>8 DEF OLMInstall, Proposal
  <2>2. Lifecycle!Install
    BY <1>8, <2>1 DEF OLMInstall, Lifecycle!Install
  <2> QED BY <2>2 DEF Lifecycle!Next
<1>9. CASE UserEditSubscription
  BY <1>9, <1>a, <1>t DEF UserEditSubscription, WriteSub, Subs
<1>10. CASE UserDeleteSubscription
  BY <1>10, <1>c DEF UserDeleteSubscription
<1>11. CASE UserApprovePlan
  <2> PICK p \in PlanIds : /\ plans[p].st = "referenced" /\ plans[p].by = "nobody"
                           /\ plans' = [plans EXCEPT ![p].by = "other"]
    BY <1>11 DEF UserApprovePlan
  <2>0. UNCHANGED <<sub, installed>>
    BY <1>11 DEF UserApprovePlan
  <2>1. CASE p = sub.plan
    <3>1. /\ Proposal = [csv |-> plans[p].csv, by |-> "nobody"]
          /\ Proposal' = [csv |-> plans[p].csv, by |-> "other"]
      BY <1>t, <2>0, <2>1 DEF Proposal, Plans
    <3>2. plans[p].csv # "none"
      BY DEF ProposalInv, NoCSV
    <3>3. Lifecycle!UserApproves
      BY <2>0, <3>1, <3>2 DEF Lifecycle!UserApproves, Lifecycle!None
    <3> QED BY <3>3 DEF Lifecycle!Next
  <2>2. CASE p # sub.plan
    BY <1>b, <1>t, <2>0, <2>2 DEF Subs, Plans
  <2> QED BY <2>1, <2>2
<1>12. CASE NamespaceEmptied
  BY <1>12, <1>c DEF NamespaceEmptied
<1>13. CASE Environment
  BY <1>1, <1>6, <1>7, <1>8, <1>9, <1>10, <1>11, <1>12, <1>13
  DEF Environment, OLM, NamespaceController, CacheSync, Resync, Restart, DeleteNamespace,
      NamespaceGone
<1>14. ASSUME NEW w \in Workers, ReconcileStart(w) \/ CheckCRDExists(w) PROVE Goal
  BY <1>1, <1>14 DEF ReconcileStart, CheckCRDExists
<1>15. CASE reconcileSubscription \/ UNCHANGED vars
  BY <1>1, <1>15 DEF reconcileSubscription, vars
<1> QED BY <1>5, <1>13, <1>14, <1>15 DEF Next, Worker, Watcher, Actors

(***************************************************************************)
(* The installation procedures, with their snapshots, caches and failing   *)
(* calls, implement OperatorLifecycle.                                     *)
(***************************************************************************)
THEOREM InstallImplementsLifecycle == Spec => ImplementsLifecycle
<1>1. Init => TypeOK /\ PlanInv /\ ProposalInv
  BY TypeInit, PlanInit, ProposalInit
<1>2. TypeOK /\ PlanInv /\ ProposalInv /\ [Next]_vars => (TypeOK /\ PlanInv /\ ProposalInv)'
  BY TypeNext, PlanNext, ProposalNext
<1> QED BY <1>1, <1>2, LifecycleInit, LifecycleStep, PTL
        DEF Spec, ImplementsLifecycle, Lifecycle!Spec

-----------------------------------------------------------------------------
(* A worker that is idle is queued, and one that is done is queued or has  *)
(* found the CRDs; how a move of an actor keeps that.                      *)
WorkersRest ==
  /\ \A w \in Workers : pc[w] = "idle" => w \in queue
  /\ \A w \in Workers : pc[w] = "done" => w \in queue \/ crd

LEMMA RestMoves ==
  ASSUME TypeOK, WorkersRest, NEW a \in Actors, crd' = crd
  PROVE  /\ \A step \in Steps \ {"idle", "done"} : Goto(a, step) => WorkersRest'
         /\ ReturnErr(a) => WorkersRest'
         /\ ReturnNil(a) => WorkersRest'
         /\ \A s \in Subs : GotoApproval(a, s) => WorkersRest'
<1>a. ASSUME NEW step, step # "done", pc' = [pc EXCEPT ![a] = step],
             queue \subseteq queue', step = "idle" /\ a \in Workers => a \in queue'
      PROVE  WorkersRest'
  BY <1>a DEF WorkersRest, TypeOK, Actors
<1>1. ASSUME NEW step \in Steps \ {"idle", "done"}, Goto(a, step) PROVE WorkersRest'
  BY <1>1, <1>a DEF Goto
<1>2. ReturnErr(a) => WorkersRest'
  BY <1>a, ActorsAssumption DEF ReturnErr
<1>3. ReturnNil(a) => WorkersRest'
  BY <1>a, ActorsAssumption DEF ReturnNil
<1>4. ASSUME NEW s \in Subs, GotoApproval(a, s) PROVE WorkersRest'
  BY <1>3, <1>4, <1>a DEF GotoApproval
<1> QED BY <1>1, <1>2, <1>3, <1>4

LEMMA RestAfterNamespace ==
  ASSUME TypeOK, WorkersRest, NEW a \in Actors, crd' = crd,
         NEW outcome, AfterNamespace(a, outcome)
  PROVE  WorkersRest'
  BY RestMoves DEF AfterNamespace, handleServerlessLogicOperatorInstallation,
     HandleKNativeOperatorInstallation, HandleRHDHOperatorInstallation, Steps

(* Every step of an actor keeps WorkersRest.                               *)
LEMMA RestActorStep ==
  ASSUME TypeOK, WorkersRest, NEW a \in Actors, ActorStep(a)
  PROVE  WorkersRest'
<1> USE DEF cluster
<1>c. crd' = crd
  BY DEF ActorStep, CheckNamespaceExist, updateNamespaceLabel,
     CreateNamespace, CheckSubscriptionExists, getOperatorGroup, createOperatorGroup,
     createSubscription, updateSubscription, getInstallPlan, ApproveInstallPlan
<1>s. sub \in Subs /\ snap[a] \in Subs
  BY DEF TypeOK
<1>p. {"ns", "label", "createns", "sub", "group", "creategroup",
       "createsub", "updatesub", "approve", "crd"} \subseteq Steps \ {"idle", "done"}
  BY DEF Steps
<1>1. CASE CheckNamespaceExist(a)
  BY <1>1, <1>c, <1>p, RestMoves, RestAfterNamespace DEF CheckNamespaceExist
<1>2. CASE updateNamespaceLabel(a)
  BY <1>2, <1>c, <1>p, RestMoves DEF updateNamespaceLabel
<1>3. CASE CreateNamespace(a)
  BY <1>3, <1>c, RestAfterNamespace DEF CreateNamespace
<1>4. CASE CheckSubscriptionExists(a)
  <2>1. CASE pc' = [pc EXCEPT ![a] = "updatesub"] /\ UNCHANGED queue
    BY <1>c, <2>1 DEF WorkersRest, TypeOK
  <2> QED BY <1>4, <1>c, <1>p, <1>s, <2>1, RestMoves DEF CheckSubscriptionExists
<1>5. CASE getOperatorGroup(a)
  BY <1>5, <1>c, <1>p, RestMoves DEF getOperatorGroup
<1>6. CASE createOperatorGroup(a)
  BY <1>6, <1>c, <1>p, RestMoves DEF createOperatorGroup
<1>7. CASE createSubscription(a)
  BY <1>7, <1>c, RestMoves DEF createSubscription
<1>8. CASE updateSubscription(a)
  BY <1>8, <1>c, <1>s, RestMoves DEF updateSubscription
<1>9. CASE getInstallPlan(a)
  BY <1>9, <1>c, <1>p, RestMoves DEF getInstallPlan
<1>10. CASE ApproveInstallPlan(a)
  BY <1>10, <1>c, RestMoves DEF ApproveInstallPlan
<1> QED BY <1>1, <1>2, <1>3, <1>4, <1>5, <1>6, <1>7, <1>8, <1>9, <1>10 DEF ActorStep

(* WorkersRest is inductive: a worker leaves the queue only for work.      *)
LEMMA RestNext == TypeOK /\ WorkersRest /\ [Next]_vars => WorkersRest'
<1> SUFFICES ASSUME TypeOK, WorkersRest, [Next]_vars PROVE WorkersRest'
  OBVIOUS
<1> USE DEF cluster, control
<1>a. ASSUME pc' = pc, queue \subseteq queue', crd => crd' PROVE WorkersRest'
  BY <1>a DEF WorkersRest
<1>1. ASSUME NEW w \in Workers, ReconcileStart(w) PROVE WorkersRest'
  BY <1>1 DEF ReconcileStart, WorkersRest, TypeOK, Actors
<1>2. ASSUME NEW w \in Workers, CheckCRDExists(w) PROVE WorkersRest'
  <2>1. w \in Actors /\ crd' = crd
    BY <1>2 DEF CheckCRDExists, Actors
  <2>2. CASE crd /\ Goto(w, "done")
    BY <2>1, <2>2 DEF Goto, WorkersRest, TypeOK
  <2> QED BY <1>2, <2>1, <2>2, RestMoves DEF CheckCRDExists
<1>3. CASE reconcileSubscription
  BY <1>3, ActorsAssumption DEF reconcileSubscription, Goto, WorkersRest, TypeOK, Actors
<1>4. CASE Restart
  BY <1>4 DEF Restart, WorkersRest
<1>5. CASE Environment /\ ~Restart
  <2>1. ASSUME NEW w \in Workers, Resync(w) PROVE WorkersRest'
    <3>1. pc' = pc /\ crd' = crd /\ queue \subseteq queue'
      BY <2>1 DEF Resync
    <3> QED BY <1>a, <3>1
  <2>2. CASE OLMInstall
    <3>1. pc' = pc /\ queue' = queue /\ crd'
      BY <2>2 DEF OLMInstall
    <3> QED BY <1>a, <3>1
  <2>3. CASE UNCHANGED <<pc, queue, crd>>
    BY <1>a, <2>3
  <2> QED BY <1>5, <2>1, <2>2, <2>3 DEF Environment, OLM, NamespaceController, CacheSync,
       OLMCreatePlan, OLMUpdateStatus, UserEditSubscription, UserDeleteSubscription,
       UserApprovePlan, DeleteNamespace, NamespaceEmptied, NamespaceGone
<1>6. CASE UNCHANGED vars
  BY <1>6, <1>a DEF vars
<1> QED BY <1>1, <1>2, <1>3, <1>4, <1>5, <1>6, RestActorStep DEF Next, Worker, Watcher, Actors

(* CRDs come with an installation, and only users take it back.            *)
InstalledInv ==
  /\ crd => installed \/ CrdAtStart \/ edits > 0
  /\ ns = "terminating" => edits > 0

LEMMA InstalledNext == TypeOK /\ InstalledInv /\ [Next]_vars => InstalledInv'
<1> SUFFICES ASSUME TypeOK, InstalledInv, [Next]_vars PROVE InstalledInv'
  OBVIOUS
<1> USE DEF cluster, control
<1>0. edits \in Nat
  BY DEF TypeOK
<1>1. CASE edits' = edits + 1
  BY <1>0, <1>1 DEF InstalledInv
<1>a. ASSUME UNCHANGED <<crd, installed, edits>>, ns' = "terminating" => ns = "terminating"
      PROVE  InstalledInv'
  BY <1>a DEF InstalledInv
<1>2. ASSUME NEW a \in Actors, ActorStep(a) PROVE InstalledInv'
  <2>1. UNCHANGED <<crd, installed, edits>>
    BY <1>2 DEF ActorStep, CheckNamespaceExist, updateNamespaceLabel,
       CreateNamespace, CheckSubscriptionExists, getOperatorGroup, createOperatorGroup,
       createSubscription, updateSubscription, getInstallPlan, ApproveInstallPlan
  <2>2. ns' \in {ns, "labelled"}
    BY <1>2 DEF ActorStep, CheckNamespaceExist, updateNamespaceLabel,
       CreateNamespace, CheckSubscriptionExists, getOperatorGroup, createOperatorGroup,
       createSubscription, updateSubscription, getInstallPlan, ApproveInstallPlan
  <2> QED BY <1>a, <2>1, <2>2
<1>3. CASE OLMInstall
  BY <1>3 DEF OLMInstall, InstalledInv
<1>4. CASE NamespaceController
  <2>1. edits > 0 /\ edits' = edits
    BY <1>4 DEF NamespaceController, NamespaceEmptied, NamespaceGone, InstalledInv
  <2> QED BY <2>1 DEF InstalledInv
<1>5. CASE Environment
  BY <1>1, <1>3, <1>4, <1>5, <1>a DEF Environment, OLM, CacheSync, Resync, Restart,
     OLMCreatePlan, OLMUpdateStatus, UserEditSubscription, UserDeleteSubscription,
     UserApprovePlan, DeleteNamespace, Edit
<1>6. ASSUME NEW w \in Workers, ReconcileStart(w) \/ CheckCRDExists(w) PROVE InstalledInv'
  BY <1>6, <1>a DEF ReconcileStart, CheckCRDExists
<1>7. CASE reconcileSubscription \/ UNCHANGED vars
  BY <1>7, <1>a DEF reconcileSubscription, vars
<1> QED BY <1>2, <1>5, <1>6, <1>7 DEF Next, Worker, Watcher, Actors

(* RestInv is inductive.                                                   *)
LEMMA RestInitially == Init => RestInv
<1> SUFFICES ASSUME Init PROVE RestInv
  OBVIOUS
<1>1. \A w \in Workers : pc[w] = "idle" /\ w \in queue
  BY DEF Init, Actors
<1>2. (crd => CrdAtStart) /\ ns # "terminating"
  BY DEF Init
<1> QED BY <1>1, <1>2 DEF RestInv

LEMMA RestStep == TypeOK /\ RestInv /\ [Next]_vars => RestInv'
<1>1. RestInv <=> WorkersRest /\ InstalledInv
  BY DEF RestInv, WorkersRest, InstalledInv
<1>2. RestInv' <=> WorkersRest' /\ InstalledInv'
  BY DEF RestInv, WorkersRest, InstalledInv
<1> QED BY <1>1, <1>2, RestNext, InstalledNext

(***************************************************************************)
(* A worker that is neither at work nor queued has found the CRDs, and     *)
(* behind them is an installation, CRDs from before, or a user's edit.     *)
(***************************************************************************)
THEOREM RestCorrect == Spec => []RestsWhenInstalled
<1>1. RestInv => RestsWhenInstalled
  BY DEF RestInv, RestsWhenInstalled
<1> QED BY <1>1, TypeCorrect, RestInitially, RestStep, PTL DEF Spec

-----------------------------------------------------------------------------
(* A worker's step does not move the watch.                                *)
LEMMA OthersLeaveWatch ==
  ASSUME TypeOK, NEW w \in Workers, ActorStep(w) \/ ReconcileStart(w) \/ CheckCRDExists(w)
  PROVE  pc'[Watch] = pc[Watch] /\ snap'[Watch] = snap[Watch]
<1> USE DEF cluster
<1>1. w # Watch /\ Watch \in Actors /\ w \in Actors
  BY ActorsAssumption DEF Actors
<1>2. pc \in [Actors -> Steps] /\ snap \in [Actors -> Subs]
  BY DEF TypeOK
<1>a. ASSUME NEW step, pc' = [pc EXCEPT ![w] = step],
             snap' = snap \/ \E s : snap' = [snap EXCEPT ![w] = s]
      PROVE  pc'[Watch] = pc[Watch] /\ snap'[Watch] = snap[Watch]
  BY <1>1, <1>2, <1>a
<1>b. ASSUME (\E step : Goto(w, step)) \/ ReturnErr(w) \/ ReturnNil(w)
             \/ \E s : GotoApproval(w, s)
      PROVE  pc'[Watch] = pc[Watch] /\ snap'[Watch] = snap[Watch]
  BY <1>a, <1>b DEF Goto, ReturnErr, ReturnNil, GotoApproval, Forget
<1>3. CASE ActorStep(w)
  BY <1>3, <1>a, <1>b DEF ActorStep, CheckNamespaceExist, updateNamespaceLabel,
     CreateNamespace, CheckSubscriptionExists, getOperatorGroup, createOperatorGroup,
     createSubscription, updateSubscription, getInstallPlan, ApproveInstallPlan,
     AfterNamespace, handleServerlessLogicOperatorInstallation,
     HandleKNativeOperatorInstallation, HandleRHDHOperatorInstallation
<1>4. CASE ReconcileStart(w)
  BY <1>4, <1>a DEF ReconcileStart
<1>5. CASE CheckCRDExists(w)
  BY <1>5, <1>b DEF CheckCRDExists
<1> QED BY <1>3, <1>4, <1>5

(* Whoever leaves a drifted Subscription behind has not touched it, or has *)
(* announced it to the watch.                                              *)
LEMMA WritesAnnounced ==
  ASSUME TypeOK
  PROVE  /\ \A s \in Subs : WriteSub(s) => (Drifted' => event')
         /\ \A s \in Subs : WriteSub(s) /\ s.spec = "desired" => ~Drifted'
         /\ DropSub => ~Drifted'
<1>1. ASSUME NEW s \in Subs, WriteSub(s)
      PROVE  (Drifted' => event') /\ (s.spec = "desired" => ~Drifted')
  BY <1>1 DEF WriteSub, Drifted, Subs, TypeOK
<1>2. DropSub => ~Drifted'
  BY DEF DropSub, NoSub, Drifted
<1> QED BY <1>1, <1>2

LEMMA ActorsAnnounce ==
  ASSUME TypeOK, NEW a \in Actors, ActorStep(a), Drifted'
  PROVE  UNCHANGED <<sub, event>>
<1> USE DEF cluster
<1>1. CASE UNCHANGED <<sub, event>>
  BY <1>1
<1>2. CASE createSubscription(a)
  <2>1. [NoSub EXCEPT !.exists = TRUE, !.labelled = TRUE] \in Subs
    BY RecordTypes DEF Subs
  <2>2. [NoSub EXCEPT !.exists = TRUE, !.labelled = TRUE].spec = "desired"
    BY DEF NoSub
  <2> QED BY <1>2, <2>1, <2>2, WritesAnnounced DEF createSubscription
<1>3. CASE updateSubscription(a)
  <2>1. [sub EXCEPT !.spec = "desired"] \in Subs
    BY DEF TypeOK, Subs
  <2>2. [sub EXCEPT !.spec = "desired"].spec = "desired"
    BY DEF TypeOK, Subs
  <2> QED BY <1>3, <2>1, <2>2, WritesAnnounced DEF updateSubscription
<1> QED BY <1>1, <1>2, <1>3 DEF ActorStep, CheckNamespaceExist, updateNamespaceLabel,
     CreateNamespace, CheckSubscriptionExists, getOperatorGroup, createOperatorGroup,
     getInstallPlan, ApproveInstallPlan

LEMMA EnvironmentAnnounces ==
  ASSUME TypeOK, Environment, Drifted'
  PROVE  event' \/ UNCHANGED <<sub, event, pc, snap>>
<1> USE DEF cluster, control
<1>1. CASE Restart
  BY <1>1 DEF Restart, Drifted
<1>2. CASE OLMUpdateStatus
  <2>1. PICK p \in PlanIds : WriteSub([sub EXCEPT !.plan = p, !.csv = plans[p].csv])
    BY <1>2 DEF OLMUpdateStatus
  <2>2. [sub EXCEPT !.plan = p, !.csv = plans[p].csv] \in Subs
    BY DEF TypeOK, Subs, Plans
  <2> QED BY <2>1, <2>2, WritesAnnounced
<1>3. CASE UserEditSubscription
  <2>1. [sub EXCEPT !.spec = "drifted"] \in Subs
    BY DEF TypeOK, Subs
  <2> QED BY <1>3, <2>1, WritesAnnounced DEF UserEditSubscription
<1>4. CASE UserDeleteSubscription \/ NamespaceEmptied
  BY <1>4, WritesAnnounced DEF UserDeleteSubscription, NamespaceEmptied
<1> QED BY <1>1, <1>2, <1>3, <1>4 DEF Environment, OLM, NamespaceController, CacheSync,
     Resync, OLMCreatePlan, OLMInstall, UserApprovePlan, DeleteNamespace, NamespaceGone

(* A step of the watch that leaves the Subscription drifted: it takes a    *)
(* look, at the cost of its next Update, or gives up, or has its event.    *)
LEMMA WatchStep ==
  ASSUME TypeOK, DriftInv, ActorStep(Watch), Drifted'
  PROVE  /\ pc'[Watch] \in PastLook => event'
         /\ pc'[Watch] = "updatesub" => snap'[Watch].rv = sub'.rv
         /\ pc'[Watch] = "idle" => event' \/ GivesUp
<1> USE DEF cluster
<1>0. UNCHANGED <<sub, event>> /\ Drifted
  <2>1. Watch \in Actors
    BY DEF Actors
  <2> QED BY <2>1, ActorsAnnounce DEF Drifted
<1>t. Watch \in Actors /\ pc \in [Actors -> Steps] /\ snap \in [Actors -> Subs]
      /\ faults \in Nat
  BY DEF TypeOK, Actors
<1>f. Fault => faults' > faults
  BY <1>t DEF Fault
<1>a. ASSUME event PROVE
         /\ pc'[Watch] \in PastLook => event'
         /\ pc'[Watch] = "idle" => event' \/ GivesUp
  BY <1>0, <1>a
<1>1. CASE CheckNamespaceExist(Watch)
  <2>1. CASE NoFault
    BY <1>1, <1>t, <2>1, <1>f DEF CheckNamespaceExist, Goto, PastLook, GivesUp, NoFault
  <2> QED
    BY <1>1, <1>f, <1>t, <2>1, PcAfterNamespace DEF CheckNamespaceExist, GivesUp, PastLook
<1>2. CASE updateNamespaceLabel(Watch)
  BY <1>2, <1>t DEF updateNamespaceLabel, Goto, PastLook
<1>3. CASE CreateNamespace(Watch)
  BY <1>3, <1>t, PcAfterNamespace DEF CreateNamespace, GivesUp, PastLook
<1>4. CASE CheckSubscriptionExists(Watch)
  BY <1>0, <1>4, <1>f, <1>t, PcMoves DEF CheckSubscriptionExists, Drifted, GivesUp, PastLook
<1>5. CASE pc[Watch] \in PastLook
  <2>1. event
    BY <1>0, <1>5 DEF DriftInv
  <2>2. pc'[Watch] # "updatesub"
    BY <1>5, <1>t, PcMoves DEF PastLook, ActorStep, CheckNamespaceExist,
       updateNamespaceLabel, CreateNamespace, CheckSubscriptionExists, getOperatorGroup,
       createOperatorGroup, createSubscription, updateSubscription, getInstallPlan,
       ApproveInstallPlan
  <2> QED BY <1>a, <2>1, <2>2
<1>6. CASE updateSubscription(Watch)
  <2>1. ReturnErr(Watch) /\ (Fault \/ sub.rv # snap[Watch].rv)
    <3>1. [sub EXCEPT !.spec = "desired"] \in Subs
          /\ [sub EXCEPT !.spec = "desired"].spec = "desired"
      BY DEF TypeOK, Subs
    <3> QED BY <1>0, <1>6, <3>1, WritesAnnounced DEF updateSubscription, Drifted
  <2>2. event \/ Fault
    BY <1>0, <1>6, <2>1 DEF DriftInv, updateSubscription
  <2> QED BY <1>0, <1>f, <1>t, <2>1, <2>2, PcMoves DEF GivesUp, PastLook
<1> QED BY <1>1, <1>2, <1>3, <1>4, <1>5, <1>6 DEF ActorStep, PastLook, getOperatorGroup,
     createOperatorGroup, createSubscription, getInstallPlan, ApproveInstallPlan

(* DriftInv is inductive.                                                  *)
LEMMA DriftNext == TypeOK /\ DriftInv /\ [Next]_vars => DriftInv'
<1> SUFFICES ASSUME TypeOK, DriftInv, [Next]_vars, Drifted' PROVE DriftInv'
  BY DEF DriftInv
<1> USE DEF cluster, control
<1>a. ASSUME UNCHANGED <<sub, event>>, pc'[Watch] = pc[Watch], snap'[Watch] = snap[Watch]
      PROVE  DriftInv'
  BY <1>a DEF DriftInv, Drifted
<1>b. ASSUME event' PROVE DriftInv'
  BY <1>b DEF DriftInv
<1>1. ASSUME NEW w \in Workers, Worker(w) PROVE DriftInv'
  <2>1. UNCHANGED <<sub, event>>
    BY <1>1, ActorsAnnounce DEF Worker, ReconcileStart, CheckCRDExists, Actors
  <2> QED BY <1>1, <1>a, <2>1, OthersLeaveWatch DEF Worker
<1>2. CASE reconcileSubscription
  <2>1. Watch \in Actors
    BY DEF Actors
  <2> QED BY <1>2, <2>1 DEF reconcileSubscription, Goto, DriftInv, PastLook, TypeOK
<1>3. CASE ActorStep(Watch)
  BY <1>3, WatchStep DEF DriftInv
<1>4. CASE Environment
  BY <1>4, <1>a, <1>b, EnvironmentAnnounces
<1>5. CASE UNCHANGED vars
  BY <1>5, <1>a DEF vars
<1> QED BY <1>1, <1>2, <1>3, <1>4, <1>5 DEF Next, Watcher

(* A drift is left unattended only by a watch that gives up.               *)
LEMMA DriftStep ==
  ASSUME TypeOK, DriftInv, [Next]_vars, ~Unattended, Unattended'
  PROVE  GivesUp
<1> USE DEF cluster, control
<1>0. Flow # "rhdh" /\ Drifted' /\ ~event' /\ pc'[Watch] = "idle"
  BY DEF Unattended
<1>a. UNCHANGED <<sub, event>> /\ pc'[Watch] = pc[Watch] => FALSE
  BY <1>0 DEF Unattended, Drifted
<1>1. ASSUME NEW w \in Workers, Worker(w) PROVE FALSE
  <2>1. UNCHANGED <<sub, event>>
    BY <1>0, <1>1, ActorsAnnounce DEF Worker, ReconcileStart, CheckCRDExists, Actors
  <2> QED BY <1>1, <1>a, <2>1, OthersLeaveWatch DEF Worker
<1>2. CASE reconcileSubscription
  <2>1. Watch \in Actors
    BY DEF Actors
  <2> QED BY <1>0, <1>2, <2>1 DEF reconcileSubscription, Goto, TypeOK
<1>3. CASE ActorStep(Watch)
  BY <1>0, <1>3, WatchStep
<1>4. CASE Environment
  BY <1>0, <1>4, <1>a, EnvironmentAnnounces
<1>5. CASE UNCHANGED vars
  BY <1>5, <1>a DEF vars
<1> QED BY <1>1, <1>2, <1>3, <1>4, <1>5 DEF Next, Watcher

LEMMA DriftInitially == Init => DriftInv
<1> SUFFICES ASSUME Init PROVE DriftInv
  OBVIOUS
<1>1. pc[Watch] = "idle"
  BY DEF Init, Actors
<1> QED BY <1>1 DEF DriftInv, PastLook

(***************************************************************************)
(* A drifted Subscription has an event or the watch at work on it, until   *)
(* the watch meets a fault or has created the namespace.                   *)
(***************************************************************************)
THEOREM DriftCorrect == Spec => DriftAttended
<1>1. TypeOK /\ DriftInv /\ [Next]_vars => [~Unattended /\ Unattended' => GivesUp]_vars
  BY DriftStep
<1> QED BY <1>1, TypeCorrect, DriftInitially, DriftNext, PTL DEF Spec, DriftAttended
=============================================================================
