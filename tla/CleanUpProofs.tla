--------------------------- MODULE CleanUpProofs ---------------------------
(***************************************************************************)
(* Proofs about CleanUp for any choice of installed operators, any objects *)
(* that exist before, and any number of failed calls and restarts.         *)
(***************************************************************************)
EXTENDS CleanUp, TLAPS

-----------------------------------------------------------------------------
(* The values the model is built from are well typed.                      *)
LEMMA RecordTypes ==
  /\ \A others \in BOOLEAN : Created(others) \in Resources
  /\ Gone \in Resources
  /\ \A r \in Resources : Released(r) \in Resources
<1>1. \A others \in BOOLEAN : Created(others) \in Resources
  BY DEF Created, Resources
<1>2. Gone \in Resources
  BY DEF Gone, Resources
<1> QED BY <1>1, <1>2 DEF Released

LEMMA TypeInit == Init => TypeOK
<1> SUFFICES ASSUME Init PROVE TypeOK
  OBVIOUS
<1>1. obj \in [Objects -> ObjStates]
  BY DEF Init, ObjStates
<1>2. cr \in Resources /\ copy \in Resources
  BY RecordTypes, InputAssumption DEF Init
<1>3. cache \in [obj: [Objects -> ObjStates], cr: Resources]
  BY <1>1, <1>2 DEF Init
<1>4. crds \in SUBSET CrdKinds /\ faults \in 0..MaxFaults
  BY InputAssumption DEF Init
<1>5. queue \in BOOLEAN /\ pc \in Steps /\ failed \in BOOLEAN /\ known \in SUBSET Objects
  BY DEF Init, Steps
<1> QED BY <1>1, <1>2, <1>3, <1>4, <1>5 DEF TypeOK

(* What the worker does at the end of a call keeps its state well typed.   *)
WorkerOK == /\ queue \in BOOLEAN /\ pc \in Steps /\ copy \in Resources
            /\ failed \in BOOLEAN /\ known \in SUBSET Objects

LEMMA MoveTypes ==
  ASSUME WorkerOK
  PROVE  /\ Return /\ queue' \in BOOLEAN => WorkerOK'
         /\ Fail => WorkerOK'
         /\ \A step \in Steps : Goto(step) /\ failed' \in BOOLEAN => WorkerOK'
<1>1. Return /\ queue' \in BOOLEAN => WorkerOK'
  BY RecordTypes DEF WorkerOK, Return, Steps
<1>2. Fail => WorkerOK'
  BY RecordTypes DEF WorkerOK, Fail, Return, Steps
<1>3. \A step \in Steps : Goto(step) /\ failed' \in BOOLEAN => WorkerOK'
  BY DEF WorkerOK, Goto
<1> QED BY <1>1, <1>2, <1>3

LEMMA CountTypes ==
  ASSUME TypeOK
  PROVE  (Fault => faults' \in 0..MaxFaults) /\ (NoFault => faults' \in 0..MaxFaults)
  BY InputAssumption DEF TypeOK, Fault, NoFault

LEMMA DeletedType ==
  ASSUME TypeOK, NEW n \in Namespaces
  PROVE  Deleted(n) \in [Objects -> ObjStates]
  BY DEF TypeOK, Deleted, Objects, ObjStates

LEMMA TypeCleanUpNamespace ==
  ASSUME TypeOK, NEW n \in Namespaces, NEW next \in Steps, CleanUpNamespace(n, next)
  PROVE  TypeOK'
<1>1. obj' \in [Objects -> ObjStates]
  BY DeletedType DEF CleanUpNamespace, TypeOK
<1>2. WorkerOK'
  BY MoveTypes DEF CleanUpNamespace, TypeOK, WorkerOK
<1>3. faults' \in 0..MaxFaults
  BY CountTypes DEF CleanUpNamespace
<1> QED BY <1>1, <1>2, <1>3 DEF CleanUpNamespace, TypeOK, WorkerOK

LEMMA TypeRemoveCustomResources ==
  ASSUME TypeOK, NEW o \in Operands, NEW error \in BOOLEAN,
         RemoveCustomResourcesInNamespace(o, error)
  PROVE  obj' \in [Objects -> ObjStates] /\ faults' \in 0..MaxFaults
<1>1. obj' = obj \/ obj' = OperandDeleted(o)
  BY DEF RemoveCustomResourcesInNamespace
<1>2. obj' \in [Objects -> ObjStates]
  BY <1>1 DEF OperandDeleted, TypeOK, Objects, ObjStates
<1>3. faults' \in 0..MaxFaults
  BY CountTypes DEF RemoveCustomResourcesInNamespace
<1> QED BY <1>2, <1>3

LEMMA TypeWorker == TypeOK /\ Worker => TypeOK'
<1> SUFFICES ASSUME TypeOK, Worker PROVE TypeOK'
  OBVIOUS
<1>0. WorkerOK
  BY DEF TypeOK, WorkerOK
<1>a. CleanUpSteps \subseteq Steps /\ {"idle", "get", "addfinalizer", "provision"} \subseteq Steps
  BY DEF Steps
<1>b. Namespaces \subseteq Objects /\ Operands \subseteq Objects
  BY DEF Objects
<1>1. CASE ReconcileStart
  BY <1>1 DEF ReconcileStart, TypeOK, Steps
<1>2. CASE Reconcile
  <2>1. CASE NoFault /\ ~cache.cr.exists /\ Return /\ UNCHANGED queue
    BY <1>0, <1>2, <2>1, MoveTypes, CountTypes DEF Reconcile, TypeOK, WorkerOK
  <2>2. CASE Fault /\ Fail
    BY <1>0, <1>2, <2>2, MoveTypes, CountTypes DEF Reconcile, TypeOK, WorkerOK
  <2>3. CASE NoFault /\ copy' = cache.cr
    <3>0. {o \in Removed : cache.obj[o] = "labelled"} \subseteq Objects
      BY DEF Removed, MustGo, Objects, Namespaces, Operands
    <3>1. pc' \in Steps /\ known' \in SUBSET Objects
      BY <1>2, <2>3, <1>a, <1>0, <3>0 DEF Reconcile, WorkerOK, CleanUpSteps, Return, Fail, Steps
    <3>2. queue' \in BOOLEAN /\ failed' \in BOOLEAN
      BY <1>2, <2>3, <1>0 DEF Reconcile, WorkerOK, Return, Fail
    <3> QED BY <1>2, <2>3, <3>1, <3>2, CountTypes DEF Reconcile, TypeOK
  <2> QED BY <1>2, <2>1, <2>2, <2>3 DEF Reconcile
<1>3. CASE HandleKnativeCleanUp
  BY <1>3, <1>a, TypeCleanUpNamespace DEF HandleKnativeCleanUp, Namespaces, CleanUpSteps
<1>4. CASE handleServerlessLogicCleanUp
  <2>1. CASE removeSonataFlowPlatform
    <3> PICK error \in BOOLEAN :
          RemoveCustomResourcesInNamespace("sfp", error) /\ failed' = error
      BY <2>1 DEF removeSonataFlowPlatform
    <3>1. WorkerOK'
      BY <1>0, <1>a, <2>1, MoveTypes DEF removeSonataFlowPlatform, CleanUpSteps
    <3>2. obj' \in [Objects -> ObjStates] /\ faults' \in 0..MaxFaults
      BY TypeRemoveCustomResources DEF Operands
    <3> QED BY <2>1, <3>1, <3>2 DEF removeSonataFlowPlatform, TypeOK, WorkerOK
  <2>2. CASE removeSonataFlowClusterPlatform
    <3> PICK error \in BOOLEAN :
          /\ RemoveCustomResourcesInNamespace("sfcp", error)
          /\ IF failed \/ error THEN Fail ELSE Goto("osl") /\ UNCHANGED failed
      BY <2>2 DEF removeSonataFlowClusterPlatform
    <3>1. WorkerOK'
      BY <1>0, <1>a, <2>2, MoveTypes DEF WorkerOK, CleanUpSteps
    <3>2. obj' \in [Objects -> ObjStates] /\ faults' \in 0..MaxFaults
      BY TypeRemoveCustomResources DEF Operands
    <3> QED BY <2>2, <3>1, <3>2 DEF removeSonataFlowClusterPlatform, TypeOK, WorkerOK
  <2>3. CASE CleanUpNamespace("osl", "rhdhcheck")
    BY <1>a, <2>3, TypeCleanUpNamespace DEF Namespaces, CleanUpSteps
  <2> QED BY <1>4, <2>1, <2>2, <2>3 DEF handleServerlessLogicCleanUp
<1>5. CASE HandleRHDHCleanUp
  <2>1. CASE checkRHDHNamespace
    <3>1. obj' \in [Objects -> ObjStates]
      BY <2>1 DEF checkRHDHNamespace, TypeOK, Objects, Namespaces, ObjStates
    <3>2. WorkerOK'
      BY <1>0, <1>a, <2>1, MoveTypes DEF checkRHDHNamespace, WorkerOK, CleanUpSteps
    <3> QED BY <2>1, <3>1, <3>2, CountTypes DEF checkRHDHNamespace, TypeOK, WorkerOK
  <2>2. CASE listBackstageCRs
    <3>1. WorkerOK'
      BY <1>0, <1>a, <2>2, MoveTypes DEF listBackstageCRs, AfterList, WorkerOK, CleanUpSteps
    <3> QED BY <2>2, <3>1, CountTypes DEF listBackstageCRs, TypeOK, WorkerOK
  <2>3. CASE CleanUpNamespace("rhdh", "rhdhop")
    BY <1>a, <2>3, TypeCleanUpNamespace DEF Namespaces, CleanUpSteps
  <2>4. CASE CleanUpNamespace("rhdhop", "release")
    BY <1>a, <2>4, TypeCleanUpNamespace DEF Namespaces, CleanUpSteps
  <2> QED BY <1>5, <2>1, <2>2, <2>3, <2>4 DEF HandleRHDHCleanUp
<1>6. CASE RemoveFinalizer
  <2> DEFINE done == Released([cr EXCEPT !.mine = FALSE])
  <2>1. done \in Resources
    <3>1. [cr EXCEPT !.mine = FALSE] \in Resources
      BY DEF TypeOK, Resources
    <3> QED BY <3>1, RecordTypes
  <2>2. cr' \in Resources /\ copy' \in Resources
    BY <1>6, <2>1, RecordTypes DEF RemoveFinalizer, Fail, Return, TypeOK
  <2>3. WorkerOK'
    BY <1>0, <1>a, <1>6, <2>2, MoveTypes DEF RemoveFinalizer, WorkerOK
  <2> QED BY <1>6, <2>2, <2>3, CountTypes DEF RemoveFinalizer, TypeOK, WorkerOK
<1>7. CASE addFinalizers
  <2>1. [cr EXCEPT !.mine = TRUE] \in Resources
    BY DEF TypeOK, Resources
  <2>2. cr' \in Resources /\ copy' \in Resources
    BY <1>7, <2>1, RecordTypes DEF addFinalizers, Fail, Return, Goto, TypeOK
  <2>3. WorkerOK'
    BY <1>0, <1>a, <1>7, <2>2, MoveTypes DEF addFinalizers, WorkerOK
  <2> QED BY <1>7, <2>2, <2>3, CountTypes DEF addFinalizers, TypeOK, WorkerOK
<1>8. CASE ProvisionEnd
  BY <1>0, <1>8, MoveTypes DEF ProvisionEnd, TypeOK, WorkerOK
<1> QED BY <1>1, <1>2, <1>3, <1>4, <1>5, <1>6, <1>7, <1>8 DEF Worker

LEMMA TypeOthers == TypeOK /\ (Provision \/ Environment) => TypeOK'
<1> SUFFICES ASSUME TypeOK, Provision \/ Environment PROVE TypeOK'
  OBVIOUS
<1>1. CASE Provision
  <2>1. Wanted \subseteq Objects
    BY DEF Wanted, Objects, Namespaces, Operands
  <2>2. obj' \in [Objects -> ObjStates]
    BY <1>1, <2>1 DEF Provision, TypeOK, ObjStates
  <2> QED BY <1>1, <2>2 DEF Provision, TypeOK
<1>2. CASE DeleteOrchestrator
  <2>1. [cr EXCEPT !.deleting = TRUE] \in Resources
    BY DEF TypeOK, Resources
  <2> QED BY <1>2, <2>1, RecordTypes DEF DeleteOrchestrator, TypeOK
<1>3. CASE OtherFinalizerRemoved
  <2>1. [cr EXCEPT !.others = FALSE] \in Resources
    BY DEF TypeOK, Resources
  <2> QED BY <1>3, <2>1, RecordTypes DEF OtherFinalizerRemoved, TypeOK
<1>4. CASE SyncObjects
  <2> PICK kind \in Kinds :
        cache' = [cache EXCEPT !.obj =
          [o \in Objects |-> IF o \in kind THEN obj[o] ELSE cache.obj[o]]]
    BY <1>4 DEF SyncObjects
  <2>1. cache' \in [obj: [Objects -> ObjStates], cr: Resources]
    BY DEF TypeOK
  <2> QED BY <1>4, <2>1 DEF SyncObjects, TypeOK
<1>5. CASE SyncResource
  BY <1>5 DEF SyncResource, TypeOK
<1>6. CASE Resync
  BY <1>6 DEF Resync, TypeOK
<1>7. CASE Restart
  <2>1. pc' \in Steps /\ copy' \in Resources /\ failed' \in BOOLEAN /\ known' \in SUBSET Objects
    BY <1>7, RecordTypes DEF Restart, Return, Steps
  <2>2. cr.exists \in BOOLEAN
    BY DEF TypeOK, Resources
  <2> QED BY <1>7, <2>1, <2>2, CountTypes DEF Restart, TypeOK
<1>8. CASE \E n \in Namespaces : NamespaceGone(n)
  <2> PICK n \in Namespaces : NamespaceGone(n)
    BY <1>8
  <2>1. obj' \in [Objects -> ObjStates]
    BY DEF NamespaceGone, TypeOK, ObjStates
  <2> QED BY <2>1 DEF NamespaceGone, TypeOK
<1>9. CASE OLMInstall
  BY <1>9 DEF OLMInstall, TypeOK, CrdKinds
<1>10. CASE \E o \in {"sfp", "sfcp"} : OperandGone(o)
  BY <1>10 DEF OperandGone, TypeOK, ObjStates
<1> QED BY <1>1, <1>2, <1>3, <1>4, <1>5, <1>6, <1>7, <1>8, <1>9, <1>10 DEF Environment, Cluster

LEMMA TypeNext == TypeOK /\ [Next]_vars => TypeOK'
<1>1. TypeOK /\ UNCHANGED vars => TypeOK'
  BY DEF TypeOK, vars
<1> QED BY <1>1, TypeWorker, TypeOthers DEF Next

(* The model is type correct.                                              *)
THEOREM TypeCorrect == Spec => []TypeOK
  BY TypeInit, TypeNext, PTL DEF Spec

-----------------------------------------------------------------------------
(* The finalizer.  Other finalizers and the deletion do not take it away.  *)
LEMMA ReleasedKeeps ==
  ASSUME NEW r \in Resources
  PROVE  /\ r.mine => Released(r) = r
         /\ r.deleting => Released(r).deleting
         /\ Released([r EXCEPT !.mine = FALSE]).mine = FALSE
  BY DEF Released, Gone, Resources

LEMMA FinalizerWorker ==
  ASSUME TypeOK, FinalizerInv, Worker
  PROVE  FinalizerInv'
<1> USE DEF FinalizerInv, FinalizerBeforeProvision
<1>0. "idle" \notin CleanUpSteps /\ "get" \notin CleanUpSteps /\ "addfinalizer" \notin CleanUpSteps
      /\ "provision" \notin CleanUpSteps
  BY DEF CleanUpSteps
<1>1. CASE ReconcileStart
  BY <1>0, <1>1 DEF ReconcileStart
<1>2. CASE Reconcile
  BY <1>0, <1>2 DEF Reconcile, Return, Fail
<1>3. CASE HandleKnativeCleanUp \/ handleServerlessLogicCleanUp \/ HandleRHDHCleanUp
  <2>1. /\ UNCHANGED <<cr, cache>>
        /\ pc \in CleanUpSteps
        /\ \/ pc' \in CleanUpSteps /\ copy' = copy
           \/ pc' = "idle"
    <3>1. \A n, next \in CleanUpSteps : CleanUpNamespace(n, next) =>
            /\ UNCHANGED <<cr, cache>> /\ pc \in CleanUpSteps
            /\ (pc' \in CleanUpSteps /\ copy' = copy) \/ pc' = "idle"
      BY DEF CleanUpNamespace, Goto, Fail, Return
    <3>2. {"eventing", "serving", "knative", "sfp", "sfcp", "osl", "rhdhcheck",
           "rhdhlist", "rhdh", "rhdhop", "release"} \subseteq CleanUpSteps
      BY DEF CleanUpSteps
    <3>3. CASE HandleKnativeCleanUp
      BY <3>1, <3>2, <3>3 DEF HandleKnativeCleanUp
    <3>4. CASE handleServerlessLogicCleanUp
      BY <3>1, <3>2, <3>4 DEF handleServerlessLogicCleanUp, removeSonataFlowPlatform,
         removeSonataFlowClusterPlatform, Goto, Fail, Return
    <3>5. CASE HandleRHDHCleanUp
      BY <3>1, <3>2, <3>5 DEF HandleRHDHCleanUp, checkRHDHNamespace, listBackstageCRs,
         AfterList, Goto, Fail, Return
    <3> QED BY <1>3, <3>3, <3>4, <3>5
  <2> QED BY <1>0, <2>1 DEF CleanUpSteps
<1>4. CASE RemoveFinalizer
  <2> DEFINE done == Released([cr EXCEPT !.mine = FALSE])
  <2>1. copy.deleting /\ cache.cr.deleting /\ cr.deleting
    BY <1>4 DEF RemoveFinalizer, CleanUpSteps
  <2>2. [cr EXCEPT !.mine = FALSE] \in Resources /\ [cr EXCEPT !.mine = FALSE].deleting
    BY <2>1 DEF TypeOK, Resources
  <2>3. done.deleting /\ done.mine = FALSE
    BY <2>2, ReleasedKeeps DEF TypeOK
  <2>4. cr' \in {cr, done} /\ cache' = cache
    BY <1>4 DEF RemoveFinalizer
  <2>5. pc' = "idle" \/ (pc' = "addfinalizer" /\ copy' = done)
    BY <1>4 DEF RemoveFinalizer, Fail, Return
  <2> QED BY <1>0, <2>1, <2>3, <2>4, <2>5
<1>5. CASE addFinalizers
  <2>1. CASE copy.mine
    BY <1>0, <1>5, <2>1 DEF addFinalizers, Goto
  <2>2. CASE ~copy.mine
    <3>1. CASE cr' = cr /\ pc' = "idle"
      BY <1>0, <1>5, <3>1 DEF addFinalizers
    <3>2. CASE cr.exists /\ ~cr.deleting /\ cr' = [cr EXCEPT !.mine = TRUE]
               /\ pc' \in {"idle", "provision"}
      <4>1. cr'.exists /\ cr'.mine /\ ~cr'.deleting
        BY <3>2 DEF TypeOK, Resources
      <4> QED BY <1>0, <1>5, <3>2, <4>1 DEF addFinalizers
    <3> QED BY <1>5, <2>2, <3>1, <3>2 DEF addFinalizers, Fail, Return
  <2> QED BY <2>1, <2>2
<1>6. CASE ProvisionEnd
  BY <1>0, <1>6 DEF ProvisionEnd, Return
<1> QED BY <1>1, <1>2, <1>3, <1>4, <1>5, <1>6 DEF Worker

LEMMA FinalizerOthers ==
  ASSUME TypeOK, FinalizerInv, Provision \/ Environment
  PROVE  FinalizerInv'
<1> USE DEF FinalizerInv, FinalizerBeforeProvision
<1>1. CASE UNCHANGED <<cr, cache, pc, copy>>
  BY <1>1
<1>2. CASE DeleteOrchestrator
  <2>1. [cr EXCEPT !.deleting = TRUE] \in Resources
    BY DEF TypeOK, Resources
  <2>2. cr'.deleting /\ (cr.exists /\ cr.mine => cr'.exists /\ cr'.mine)
    BY <1>2, <2>1, ReleasedKeeps DEF DeleteOrchestrator, TypeOK, Resources
  <2> QED BY <1>2, <2>2 DEF DeleteOrchestrator
<1>3. CASE OtherFinalizerRemoved
  <2>1. [cr EXCEPT !.others = FALSE] \in Resources
    BY DEF TypeOK, Resources
  <2>2. (cr.deleting => cr'.deleting) /\ (cr.exists /\ cr.mine => cr'.exists /\ cr'.mine)
    BY <1>3, <2>1, ReleasedKeeps DEF OtherFinalizerRemoved, TypeOK, Resources
  <2> QED BY <1>3, <2>2 DEF OtherFinalizerRemoved
<1>4. CASE SyncObjects
  <2>1. cache'.cr = cache.cr
    BY <1>4 DEF SyncObjects, TypeOK
  <2> QED BY <1>4, <2>1 DEF SyncObjects
<1>5. CASE SyncResource
  <2>1. cache'.cr = cr
    BY <1>5 DEF SyncResource, TypeOK
  <2> QED BY <1>5, <2>1 DEF SyncResource
<1>6. CASE Restart
  BY <1>6 DEF Restart, Return, CleanUpSteps
<1> QED BY <1>1, <1>2, <1>3, <1>4, <1>5, <1>6
       DEF Environment, Cluster, Provision, Resync, NamespaceGone, OperandGone, OLMInstall

LEMMA FinalizerInvariant == Spec => []FinalizerInv
<1>1. Init => FinalizerInv
  BY DEF Init, FinalizerInv, FinalizerBeforeProvision, Created, Gone, CleanUpSteps
<1>2. TypeOK /\ FinalizerInv /\ [Next]_vars => FinalizerInv'
  <2>1. FinalizerInv /\ UNCHANGED vars => FinalizerInv'
    BY DEF FinalizerInv, FinalizerBeforeProvision, vars
  <2> QED BY <2>1, FinalizerWorker, FinalizerOthers DEF Next
<1> QED BY <1>1, <1>2, TypeCorrect, PTL DEF Spec

(* Nothing is created for a resource without the finalizer.                *)
THEOREM FinalizerCorrect == Spec => []FinalizerBeforeProvision
<1>1. FinalizerInv => FinalizerBeforeProvision
  BY DEF FinalizerInv
<1> QED BY <1>1, FinalizerInvariant, PTL

-----------------------------------------------------------------------------
(* The clean up.  Outside of it there is nothing to preserve.              *)
LEMMA Outside == pc' \notin CleanUpSteps => CleanUpInv'
  BY DEF CleanUpInv, Cleaned, CleanUpSteps

(* What a step leaves alone stays clean: nothing is labelled meanwhile,    *)
(* and the worker stays where it is.                                       *)
LEMMA QuietStep ==
  ASSUME CleanUpInv, UNCHANGED <<pc, known, failed>>,
         \A o \in MustGo : obj'[o] = "labelled" =>
           /\ obj[o] = "labelled"
           /\ cache.obj[o] = "labelled" => cache'.obj[o] = "labelled"
  PROVE  CleanUpInv'
  BY DEF CleanUpInv, Cleaned, MustGo

(* A labelled namespace that was known when the clean up began is deleted  *)
(* when its turn comes.                                                    *)
LEMMA DeletedIsGone ==
  ASSUME TypeOK, CleanUpInv, NEW n \in Namespaces, pc = n, pc \in CleanUpSteps
  PROVE  /\ n \in known /\ n \in MustGo => Deleted(n)[n] # "labelled"
         /\ \A o \in Objects : Deleted(n)[o] = "labelled" => obj[o] = "labelled"
<1>1. n \in Objects
  BY DEF Objects
<1>2. n \in known /\ n \in MustGo /\ obj[n] = "labelled" => cache.obj[n] = "labelled"
  BY DEF CleanUpInv
<1> QED BY <1>1, <1>2 DEF Deleted, TypeOK

(* A successful step on a namespace.                                       *)
LEMMA NamespaceStep ==
  ASSUME TypeOK, CleanUpInv, NEW n \in Namespaces \intersect CleanUpSteps,
         NEW next \in CleanUpSteps, CleanUpNamespace(n, next)
  PROVE  \/ pc' = "idle"
         \/ /\ pc = n /\ pc' = next
            /\ UNCHANGED <<known, cache, failed>>
            /\ n \in known /\ n \in MustGo => obj'[n] # "labelled"
            /\ \A o \in Objects : obj'[o] = "labelled" => obj[o] = "labelled"
  BY DeletedIsGone DEF CleanUpNamespace, Goto, Fail, Return

(* A step on one of the SonataFlow resources.                              *)
LEMMA RemoveStep ==
  ASSUME TypeOK, CleanUpInv, NEW o \in {"sfp", "sfcp"}, pc = o, NEW error \in BOOLEAN,
         RemoveCustomResourcesInNamespace(o, error)
  PROVE  /\ o \in known => error \/ obj'[o] # "labelled"
         /\ \A p \in Objects : obj'[p] = "labelled" => obj[p] = "labelled"
<1>1. o \in Objects /\ o \in MustGo /\ pc \in CleanUpSteps
  BY DEF Objects, Operands, MustGo, CleanUpSteps
<1>2. o \in known /\ obj[o] = "labelled" => cache.obj[o] = "labelled"
  BY <1>1 DEF CleanUpInv
<1>3. obj' = obj \/ obj' = OperandDeleted(o)
  BY DEF RemoveCustomResourcesInNamespace
<1>4. \A p \in Objects : obj'[p] = "labelled" => obj[p] = "labelled"
  BY <1>3 DEF OperandDeleted, TypeOK
<1>5. o \in known => error \/ obj'[o] # "labelled"
  <2>1. CASE obj[o] # "labelled"
    BY <1>1, <1>4, <2>1
  <2>2. CASE o \in known /\ obj[o] = "labelled" /\ obj' = OperandDeleted(o)
    BY <1>1, <2>2 DEF OperandDeleted, TypeOK
  <2>3. CASE o \in known /\ obj[o] = "labelled" /\ obj' # OperandDeleted(o)
    BY <1>2, <2>3 DEF RemoveCustomResourcesInNamespace
  <2> QED BY <2>1, <2>2, <2>3
<1> QED BY <1>4, <1>5

LEMMA CleanUpWorker ==
  ASSUME TypeOK, CleanUpInv, Worker
  PROVE  CleanUpInv'
<1>a. MustGo \subseteq Objects
  BY DEF MustGo, Objects, Namespaces, Operands
<1>b. {"eventing", "serving", "knative", "osl", "rhdh", "rhdhop"} \subseteq Namespaces \intersect CleanUpSteps
      /\ {"sfp", "sfcp", "rhdhcheck", "rhdhlist", "release"} \subseteq CleanUpSteps
  BY DEF CleanUpSteps, Namespaces
<1>c. {"idle", "get", "addfinalizer", "provision"} \intersect CleanUpSteps = {}
  BY DEF CleanUpSteps
<1>1. CASE ReconcileStart \/ RemoveFinalizer \/ addFinalizers \/ ProvisionEnd
  <2>1. pc' \in {"idle", "get", "addfinalizer", "provision"}
    BY <1>1 DEF ReconcileStart, RemoveFinalizer, addFinalizers, ProvisionEnd, Fail, Goto, Return
  <2> QED BY <1>c, <2>1, Outside
<1>2. CASE Reconcile
  <2>1. CASE pc' = "eventing"
    <3>1. known' = {o \in Removed : cache.obj[o] = "labelled"} /\ UNCHANGED <<obj, cache>>
      BY <1>2, <2>1 DEF Reconcile, Fail, Return
    <3> QED BY <2>1, <3>1 DEF CleanUpInv, Cleaned
  <2>2. CASE pc' \in {"idle", "addfinalizer"}
    BY <1>c, <2>2, Outside
  <2> QED BY <1>2, <2>1, <2>2 DEF Reconcile, Fail, Return
<1>3. CASE pc' = "idle"
  BY <1>3, <1>c, Outside
<1>4. CASE CleanUpNamespace("eventing", "serving") /\ pc' # "idle"
  BY <1>4, <1>a, <1>b, NamespaceStep DEF CleanUpInv, Cleaned, MustGo
<1>5. CASE CleanUpNamespace("serving", "knative") /\ pc' # "idle"
  BY <1>5, <1>a, <1>b, NamespaceStep DEF CleanUpInv, Cleaned, MustGo, CleanUpSteps
<1>6. CASE CleanUpNamespace("knative", "sfp") /\ pc' # "idle"
  BY <1>6, <1>a, <1>b, NamespaceStep DEF CleanUpInv, Cleaned, MustGo, CleanUpSteps
<1>7. CASE removeSonataFlowPlatform
  <2> PICK error \in BOOLEAN :
        RemoveCustomResourcesInNamespace("sfp", error) /\ failed' = error
    BY <1>7 DEF removeSonataFlowPlatform
  <2>1. pc = "sfp" /\ pc' = "sfcp" /\ UNCHANGED <<known, cache>>
    BY <1>7 DEF removeSonataFlowPlatform, Goto
  <2>2. /\ "sfp" \in known => failed' \/ obj'["sfp"] # "labelled"
        /\ \A p \in Objects : obj'[p] = "labelled" => obj[p] = "labelled"
    BY <2>1, RemoveStep
  <2> QED BY <1>a, <1>b, <2>1, <2>2 DEF CleanUpInv, Cleaned, MustGo, CleanUpSteps
<1>8. CASE removeSonataFlowClusterPlatform /\ pc' # "idle"
  <2> PICK error \in BOOLEAN :
        /\ RemoveCustomResourcesInNamespace("sfcp", error)
        /\ IF failed \/ error THEN Fail ELSE Goto("osl") /\ UNCHANGED failed
    BY <1>8 DEF removeSonataFlowClusterPlatform
  <2>1. pc = "sfcp" /\ pc' = "osl" /\ UNCHANGED <<known, cache, failed>> /\ ~failed /\ ~error
    BY <1>8 DEF removeSonataFlowClusterPlatform, Goto, Fail, Return
  <2>2. /\ "sfcp" \in known => obj'["sfcp"] # "labelled"
        /\ \A p \in Objects : obj'[p] = "labelled" => obj[p] = "labelled"
    BY <2>1, RemoveStep
  <2> QED BY <1>a, <1>b, <2>1, <2>2 DEF CleanUpInv, Cleaned, MustGo, CleanUpSteps
<1>9. CASE CleanUpNamespace("osl", "rhdhcheck") /\ pc' # "idle"
  BY <1>9, <1>a, <1>b, NamespaceStep DEF CleanUpInv, Cleaned, MustGo, CleanUpSteps
<1>10. CASE HandleRHDHCleanUp /\ pc' # "idle"
  <2>1. /\ pc \in {"rhdhcheck", "rhdhlist", "rhdh", "rhdhop"}
        /\ pc' \in {"rhdhlist", "rhdh", "rhdhop", "release"}
        /\ UNCHANGED <<known, cache, failed>>
        /\ \A o \in MustGo : obj'[o] = "labelled" => obj[o] = "labelled"
    <3>1. CASE checkRHDHNamespace
      BY <1>10, <3>1, <1>a DEF checkRHDHNamespace, Goto, TypeOK, MustGo
    <3>2. CASE listBackstageCRs
      BY <1>10, <3>2 DEF listBackstageCRs, AfterList, Goto, Fail, Return
    <3>3. CASE CleanUpNamespace("rhdh", "rhdhop") \/ CleanUpNamespace("rhdhop", "release")
      BY <1>10, <3>3, <1>a, <1>b, NamespaceStep
    <3> QED BY <1>10, <3>1, <3>2, <3>3 DEF HandleRHDHCleanUp
  <2> QED BY <1>b, <2>1 DEF CleanUpInv, Cleaned, MustGo, CleanUpSteps
<1> QED BY <1>1, <1>2, <1>3, <1>4, <1>5, <1>6, <1>7, <1>8, <1>9, <1>10
       DEF Worker, HandleKnativeCleanUp, handleServerlessLogicCleanUp

LEMMA CleanUpOthers ==
  ASSUME TypeOK, CleanUpInv, Provision \/ Environment
  PROVE  CleanUpInv'
<1>a. MustGo \subseteq Objects
  BY DEF MustGo, Objects, Namespaces, Operands
<1>1. CASE Provision
  BY <1>1, Outside DEF Provision, CleanUpSteps
<1>2. CASE Restart
  BY <1>2, Outside DEF Restart, Return, CleanUpSteps
<1>3. CASE SyncObjects
  <2>1. \A o \in MustGo : obj[o] = "labelled" /\ cache.obj[o] = "labelled" =>
                           cache'.obj[o] = "labelled"
    BY <1>3, <1>a DEF SyncObjects, TypeOK
  <2> QED BY <1>3, <2>1, QuietStep DEF SyncObjects
<1>4. CASE (\E n \in Namespaces : NamespaceGone(n)) \/ \E o \in {"sfp", "sfcp"} : OperandGone(o)
  <2>1. \A o \in MustGo : obj'[o] = "labelled" => obj[o] = "labelled"
    BY <1>4, <1>a DEF NamespaceGone, OperandGone, TypeOK
  <2> QED BY <1>4, <2>1, QuietStep DEF NamespaceGone, OperandGone
<1>5. CASE SyncResource
  <2>1. cache'.obj = cache.obj
    BY <1>5 DEF SyncResource, TypeOK
  <2> QED BY <1>5, <2>1, QuietStep DEF SyncResource
<1>6. CASE DeleteOrchestrator \/ OtherFinalizerRemoved \/ Resync \/ OLMInstall
  BY <1>6, QuietStep DEF DeleteOrchestrator, OtherFinalizerRemoved, Resync, OLMInstall
<1> QED BY <1>1, <1>2, <1>3, <1>4, <1>5, <1>6 DEF Environment, Cluster

LEMMA CleanUpInvariant == Spec => []CleanUpInv
<1>1. Init => CleanUpInv
  BY DEF Init, CleanUpInv, Cleaned, CleanUpSteps
<1>2. TypeOK /\ CleanUpInv /\ [Next]_vars => CleanUpInv'
  <2>1. CleanUpInv /\ UNCHANGED vars => CleanUpInv'
    BY DEF CleanUpInv, Cleaned, vars
  <2> QED BY <2>1, CleanUpWorker, CleanUpOthers DEF Next
<1> QED BY <1>1, <1>2, TypeCorrect, PTL DEF Spec

(* The finalizer is released only after a complete clean up.               *)
THEOREM ReleaseCorrect == Spec => CleanUpBeforeRelease
<1>1. TypeOK /\ CleanUpInv /\ [Next]_vars => [ReleaseAfterCleanUp]_vars
  <2> SUFFICES ASSUME TypeOK, CleanUpInv, Next, cr.mine, ~cr'.mine
               PROVE  \A o \in known \intersect MustGo : obj[o] # "labelled"
    BY DEF ReleaseAfterCleanUp, vars
  <2>1. pc = "release"
    <3>1. [cr EXCEPT !.deleting = TRUE] \in Resources /\ [cr EXCEPT !.deleting = TRUE].mine
      BY DEF TypeOK, Resources
    <3>2. [cr EXCEPT !.others = FALSE] \in Resources /\ [cr EXCEPT !.others = FALSE].mine
      BY DEF TypeOK, Resources
    <3>3. CASE DeleteOrchestrator \/ OtherFinalizerRemoved
      BY <3>1, <3>2, <3>3, ReleasedKeeps DEF DeleteOrchestrator, OtherFinalizerRemoved
    <3>4. CASE addFinalizers
      <4>1. [cr EXCEPT !.mine = TRUE].mine
        BY DEF TypeOK, Resources
      <4> QED BY <3>4, <4>1 DEF addFinalizers
    <3>5. CASE RemoveFinalizer
      BY <3>5 DEF RemoveFinalizer
    <3> QED BY <3>3, <3>4, <3>5 DEF Next, Worker, Environment, Cluster, ReconcileStart, Reconcile,
          HandleKnativeCleanUp, CleanUpNamespace, handleServerlessLogicCleanUp,
          removeSonataFlowPlatform, removeSonataFlowClusterPlatform, HandleRHDHCleanUp,
          checkRHDHNamespace, listBackstageCRs, ProvisionEnd, Provision, SyncObjects,
          SyncResource, Resync, Restart, NamespaceGone, OperandGone, OLMInstall
  <2> QED BY <2>1 DEF CleanUpInv, Cleaned, MustGo, CleanUpSteps
<1> QED BY <1>1, TypeCorrect, CleanUpInvariant, PTL DEF Spec, CleanUpBeforeRelease

(* The OSL operator's namespace is not deleted before the deletion of the  *)
(* operands the pass knew of has been accepted.                            *)
THEOREM OperandsFirst == Spec => OperandsBeforeOperator
<1>1. TypeOK /\ CleanUpInv /\ [Next]_vars => [OperatorAfterOperands]_vars
  <2> SUFFICES ASSUME TypeOK, CleanUpInv, Next,
                      obj["osl"] = "labelled", obj'["osl"] = "terminating"
               PROVE  \A o \in known \intersect {"sfp", "sfcp"} : obj[o] # "labelled"
    BY DEF OperatorAfterOperands, vars
  <2>a. "osl" \in Objects
    BY DEF Objects, Namespaces
  <2>1. pc = "osl"
    <3>1. \A n, next : CleanUpNamespace(n, next) => n = "osl" /\ pc = n
      BY <2>a DEF CleanUpNamespace, Deleted, TypeOK
    <3>2. ~removeSonataFlowPlatform /\ ~removeSonataFlowClusterPlatform
      <4>1. \A o \in {"sfp", "sfcp"} : OperandDeleted(o)["osl"] = obj["osl"]
        BY <2>a DEF OperandDeleted, TypeOK
      <4> QED BY <4>1 DEF removeSonataFlowPlatform, removeSonataFlowClusterPlatform,
                 RemoveCustomResourcesInNamespace
    <3>3. ~checkRHDHNamespace /\ ~Provision
      BY <2>a DEF checkRHDHNamespace, Provision, TypeOK
    <3>4. ~(\E n \in Namespaces : NamespaceGone(n)) /\ ~\E o \in {"sfp", "sfcp"} : OperandGone(o)
      BY <2>a DEF NamespaceGone, OperandGone, TypeOK
    <3>5. obj' # obj
      OBVIOUS
    <3> QED BY <3>1, <3>2, <3>3, <3>4, <3>5 DEF Next, Worker, Environment, Cluster, ReconcileStart,
          Reconcile, HandleKnativeCleanUp, handleServerlessLogicCleanUp, HandleRHDHCleanUp,
          listBackstageCRs, RemoveFinalizer, addFinalizers, ProvisionEnd,
          DeleteOrchestrator, OtherFinalizerRemoved, SyncObjects, SyncResource, Resync,
          Restart, OLMInstall
  <2> QED BY <2>1 DEF CleanUpInv, Cleaned
<1> QED BY <1>1, TypeCorrect, CleanUpInvariant, PTL DEF Spec, OperandsBeforeOperator

-----------------------------------------------------------------------------
(* The steps of the model towards FinalizerContract.                       *)
ContractGoal == [Contract!Next]_(Contract!contract)

(* Nothing of the contract is disturbed outside of a clean up ...          *)
LEMMA StutterOutside ==
  ASSUME UNCHANGED <<cr, There>>, pc \notin CleanUpSteps, pc' \notin CleanUpSteps
  PROVE  ContractGoal
  BY DEF ContractGoal, Contract!contract, Phase, Due

(* ... nor by the steps of others within one.                              *)
LEMMA StutterWithin ==
  ASSUME UNCHANGED <<pc, known, There>>,
         cr'.mine = cr.mine, cr'.deleting = cr.deleting
  PROVE  ContractGoal
  BY DEF ContractGoal, Contract!contract, Phase, Due

(* A step of the clean up takes at most one thing, and the operator only   *)
(* after what it operates; it goes on, or breaks off.                      *)
LEMMA CleanUpStep ==
  ASSUME FinalizerInv, pc \in CleanUpSteps, cr' = cr, pc' \in CleanUpSteps => known' = known,
         \/ There' = There
         \/ \E o \in MustGo : There' = There \ {o} /\ (o = "osl" => Due \intersect {"sfp", "sfcp"} = {})
  PROVE  ContractGoal
<1>1. cr.deleting
  BY DEF FinalizerInv
<1>2. CASE There' = There
  <2>1. CASE pc' \in CleanUpSteps
    BY <1>2, <2>1 DEF ContractGoal, Contract!contract, Phase, Due
  <2>2. CASE pc' \notin CleanUpSteps /\ cr.mine
    <3>1. Phase = "cleaning" /\ Phase' = "held" /\ Due' = {}
      BY <2>2 DEF Phase, Due
    <3>2. Contract!Interrupt
      BY <1>2, <3>1 DEF Contract!Interrupt
    <3> QED BY <3>2 DEF ContractGoal, Contract!Next
  <2>3. CASE pc' \notin CleanUpSteps /\ ~cr.mine
    BY <1>2, <2>3 DEF ContractGoal, Contract!contract, Phase, Due
  <2> QED BY <2>1, <2>2, <2>3
<1>3. ASSUME NEW o \in MustGo, There' = There \ {o}, o = "osl" => Due \intersect {"sfp", "sfcp"} = {}
      PROVE  ContractGoal
  <2>1. Contract!MayGo(o)
    BY <1>3 DEF Contract!MayGo
  <2>2. CASE pc' \notin CleanUpSteps /\ cr.mine
    <3>1. Phase = "cleaning" /\ Phase' = "held" /\ Due' = {}
      BY <2>2 DEF Phase, Due
    <3>2. Contract!Interrupt
      BY <1>3, <2>1, <3>1 DEF Contract!Interrupt
    <3> QED BY <3>2 DEF ContractGoal, Contract!Next
  <2>3. CASE pc' \in CleanUpSteps \/ ~cr.mine
    <3>1. Phase' = Phase /\ Phase \in {"cleaning", "released"}
      BY <1>1, <2>3 DEF Phase
    <3>2. Due' = Due \ {o}
      BY <1>3, <2>3 DEF Due, Phase
    <3>3. Contract!Take(o)
      BY <1>3, <2>1, <3>1, <3>2 DEF Contract!Take
    <3> QED BY <3>3 DEF ContractGoal, Contract!Next
  <2> QED BY <2>2, <2>3
<1> QED BY <1>2, <1>3

LEMMA ContractCleanUpNamespace ==
  ASSUME TypeOK, FinalizerInv, CleanUpInv, NEW n \in Namespaces \intersect CleanUpSteps,
         NEW next \in CleanUpSteps, CleanUpNamespace(n, next)
  PROVE  ContractGoal
<1>1. pc = n /\ cr' = cr /\ (pc' \in CleanUpSteps => known' = known)
  BY DEF CleanUpNamespace, Goto, Fail, Return, CleanUpSteps
<1>2. n \in Objects /\ MustGo \subseteq Objects
  BY DEF Objects, Namespaces, MustGo, Operands
<1>3. Deleted(n) = obj \/ Deleted(n) = [obj EXCEPT ![n] = "terminating"]
  BY DEF Deleted
<1>4. obj' = obj \/ obj' = [obj EXCEPT ![n] = "terminating"]
  BY <1>3 DEF CleanUpNamespace
<1>5. n \in MustGo => There' = There \/ There' = There \ {n}
  BY <1>2, <1>4 DEF There, TypeOK
<1>6. n \notin MustGo => There' = There
  BY <1>2, <1>4 DEF There, TypeOK
<1>7. n = "osl" => Due \intersect {"sfp", "sfcp"} = {}
  BY <1>1 DEF CleanUpInv, Cleaned, Due, There
<1> QED BY <1>1, <1>5, <1>6, <1>7, CleanUpStep

LEMMA ContractRemove ==
  ASSUME TypeOK, NEW o \in {"sfp", "sfcp"}, NEW error \in BOOLEAN,
         RemoveCustomResourcesInNamespace(o, error)
  PROVE  There' = There \/ There' = There \ {o}
<1>1. MustGo \subseteq Objects /\ o \in MustGo
  BY DEF Objects, Namespaces, MustGo, Operands
<1>2. obj' = obj \/ obj' = OperandDeleted(o)
  BY DEF RemoveCustomResourcesInNamespace
<1>3. obj' = obj \/ \E left \in {"terminating", "absent"} : obj' = [obj EXCEPT ![o] = left]
  BY <1>2 DEF OperandDeleted
<1> QED BY <1>1, <1>3 DEF There, TypeOK

LEMMA ContractCleanUp ==
  ASSUME TypeOK, FinalizerInv, CleanUpInv,
         HandleKnativeCleanUp \/ handleServerlessLogicCleanUp \/ HandleRHDHCleanUp
  PROVE  ContractGoal
<1>a. {"eventing", "serving", "knative", "osl", "rhdh", "rhdhop"} \subseteq Namespaces \intersect CleanUpSteps
      /\ {"sfp", "sfcp", "rhdhcheck", "rhdhlist", "release"} \subseteq CleanUpSteps
  BY DEF CleanUpSteps, Namespaces
<1>b. "sfp" \in MustGo /\ "sfcp" \in MustGo
  BY DEF MustGo
<1>1. CASE HandleKnativeCleanUp
  BY <1>1, <1>a, ContractCleanUpNamespace DEF HandleKnativeCleanUp
<1>2. CASE handleServerlessLogicCleanUp
  <2>1. CASE removeSonataFlowPlatform
    <3>1. There' = There \/ There' = There \ {"sfp"}
      BY <2>1, ContractRemove DEF removeSonataFlowPlatform
    <3>2. pc \in CleanUpSteps /\ cr' = cr /\ known' = known
      BY <1>a, <2>1 DEF removeSonataFlowPlatform, Goto
    <3> QED BY <1>b, <3>1, <3>2, CleanUpStep
  <2>2. CASE removeSonataFlowClusterPlatform
    <3>1. There' = There \/ There' = There \ {"sfcp"}
      BY <2>2, ContractRemove DEF removeSonataFlowClusterPlatform
    <3>2. pc \in CleanUpSteps /\ cr' = cr /\ (pc' \in CleanUpSteps => known' = known)
      BY <1>a, <2>2 DEF removeSonataFlowClusterPlatform, Goto, Fail, Return, CleanUpSteps
    <3> QED BY <1>b, <3>1, <3>2, CleanUpStep
  <2> QED BY <1>2, <1>a, <2>1, <2>2, ContractCleanUpNamespace DEF handleServerlessLogicCleanUp
<1>3. CASE HandleRHDHCleanUp
  <2>1. CASE checkRHDHNamespace
    <3>0. \A o \in MustGo : o \in Objects /\ o # "rhdh"
      BY DEF MustGo, Objects, Namespaces, Operands
    <3>1. There' = There
      <4>1. obj' = obj \/ obj' = [obj EXCEPT !["rhdh"] = "labelled"]
        BY <2>1 DEF checkRHDHNamespace
      <4> QED BY <3>0, <4>1 DEF There, TypeOK
    <3>2. pc \in CleanUpSteps /\ cr' = cr /\ known' = known
      BY <1>a, <2>1 DEF checkRHDHNamespace, Goto
    <3> QED BY <3>1, <3>2, CleanUpStep
  <2>2. CASE listBackstageCRs
    <3>1. There' = There
      BY <2>2 DEF listBackstageCRs, There
    <3>2. pc \in CleanUpSteps /\ cr' = cr /\ (pc' \in CleanUpSteps => known' = known)
      BY <1>a, <2>2 DEF listBackstageCRs, Goto, Fail, Return, CleanUpSteps
    <3> QED BY <3>1, <3>2, CleanUpStep
  <2> QED BY <1>3, <1>a, <2>1, <2>2, ContractCleanUpNamespace DEF HandleRHDHCleanUp
<1> QED BY <1>1, <1>2, <1>3

LEMMA ContractFinalizer ==
  ASSUME TypeOK, FinalizerInv, CleanUpInv,
         ReconcileStart \/ Reconcile \/ RemoveFinalizer \/ addFinalizers \/ ProvisionEnd
  PROVE  ContractGoal
<1>a. {"idle", "get", "addfinalizer", "provision"} \intersect CleanUpSteps = {}
      /\ "release" \in CleanUpSteps /\ "eventing" \in CleanUpSteps
  BY DEF CleanUpSteps
<1>b. obj' = obj => There' = There
  BY DEF There
<1>1. CASE ReconcileStart \/ ProvisionEnd
  BY <1>1, <1>a, <1>b, StutterOutside DEF ReconcileStart, ProvisionEnd, Return
<1>2. CASE Reconcile
  <2>1. CASE pc' # "eventing"
    BY <1>2, <1>a, <1>b, <2>1, StutterOutside DEF Reconcile, Fail, Return
  <2>2. CASE pc' = "eventing" /\ ~cr.mine
    BY <1>2, <1>b, <2>2 DEF Reconcile, ContractGoal, Contract!contract, Phase, Due
  <2>3. CASE pc' = "eventing" /\ cr.mine
    <3>1. Phase = "held" /\ Phase' = "cleaning" /\ There' = There
      BY <1>2, <1>a, <1>b, <2>3 DEF Reconcile, Phase
    <3>2. Due' \in SUBSET There
      BY <3>1 DEF Due
    <3>3. Contract!Begin
      BY <3>1, <3>2 DEF Contract!Begin
    <3> QED BY <3>3 DEF ContractGoal, Contract!Next
  <2> QED BY <2>1, <2>2, <2>3
<1>3. CASE RemoveFinalizer
  <2> DEFINE done == Released([cr EXCEPT !.mine = FALSE])
  <2>1. pc \in CleanUpSteps /\ pc' \notin CleanUpSteps /\ There' = There /\ cr.deleting
    BY <1>3, <1>a, <1>b DEF RemoveFinalizer, Fail, Return, FinalizerInv
  <2>2. [cr EXCEPT !.mine = FALSE] \in Resources /\ [cr EXCEPT !.mine = FALSE].deleting
    BY <2>1 DEF TypeOK, Resources
  <2>3. done.deleting /\ done.mine = FALSE
    BY <2>2, ReleasedKeeps
  <2>4. CASE cr' = cr
    BY <2>1, <2>4, CleanUpStep
  <2>5. CASE cr' = done /\ cr.mine
    <3>1. Phase = "cleaning" /\ Phase' = "released" /\ Due' = {}
      BY <2>1, <2>3, <2>5 DEF Phase, Due
    <3>2. Due = {}
      BY <1>3, <1>a DEF RemoveFinalizer, CleanUpInv, Cleaned, Due, There, MustGo, CleanUpSteps
    <3>3. Contract!Release
      BY <2>1, <3>1, <3>2 DEF Contract!Release
    <3> QED BY <3>3 DEF ContractGoal, Contract!Next
  <2>6. CASE cr' = done /\ ~cr.mine
    BY <2>1, <2>3, <2>6 DEF ContractGoal, Contract!contract, Phase, Due
  <2> QED BY <1>3, <2>4, <2>5, <2>6 DEF RemoveFinalizer
<1>4. CASE addFinalizers
  <2>1. pc \notin CleanUpSteps /\ pc' \notin CleanUpSteps /\ There' = There
    BY <1>4, <1>a, <1>b DEF addFinalizers, Goto, Fail, Return
  <2>2. CASE cr' = cr
    BY <2>1, <2>2, StutterOutside
  <2>3. CASE cr' = [cr EXCEPT !.mine = TRUE] /\ ~cr.deleting
    <3>1. Phase' = "held" /\ Due' = {} /\ Due = {}
      BY <2>1, <2>3 DEF Phase, Due, TypeOK, Resources
    <3>2. CASE cr.mine
      BY <2>1, <3>1, <3>2 DEF ContractGoal, Contract!contract, Phase
    <3>3. CASE ~cr.mine
      <4>1. Contract!Hold
        BY <2>1, <2>3, <3>1, <3>3 DEF Contract!Hold, Phase
      <4> QED BY <4>1 DEF ContractGoal, Contract!Next
    <3> QED BY <3>2, <3>3
  <2> QED BY <1>4, <2>2, <2>3 DEF addFinalizers
<1> QED BY <1>1, <1>2, <1>3, <1>4

LEMMA ContractOthers ==
  ASSUME TypeOK, FinalizerInv, Provision \/ Environment \/ UNCHANGED vars
  PROVE  ContractGoal
<1>a. MustGo \subseteq Objects /\ "backstage" \notin MustGo
  BY DEF Objects, Namespaces, MustGo, Operands
<1>b. obj' = obj => There' = There
  BY DEF There
<1>1. CASE Provision
  <2> PICK o \in Wanted : obj' = [obj EXCEPT ![o] = "labelled"] /\ obj[o] \in {"absent", "plain"}
    BY <1>1 DEF Provision
  <2>1. pc = "provision" /\ pc' = pc /\ UNCHANGED <<cr, known>> /\ cr.mine
    BY <1>1 DEF Provision, FinalizerInv, FinalizerBeforeProvision
  <2>2. CASE o \notin MustGo
    <3>1. There' = There
      BY <1>a, <2>2 DEF There, TypeOK
    <3> QED BY <2>1, <3>1, StutterWithin
  <2>3. CASE o \in MustGo
    <3>1. There' = There \union {o}
      BY <1>a, <2>3 DEF There, TypeOK
    <3>2. Phase = "held" /\ Phase' = "held" /\ Due' = Due
      BY <2>1 DEF Phase, Due, CleanUpSteps
    <3>3. Contract!Make(o)
      BY <3>1, <3>2 DEF Contract!Make
    <3> QED BY <2>3, <3>3 DEF ContractGoal, Contract!Next
  <2> QED BY <2>2, <2>3
<1>2. CASE DeleteOrchestrator
  <2> DEFINE r == [cr EXCEPT !.deleting = TRUE]
  <2>1. r \in Resources /\ r.deleting /\ r.mine = cr.mine
    BY DEF TypeOK, Resources
  <2>2. cr' = Released(r) /\ UNCHANGED <<pc, known>> /\ There' = There /\ ~cr.deleting
    BY <1>2, <1>b DEF DeleteOrchestrator
  <2>3. cr'.deleting /\ cr'.mine = cr.mine
    BY <2>1, <2>2, ReleasedKeeps DEF Released, Gone, Resources
  <2>4. CASE cr.mine
    BY <2>2, <2>3, <2>4 DEF ContractGoal, Contract!contract, Phase, Due
  <2>5. CASE ~cr.mine
    <3>1. Phase = "new" /\ Phase' = "released" /\ Due = {} /\ Due' = {}
      BY <2>2, <2>3, <2>5 DEF Phase, Due
    <3>2. Contract!Abandon
      BY <2>2, <3>1 DEF Contract!Abandon
    <3> QED BY <3>2 DEF ContractGoal, Contract!Next
  <2> QED BY <2>4, <2>5
<1>3. CASE OtherFinalizerRemoved
  <2> DEFINE r == [cr EXCEPT !.others = FALSE]
  <2>1. r \in Resources /\ r.deleting = cr.deleting /\ r.mine = cr.mine
    BY DEF TypeOK, Resources
  <2>2. cr' = Released(r) /\ UNCHANGED <<pc, known>> /\ There' = There /\ cr.deleting
    BY <1>3, <1>b DEF OtherFinalizerRemoved
  <2>3. cr'.deleting = cr.deleting /\ cr'.mine = cr.mine
    BY <2>1, <2>2 DEF Released, Gone, Resources, TypeOK
  <2> QED BY <2>2, <2>3, StutterWithin
<1>4. CASE SyncObjects \/ SyncResource \/ Resync \/ OLMInstall \/ UNCHANGED vars
  BY <1>4, <1>b, StutterWithin DEF SyncObjects, SyncResource, Resync, OLMInstall, vars
<1>5. CASE Restart
  <2>1. pc' \notin CleanUpSteps /\ UNCHANGED cr /\ There' = There
    BY <1>5, <1>b DEF Restart, Return, CleanUpSteps
  <2> QED BY <2>1, StutterOutside, CleanUpStep
<1>6. CASE \E n \in Namespaces : NamespaceGone(n)
  <2> PICK n \in Namespaces : NamespaceGone(n)
    BY <1>6
  <2>1. There' = There
    BY <1>a DEF NamespaceGone, There
  <2> QED BY <2>1, StutterWithin DEF NamespaceGone
<1>7. CASE \E o \in {"sfp", "sfcp"} : OperandGone(o)
  <2> PICK o \in {"sfp", "sfcp"} : OperandGone(o)
    BY <1>7
  <2>1. There' = There
    BY <1>a DEF OperandGone, There, TypeOK
  <2> QED BY <2>1, StutterWithin DEF OperandGone
<1> QED BY <1>1, <1>2, <1>3, <1>4, <1>5, <1>6, <1>7 DEF Environment, Cluster

LEMMA ContractInit == Init => Contract!Init
<1> SUFFICES ASSUME Init PROVE Contract!Init
  OBVIOUS
<1>1. cr.mine = FALSE /\ cr.deleting = FALSE
  BY DEF Init, Created
<1>2. There \in SUBSET MustGo
  BY DEF There
<1> QED BY <1>1, <1>2 DEF Contract!Init, Phase, Due

(***************************************************************************)
(* The life of a resource, with its lagging caches, failing calls and      *)
(* restarts, implements the contract of a finalizer.                       *)
(***************************************************************************)
THEOREM CleanUpImplementsContract == Spec => ImplementsContract
<1>1. TypeOK /\ FinalizerInv /\ CleanUpInv /\ [Next]_vars => [Contract!Next]_(Contract!contract)
  BY ContractCleanUp, ContractFinalizer, ContractOthers DEF Next, Worker, ContractGoal
<1> QED BY <1>1, ContractInit, TypeCorrect, FinalizerInvariant, CleanUpInvariant, PTL
        DEF Spec, ImplementsContract, Contract!Spec

-----------------------------------------------------------------------------
(* Nothing is left half way: every step of the worker that ends a pass     *)
(* before the resource is settled leaves it in the queue, and every step   *)
(* of others leaves an event.                                              *)
LEMMA AttendedWorker ==
  ASSUME TypeOK, FinalizerInv, AttendedInv, Worker
  PROVE  AttendedInv'
<1> USE DEF AttendedInv
<1>0. cr \in Resources /\ queue \in BOOLEAN
  BY DEF TypeOK
<1>1. CASE ReconcileStart
  BY <1>1 DEF ReconcileStart
<1>2. CASE Reconcile
  BY <1>2 DEF Reconcile, Fail, Return, CleanUpSteps
<1>3. ASSUME pc \in CleanUpSteps, UNCHANGED <<cr, cache>>,
             Fail \/ (UNCHANGED queue /\ pc' \in CleanUpSteps)
      PROVE  AttendedInv'
  BY <1>3 DEF Fail, FinalizerInv
<1>4. CASE HandleKnativeCleanUp \/ handleServerlessLogicCleanUp \/ HandleRHDHCleanUp
  BY <1>3, <1>4 DEF HandleKnativeCleanUp, handleServerlessLogicCleanUp, HandleRHDHCleanUp,
     CleanUpNamespace, removeSonataFlowPlatform, removeSonataFlowClusterPlatform,
     checkRHDHNamespace, listBackstageCRs, AfterList, Goto, CleanUpSteps
<1>5. CASE RemoveFinalizer
  <2>1. CASE cr' = cr /\ UNCHANGED cache /\ Fail
    BY <1>3, <1>5, <2>1 DEF RemoveFinalizer, CleanUpSteps
  <2>2. CASE cr' = Released([cr EXCEPT !.mine = FALSE]) /\ UNCHANGED cache
    <3>1. cr.deleting
      BY <1>5 DEF RemoveFinalizer, FinalizerInv, CleanUpSteps
    <3>2. /\ [cr EXCEPT !.mine = FALSE].mine = FALSE
          /\ [cr EXCEPT !.mine = FALSE].deleting = cr.deleting
          /\ [cr EXCEPT !.mine = FALSE].others = cr.others
      BY <1>0 DEF Resources
    <3>3. ~cr'.mine /\ cr'.deleting /\ (cr'.others => cr.others)
      BY <2>2, <3>1, <3>2 DEF Released, Gone
    <3> QED BY <2>2, <3>3
  <2> QED BY <1>5, <2>1, <2>2 DEF RemoveFinalizer
<1>6. CASE addFinalizers
  <2> DEFINE added == [cr EXCEPT !.mine = TRUE]
  <2>1. added.mine /\ added.deleting = cr.deleting /\ added.others = cr.others
    BY <1>0 DEF Resources
  <2>2. \/ cr' = cr /\ copy.mine /\ UNCHANGED queue
        \/ cr' = cr /\ Fail
        \/ cr' = added /\ ~cr.deleting
    BY <1>6 DEF addFinalizers, Goto
  <2>3. pc = "addfinalizer" /\ UNCHANGED cache
    BY <1>6 DEF addFinalizers
  <2> HIDE DEF added
  <2> QED BY <2>1, <2>2, <2>3 DEF Fail, FinalizerInv, CleanUpSteps
<1>7. CASE ProvisionEnd
  <2>1. UNCHANGED <<cr, cache>> /\ pc = "provision" /\ queue' \in {queue, TRUE}
    BY <1>7 DEF ProvisionEnd
  <2>3. queue => queue'
    <3>1. ASSUME queue' = queue, queue PROVE queue'
      BY <3>1, Zenon
    <3>2. ASSUME queue' = TRUE PROVE queue'
      BY <3>2, Zenon
    <3> QED BY <2>1, <3>1, <3>2, Zenon
  <2>2. cr.mine
    BY <2>1 DEF FinalizerInv, FinalizerBeforeProvision
  <2> QED BY <2>1, <2>2, <2>3 DEF CleanUpSteps
<1> QED BY <1>1, <1>2, <1>4, <1>5, <1>6, <1>7 DEF Worker

LEMMA AttendedOthers ==
  ASSUME TypeOK, FinalizerInv, AttendedInv, Provision \/ Environment
  PROVE  AttendedInv'
<1> USE DEF AttendedInv
<1>0. cr \in Resources /\ queue \in BOOLEAN /\ cache.cr \in Resources
      /\ cache \in [obj: [Objects -> ObjStates], cr: Resources]
  BY DEF TypeOK
<1>a. Gone.deleting /\ ~Gone.mine /\ ~Gone.others /\ ~Gone.exists
  BY DEF Gone
<1>1. CASE UNCHANGED <<cr, queue, pc>> /\ cache'.cr = cache.cr
  BY <1>1
<1>2. CASE SyncObjects
  <2>1. cache'.cr = cache.cr
    BY <1>0, <1>2 DEF SyncObjects
  <2> QED BY <1>1, <1>2, <2>1 DEF SyncObjects
<1>3. CASE SyncResource
  <2>1. cache'.cr = cr
    BY <1>0, <1>3 DEF SyncResource
  <2> QED BY <1>3, <2>1 DEF SyncResource
<1>4. CASE Resync
  BY <1>4 DEF Resync
<1>5. CASE Restart
  <2>1. cr' = cr /\ cache'.cr = cr /\ (cr.exists => queue')
    BY <1>0, <1>5 DEF Restart
  <2> QED BY <2>1
<1>6. CASE DeleteOrchestrator
  <2> DEFINE new == [cr EXCEPT !.deleting = TRUE]
  <2>1. /\ new.deleting /\ new.mine = cr.mine /\ new.others = cr.others
        /\ new.exists = cr.exists
    BY <1>0 DEF Resources
  <2>2. ~cache.cr.deleting
    BY <1>6 DEF DeleteOrchestrator, FinalizerInv
  <2>3. cr' \in {new, Gone} /\ UNCHANGED <<cache, queue, pc>>
    BY <1>6 DEF DeleteOrchestrator, Released
  <2> HIDE DEF new
  <2>4. /\ cr'.deleting /\ cr' # cache.cr /\ (cr'.others => cr.others)
    BY <1>a, <2>1, <2>2, <2>3
  <2> QED BY <2>3, <2>4
<1>7. CASE OtherFinalizerRemoved
  <2> DEFINE new == [cr EXCEPT !.others = FALSE]
  <2>1. new.deleting = cr.deleting /\ new.mine = cr.mine /\ ~new.others
        /\ new.exists = cr.exists
    BY <1>0 DEF Resources
  <2>2. cr' \in {new, Gone} /\ UNCHANGED <<cache, queue, pc>>
    BY <1>7 DEF OtherFinalizerRemoved, Released
  <2>3. cr.exists /\ cr.deleting /\ cr.others
    BY <1>7 DEF OtherFinalizerRemoved
  <2> HIDE DEF new
  <2>4. cr'.deleting /\ ~cr'.others /\ (cr'.exists => cr.exists)
    BY <1>a, <2>1, <2>2, <2>3
  <2>5. cr'.exists => cr' # cache.cr
    BY <2>2, <2>3, <2>4
  <2> QED BY <2>2, <2>4, <2>5
<1> QED BY <1>1, <1>2, <1>3, <1>4, <1>5, <1>6, <1>7
        DEF Environment, Cluster, Provision, NamespaceGone, OperandGone, OLMInstall

(***************************************************************************)
(* When the worker rests and has heard of the last change, the resource    *)
(* bears the finalizer exactly if it is not being deleted: no failed call, *)
(* restart or event in between loses a deletion or a new resource.         *)
(***************************************************************************)
THEOREM SettledCorrect == Spec => []RestsSettled
<1>1. Init => AttendedInv
  BY DEF Init, AttendedInv, Created
<1>2. TypeOK /\ FinalizerInv /\ AttendedInv /\ [Next]_vars => AttendedInv'
  <2>1. AttendedInv /\ UNCHANGED vars => AttendedInv'
    BY DEF AttendedInv, vars
  <2> QED BY <2>1, AttendedWorker, AttendedOthers DEF Next
<1>3. TypeOK /\ AttendedInv => RestsSettled
  BY DEF TypeOK, Resources, AttendedInv, RestsSettled, CleanUpSteps
<1> QED BY <1>1, <1>2, <1>3, TypeCorrect, FinalizerInvariant, PTL DEF Spec
=============================================================================
