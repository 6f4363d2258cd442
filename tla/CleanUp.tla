------------------------------ MODULE CleanUp ------------------------------
(***************************************************************************)
(* The life of one Orchestrator resource, from its creation to the end of  *)
(* its deletion: the finalizer, the objects that Reconcile creates on its  *)
(* behalf, and the clean up that must come before the finalizer goes.      *)
(*   orchestrator_controller.go  Reconcile, addFinalizers, handleCleanUp   *)
(*   knative/knative.go          HandleKnativeCleanUp                      *)
(*   sonataflow.go               handleServerlessLogicCleanUp              *)
(*   rhdh/backstage.go           HandleRHDHCleanUp                         *)
(*   kube/kube_operations.go     CleanUpNamespace,                         *)
(*                               RemoveCustomResourcesInNamespace          *)
(*                                                                         *)
(* The worker reads through the informer cache, which lags the API server, *)
(* and any of its calls may fail, with or without having taken effect.     *)
(* The process may restart between any two calls.  The creation of the     *)
(* objects is coarse here: in the order of the pipeline, stopping          *)
(* anywhere (OperatorInstall has the detail).                              *)
(***************************************************************************)
EXTENDS Naturals

CONSTANTS
  Installs,         \* operators with installOperator: "osl", "knative", "rhdh"
  Starts,           \* namespaces that users made before, those that another
                    \* Orchestrator resource had labelled, and whether a
                    \* finalizer of somebody else is on the resource
  CrdsAtStart,      \* operand CRDs present from the beginning
  WithFinalizer,    \* SonataFlow operands that bear a finalizer of their operator
  OtherBackstages,  \* how many labelled Backstage resources others may have
  MaxFaults         \* bound on failed calls and restarts

(* Namespaces: of the two Knative resources, of the three operators, and   *)
(* spec.rhdh.namespace.  Operands: the SonataFlowPlatform, the             *)
(* SonataFlowClusterPlatform and the Backstage resource.                   *)
Namespaces == {"eventing", "serving", "knative", "osl", "rhdhop", "rhdh"}
Operands   == {"sfp", "sfcp", "backstage"}
Objects    == Namespaces \union Operands
CrdKinds   == {"sonataflow", "backstage"}

ASSUME InputAssumption == /\ Installs \subseteq {"osl", "knative", "rhdh"}
                          /\ Starts \subseteq [made: SUBSET Namespaces, shared: SUBSET Namespaces,
                                               others: BOOLEAN]
                          /\ CrdsAtStart \subseteq CrdKinds
                          /\ WithFinalizer \subseteq {"sfp", "sfcp"}
                          /\ OtherBackstages \subseteq Nat /\ OtherBackstages # {}
                          /\ MaxFaults \in Nat

VARIABLES
  obj,     \* the state of each object
  crds,    \* the operand CRDs that exist
  cr,      \* the Orchestrator resource
  cache,   \* the informers' copies of obj and cr
  queue,   \* the resource is in the work queue
  pc,      \* where the worker is
  copy,    \* the worker's orchestrator object
  failed,  \* the worker's errorList is not empty
  known,   \* what the cache showed labelled when this clean up began
  faults   \* faults so far

vars == <<obj, crds, cr, cache, queue, pc, copy, failed, known, faults>>

ObjStates == {"absent", "plain", "labelled", "terminating"}
Resources == [exists: BOOLEAN, deleting: BOOLEAN, mine: BOOLEAN, others: BOOLEAN]
CleanUpSteps == {"eventing", "serving", "knative", "sfp", "sfcp", "osl",
                 "rhdhcheck", "rhdhlist", "rhdh", "rhdhop", "release"}
Steps == {"idle", "get", "addfinalizer", "provision"} \union CleanUpSteps

(***************************************************************************)
(* Type correctness of the model.                                          *)
(***************************************************************************)
TypeOK ==
  /\ obj \in [Objects -> ObjStates]
  /\ crds \in SUBSET CrdKinds
  /\ cr \in Resources
  /\ cache \in [obj: [Objects -> ObjStates], cr: Resources]
  /\ queue \in BOOLEAN
  /\ pc \in Steps
  /\ copy \in Resources
  /\ failed \in BOOLEAN
  /\ known \in SUBSET Objects
  /\ faults \in 0..MaxFaults

-----------------------------------------------------------------------------
Created(others) == [exists |-> TRUE, deleting |-> FALSE, mine |-> FALSE, others |-> others]
Gone    == [exists |-> FALSE, deleting |-> TRUE, mine |-> FALSE, others |-> FALSE]

Init ==
  /\ \E start \in Starts :
       /\ obj = [o \in Objects |-> IF o \in start.shared THEN "labelled"
                                   ELSE IF o \in start.made THEN "plain" ELSE "absent"]
       /\ cr = Created(start.others)
  /\ crds = CrdsAtStart
  /\ cache = [obj |-> obj, cr |-> cr]
  /\ queue = TRUE
  /\ pc = "idle"
  /\ copy = Gone
  /\ failed = FALSE
  /\ known = {}
  /\ faults = 0

Fault   == faults < MaxFaults /\ faults' = faults + 1
NoFault == UNCHANGED faults

(* The end of a call of Reconcile, and of its local variables.             *)
Return == pc' = "idle" /\ copy' = Gone /\ failed' = FALSE /\ known' = {}

(* Mutant: the error is taken for the end of the work.                     *)
Fail_NoRequeue == Return /\ UNCHANGED queue

(* Reconcile returns an error: rate-limited requeue.                       *)
Fail == Return /\ queue' = TRUE

(* Reconcile goes on to another step.                                      *)
Goto(step) == pc' = step /\ UNCHANGED <<queue, copy, known>>

(* The resource once its last finalizer may have gone.                     *)
Released(r) == IF r.mine \/ r.others THEN r ELSE Gone

-----------------------------------------------------------------------------
(* The worker takes the request.                                           *)
ReconcileStart ==
  /\ queue /\ pc = "idle"
  /\ queue' = FALSE
  /\ pc' = "get"
  /\ UNCHANGED <<obj, crds, cr, cache, copy, failed, known, faults>>

(* What handleCleanUp removes as soon as it bears the label; what it does  *)
(* with the rest depends on the Backstage resources.                       *)
MustGo  == {"eventing", "serving", "knative", "osl", "sfp", "sfcp"}
Removed == MustGo \union {"rhdhop"}

(* Reconcile fetches the resource, from the cache, and branches on its     *)
(* deletion timestamp.                                                     *)
Reconcile ==
  /\ pc = "get"
  /\ \/ NoFault /\ ~cache.cr.exists /\ Return /\ UNCHANGED queue
     \/ /\ NoFault /\ cache.cr.exists
        /\ copy' = cache.cr
        /\ IF cache.cr.deleting
           THEN pc' = "eventing" /\ known' = {o \in Removed : cache.obj[o] = "labelled"}
           ELSE pc' = "addfinalizer" /\ UNCHANGED known
        /\ UNCHANGED <<queue, failed>>
     \/ Fault /\ Fail
  /\ UNCHANGED <<obj, crds, cr, cache>>

(* Mutant: the answer of the Delete is taken for the end of the namespace. *)
Deleted_AtOnce(n) ==
  IF cache.obj[n] = "labelled" /\ obj[n] = "labelled"
  THEN [obj EXCEPT ![n] = "deleted"] ELSE obj

(* kube.CleanUpNamespace: the namespace is deleted if it bears the label   *)
(* in the cache.                                                           *)
Deleted(n) ==
  IF cache.obj[n] = "labelled" /\ obj[n] = "labelled"
  THEN [obj EXCEPT ![n] = "terminating"] ELSE obj

(* Mutant: an error of the clean up is logged only.                        *)
CleanUpNamespace_Swallow(n, next) ==
  /\ pc = n
  /\ \/ NoFault /\ obj' = Deleted(n)
     \/ Fault /\ obj' = obj
  /\ Goto(next)
  /\ UNCHANGED <<crds, cr, cache, failed>>

CleanUpNamespace(n, next) ==
  /\ pc = n
  /\ \/ NoFault /\ obj' = Deleted(n) /\ Goto(next) /\ UNCHANGED failed
     \/ Fault /\ obj' \in {obj, Deleted(n)} /\ Fail
  /\ UNCHANGED <<crds, cr, cache>>

(* handleCleanUp: Knative first, then OSL, then RHDH; the first error ends *)
(* the pass.                                                               *)
HandleKnativeCleanUp ==
  \/ CleanUpNamespace("eventing", "serving")
  \/ CleanUpNamespace("serving", "knative")
  \/ CleanUpNamespace("knative", "sfp")

(* A Delete of an operand that is accepted: one with a finalizer is left   *)
(* terminating until its operator has dealt with it.                       *)
OperandDeleted(o) ==
  IF obj[o] # "labelled" THEN obj
  ELSE [obj EXCEPT ![o] = IF o \in WithFinalizer THEN "terminating" ELSE "absent"]

(* kube.RemoveCustomResourcesInNamespace for the SonataFlow kinds: whether *)
(* it returns an error.  A List of a kind without a CRD is a NoMatch       *)
(* error, not NotFound; a Delete of an object that has gone already is an  *)
(* error too.  Nothing waits for the end of what is deleted.               *)
RemoveCustomResourcesInNamespace(o, error) ==
  LET listed == "sonataflow" \in crds /\ cache.obj[o] \in {"labelled", "terminating"}
  IN \/ NoFault /\ listed /\ obj' = OperandDeleted(o) /\ error = (obj[o] = "absent")
     \/ NoFault /\ ~listed /\ UNCHANGED obj /\ error = ("sonataflow" \notin crds)
     \/ Fault /\ error /\ (UNCHANGED obj \/ (listed /\ obj' = OperandDeleted(o)))

(* handleRemovalOfOSLCRs: both kinds are tried, then the errors count.     *)
removeSonataFlowPlatform ==
  /\ pc = "sfp"
  /\ \E error \in BOOLEAN :
       RemoveCustomResourcesInNamespace("sfp", error) /\ failed' = error
  /\ Goto("sfcp")
  /\ UNCHANGED <<crds, cr, cache>>

(* Mutant: the collected errors are not returned.                          *)
removeSonataFlowClusterPlatform_Swallow ==
  /\ pc = "sfcp"
  /\ \E error \in BOOLEAN : RemoveCustomResourcesInNamespace("sfcp", error)
  /\ Goto("osl") /\ UNCHANGED failed
  /\ UNCHANGED <<crds, cr, cache>>

removeSonataFlowClusterPlatform ==
  /\ pc = "sfcp"
  /\ \E error \in BOOLEAN :
       /\ RemoveCustomResourcesInNamespace("sfcp", error)
       /\ IF failed \/ error THEN Fail ELSE Goto("osl") /\ UNCHANGED failed
  /\ UNCHANGED <<crds, cr, cache>>

handleServerlessLogicCleanUp ==
  \/ removeSonataFlowPlatform
  \/ removeSonataFlowClusterPlatform
  \/ CleanUpNamespace("osl", "rhdhcheck")

(* HandleRHDHCleanUp.  CheckNamespaceExist labels the namespace if need be *)
(* (an error of the Update is logged only); an error of its Get counts as  *)
(* a namespace that does not exist.                                        *)
checkRHDHNamespace ==
  /\ pc = "rhdhcheck"
  /\ \/ NoFault /\ cache.obj["rhdh"] = "absent" /\ UNCHANGED obj /\ Goto("rhdhop")
     \/ /\ NoFault /\ cache.obj["rhdh"] # "absent"
        /\ obj' = IF cache.obj["rhdh"] = "plain" /\ obj["rhdh"] = "plain"
                  THEN [obj EXCEPT !["rhdh"] = "labelled"] ELSE obj
        /\ Goto("rhdhlist")
     \/ Fault /\ UNCHANGED obj /\ Goto("rhdhop")
     \/ Fault /\ UNCHANGED obj /\ cache.obj["rhdh"] = "plain" /\ Goto("rhdhlist")
  /\ UNCHANGED <<crds, cr, cache, failed>>

(* With no labelled Backstage resource HandleRHDHCleanUp is over, with     *)
(* exactly one the namespace goes too, with more it stays.  Those of other *)
(* Orchestrators come and go (RHDHNamespace has the detail).               *)
AfterList(backstages) ==
  IF backstages = 0 THEN "release" ELSE IF backstages = 1 THEN "rhdh" ELSE "rhdhop"

listBackstageCRs ==
  /\ pc = "rhdhlist"
  /\ \/ /\ NoFault /\ "backstage" \in crds
        /\ \E others \in OtherBackstages :
             Goto(AfterList(others + IF cache.obj["backstage"] = "labelled" THEN 1 ELSE 0))
        /\ UNCHANGED failed
     \/ ((NoFault /\ "backstage" \notin crds) \/ Fault) /\ Fail
  /\ UNCHANGED <<obj, crds, cr, cache>>

HandleRHDHCleanUp ==
  \/ checkRHDHNamespace
  \/ listBackstageCRs
  \/ CleanUpNamespace("rhdh", "rhdhop")
  \/ CleanUpNamespace("rhdhop", "release")

(* RemoveFinalizer and Update; the worker's object is the answer.  The     *)
(* branch does not return: addFinalizers comes next.                       *)
RemoveFinalizer ==
  /\ pc = "release"
  /\ LET ok   == cr.exists /\ cr = copy
         done == Released([cr EXCEPT !.mine = FALSE])
     IN \/ /\ NoFault /\ ok
           /\ cr' = done /\ copy' = done
           /\ pc' = "addfinalizer" /\ UNCHANGED <<queue, failed, known>>
        \/ ((NoFault /\ ~ok) \/ Fault) /\ cr' = cr /\ Fail
        \/ Fault /\ ok /\ cr' = done /\ Fail
  /\ UNCHANGED <<obj, crds, cache>>

(* Mutant: the finalizer is added in memory only.                          *)
addFinalizers_InMemory ==
  /\ pc = "addfinalizer"
  /\ NoFault
  /\ copy' = [copy EXCEPT !.mine = TRUE]
  /\ pc' = "provision"
  /\ UNCHANGED <<obj, crds, cr, cache, queue, failed, known>>

(* addFinalizers: the API server accepts no finalizer on a resource that   *)
(* is being deleted, nor any update of one that is gone.                   *)
addFinalizers ==
  /\ pc = "addfinalizer"
  /\ LET ok    == cr.exists /\ cr = copy /\ ~cr.deleting
         added == [cr EXCEPT !.mine = TRUE]
     IN \/ copy.mine /\ NoFault /\ Goto("provision") /\ UNCHANGED <<cr, failed>>
        \/ /\ ~copy.mine /\ NoFault /\ ok
           /\ cr' = added /\ copy' = added
           /\ pc' = "provision" /\ UNCHANGED <<queue, failed, known>>
        \/ ~copy.mine /\ ((NoFault /\ ~ok) \/ Fault) /\ cr' = cr /\ Fail
        \/ ~copy.mine /\ Fault /\ ok /\ cr' = added /\ Fail
  /\ UNCHANGED <<obj, crds, cache>>

(* The pipeline of Reconcile creates what the enabled operators need: the  *)
(* OSL stage, the Knative stage, the RHDH stage.                           *)
Wanted == (IF "osl" \in Installs THEN {"osl", "sfcp", "sfp"} ELSE {})
          \union (IF "knative" \in Installs THEN {"knative", "eventing", "serving"} ELSE {})
          \union (IF "rhdh" \in Installs THEN {"rhdhop", "backstage"} ELSE {})

Position == [osl |-> 1, sfcp |-> 2, sfp |-> 3, knative |-> 4, eventing |-> 5,
             serving |-> 6, rhdhop |-> 7, backstage |-> 8, rhdh |-> 9]

Reached(o) ==
  /\ \A e \in Wanted : Position[e] < Position[o] => obj[e] # "absent"
  /\ o \in {"sfp", "sfcp"} => "sonataflow" \in crds
  /\ o = "backstage" => "backstage" \in crds /\ obj["rhdh"] \in {"plain", "labelled"}

Provision ==
  /\ pc = "provision"
  /\ \E o \in Wanted :
       /\ Reached(o)
       /\ \/ /\ cache.obj[o] = "absent" /\ obj[o] = "absent"
             /\ obj' = [obj EXCEPT ![o] = "labelled"]
          \/ /\ o \in Namespaces /\ cache.obj[o] = "plain" /\ obj[o] = "plain"
             /\ obj' = [obj EXCEPT ![o] = "labelled"]
  /\ UNCHANGED <<crds, cr, cache, queue, pc, copy, failed, known, faults>>

(* The pass ends: completed, or with an error that requeues.               *)
ProvisionEnd ==
  /\ pc = "provision"
  /\ Return
  /\ queue' \in {queue, TRUE}
  /\ UNCHANGED <<obj, crds, cr, cache, faults>>

Worker ==
  \/ ReconcileStart
  \/ Reconcile
  \/ HandleKnativeCleanUp
  \/ handleServerlessLogicCleanUp
  \/ HandleRHDHCleanUp
  \/ RemoveFinalizer
  \/ addFinalizers
  \/ ProvisionEnd

-----------------------------------------------------------------------------
(* The environment.  A user deletes the resource.                          *)
DeleteOrchestrator ==
  /\ cr.exists /\ ~cr.deleting
  /\ cr' = Released([cr EXCEPT !.deleting = TRUE])
  /\ UNCHANGED <<obj, crds, cache, queue, pc, copy, failed, known, faults>>

(* Somebody else's finalizer goes once the resource is being deleted.      *)
OtherFinalizerRemoved ==
  /\ cr.exists /\ cr.deleting /\ cr.others
  /\ cr' = Released([cr EXCEPT !.others = FALSE])
  /\ UNCHANGED <<obj, crds, cache, queue, pc, copy, failed, known, faults>>

(* The informers, one per kind, catch up; a change of the Orchestrator     *)
(* resource, and the periodic resync, put it in the work queue (during a   *)
(* call the resync counts at its end).                                     *)
Kinds == {Namespaces} \union {{o} : o \in Operands}

SyncObjects ==
  /\ \E kind \in Kinds :
       /\ \E o \in kind : cache.obj[o] # obj[o]
       /\ cache' = [cache EXCEPT !.obj =
            [o \in Objects |-> IF o \in kind THEN obj[o] ELSE cache.obj[o]]]
  /\ UNCHANGED <<obj, crds, cr, queue, pc, copy, failed, known, faults>>

SyncResource ==
  /\ cache.cr # cr
  /\ cache' = [cache EXCEPT !.cr = cr]
  /\ queue' = TRUE
  /\ UNCHANGED <<obj, crds, cr, pc, copy, failed, known, faults>>

Resync ==
  /\ cache.cr.exists /\ pc = "idle"
  /\ queue' = TRUE
  /\ UNCHANGED <<obj, crds, cr, cache, pc, copy, failed, known, faults>>

Restart ==
  /\ Fault
  /\ Return
  /\ cache' = [obj |-> obj, cr |-> cr]
  /\ queue' = cr.exists
  /\ UNCHANGED <<obj, crds, cr>>

(* The namespace controller finishes with a namespace; a Backstage         *)
(* resource goes with spec.rhdh.namespace.                                 *)
NamespaceGone(n) ==
  /\ obj[n] = "terminating"
  /\ obj' = [o \in Objects |->
       IF o = n \/ (n = "rhdh" /\ o = "backstage") THEN "absent" ELSE obj[o]]
  /\ UNCHANGED <<crds, cr, cache, queue, pc, copy, failed, known, faults>>

(* The OSL operator, as long as its namespace is there, finishes with an   *)
(* operand that is being deleted.                                          *)
OperandGone(o) ==
  /\ obj[o] = "terminating" /\ obj["osl"] # "absent"
  /\ obj' = [obj EXCEPT ![o] = "absent"]
  /\ UNCHANGED <<crds, cr, cache, queue, pc, copy, failed, known, faults>>

(* OLM installs an operator, and with it the CRDs of its operands.         *)
OLMInstall ==
  /\ \/ obj["osl"] = "labelled" /\ crds' = crds \union {"sonataflow"}
     \/ obj["rhdhop"] = "labelled" /\ crds' = crds \union {"backstage"}
  /\ crds' # crds
  /\ UNCHANGED <<obj, cr, cache, queue, pc, copy, failed, known, faults>>

Cluster ==
  \/ OtherFinalizerRemoved
  \/ SyncObjects
  \/ SyncResource
  \/ \E n \in Namespaces : NamespaceGone(n)
  \/ \E o \in {"sfp", "sfcp"} : OperandGone(o)
  \/ OLMInstall

Environment == DeleteOrchestrator \/ Resync \/ Restart \/ Cluster

-----------------------------------------------------------------------------
Next == Worker \/ Provision \/ Environment

(***************************************************************************)
(* The worker is scheduled; informers, OLM, the namespace controller and   *)
(* the owner of the other finalizer do their work until there is none      *)
(* left.                                                                   *)
(***************************************************************************)
Fairness == WF_vars(Worker) /\ WF_vars(Cluster)

Spec == Init /\ [][Next]_vars /\ Fairness

-----------------------------------------------------------------------------
(***************************************************************************)
(* Nothing is created on behalf of a resource that could vanish without a  *)
(* clean up: whenever the pipeline runs, the finalizer is on the resource  *)
(* in the API server, not only on the worker's copy.                       *)
(***************************************************************************)
FinalizerBeforeProvision == pc = "provision" => cr.exists /\ cr.mine

(***************************************************************************)
(* The finalizer goes only after a pass of handleCleanUp that succeeded    *)
(* from end to end: of the labelled objects the informers showed when that *)
(* pass began, the Knative namespaces, the OSL namespace and the           *)
(* SonataFlow resources are asked to go, whatever calls failed and         *)
(* whenever the process restarted before.  (RHDH is the subject of         *)
(* RHDHOperatorRemoved.)                                                   *)
(***************************************************************************)
ReleaseAfterCleanUp ==
  cr.mine /\ ~cr'.mine => \A o \in known \intersect MustGo : obj[o] # "labelled"
CleanUpBeforeRelease == [][ReleaseAfterCleanUp]_vars

(***************************************************************************)
(* The OSL operator's namespace is deleted only when the deletion of every *)
(* SonataFlow resource known at the beginning of the pass has been         *)
(* accepted, even if removing one of them failed (handleRemovalOfOSLCRs    *)
(* collects the errors before it returns them).  The code does not wait    *)
(* for their end: the operator may be gone before it has dealt with their  *)
(* finalizers, and they are then left terminating.                         *)
(***************************************************************************)
OperatorAfterOperands ==
  obj["osl"] = "labelled" /\ obj'["osl"] = "terminating" =>
    \A o \in known \intersect {"sfp", "sfcp"} : obj[o] # "labelled"
OperandsBeforeOperator == [][OperatorAfterOperands]_vars

(***************************************************************************)
(* A deletion completes once the CRDs of the operands are there, in spite  *)
(* of failed calls, restarts, stale caches and finalizers of others.       *)
(***************************************************************************)
DeletionCompletesWithCRDs == (cr.deleting /\ crds = CrdKinds) ~> ~cr.exists

(***************************************************************************)
(* docs/main/README.md promises the removal without a condition: a         *)
(* deletion completes.                                                     *)
(***************************************************************************)
DeletionCompletes == cr.deleting ~> ~cr.exists

(***************************************************************************)
(* docs/main/README.md: deleting the Orchestrator CR "will remove the OSL, *)
(* Serverless and RHDH Operators, Sonataflow CRs".  For RHDH: a labelled   *)
(* operator namespace that the clean up could see is not left behind.      *)
(***************************************************************************)
RHDHReleased ==
  cr.mine /\ ~cr'.mine /\ "rhdhop" \in known => obj["rhdhop"] # "labelled"
RHDHOperatorRemoved == [][RHDHReleased]_vars

(***************************************************************************)
(* The clean up, call by call, implements FinalizerContract, of everything *)
(* that must go: the phase is that of the finalizer in the API server, and *)
(* what is due is what the cache showed and nobody has asked to go yet.    *)
(***************************************************************************)
Phase ==
  IF cr.mine THEN IF pc \in CleanUpSteps THEN "cleaning" ELSE "held"
  ELSE IF cr.deleting THEN "released" ELSE "new"
There == {o \in MustGo : obj[o] = "labelled"}
Due   == IF Phase = "cleaning" THEN known \intersect There ELSE {}

Contract == INSTANCE FinalizerContract
            WITH Things <- MustGo, Operator <- "osl", Operated <- {"sfp", "sfcp"},
                 phase <- Phase, made <- There, due <- Due
ImplementsContract == Contract!Spec

(***************************************************************************)
(* No deletion and no new resource is ever left half way: when the worker  *)
(* rests, has nothing queued and has heard of the last change, the         *)
(* resource bears the finalizer exactly if it is not being deleted,        *)
(* whatever calls failed, whenever the user deleted it, and whoever else   *)
(* held on to it.                                                          *)
(***************************************************************************)
RestsSettled ==
  pc = "idle" /\ ~queue /\ cache.cr = cr /\ cr.exists => (cr.mine <=> ~cr.deleting)

-----------------------------------------------------------------------------
(***************************************************************************)
(* The strengthenings by which the safety properties are inductive (proved *)
(* in CleanUpProofs).                                                      *)
(***************************************************************************)
(* The cache may be behind, but not so far as to show the finalizer on a   *)
(* resource that is not being deleted when the worker has removed it: that *)
(* took a pass that saw the deletion.                                      *)
FinalizerInv ==
  /\ FinalizerBeforeProvision
  /\ pc = "addfinalizer" /\ copy.mine => cr.exists /\ cr.mine
  /\ cache.cr.exists /\ ~cache.cr.deleting /\ cache.cr.mine => cr.exists /\ cr.mine
  /\ pc \in CleanUpSteps => copy.deleting /\ cache.cr.deleting
  /\ cache.cr.deleting => cr.deleting

(* What is still to be done for the resource is queued, in hand, or in an  *)
(* event on its way.                                                       *)
AttendedInv ==
  /\ cr.exists /\ cr.deleting /\ cr.mine =>
       queue \/ pc \in {"get"} \union CleanUpSteps \/ cache.cr # cr
  /\ cr.exists /\ ~cr.deleting /\ ~cr.mine =>
       queue \/ pc \in {"get", "addfinalizer"} \/ cache.cr # cr
  /\ cr.others /\ cache.cr.exists => cache.cr.others

(* A labelled object known at the beginning of the clean up either is      *)
(* still labelled in the cache too, or its step is over and its deletion   *)
(* accepted.                                                               *)
Cleaned(o, steps) == pc \in steps /\ o \in known => obj[o] # "labelled"

CleanUpInv ==
  /\ pc \in CleanUpSteps =>
       \A o \in known \intersect MustGo : obj[o] = "labelled" => cache.obj[o] = "labelled"
  /\ Cleaned("eventing", CleanUpSteps \ {"eventing"})
  /\ Cleaned("serving", CleanUpSteps \ {"eventing", "serving"})
  /\ Cleaned("knative", CleanUpSteps \ {"eventing", "serving", "knative"})
  /\ failed \/ Cleaned("sfp", {"sfcp"})
  /\ \A o \in {"sfp", "sfcp"} :
       Cleaned(o, {"osl", "rhdhcheck", "rhdhlist", "rhdh", "rhdhop", "release"})
  /\ Cleaned("osl", {"rhdhcheck", "rhdhlist", "rhdh", "rhdhop", "release"})
=============================================================================
