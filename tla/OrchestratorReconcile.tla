------------------------ MODULE OrchestratorReconcile ------------------------
(***************************************************************************)
(* One pass after another of Reconcile over an Orchestrator resource that  *)
(* is not being deleted: the finalizer, the status, and the five stages    *)
(* (OSL, Knative, RHDH, network policies, GitOps) with the objects each    *)
(* creates.  The installation of the operators themselves, one call here,  *)
(* is OperatorInstall; the deletion of the resource is CleanUp.            *)
(*   orchestrator_controller.go, sonataflow.go, knative/knative.go,        *)
(*   rhdh/backstage.go, network_policy.go, gitops/                         *)
(*                                                                         *)
(* Get reads the informer cache, which lags; Create, Update and Delete go  *)
(* to the API server.  No one but this worker creates or deletes these     *)
(* objects, so a Get and the Create or Update it leads to are one step.    *)
(* Writes of the resource are refused unless the worker's copy is of the   *)
(* latest version.                                                         *)
(***************************************************************************)
EXTENDS Naturals

CONSTANTS
  Starts,     \* specs of a new resource, and what is there already
  Changes,    \* changes of the spec that users make: pairs of specs
  MaxFaults,  \* bound on failed calls and restarts of the process
  MaxEdits    \* bound on changes of the spec

(* spec: installOperator of the three operators, ArgoCD and Tekton both    *)
(* enabled, monitoring enabled.                                            *)
SpecType == [osl: BOOLEAN, knative: BOOLEAN, rhdh: BOOLEAN, gitops: BOOLEAN,
             monitoring: BOOLEAN]

ASSUME ChangesAssumption == Changes \subseteq SpecType \X SpecType

(* The loops over the policies, the config maps and the tasks treat all    *)
(* members alike, monitoring's policy apart: two of each stand for them.   *)
NetworkPoliciesList == {"np-intra", "np-monitoring"}
ConfigMaps     == {"cm-app", "cm-plugins"}
tektonTaskList == {"task-git", "task-build"}
OSLObjects     == {"wfns", "sfcp", "sfp"}
KnativeObjects == {"evns", "eventing", "svns", "serving"}
RHDHObjects    == {"secret", "backstage"} \union ConfigMaps
GitOpsObjects  == {"appproject", "pipeline"} \union tektonTaskList
Objects == OSLObjects \union KnativeObjects \union RHDHObjects
           \union NetworkPoliciesList \union GitOpsObjects

(* What is there already: objects that others made under the same names,   *)
(* and objects left from an earlier resource.                              *)
StartType == [spec: SpecType, others: SUBSET Objects, ours: SUBSET Objects]

ASSUME StartsAssumption == Starts \subseteq StartType
ASSUME BoundsAssumption == MaxFaults \in Nat /\ MaxEdits \in Nat

(* What must come from elsewhere: the operators' CRDs, and two namespaces  *)
(* the code does not create.                                               *)
Prerequisites == {"sonataflow", "knative", "rhdh", "argocd", "tekton", "rhdhns", "gitopsns"}

VARIABLES
  obj,        \* the objects in the API server
  seen,       \* the informers' copies of them
  prereq,     \* the prerequisites that are there
  cr,         \* the Orchestrator resource
  crSeen,     \* the informer's copy of it
  current,    \* crSeen is of the latest version
  queue,      \* the resource is in the work queue
  pc,         \* where the worker is
  copy,       \* the worker's orchestrator object
  fresh,      \* copy is of the latest version
  stage,      \* the stage that failed
  todo,       \* what is left of the loop in progress
  errs,       \* calls that failed in the present handler (history)
  allErrors,  \* the package variable of network_policy.go: policies in it
  faults,
  edits

world    == <<obj, prereq>>
resource == <<cr, crSeen, current>>
locals   == <<copy, fresh, stage, todo, errs>>
vars == <<world, seen, resource, queue, pc, locals, allErrors, faults, edits>>

ObjStates == {"absent", "other", "adopted", "ours"}
Stages    == {"none", "osl", "knative", "rhdh", "networkpolicy", "gitops"}
StatusType == [phase: {"none", "Running", "Completed", "Failed"},
               available: BOOLEAN, completed: BOOLEAN, degrading: Stages]
(* The phase "none" is the empty one, of a resource without a status yet.  *)
CrType == [spec: SpecType, finalizer: BOOLEAN, status: StatusType]
Steps == {"idle", "get", "finalizer", "status", "refetch", "wfns", "oslop", "oslcrd",
          "sfcp", "sfp", "knop", "evcrd", "evns", "eventing", "svcrd", "svns",
          "serving", "rhdhop", "domain", "secret", "cm", "rhdhcrd", "backstage",
          "npns", "np", "argocrd", "appproject", "taskcrd", "tasks", "pipecrd",
          "pipeline", "cleanproject", "cleanpipeline", "cleantasks", "completed",
          "failed"}

(***************************************************************************)
(* Type correctness of the model.                                          *)
(***************************************************************************)
TypeOK ==
  /\ obj \in [Objects -> ObjStates]
  /\ seen \in [Objects -> ObjStates]
  /\ prereq \subseteq Prerequisites
  /\ cr \in CrType /\ crSeen \in CrType /\ copy \in CrType
  /\ current \in BOOLEAN /\ fresh \in BOOLEAN /\ queue \in BOOLEAN
  /\ pc \in Steps
  /\ stage \in Stages
  /\ todo \subseteq Objects /\ errs \subseteq Objects /\ allErrors \subseteq Objects
  /\ faults \in 0..MaxFaults /\ edits \in 0..MaxEdits

-----------------------------------------------------------------------------
NoStatus == [phase |-> "none", available |-> FALSE, completed |-> FALSE, degrading |-> "none"]
NoSpec   == [osl |-> FALSE, knative |-> FALSE, rhdh |-> FALSE, gitops |-> FALSE,
             monitoring |-> FALSE]
NoCopy   == [spec |-> NoSpec, finalizer |-> FALSE, status |-> NoStatus]

Init ==
  /\ \E start \in Starts :
       /\ obj = [o \in Objects |-> IF o \in start.others THEN "other"
                                   ELSE IF o \in start.ours THEN "ours" ELSE "absent"]
       /\ cr = [spec |-> start.spec, finalizer |-> FALSE, status |-> NoStatus]
  /\ seen = obj
  /\ prereq = {}
  /\ crSeen = cr
  /\ current = TRUE
  /\ queue = TRUE
  /\ pc = "idle"
  /\ copy = NoCopy /\ fresh = FALSE
  /\ stage = "none" /\ todo = {} /\ errs = {}
  /\ allErrors = {}
  /\ faults = 0 /\ edits = 0

Fault   == faults < MaxFaults /\ faults' = faults + 1
NoFault == UNCHANGED faults

(* The worker goes on to another step of the pass.                         *)
Goto(step)  == pc' = step /\ UNCHANGED <<queue, locals>>
Loop(step, set) == pc' = step /\ todo' = set /\ errs' = {}
                   /\ UNCHANGED <<queue, copy, fresh, stage>>

(* Reconcile returns; its locals end.                                      *)
EndPass == /\ pc' = "idle"
           /\ copy' = NoCopy /\ fresh' = FALSE
           /\ stage' = "none" /\ todo' = {} /\ errs' = {}
(* Mutant: the error of a stage ends the work.                             *)
Requeue_Never == EndPass /\ UNCHANGED queue

Done    == EndPass /\ UNCHANGED queue
Requeue == EndPass /\ queue' = TRUE

(* Mutant: the kind of the error is taken for the reason of the condition. *)
FailIn_Kind(s) == pc' = "failed" /\ stage' = "error" /\ UNCHANGED <<queue, copy, fresh, todo, errs>>

(* Reconcile on the error of a stage: IsNotFound (and for RHDH NoMatch)    *)
(* requeues at once, other errors go into the status before.               *)
FailIn(s) == pc' = "failed" /\ stage' = s /\ UNCHANGED <<queue, copy, fresh, todo, errs>>
OnError(s, error) == IF error = "notfound" THEN Requeue ELSE FailIn(s)

-----------------------------------------------------------------------------
(* The worker takes the request.                                           *)
ReconcileStart ==
  /\ queue /\ pc = "idle"
  /\ queue' = FALSE /\ pc' = "get"
  /\ UNCHANGED <<world, seen, resource, locals, allErrors, faults, edits>>

(* Reconcile reads the resource, from the cache.                           *)
Reconcile ==
  /\ pc = "get"
  /\ \/ /\ NoFault
        /\ copy' = crSeen /\ fresh' = current
        /\ pc' = "finalizer"
        /\ UNCHANGED <<queue, stage, todo, errs>>
     \/ Fault /\ Requeue
  /\ UNCHANGED <<world, seen, resource, allErrors, edits>>

(* Mutant: the update of the status ignores the version of the copy.       *)
UpdateResource_Unconditional(r, ok) ==
  \/ NoFault /\ ok /\ cr' = r /\ current' = (current /\ r = cr)
  \/ Fault /\ ~ok /\ UNCHANGED <<cr, current>>
  \/ Fault /\ ~ok /\ cr' = r /\ current' = (current /\ r = cr)

(* A write of the resource: whether it succeeds.  A write that changes     *)
(* nothing makes no new version.                                           *)
UpdateResource(r, ok) ==
  \/ /\ NoFault /\ ok /\ fresh
     /\ cr' = r /\ current' = (current /\ r = cr)
  \/ /\ (NoFault /\ ~fresh) \/ Fault
     /\ ~ok /\ UNCHANGED <<cr, current>>
  \/ /\ Fault /\ ~ok /\ fresh                     \* done, but the answer is lost
     /\ cr' = r /\ current' = (current /\ r = cr)

addFinalizers ==
  /\ pc = "finalizer"
  /\ \/ copy.finalizer /\ NoFault /\ Goto("status") /\ UNCHANGED <<cr, current>>
     \/ /\ ~copy.finalizer
        /\ LET r == [copy EXCEPT !.finalizer = TRUE] IN
             \E ok \in BOOLEAN :
               /\ UpdateResource(r, ok)
               /\ IF ok THEN /\ copy' = r /\ pc' = "status"
                             /\ UNCHANGED <<queue, fresh, stage, todo, errs>>
                        ELSE Requeue
  /\ UNCHANGED <<world, seen, crSeen, allErrors, edits>>

(* Mutant: UpdateStatus makes the list of conditions anew.                 *)
Status_Anew(s, condition) ==
  CASE condition = "Available" -> [NoStatus EXCEPT !.phase = "Running", !.available = TRUE]
    [] condition = "Completed" -> [NoStatus EXCEPT !.phase = "Completed", !.completed = TRUE]
    [] condition = "Degrading" -> [NoStatus EXCEPT !.phase = "Failed", !.degrading = stage]

(* UpdateStatus sets one condition and leaves the others.                  *)
Status(s, condition) ==
  CASE condition = "Available" -> [s EXCEPT !.phase = "Running", !.available = TRUE]
    [] condition = "Completed" -> [s EXCEPT !.phase = "Completed", !.completed = TRUE]
    [] condition = "Degrading" -> [s EXCEPT !.phase = "Failed", !.degrading = stage]

UpdateStatus(condition, ok) ==
  UpdateResource([copy EXCEPT !.status = Status(@, condition)], ok)

(* The first stage to run from a given one on.                             *)
FromNetworkPolicy == "npns"
FromRHDH    == IF copy.spec.rhdh THEN "rhdhop" ELSE FromNetworkPolicy
FromKnative == IF copy.spec.knative THEN "knop" ELSE FromRHDH
FromOSL     == IF copy.spec.osl THEN "wfns" ELSE FromKnative

(* With no condition yet the status becomes Running, and the resource is   *)
(* read again.                                                             *)
HasConditions(s) == s.available \/ s.completed \/ s.degrading # "none"

initializeStatus ==
  /\ pc = "status"
  /\ \/ /\ HasConditions(copy.status)
        /\ NoFault /\ Goto(FromOSL) /\ UNCHANGED <<cr, current>>
     \/ /\ ~HasConditions(copy.status)
        /\ \E ok \in BOOLEAN :
             /\ UpdateStatus("Available", ok)
             /\ IF ok THEN Goto("refetch") ELSE Requeue
  /\ UNCHANGED <<world, seen, crSeen, allErrors, edits>>

refetchResource ==
  /\ pc = "refetch"
  /\ \/ /\ NoFault
        /\ copy' = crSeen /\ fresh' = current
        /\ pc' = FromOSL'
        /\ UNCHANGED <<queue, stage, todo, errs>>
     \/ Fault /\ Requeue
  /\ UNCHANGED <<world, seen, resource, allErrors, edits>>

(* The status of a failed pass, whose own failure is ignored.              *)
FailedStatus ==
  /\ pc = "failed"
  /\ \E ok \in BOOLEAN : UpdateStatus("Degrading", ok)
  /\ Requeue
  /\ UNCHANGED <<world, seen, crSeen, allErrors, edits>>

(* The end of a complete pass; a failure to write the status is ignored    *)
(* here too, and nothing is requeued.                                      *)
CompletedStatus ==
  /\ pc = "completed"
  /\ \E ok \in BOOLEAN : UpdateStatus("Completed", ok)
  /\ Done
  /\ UNCHANGED <<world, seen, crSeen, allErrors, edits>>

-----------------------------------------------------------------------------
(* Calls on objects.  Where an object can be created.                      *)
Place(o) ==
  /\ o \in {"sfp"} \union NetworkPoliciesList => obj["wfns"] # "absent"
  /\ o = "eventing" => obj["evns"] # "absent"
  /\ o = "serving"  => obj["svns"] # "absent"
  /\ o \in RHDHObjects   => "rhdhns" \in prereq
  /\ o \in GitOpsObjects => "gitopsns" \in prereq

Made(o) == [obj EXCEPT ![o] = "ours"]

(* A Create and its answer.                                                *)
Create(o, answer) ==
  \/ /\ NoFault /\ obj[o] = "absent" /\ Place(o)
     /\ answer = "ok" /\ obj' = Made(o)
  \/ /\ NoFault /\ obj[o] = "absent" /\ ~Place(o)
     /\ answer = "notfound" /\ UNCHANGED obj
  \/ /\ (NoFault /\ obj[o] # "absent") \/ Fault
     /\ answer = "error" /\ UNCHANGED obj
  \/ /\ Fault /\ obj[o] = "absent" /\ Place(o)
     /\ answer = "error" /\ obj' = Made(o)
Answers == {"ok", "notfound", "error"}

(* Mutant: an error of the Create is logged only.                          *)
GetOrCreate_Logged(o, next, s) ==
  /\ pc = o
  /\ \/ NoFault /\ seen[o] # "absent" /\ UNCHANGED obj /\ Goto(next)
     \/ seen[o] = "absent" /\ (\E answer \in Answers : Create(o, answer)) /\ Goto(next)
  /\ UNCHANGED <<prereq, seen, resource, allErrors, edits>>

(* Get, and Create if it is not found: sfcp, sfp, secret, backstage.       *)
GetOrCreate(o, next, s) ==
  /\ pc = o
  /\ \/ NoFault /\ seen[o] # "absent" /\ UNCHANGED obj /\ Goto(next)
     \/ Fault /\ UNCHANGED obj /\ FailIn(s)
     \/ /\ seen[o] = "absent"
        /\ \E answer \in Answers :
             /\ Create(o, answer)
             /\ IF answer = "ok" THEN Goto(next) ELSE OnError(s, answer)
  /\ UNCHANGED <<prereq, seen, resource, allErrors, edits>>

(* A call that only fails by a fault: the installation of an operator, the *)
(* cluster's domain.                                                       *)
Call(from, next, s) ==
  /\ pc = from
  /\ \/ NoFault /\ Goto(next)
     \/ Fault /\ \E error \in Answers \ {"ok"} : OnError(s, error)
  /\ UNCHANGED <<world, seen, resource, allErrors, edits>>

(* kube.CheckCRDExists.                                                    *)
CheckCRDExists(from, crd, next, s) ==
  /\ pc = from
  /\ \/ NoFault /\ crd \in prereq /\ Goto(next)
     \/ NoFault /\ crd \notin prereq /\ Requeue
     \/ Fault /\ FailIn(s)
  /\ UNCHANGED <<world, seen, resource, allErrors, edits>>

-----------------------------------------------------------------------------
(* reconcileServerlessLogic makes the workflow namespace first, and        *)
(* returns the NotFound of its Get even when the Create succeeds.          *)
workflowNamespace ==
  /\ pc = "wfns"
  /\ \/ NoFault /\ seen["wfns"] # "absent" /\ UNCHANGED obj /\ Goto("oslop")
     \/ Fault /\ UNCHANGED obj /\ FailIn("osl")
     \/ /\ seen["wfns"] = "absent"
        /\ \E answer \in Answers :
             /\ Create("wfns", answer)
             /\ IF answer = "ok" THEN Requeue ELSE OnError("osl", answer)
  /\ UNCHANGED <<prereq, seen, resource, allErrors, edits>>

reconcileServerlessLogic ==
  \/ workflowNamespace
  \/ Call("oslop", "oslcrd", "osl")
  \/ CheckCRDExists("oslcrd", "sonataflow", "sfcp", "osl")
  \/ GetOrCreate("sfcp", "sfp", "osl")
  \/ GetOrCreate("sfp", FromKnative, "osl")

(* Knative: whatever the error of the Get, the namespace is created.       *)
KnativeNamespace(o, next) ==
  /\ pc = o
  /\ \/ NoFault /\ seen[o] # "absent" /\ UNCHANGED obj /\ Goto(next)
     \/ Fault /\ obj[o] = "absent" /\ obj' = Made(o) /\ Goto(next)
     \/ Fault /\ obj[o] # "absent" /\ UNCHANGED obj /\ FailIn("knative")
     \/ /\ seen[o] = "absent"
        /\ \E answer \in Answers :
             /\ Create(o, answer)
             /\ IF answer = "ok" THEN Goto(next) ELSE OnError("knative", answer)
  /\ UNCHANGED <<prereq, seen, resource, allErrors, edits>>

(* HandleKnativeEventingCR, HandleKnativeServingCR: an error of the Create *)
(* is logged and nil returned.                                             *)
KnativeResource(o, next) ==
  /\ pc = o
  /\ \/ NoFault /\ seen[o] # "absent" /\ UNCHANGED obj /\ Goto(next)
     \/ Fault /\ UNCHANGED obj /\ FailIn("knative")
     \/ seen[o] = "absent" /\ (\E answer \in Answers : Create(o, answer)) /\ Goto(next)
  /\ UNCHANGED <<prereq, seen, resource, allErrors, edits>>

reconcileKnative ==
  \/ Call("knop", "evcrd", "knative")
  \/ CheckCRDExists("evcrd", "knative", "evns", "knative")
  \/ KnativeNamespace("evns", "eventing")
  \/ KnativeResource("eventing", "svcrd")
  \/ CheckCRDExists("svcrd", "knative", "svns", "knative")
  \/ KnativeNamespace("svns", "serving")
  \/ KnativeResource("serving", FromRHDH)

(* GetOrCreateConfigMaps: a Get that fails otherwise than by NotFound      *)
(* leaves the config map out; a Create that fails ends the loop.           *)
GetOrCreateConfigMaps ==
  /\ pc = "cm"
  /\ \/ todo = {} /\ NoFault /\ UNCHANGED obj /\ Goto("rhdhcrd")
     \/ \E o \in todo :
          \/ /\ (NoFault /\ seen[o] # "absent") \/ Fault
             /\ UNCHANGED obj /\ todo' = todo \ {o}
             /\ UNCHANGED <<queue, pc, copy, fresh, stage, errs>>
          \/ /\ seen[o] = "absent"
             /\ \E answer \in Answers :
                  /\ Create(o, answer)
                  /\ IF answer = "ok"
                     THEN todo' = todo \ {o} /\ UNCHANGED <<queue, pc, copy, fresh, stage, errs>>
                     ELSE OnError("rhdh", answer)
  /\ UNCHANGED <<prereq, seen, resource, allErrors, edits>>

(* CreateRHDHSecret, and on to the loop over the config maps.              *)
CreateRHDHSecret ==
  /\ pc = "secret"
  /\ \/ NoFault /\ seen["secret"] # "absent" /\ UNCHANGED obj /\ Loop("cm", ConfigMaps)
     \/ Fault /\ UNCHANGED obj /\ FailIn("rhdh")
     \/ /\ seen["secret"] = "absent"
        /\ \E answer \in Answers :
             /\ Create("secret", answer)
             /\ IF answer = "ok" THEN Loop("cm", ConfigMaps) ELSE OnError("rhdh", answer)
  /\ UNCHANGED <<prereq, seen, resource, allErrors, edits>>

reconcileRHDH ==
  \/ Call("rhdhop", "domain", "rhdh")
  \/ Call("domain", "secret", "rhdh")
  \/ CreateRHDHSecret
  \/ GetOrCreateConfigMaps
  \/ CheckCRDExists("rhdhcrd", "rhdh", "backstage", "rhdh")
  \/ GetOrCreate("backstage", FromNetworkPolicy, "rhdh")

-----------------------------------------------------------------------------
(* Get, Create if it is not found, Update if the spec is another one.      *)
(* Whether an error occurred, and which.                                   *)
GetCreateOrUpdate(o, answer) ==
  \/ NoFault /\ seen[o] \in {"adopted", "ours"} /\ answer = "ok" /\ UNCHANGED obj
  \/ seen[o] = "absent" /\ Create(o, answer)
  \/ /\ NoFault /\ seen[o] = "other" /\ obj[o] = "other"
     /\ answer = "ok" /\ obj' = [obj EXCEPT ![o] = "adopted"]
  \/ /\ NoFault /\ seen[o] = "other" /\ obj[o] # "other"    \* conflict
     /\ answer = "error" /\ UNCHANGED obj
  \/ Fault /\ seen[o] # "absent" /\ answer = "error" /\ UNCHANGED obj

SelectedPolicies ==
  IF copy.spec.monitoring THEN NetworkPoliciesList ELSE NetworkPoliciesList \ {"np-monitoring"}

networkPolicyNamespace ==
  /\ pc = "npns"
  /\ \/ NoFault /\ seen["wfns"] # "absent" /\ Loop("np", SelectedPolicies)
     \/ NoFault /\ seen["wfns"] = "absent" /\ Requeue
     \/ Fault /\ FailIn("networkpolicy")
  /\ UNCHANGED <<world, seen, resource, allErrors, edits>>

(* handleNetworkPolicy collects the errors in a package variable, which    *)
(* nothing empties.                                                        *)
handleNetworkPolicy ==
  /\ pc = "np"
  /\ \E o \in todo, answer \in Answers :
       /\ GetCreateOrUpdate(o, answer)
       /\ todo' = todo \ {o}
       /\ IF answer = "ok"
          THEN UNCHANGED <<errs, allErrors>>
          ELSE errs' = errs \union {o} /\ allErrors' = allErrors \union {o}
  /\ UNCHANGED <<prereq, seen, resource, queue, pc, copy, fresh, stage, edits>>

(* The policies are done: any error it holds fails the pass.               *)
networkPolicyResult ==
  /\ pc = "np" /\ todo = {}
  /\ NoFault
  /\ IF allErrors # {} THEN FailIn("networkpolicy")
     ELSE Loop(IF copy.spec.gitops THEN "argocrd" ELSE "cleanproject", {})
  /\ UNCHANGED <<world, seen, resource, allErrors, edits>>

reconcileNetworkPolicy ==
  networkPolicyNamespace \/ handleNetworkPolicy \/ networkPolicyResult

-----------------------------------------------------------------------------
handleArgoCDProject ==
  /\ pc = "appproject"
  /\ \E answer \in Answers :
       /\ GetCreateOrUpdate("appproject", answer)
       /\ IF answer = "ok" THEN Goto("taskcrd") ELSE OnError("gitops", answer)
  /\ UNCHANGED <<prereq, seen, resource, allErrors, edits>>

taskCRD ==
  /\ pc = "taskcrd"
  /\ \/ NoFault /\ "tekton" \in prereq /\ Loop("tasks", tektonTaskList)
     \/ NoFault /\ "tekton" \notin prereq /\ Requeue
     \/ Fault /\ FailIn("gitops")
  /\ UNCHANGED <<world, seen, resource, allErrors, edits>>

(* HandleTektonTasks: a Get that fails otherwise than by NotFound is       *)
(* passed over.                                                            *)
HandleTektonTasks ==
  /\ pc = "tasks"
  /\ \/ todo = {} /\ NoFault /\ UNCHANGED obj /\ Goto("pipecrd")
     \/ \E o \in todo :
          /\ \/ NoFault /\ seen[o] # "absent" /\ UNCHANGED <<obj, errs>>
             \/ Fault /\ UNCHANGED obj /\ errs' = errs \union {o}
             \/ seen[o] = "absent" /\ Create(o, "ok") /\ UNCHANGED errs
          /\ todo' = todo \ {o}
          /\ UNCHANGED <<queue, pc, copy, fresh, stage>>
     \/ \E o \in todo, answer \in Answers \ {"ok"} :
          seen[o] = "absent" /\ Create(o, answer) /\ OnError("gitops", answer)
  /\ UNCHANGED <<prereq, seen, resource, allErrors, edits>>

(* HandleTektonPipeline returns the NotFound of its Get even when the      *)
(* Create succeeds.                                                        *)
HandleTektonPipeline ==
  /\ pc = "pipeline"
  /\ \/ NoFault /\ seen["pipeline"] # "absent" /\ UNCHANGED obj /\ Goto("completed")
     \/ Fault /\ UNCHANGED obj /\ FailIn("gitops")
     \/ /\ seen["pipeline"] = "absent"
        /\ \E answer \in Answers :
             /\ Create("pipeline", answer)
             /\ IF answer = "ok" THEN Requeue ELSE OnError("gitops", answer)
  /\ UNCHANGED <<prereq, seen, resource, allErrors, edits>>

HandleGitOps ==
  \/ CheckCRDExists("argocrd", "argocd", "appproject", "gitops")
  \/ handleArgoCDProject
  \/ taskCRD
  \/ HandleTektonTasks
  \/ CheckCRDExists("pipecrd", "tekton", "pipeline", "gitops")
  \/ HandleTektonPipeline

(* handleArgoCDProjectCleanUp, handleTektonPipelineCleanUp: the object is  *)
(* deleted if it is the operator's; errors of the namespace and of the     *)
(* List are taken for nothing to do.                                       *)
Listed(o) == "gitopsns" \in prereq /\ seen[o] = "ours"

CleanUpOne(from, o, next, left) ==
  /\ pc = from
  /\ \/ ((NoFault /\ ~Listed(o)) \/ Fault) /\ UNCHANGED obj /\ Loop(next, left)
     \/ /\ NoFault /\ Listed(o) /\ obj[o] = "ours"
        /\ obj' = [obj EXCEPT ![o] = "absent"]
        /\ Loop(next, left)
     \/ NoFault /\ Listed(o) /\ obj[o] # "ours" /\ UNCHANGED obj /\ Requeue
     \/ Fault /\ Listed(o) /\ UNCHANGED obj /\ FailIn("gitops")
  /\ UNCHANGED <<prereq, seen, resource, allErrors, edits>>

(* handleTektonTaskCleanUp: the error of a Delete is passed over.          *)
handleTektonTaskCleanUp ==
  /\ pc = "cleantasks"
  /\ \/ todo = {} /\ NoFault /\ UNCHANGED obj /\ Goto("completed")
     \/ \E o \in todo :
          /\ \/ NoFault /\ obj' = IF Listed(o) THEN [obj EXCEPT ![o] = "absent"] ELSE obj
             \/ Fault /\ UNCHANGED obj
          /\ todo' = todo \ {o}
          /\ UNCHANGED <<queue, pc, copy, fresh, stage, errs>>
  /\ UNCHANGED <<prereq, seen, resource, allErrors, edits>>

HandleGitOpsCleanUp ==
  \/ CleanUpOne("cleanproject", "appproject", "cleanpipeline", {})
  \/ CleanUpOne("cleanpipeline", "pipeline", "cleantasks", tektonTaskList)
  \/ handleTektonTaskCleanUp

Worker ==
  \/ ReconcileStart
  \/ Reconcile
  \/ addFinalizers
  \/ initializeStatus
  \/ refetchResource
  \/ reconcileServerlessLogic
  \/ reconcileKnative
  \/ reconcileRHDH
  \/ reconcileNetworkPolicy
  \/ HandleGitOps
  \/ HandleGitOpsCleanUp
  \/ FailedStatus
  \/ CompletedStatus

-----------------------------------------------------------------------------
(* The environment.  The informers catch up, one kind at a time.           *)
Kinds == {{"wfns", "evns", "svns"}, {"sfcp"}, {"sfp"}, {"eventing"}, {"serving"},
          {"secret"}, ConfigMaps, {"backstage"}, NetworkPoliciesList,
          {"appproject"}, {"pipeline"}, tektonTaskList}

SyncObjects ==
  /\ \E kind \in Kinds :
       /\ \E o \in kind : seen[o] # obj[o]
       /\ seen' = [o \in Objects |-> IF o \in kind THEN obj[o] ELSE seen[o]]
  /\ UNCHANGED <<world, resource, queue, pc, locals, allErrors, faults, edits>>

(* Mutant: only changes of the spec are listened to (a generation          *)
(* predicate).                                                             *)
SyncResource_GenerationChanged ==
  /\ ~current
  /\ crSeen' = cr /\ current' = TRUE
  /\ queue' = (queue \/ cr.spec # crSeen.spec)
  /\ UNCHANGED <<world, seen, cr, pc, locals, allErrors, faults, edits>>

(* A new version of the resource, of its status too, puts it in the queue. *)
SyncResource ==
  /\ ~current
  /\ crSeen' = cr /\ current' = TRUE
  /\ queue' = TRUE
  /\ UNCHANGED <<world, seen, cr, pc, locals, allErrors, faults, edits>>

Restart ==
  /\ Fault
  /\ EndPass
  /\ queue' = TRUE
  /\ seen' = obj
  /\ crSeen' = cr /\ current' = TRUE
  /\ allErrors' = {}
  /\ UNCHANGED <<world, cr, edits>>

(* OLM or the administrator provides what the code waits for.              *)
Needed(s) ==
  (IF s.osl THEN {"sonataflow"} ELSE {}) \union (IF s.knative THEN {"knative"} ELSE {})
  \union (IF s.rhdh THEN {"rhdh", "rhdhns"} ELSE {})
  \union (IF s.gitops THEN {"argocd", "tekton", "gitopsns"} ELSE {})

Provide ==
  /\ \E p \in Needed(cr.spec) \ prereq : prereq' = prereq \union {p}
  /\ UNCHANGED <<obj, seen, resource, queue, pc, locals, allErrors, faults, edits>>

EditSpec ==
  /\ edits < MaxEdits /\ edits' = edits + 1
  /\ \E change \in Changes :
       change[1] = cr.spec /\ cr' = [cr EXCEPT !.spec = change[2]]
  /\ current' = FALSE /\ fresh' = FALSE
  /\ UNCHANGED <<world, seen, crSeen, queue, pc, copy, stage, todo, errs, allErrors, faults>>

(* The other worker, busy with another resource, writes its errors into    *)
(* the same allErrors.                                                     *)
OtherWorkerFails ==
  /\ Fault
  /\ \E o \in NetworkPoliciesList : allErrors' = allErrors \union {o}
  /\ UNCHANGED <<world, seen, resource, queue, pc, locals, edits>>

(* The informers catch up, and what is missing is provided.                *)
Cluster == SyncObjects \/ SyncResource \/ Provide

Environment == Cluster \/ Restart \/ OtherWorkerFails \/ EditSpec

Next == Worker \/ Environment

(***************************************************************************)
(* The worker is scheduled, the informers catch up, and what the code      *)
(* waits for is provided.                                                  *)
(***************************************************************************)
Fairness == WF_vars(Worker) /\ WF_vars(Cluster)

Spec == Init /\ [][Next]_vars /\ Fairness

-----------------------------------------------------------------------------
(* What a spec asks for.                                                   *)
Wanted(s) ==
  (IF s.osl THEN OSLObjects ELSE {}) \union (IF s.knative THEN KnativeObjects ELSE {})
  \union (IF s.rhdh THEN RHDHObjects ELSE {}) \union (IF s.gitops THEN GitOpsObjects ELSE {})
  \union (IF s.monitoring THEN NetworkPoliciesList ELSE NetworkPoliciesList \ {"np-monitoring"})

(* The objects of which the code passes over an error.                     *)
ErrorsPassedOver == {"eventing", "serving"} \union ConfigMaps \union tektonTaskList

Fulfilled(o) == IF o \in NetworkPoliciesList \union {"appproject"}
                THEN obj[o] \in {"adopted", "ours"} ELSE obj[o] # "absent"

Earned(o) == \/ Fulfilled(o)
             \/ o \in ErrorsPassedOver /\ faults > 0
             \/ o \in GitOpsObjects /\ edits > 0

(***************************************************************************)
(* A pass that ends as completed leaves every object of its spec in place, *)
(* with the right spec where the code compares it, although each Get may   *)
(* have been answered from a stale cache and objects that others made are  *)
(* met.  Under faults this holds of the objects whose errors the code      *)
(* returns.  (After a change of the spec a GitOps object may be taken from *)
(* the cache that the clean up before it has deleted.)                     *)
(***************************************************************************)
CompletedIsEarned ==
  pc = "completed" => \A o \in Wanted(copy.spec) : Earned(o)

(***************************************************************************)
(* The conditions of the status are never lost: no write starts from a     *)
(* stale copy, of which Reconcile has several (the Get from the cache, and *)
(* the second one right after a write).  In particular Running is not      *)
(* published over an outcome.                                              *)
(***************************************************************************)
StatusGrows ==
  LET old == cr.status  new == cr'.status IN
    /\ old.available => new.available
    /\ old.completed => new.completed
    /\ old.degrading # "none" => new.degrading # "none"
    /\ new.phase = "Running" => old.phase \in {"none", "Running"}
StatusNeverForgotten == [][StatusGrows]_vars

(***************************************************************************)
(* No resource is forgotten: when the worker has nothing left to do for it *)
(* and the informer nothing to tell, every object of its spec is in place  *)
(* and its status says so, whatever failed, was stale or changed on the    *)
(* way.  (The update of the status may fail in silence by a fault.)  Each  *)
(* way out of a pass but the last one puts the request back, and that one  *)
(* may trust that a pass over an old version is followed by another.       *)
(***************************************************************************)
Resting == pc = "idle" /\ ~queue /\ current
RestsWhenDone ==
  Resting => /\ \A o \in Wanted(cr.spec) : Earned(o)
             /\ cr.status.phase = "Completed" \/ faults > 0

(***************************************************************************)
(* The objects of the last spec are all made in the end and stay, in spite *)
(* of a failed call, a restart, stale caches and late CRDs: each error     *)
(* that is returned brings the request back.  GitOps, the last stage, is   *)
(* not reached while allErrors holds an error.                             *)
(***************************************************************************)
ObjectsConverge ==
  <>[] \A o \in Wanted(cr.spec) :
         \/ Fulfilled(o)
         \/ o \in ErrorsPassedOver /\ faults > 0
         \/ o \in GitOpsObjects /\ (allErrors # {} \/ edits > 0)

(***************************************************************************)
(* Without faults the status is Completed in the end and stays so, unless  *)
(* a network policy ran into a stale cache: the update of the status is    *)
(* ignored when it fails, but then another version of the resource is on   *)
(* its way to the informer and brings the request back.                    *)
(***************************************************************************)
StatusConverges ==
  <>[](cr.status.phase = "Completed" \/ allErrors # {} \/ faults > 0)

(***************************************************************************)
(* network_policy.go: handleNetworkPolicy "returns an error if any occurs  *)
(* during retrieval, creation or reconciliation": what it returns are the  *)
(* errors of this call.                                                    *)
(***************************************************************************)
NetworkPolicyErrorsAreCurrent == pc = "np" /\ todo = {} => allErrors \subseteq errs

(***************************************************************************)
(* gitops.go: HandleGitOps "returns an error if any occurs during          *)
(* retrieval, creation or reconciliation": it does not return nil after    *)
(* an error.                                                               *)
(***************************************************************************)
GitOpsErrorsReturned == pc = "completed" => errs = {}

(***************************************************************************)
(* The passes implement StatusContract: whatever copies of the resource    *)
(* the worker writes back, and whatever it finds in stale caches, the      *)
(* resource in the API server tells of finalizer, phase, conditions and    *)
(* the objects that are missing what StatusContract promises.  In          *)
(* particular Completed is published only while the objects of the spec in *)
(* the API server are in place, and Degrading names a stage it enables.    *)
(***************************************************************************)
Enabled(s) ==
  {"networkpolicy", "gitops"} \union (IF s.osl THEN {"osl"} ELSE {})
  \union (IF s.knative THEN {"knative"} ELSE {}) \union (IF s.rhdh THEN {"rhdh"} ELSE {})
Reports(s) == (IF s.available THEN {"Available"} ELSE {})
              \union (IF s.completed THEN {"Completed"} ELSE {})
Missing == {o \in Wanted(cr.spec) : ~Earned(o)}

Contract == INSTANCE StatusContract
            WITH Stages <- Stages \ {"none"}, None <- "none", Things <- Objects,
                 finalizer <- cr.finalizer, phase <- cr.status.phase,
                 reports <- Reports(cr.status), degrading <- cr.status.degrading,
                 enabled <- Enabled(cr.spec), asked <- Wanted(cr.spec),
                 missing <- Missing
ImplementsStatus == Contract!Spec

-----------------------------------------------------------------------------
(***************************************************************************)
(* The strengthenings by which the safety properties are inductive (proved *)
(* in OrchestratorReconcileProofs).                                        *)
(***************************************************************************)
(* A copy that is not stale is the resource, but for the moment between    *)
(* the first write of the status and the second Get.                       *)
VersionInv ==
  /\ current => crSeen = cr
  /\ fresh /\ pc # "refetch" => copy = cr
  /\ pc = "failed" => stage # "none"
  /\ cr.status.phase = "Completed" => cr.status.completed
  /\ cr.status.phase = "Failed" => cr.status.degrading # "none"

(* As long as the spec was not changed, every copy has the same.           *)
SpecInv ==
  edits = 0 => /\ crSeen.spec = cr.spec
               /\ pc \notin {"idle", "get"} => copy.spec = cr.spec

(* An object the cache shows has not gone: only GitOps objects are ever    *)
(* deleted, while the spec has GitOps disabled.                            *)
Lasting(o) == o \notin GitOpsObjects \/ (edits = 0 /\ cr.spec.gitops)

SeenInv ==
  \A o \in Objects : Lasting(o) =>
    /\ seen[o] # "absent" => obj[o] # "absent"
    /\ seen[o] \in {"adopted", "ours"} => obj[o] \in {"adopted", "ours"}

(* The steps of a pass that come after an object's own.                    *)
AfterTasks    == {"pipecrd", "pipeline", "completed"}
AfterProject  == {"taskcrd", "tasks"} \union AfterTasks
CleanSteps    == {"cleanproject", "cleanpipeline", "cleantasks"}
AfterPolicies == {"argocrd", "appproject"} \union CleanSteps \union AfterProject
AfterRHDH     == {"npns", "np"} \union AfterPolicies
AfterMaps     == {"rhdhcrd", "backstage"} \union AfterRHDH
AfterSecret   == {"cm"} \union AfterMaps
AfterServing  == {"rhdhop", "domain", "secret"} \union AfterSecret
AfterSvns     == {"serving"} \union AfterServing
AfterEventing == {"svcrd", "svns"} \union AfterSvns
AfterEvns     == {"eventing"} \union AfterEventing
AfterSfp      == {"knop", "evcrd", "evns"} \union AfterEvns
AfterSfcp     == {"sfp"} \union AfterSfp
AfterWfns     == {"oslop", "oslcrd", "sfcp"} \union AfterSfcp

After(o) ==
  CASE o = "wfns"       -> AfterWfns
    [] o = "sfcp"       -> AfterSfcp
    [] o = "sfp"        -> AfterSfp
    [] o = "evns"       -> AfterEvns
    [] o = "eventing"   -> AfterEventing
    [] o = "svns"       -> AfterSvns
    [] o = "serving"    -> AfterServing
    [] o = "secret"     -> AfterSecret
    [] o \in ConfigMaps -> AfterMaps
    [] o = "backstage"  -> AfterRHDH
    [] o \in NetworkPoliciesList -> AfterPolicies
    [] o = "appproject" -> AfterProject
    [] o \in tektonTaskList -> AfterTasks
    [] o = "pipeline"   -> {"completed"}

(* In a loop, what is not left to do is done.                              *)
LoopInv ==
  /\ pc = "cm" => todo \subseteq ConfigMaps /\ \A o \in ConfigMaps \ todo : Earned(o)
  /\ pc = "tasks" => /\ todo \subseteq tektonTaskList
                     /\ \A o \in tektonTaskList \ todo : Earned(o)
  /\ pc = "np" => /\ todo \subseteq NetworkPoliciesList
                  /\ allErrors # {} \/ \A o \in SelectedPolicies \ todo : Earned(o)
  /\ pc = "cleantasks" => todo \subseteq tektonTaskList

(* The resources of Knative are created in namespaces that are there.      *)
PlaceInv == pc \in {"eventing", "serving"} => Place(pc)

(* The two branches of reconcileGitOps.                                    *)
GitOpsSteps == {"argocrd", "appproject", "taskcrd", "tasks", "pipecrd", "pipeline"}
BranchInv == /\ pc \in GitOpsSteps => copy.spec.gitops
             /\ pc \in CleanSteps => ~copy.spec.gitops

EarnedInv ==
  /\ SpecInv /\ SeenInv /\ LoopInv /\ PlaceInv /\ BranchInv
  /\ \A o \in Wanted(copy.spec) : pc \in After(o) => Earned(o)

(* A pass over a version that is not the latest is not the last one.       *)
RestInv ==
  /\ pc \notin {"idle", "get"} => fresh \/ ~current \/ queue
  /\ RestsWhenDone

(* What the steps passed have written is in the resource for good, and a   *)
(* stage that fails is one that the copy of the resource enables.          *)
OSLSteps     == {"wfns", "oslop", "oslcrd", "sfcp", "sfp"}
KnativeSteps == {"knop", "evcrd", "evns", "eventing", "svcrd", "svns", "serving"}
RHDHSteps    == {"rhdhop", "domain", "secret", "cm", "rhdhcrd", "backstage"}
BeforeRun    == {"idle", "get", "finalizer", "status"}

StageInv ==
  /\ pc \in OSLSteps => copy.spec.osl
  /\ pc \in KnativeSteps => copy.spec.knative
  /\ pc \in RHDHSteps => copy.spec.rhdh
  /\ pc = "failed" => stage \in Enabled(copy.spec)

StatusInv ==
  /\ \A r \in {cr, crSeen, copy} :
       /\ r.finalizer => cr.finalizer
       /\ HasConditions(r.status) => cr.status.available
  /\ pc \notin {"idle", "get", "finalizer"} => cr.finalizer
  /\ pc \notin BeforeRun => cr.status.available
  /\ cr.status.available <=> cr.status.phase # "none"
=============================================================================
