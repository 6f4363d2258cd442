-------------------------- MODULE OperatorInstall --------------------------
(***************************************************************************)
(* The installation of one dependent operator (OpenShift Serverless Logic, *)
(* OpenShift Serverless / Knative, or Red Hat Developer Hub) through an    *)
(* OLM Subscription, at the granularity of single API calls:               *)
(*   sonataflow.go      handleServerlessLogicOperatorInstallation          *)
(*   knative/knative.go HandleKNativeOperatorInstallation                  *)
(*   rhdh/backstage.go  HandleRHDHOperatorInstallation                     *)
(* with the helpers of kube/kube_operations.go they share.  The three      *)
(* bodies differ only in how they treat the operator namespace; Flow says  *)
(* which one is modelled.                                                  *)
(*                                                                         *)
(* The procedure is run by the reconcile workers, one per Orchestrator     *)
(* resource, and, for the first two operators, by the goroutine of the     *)
(* Subscription watch (reconcileSubscription).  They interleave freely.    *)
(* Reads through client.Client come from the informer cache, which lags    *)
(* the API server; Subscriptions are read from the API server.  OLM, the   *)
(* namespace controller and the cluster's users are the environment.       *)
(***************************************************************************)
EXTENDS Naturals

CONSTANTS
  Workers,    \* one reconcile worker per Orchestrator resource
  Watch,      \* the goroutine that delivers Subscription events
  Flow,       \* which of the three installation procedures
  PlanIds,    \* names of InstallPlans; OLM never uses one twice
  NoPlan,     \* Status.InstallPlanRef = nil
  CrdAtStart, \* the CRDs of the operator survive from an earlier installation
  Upgrades,   \* the catalog offers a newer CSV after the installation
  MaxFaults,  \* bound on transient API failures and restarts of the process
  MaxEdits,   \* bound on the number of user edits
  MaxEvents,  \* bound on faults and edits together
  UserEdits   \* the edits users make: "spec", "delete", "approve", "namespace"

Starting == "starting"   \* the startingCSV of the Subscription
Newer    == "newer"      \* a CSV that a catalog update offers later
NoCSV    == "none"
CSVs     == {Starting, Newer, NoCSV}

Actors == Workers \union {Watch}

ASSUME ActorsAssumption == Watch \notin Workers
ASSUME PlanAssumption   == NoPlan \notin PlanIds
ASSUME FlowAssumption   == Flow \in {"osl", "knative", "rhdh"}
ASSUME BoundsAssumption == /\ CrdAtStart \in BOOLEAN
                           /\ Upgrades \in BOOLEAN
                           /\ MaxFaults \in Nat
                           /\ MaxEdits \in Nat
                           /\ MaxEvents \in Nat

VARIABLES
  ns,        \* the operator namespace
  og,        \* the OperatorGroup exists
  sub,       \* the Subscription
  rev,       \* the resourceVersion of the latest write of the Subscription
  plans,     \* the InstallPlans
  crd,       \* the CRDs of the operator exist
  installed, \* OLM has carried out an InstallPlan of the present Subscription
  cache,     \* the informers' copies of ns, og and plans
  pc,        \* where each actor is
  snap,      \* each actor's existingSubscription
  queue,     \* workers with a request in the work queue
  event,     \* a Subscription event waits for the watch
  faults,    \* faults so far
  edits,     \* user edits so far
  deleted    \* history: the namespace has been deleted

cluster == <<ns, og, sub, rev, plans, crd, installed>>
control == <<pc, snap, queue>>
vars == <<cluster, cache, control, event, faults, edits, deleted>>

NsStates == {"absent", "plain", "labelled", "terminating"}
Subs  == [exists: BOOLEAN, labelled: BOOLEAN, spec: {"desired", "drifted"},
          plan: PlanIds \union {NoPlan}, csv: CSVs, rv: Nat]
Plans == [st: {"unused", "new", "referenced", "gone"}, csv: CSVs,
          by: {"nobody", "operator", "other"}]
Steps == {"idle", "done", "ns", "label", "createns", "sub", "group",
          "creategroup", "createsub", "updatesub", "plan", "approve", "crd"}

NoSub  == [exists |-> FALSE, labelled |-> FALSE, spec |-> "desired",
           plan |-> NoPlan, csv |-> NoCSV, rv |-> 0]
Unused == [st |-> "unused", csv |-> NoCSV, by |-> "nobody"]

(* What a Get of an InstallPlan tells ApproveInstallPlan.                  *)
PlanViews == {"missing", "open", "approved"}
PlanView  == [p \in PlanIds |->
  IF plans[p].st \in {"unused", "gone"} THEN "missing"
  ELSE IF plans[p].by = "nobody" THEN "open" ELSE "approved"]

(***************************************************************************)
(* Type correctness of the model.                                          *)
(***************************************************************************)
TypeOK ==
  /\ ns \in NsStates
  /\ og \in BOOLEAN
  /\ sub \in Subs
  /\ rev \in Nat
  /\ plans \in [PlanIds -> Plans]
  /\ crd \in BOOLEAN
  /\ installed \in BOOLEAN
  /\ cache \in [ns: NsStates, og: BOOLEAN, plans: [PlanIds -> PlanViews]]
  /\ pc \in [Actors -> Steps]
  /\ snap \in [Actors -> Subs]
  /\ queue \in SUBSET Workers
  /\ event \in BOOLEAN
  /\ faults \in 0..MaxFaults
  /\ edits \in 0..MaxEdits
  /\ deleted \in BOOLEAN

-----------------------------------------------------------------------------
(***************************************************************************)
(* Initially every Orchestrator resource is queued by the informer's first *)
(* list, and the caches are in sync.  The operator namespace may have been *)
(* made by a user, without the orchestrator's label, and may already hold  *)
(* the user's own Subscription.                                            *)
(***************************************************************************)
UserSub == [NoSub EXCEPT !.exists = TRUE, !.spec = "drifted"]

Init ==
  /\ \/ ns \in {"absent", "plain"} /\ og = FALSE /\ sub = NoSub
     \/ ns = "plain" /\ og = TRUE /\ sub = UserSub
  /\ rev = 0
  /\ plans = [p \in PlanIds |-> Unused]
  /\ crd = CrdAtStart
  /\ installed = FALSE
  /\ cache = [ns |-> ns, og |-> og, plans |-> PlanView]
  /\ pc = [a \in Actors |-> "idle"]
  /\ snap = [a \in Actors |-> NoSub]
  /\ queue = Workers
  /\ event = FALSE
  /\ faults = 0
  /\ edits = 0
  /\ deleted = FALSE

(***************************************************************************)
(* What a call may meet, and where an actor goes next.                     *)
(***************************************************************************)
MayHappen == faults + edits < MaxEvents
Fault   == faults < MaxFaults /\ MayHappen /\ faults' = faults + 1
NoFault == UNCHANGED faults

Goto(a, step) == pc' = [pc EXCEPT ![a] = step] /\ UNCHANGED <<snap, queue>>

Forget(a) == snap' = [snap EXCEPT ![a] = NoSub]   \* the locals of a call end

(* Mutants: the watch requeues its own key; an error is not retried.       *)
ReturnErr_RequeueWatch(a) ==
  /\ pc' = [pc EXCEPT ![a] = "idle"]
  /\ queue' = queue \union {a}
  /\ Forget(a)

ReturnErr_NoRequeue(a) ==
  /\ pc' = [pc EXCEPT ![a] = "idle"]
  /\ UNCHANGED queue
  /\ Forget(a)

(* The procedure returns a non-nil error.  Reconcile requeues the request, *)
(* after a minute when IsNotFound(err) and rate limited otherwise; the     *)
(* watch's map function drops the error and with it the event.             *)
ReturnErr(a) ==
  /\ pc' = [pc EXCEPT ![a] = "idle"]
  /\ queue' = IF a = Watch THEN queue ELSE queue \union {a}
  /\ Forget(a)

(* The procedure returns nil: the worker goes on to look up the CRDs.      *)
ReturnNil(a) ==
  /\ pc' = [pc EXCEPT ![a] = IF a = Watch THEN "idle" ELSE "crd"]
  /\ Forget(a)
  /\ UNCHANGED queue

(* A write of the Subscription: a new resourceVersion, and an event for    *)
(* the watch, whose filter passes labelled Subscriptions only.             *)
WriteSub(s) ==
  /\ rev' = rev + 1
  /\ sub' = [s EXCEPT !.rv = rev + 1]
  /\ event' = (event \/ s.labelled)

(* A Subscription and everything it owns is deleted.                       *)
DropSub ==
  /\ sub' = NoSub
  /\ event' = (event \/ sub.labelled)
  /\ plans' = [p \in PlanIds |-> IF plans[p].st = "unused" THEN plans[p]
                                 ELSE [plans[p] EXCEPT !.st = "gone"]]

Writable == ns \in {"plain", "labelled"}   \* objects can be created in ns

-----------------------------------------------------------------------------
(* A worker takes its request from the work queue.                         *)
ReconcileStart(w) ==
  /\ w \in queue
  /\ pc[w] \in {"idle", "done"}
  /\ pc' = [pc EXCEPT ![w] = "ns"]
  /\ queue' = queue \ {w}
  /\ UNCHANGED <<cluster, cache, snap, event, faults, edits, deleted>>

(* The watch delivers an event.  reconcileSubscription compares namespace  *)
(* and name with those of OSL and Knative; the RHDH Subscription is not    *)
(* among them.                                                             *)
reconcileSubscription ==
  /\ event
  /\ pc[Watch] = "idle"
  /\ event' = FALSE
  /\ Goto(Watch, IF Flow = "rhdh" THEN "idle" ELSE "ns")
  /\ UNCHANGED <<cluster, cache, faults, edits, deleted>>

(* How the three procedures go on when the check of the namespace fails    *)
(* (other than by NotFound), and after a Create that succeeds or fails.    *)
(* OSL and RHDH return the error of the check even after a successful      *)
(* Create, and return nil after a failed one; Knative forgets the former.  *)
handleServerlessLogicOperatorInstallation(a, outcome) ==
  \/ outcome \in {"unknown", "created"} /\ ReturnErr(a)
  \/ outcome = "notcreated" /\ ReturnNil(a)

(* Mutant: the failed Create of the namespace is swallowed here too.       *)
HandleKNativeOperatorInstallation_Swallow(a, outcome) ==
  \/ outcome \in {"unknown", "created"} /\ Goto(a, "sub")
  \/ outcome = "notcreated" /\ ReturnNil(a)

HandleKNativeOperatorInstallation(a, outcome) ==
  \/ outcome \in {"unknown", "created"} /\ Goto(a, "sub")
  \/ outcome = "notcreated" /\ ReturnErr(a)

HandleRHDHOperatorInstallation(a, outcome) ==
  \/ outcome \in {"unknown", "created"} /\ ReturnErr(a)
  \/ outcome = "notcreated" /\ ReturnNil(a)

AfterNamespace(a, outcome) ==
  \/ Flow = "osl" /\ handleServerlessLogicOperatorInstallation(a, outcome)
  \/ Flow = "knative" /\ HandleKNativeOperatorInstallation(a, outcome)
  \/ Flow = "rhdh" /\ HandleRHDHOperatorInstallation(a, outcome)

(* Mutant: a namespace that exists is not labelled.                        *)
CheckNamespaceExist_NoLabel(a) ==
  /\ pc[a] = "ns"
  /\ \/ NoFault /\ Goto(a, IF cache.ns = "absent" THEN "createns" ELSE "sub")
     \/ Fault /\ AfterNamespace(a, "unknown")
  /\ UNCHANGED <<cluster, cache, event, edits, deleted>>

(* Mutant: the namespace is assumed to be there.                           *)
CheckNamespaceExist_Assume(a) ==
  /\ pc[a] = "ns"
  /\ NoFault /\ Goto(a, "sub")
  /\ UNCHANGED <<cluster, cache, event, edits, deleted>>

(* kube.CheckNamespaceExist: the Get, from the cache.                      *)
CheckNamespaceExist(a) ==
  /\ pc[a] = "ns"
  /\ \/ /\ NoFault
        /\ \/ cache.ns = "absent" /\ Goto(a, "createns")
           \/ cache.ns = "plain" /\ Goto(a, "label")
           \/ cache.ns \in {"labelled", "terminating"} /\ Goto(a, "sub")
     \/ Fault /\ AfterNamespace(a, "unknown")
  /\ UNCHANGED <<cluster, cache, event, edits, deleted>>

(* kube.updateNamespaceLabel: an error, a conflict among them, is logged   *)
(* and forgotten.                                                          *)
updateNamespaceLabel(a) ==
  /\ pc[a] = "label"
  /\ \/ NoFault /\ ns' = IF ns = "plain" THEN "labelled" ELSE ns
     \/ Fault /\ ns' = ns
  /\ Goto(a, "sub")
  /\ UNCHANGED <<og, sub, rev, plans, crd, installed, cache, event, edits, deleted>>

(* kube.CreateNamespace.                                                   *)
CreateNamespace(a) ==
  /\ pc[a] = "createns"
  /\ \/ /\ NoFault /\ ns = "absent"
        /\ ns' = "labelled"
        /\ AfterNamespace(a, "created")
     \/ /\ (NoFault /\ ns # "absent") \/ Fault
        /\ ns' = ns
        /\ AfterNamespace(a, "notcreated")
  /\ UNCHANGED <<og, sub, rev, plans, crd, installed, cache, event, edits, deleted>>

(* Mutant: the CSV is not compared.                                        *)
NeedsApproval_AnyCSV(s) == s.plan # NoPlan

(* The condition of the approval: Status.InstallPlanRef # nil and          *)
(* Status.CurrentCSV equal to the starting CSV.                            *)
NeedsApproval(s) == s.plan # NoPlan /\ s.csv = Starting

(* Go on with the approval of the InstallPlan the snapshot names.          *)
GotoApproval(a, s) ==
  \/ /\ NeedsApproval(s)
     /\ pc' = [pc EXCEPT ![a] = "plan"]
     /\ snap' = [snap EXCEPT ![a] = s]
     /\ UNCHANGED queue
  \/ ~NeedsApproval(s) /\ ReturnNil(a)

(* Mutant: the spec of an existing Subscription is not compared.           *)
CheckSubscriptionExists_NoCompare(a) ==
  /\ pc[a] = "sub"
  /\ \/ NoFault /\ ~sub.exists /\ Goto(a, "group")
     \/ NoFault /\ sub.exists /\ GotoApproval(a, sub)
     \/ Fault /\ ReturnErr(a)
  /\ UNCHANGED <<cluster, cache, event, edits, deleted>>

(* kube.CheckSubscriptionExists, read from the API server, and the         *)
(* comparison of the specs.                                                *)
CheckSubscriptionExists(a) ==
  /\ pc[a] = "sub"
  /\ \/ NoFault /\ ~sub.exists /\ Goto(a, "group")
     \/ /\ NoFault /\ sub.exists /\ sub.spec = "drifted"
        /\ pc' = [pc EXCEPT ![a] = "updatesub"]
        /\ snap' = [snap EXCEPT ![a] = sub]
        /\ UNCHANGED queue
     \/ NoFault /\ sub.exists /\ sub.spec = "desired" /\ GotoApproval(a, sub)
     \/ Fault /\ ReturnErr(a)
  /\ UNCHANGED <<cluster, cache, event, edits, deleted>>

(* Mutant: the OperatorGroup is assumed to be there.                       *)
getOperatorGroup_Assume(a) ==
  /\ pc[a] = "group"
  /\ NoFault /\ Goto(a, "createsub")
  /\ UNCHANGED <<cluster, cache, event, edits, deleted>>

(* kube.getOperatorGroup: any error of the Get leads to the Create.        *)
getOperatorGroup(a) ==
  /\ pc[a] = "group"
  /\ \/ NoFault /\ Goto(a, IF cache.og THEN "createsub" ELSE "creategroup")
     \/ Fault /\ Goto(a, "creategroup")
  /\ UNCHANGED <<cluster, cache, event, edits, deleted>>

createOperatorGroup(a) ==
  /\ pc[a] = "creategroup"
  /\ \/ /\ NoFault /\ ~og /\ Writable
        /\ og' = TRUE
        /\ Goto(a, "createsub")
     \/ /\ (NoFault /\ (og \/ ~Writable)) \/ Fault
        /\ og' = og
        /\ ReturnErr(a)
  /\ UNCHANGED <<ns, sub, rev, plans, crd, installed, cache, event, edits, deleted>>

(* The Create of kube.InstallSubscriptionAndOperatorGroup.  The snapshot   *)
(* stays the empty one, so that no InstallPlan is approved in this pass.   *)
createSubscription(a) ==
  /\ pc[a] = "createsub"
  /\ \/ /\ NoFault /\ ~sub.exists /\ Writable
        /\ WriteSub([NoSub EXCEPT !.exists = TRUE, !.labelled = TRUE])
        /\ ReturnNil(a)
     \/ /\ (NoFault /\ (sub.exists \/ ~Writable)) \/ Fault
        /\ UNCHANGED <<sub, rev, event>>
        /\ ReturnErr(a)
  /\ UNCHANGED <<ns, og, plans, crd, installed, cache, edits, deleted>>

(* The Update that puts the desired spec back; it fails with a conflict    *)
(* when the Subscription was written or deleted since the snapshot.  The   *)
(* status the actor goes on with is that of the snapshot.                  *)
updateSubscription(a) ==
  /\ pc[a] = "updatesub"
  /\ \/ /\ NoFault /\ sub.exists /\ sub.rv = snap[a].rv
        /\ WriteSub([sub EXCEPT !.spec = "desired"])
        /\ GotoApproval(a, snap[a])
     \/ /\ (NoFault /\ ~(sub.exists /\ sub.rv = snap[a].rv)) \/ Fault
        /\ UNCHANGED <<sub, rev, event>>
        /\ ReturnErr(a)
  /\ UNCHANGED <<ns, og, plans, crd, installed, cache, edits, deleted>>

(* kube.ApproveInstallPlan: the Get by name, from the cache.               *)
getInstallPlan(a) ==
  /\ pc[a] = "plan"
  /\ LET seen == cache.plans[snap[a].plan] IN
       \/ NoFault /\ seen = "open" /\ Goto(a, "approve")
       \/ NoFault /\ seen = "approved" /\ ReturnNil(a)
       \/ ((NoFault /\ seen = "missing") \/ Fault) /\ ReturnErr(a)
  /\ UNCHANGED <<cluster, cache, event, edits, deleted>>

(* kube.ApproveInstallPlan: the Update.                                    *)
ApproveInstallPlan(a) ==
  /\ pc[a] = "approve"
  /\ LET p    == snap[a].plan
         open == PlanView[p] = "open"
     IN \/ /\ NoFault /\ open
           /\ plans' = [plans EXCEPT ![p].by = "operator"]
           /\ ReturnNil(a)
        \/ /\ (NoFault /\ ~open) \/ Fault
           /\ UNCHANGED plans
           /\ ReturnErr(a)
  /\ UNCHANGED <<ns, og, sub, rev, crd, installed, cache, event, edits, deleted>>

(* The worker's look at the CRDs: without them it returns NotFound and is  *)
(* requeued, with them the stage is complete and nothing requeues it.      *)
CheckCRDExists(w) ==
  /\ pc[w] = "crd"
  /\ \/ NoFault /\ crd /\ Goto(w, "done")
     \/ ((NoFault /\ ~crd) \/ Fault) /\ ReturnErr(w)
  /\ UNCHANGED <<cluster, cache, event, edits, deleted>>

ActorStep(a) ==
  \/ CheckNamespaceExist(a)
  \/ updateNamespaceLabel(a)
  \/ CreateNamespace(a)
  \/ CheckSubscriptionExists(a)
  \/ getOperatorGroup(a)
  \/ createOperatorGroup(a)
  \/ createSubscription(a)
  \/ updateSubscription(a)
  \/ getInstallPlan(a)
  \/ ApproveInstallPlan(a)

-----------------------------------------------------------------------------
(* The environment.  An informer catches up with one kind of object.       *)
SyncNamespace == cache.ns # ns /\ cache' = [cache EXCEPT !.ns = ns]
SyncGroup     == cache.og # og /\ cache' = [cache EXCEPT !.og = og]
SyncPlans     == cache.plans # PlanView /\ cache' = [cache EXCEPT !.plans = PlanView]
CacheSync ==
  /\ SyncNamespace \/ SyncGroup \/ SyncPlans
  /\ UNCHANGED <<cluster, control, event, faults, edits, deleted>>

(* The informers' periodic resync, or a change of the Orchestrator         *)
(* resource, brings a worker back.  The work queue keeps a request that    *)
(* comes during a pass until its end, as if it had come then.              *)
Resync(w) ==
  /\ pc[w] \in {"idle", "done"}
  /\ queue' = queue \union {w}
  /\ UNCHANGED <<cluster, cache, pc, snap, event, faults, edits, deleted>>

(* The process dies and comes back: the work in progress is lost, the      *)
(* informers list everything anew.                                         *)
Restart ==
  /\ Fault
  /\ pc' = [a \in Actors |-> "idle"]
  /\ snap' = [a \in Actors |-> NoSub]
  /\ queue' = Workers
  /\ event' = (sub.exists /\ sub.labelled)
  /\ cache' = [ns |-> ns, og |-> og, plans |-> PlanView]
  /\ UNCHANGED <<cluster, edits, deleted>>

(* OLM resolves the Subscription into an InstallPlan: for the starting CSV *)
(* first, for a newer one once the operator is installed.  When a user has *)
(* made the approval automatic, OLM approves the plan itself.  Which of    *)
(* the unused names it takes makes no difference.                          *)
OLMCreatePlan ==
  /\ sub.exists /\ og /\ ns # "terminating"
  /\ \A p \in PlanIds : plans[p].st # "new"
  /\ sub.plan = NoPlan \/ (installed /\ Upgrades)
  /\ \E p \in PlanIds :
       /\ plans[p].st = "unused"
       /\ p = CHOOSE q \in PlanIds : plans[q].st = "unused"
       /\ plans' = [plans EXCEPT ![p] =
            [st  |-> "new",
             csv |-> IF installed THEN Newer ELSE Starting,
             by  |-> IF sub.spec = "drifted" THEN "other" ELSE "nobody"]]
  /\ UNCHANGED <<ns, og, sub, rev, crd, installed, cache, control, event, faults, edits, deleted>>

(* OLM names the plan, and the CSV it leads to, in the Subscription.       *)
OLMUpdateStatus ==
  /\ sub.exists
  /\ \E p \in PlanIds :
       /\ plans[p].st = "new"
       /\ plans' = [plans EXCEPT ![p].st = "referenced"]
       /\ WriteSub([sub EXCEPT !.plan = p, !.csv = plans[p].csv])
  /\ UNCHANGED <<ns, og, crd, installed, cache, control, faults, edits, deleted>>

(* OLM carries out the approved plan the Subscription names.               *)
OLMInstall ==
  /\ sub.exists /\ sub.plan # NoPlan /\ ~installed
  /\ plans[sub.plan].by # "nobody"
  /\ installed' = TRUE
  /\ crd' = TRUE
  /\ UNCHANGED <<ns, og, sub, rev, plans, cache, control, event, faults, edits, deleted>>

(* What users do: change the Subscription's spec, delete it, approve a     *)
(* plan, delete the namespace (which the clean up of another Orchestrator  *)
(* resource does too).                                                     *)
Edit(e) ==
  /\ e \in UserEdits /\ edits < MaxEdits /\ MayHappen
  /\ edits' = edits + 1
  /\ deleted' = (deleted \/ e = "namespace")

UserEditSubscription ==
  /\ Edit("spec") /\ sub.exists
  /\ WriteSub([sub EXCEPT !.spec = "drifted"])
  /\ UNCHANGED <<ns, og, plans, crd, installed, cache, control, faults>>

UserDeleteSubscription ==
  /\ Edit("delete") /\ sub.exists
  /\ DropSub
  /\ UNCHANGED <<ns, og, rev, crd, installed, cache, control, faults>>

UserApprovePlan ==
  /\ Edit("approve")
  /\ \E p \in PlanIds :
       /\ plans[p].st = "referenced" /\ plans[p].by = "nobody"
       /\ plans' = [plans EXCEPT ![p].by = "other"]
  /\ UNCHANGED <<ns, og, sub, rev, crd, installed, cache, control, event, faults>>

DeleteNamespace ==
  /\ Edit("namespace") /\ Writable
  /\ ns' = "terminating"
  /\ UNCHANGED <<og, sub, rev, plans, crd, installed, cache, control, event, faults>>

(* The namespace controller empties a terminating namespace and drops it.  *)
NamespaceEmptied ==
  /\ ns = "terminating"
  /\ sub.exists \/ og
  /\ og' = FALSE
  /\ installed' = FALSE
  /\ DropSub
  /\ UNCHANGED <<ns, rev, crd, cache, control, faults, edits, deleted>>

NamespaceGone ==
  /\ ns = "terminating" /\ ~sub.exists /\ ~og
  /\ ns' = "absent"
  /\ UNCHANGED <<og, sub, rev, plans, crd, installed, cache, control, event, faults, edits, deleted>>

OLM == OLMCreatePlan \/ OLMUpdateStatus \/ OLMInstall

NamespaceController == NamespaceEmptied \/ NamespaceGone

Environment ==
  \/ CacheSync
  \/ \E w \in Workers : Resync(w)
  \/ Restart
  \/ OLM
  \/ UserEditSubscription
  \/ UserDeleteSubscription
  \/ UserApprovePlan
  \/ DeleteNamespace
  \/ NamespaceController

-----------------------------------------------------------------------------
Worker(w) == ReconcileStart(w) \/ ActorStep(w) \/ CheckCRDExists(w)

Watcher == reconcileSubscription \/ ActorStep(Watch)

Next == (\E w \in Workers : Worker(w)) \/ Watcher \/ Environment

(***************************************************************************)
(* Every goroutine of the operator is scheduled, informers catch up, OLM   *)
(* and the namespace controller work while there is anything to do.        *)
(* Nothing is assumed of users, faults or the ten-hour resync.             *)
(***************************************************************************)
Fairness ==
  /\ \A w \in Workers : WF_vars(Worker(w))
  /\ WF_vars(Watcher)
  /\ WF_vars(CacheSync)
  /\ WF_vars(OLM)
  /\ WF_vars(NamespaceController)

Spec == Init /\ [][Next]_vars /\ Fairness

-----------------------------------------------------------------------------
(***************************************************************************)
(* The operator approves an InstallPlan only if it leads to the starting   *)
(* CSV: although the decision is taken on a Subscription read several API  *)
(* calls earlier and on a cached plan, no upgrade that OLM proposes in the *)
(* meantime is let through (the guard on CurrentCSV in the three           *)
(* procedures, and kube.ApproveInstallPlan).                               *)
(***************************************************************************)
OnlyStartingCSVApproved ==
  \A p \in PlanIds : plans[p].by = "operator" => plans[p].csv = Starting

(***************************************************************************)
(* A Subscription of the operator has its OperatorGroup, without which OLM *)
(* never resolves it, however workers, watch and lagging caches interleave *)
(* (kube.InstallSubscriptionAndOperatorGroup creates the group first), and *)
(* whatever users do to the Subscription: two actors may both find none,   *)
(* and only one of them makes it.  The group is not looked at again once   *)
(* the Subscription exists, so a deletion of the namespace is excepted.    *)
(***************************************************************************)
SubscriptionHasGroup ==
  sub.exists /\ sub.labelled /\ ~og => deleted

(***************************************************************************)
(* The namespace of a Subscription of the operator carries the label that  *)
(* CleanUpNamespace asks for before it deletes, unless a fault hit         *)
(* updateNamespaceLabel, whose error is only logged.                       *)
(***************************************************************************)
NamespaceCanBeCleanedUp ==
  sub.exists /\ sub.labelled /\ ns = "plain" => faults > 0

(***************************************************************************)
(* When a worker goes on to look up the CRDs, the Subscription exists      *)
(* ("subscription exists; check if CRD exists", in HandleKnativeCR),       *)
(* unless users deleted it.  It fails for OSL and RHDH, which go on after  *)
(* a failed creation of the namespace.                                     *)
(***************************************************************************)
SubscriptionExistsAtCRDCheck ==
  \A w \in Workers : pc[w] = "crd" => sub.exists \/ edits > 0

(***************************************************************************)
(* The installation succeeds in the end, whatever the interleaving of      *)
(* workers, watch and OLM, and although Creates and Updates fail by        *)
(* conflicts and transient errors: each failure is retried by Reconcile.   *)
(* After a deletion of the namespace the cache may still show its old      *)
(* OperatorGroup (kube.getOperatorGroup), and the Subscription is then     *)
(* made without one, for good.                                             *)
(***************************************************************************)
Ungrouped == sub.exists /\ sub.labelled /\ ~og
EventuallyInstalled == <>(installed \/ Ungrouped)

(***************************************************************************)
(* "Whether the operator should be deployed by the orchestrator operator"  *)
(* (docs/crd/README.md, of installOperator): when the Subscription is      *)
(* there, nothing is left to do for workers, watch, informers, OLM and the *)
(* namespace controller, and users did nothing, the operator is deployed.  *)
(* It fails for RHDH when its CRDs are left over: the InstallPlan then     *)
(* waits for the ten-hour resync, or another change.                       *)
(***************************************************************************)
AtRest == ~ENABLED ( \/ \E w \in Workers : Worker(w)
                     \/ Watcher \/ CacheSync \/ OLM \/ NamespaceController )
DeployedAtRest == AtRest /\ sub.exists /\ edits = 0 => installed

(***************************************************************************)
(* A namespace without the label does not stay so, although an error of    *)
(* updateNamespaceLabel is only logged: each pass that finds it looks at   *)
(* the label again.  After an error only the periodic resync may be left   *)
(* to bring that pass.                                                     *)
(***************************************************************************)
LabelledInTheEnd ==
  (\A w \in Workers : WF_vars(Resync(w))) => (ns = "plain" ~> ns # "plain")

(***************************************************************************)
(* What the clean up of another Orchestrator resource takes away by its    *)
(* deletion of the namespace comes back, and stays, if the informers'      *)
(* periodic resync brings the workers back: nothing else does, once they   *)
(* are done.  The exception is that of EventuallyInstalled.                *)
(***************************************************************************)
SharedOperatorRestored ==
  (\A w \in Workers : WF_vars(Resync(w))) => <>[](installed \/ Ungrouped)

(***************************************************************************)
(* A Subscription whose spec a user changed gets the desired spec back,    *)
(* also after the workers are done, through the watch alone: a conflict    *)
(* that makes one Update fail brings a new event.  A transient failure     *)
(* does not, and is excepted; nor does the Create of a namespace that the  *)
(* cache does not show yet, after which the watch gives up.                *)
(***************************************************************************)
Drifted == sub.exists /\ sub.labelled /\ sub.spec = "drifted"
NamespaceSeen == sub.exists => cache.ns # "absent"
DriftRepaired == [](faults = 0 /\ NamespaceSeen) => (Drifted ~> ~Drifted)

(***************************************************************************)
(* No drift is lost: from the moment a user changes the spec until it is   *)
(* put back, an event waits or the watch is at work, although any worker   *)
(* writes, and any user deletes, the Subscription between the watch's read *)
(* and its Update.  Only a fault, or the Create of the namespace, makes    *)
(* the watch give up.  (It takes no notice of the RHDH Subscription.)      *)
(***************************************************************************)
Unattended == Flow # "rhdh" /\ Drifted /\ ~event /\ pc[Watch] = "idle"
GivesUp    == faults' > faults \/ pc[Watch] = "createns"
DriftAttended == [][~Unattended /\ Unattended' => GivesUp]_vars

(***************************************************************************)
(* No worker rests too early: one that is neither at work nor in the work  *)
(* queue has found the CRDs, and, unless they were there before or users   *)
(* interfered, OLM has carried out an InstallPlan of the Subscription,     *)
(* whatever calls of whichever actor failed on the way.                    *)
(***************************************************************************)
RestsWhenInstalled ==
  \A w \in Workers : pc[w] \in {"idle", "done"} /\ w \notin queue =>
    crd /\ (installed \/ CrdAtStart \/ edits > 0)

-----------------------------------------------------------------------------
(***************************************************************************)
(* The installation implements OperatorLifecycle: whatever the workers,    *)
(* the watch and their stale snapshots do, to the Subscription's present   *)
(* proposal nothing happens but a proposal by OLM, the operator's approval *)
(* of the starting CSV, and what users do.                                 *)
(***************************************************************************)
Proposal == IF sub.plan = NoPlan THEN [csv |-> "none", by |-> "nobody"]
            ELSE [csv |-> plans[sub.plan].csv, by |-> plans[sub.plan].by]

Lifecycle == INSTANCE OperatorLifecycle
  WITH subscribed <- sub.exists, proposal <- Proposal, running <- installed

ImplementsLifecycle == Lifecycle!Spec

-----------------------------------------------------------------------------
(***************************************************************************)
(* The strengthenings by which the safety properties above are inductive   *)
(* (proved in OperatorInstallProofs).                                      *)
(***************************************************************************)
(* A reference to a plan, in the Subscription or in an actor's snapshot of *)
(* it, is to a plan that OLM has made, and carries that plan's CSV.        *)
Refers(s) == s.plan # NoPlan => /\ plans[s.plan].st # "unused"
                                /\ plans[s.plan].csv = s.csv

PlanInv ==
  /\ OnlyStartingCSVApproved
  /\ Refers(sub)
  /\ \A a \in Actors : Refers(snap[a])
  /\ \A a \in Actors : pc[a] \in {"plan", "approve"} => NeedsApproval(snap[a])

(* A plan that the Subscription does not name yet is named by nobody, and  *)
(* leads to what is to be installed next.                                  *)
ProposalInv ==
  /\ sub.plan # NoPlan => sub.exists /\ plans[sub.plan].st # "new"
  /\ \A a \in Actors : snap[a].plan # NoPlan => plans[snap[a].plan].st # "new"
  /\ \A p \in PlanIds : plans[p].st # "unused" => plans[p].csv # NoCSV
  /\ \A p, q \in PlanIds : plans[p].st = "new" /\ plans[q].st = "new" => p = q
  /\ \A p \in PlanIds : plans[p].st = "new" =>
       /\ sub.plan = NoPlan \/ installed
       /\ plans[p].csv = IF installed THEN Newer ELSE Starting
       /\ plans[p].by # "operator"

(* As long as the namespace was not deleted, whoever is about to create    *)
(* the Subscription has seen the OperatorGroup, which does not go away.    *)
GroupInv ==
  \/ deleted
  \/ /\ ns # "terminating"
     /\ cache.og \/ sub.exists => og
     /\ \A a \in Actors : pc[a] = "createsub" => og

(* As long as no fault occurs, whoever is past the check of the namespace  *)
(* has left it labelled, and a namespace once seen labelled stays so.      *)
PastLabel == {"createns", "sub", "group", "creategroup", "createsub"}

LabelInv ==
  \/ faults > 0
  \/ /\ ns = "plain" => cache.ns = "plain"
     /\ \A a \in Actors : pc[a] \in PastLabel => ns # "plain"
     /\ sub.exists /\ sub.labelled => ns # "plain"

(* As long as users changed nothing, a Subscription stays, and in the      *)
(* Knative procedure whoever is past createSubscription has one.           *)
PastSubscription == {"updatesub", "plan", "approve", "crd"}

CRDInv ==
  \/ edits > 0
  \/ /\ ns # "terminating"
     /\ \A a \in Actors : pc[a] \in PastSubscription => sub.exists

(* A worker is idle only if it is queued.  CRDs that were not there come   *)
(* with an installation, which only a deletion of the namespace takes back.*)
RestInv ==
  /\ \A w \in Workers : pc[w] = "idle" => w \in queue
  /\ \A w \in Workers : pc[w] = "done" => w \in queue \/ crd
  /\ crd => installed \/ CrdAtStart \/ edits > 0
  /\ ns = "terminating" => edits > 0

(* A watch past its look at the spec has an event waiting for any drift    *)
(* since, or its Update is of the Subscription as it is.                   *)
PastLook == {"group", "creategroup", "createsub", "plan", "approve"}

DriftInv ==
  Drifted => /\ pc[Watch] \in PastLook => event
             /\ pc[Watch] = "updatesub" => event \/ snap[Watch].rv = sub.rv
=============================================================================
