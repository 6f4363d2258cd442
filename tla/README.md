# Specification of the Orchestrator operator

TLA+ specifications of the Kubernetes operator in this repository
(`internal/controller`), the TLC configurations that check them, and proofs
checked by TLAPS.  Paths below are relative to the root of the repository.

## 1. The system

The operator watches one kind of resource, `Orchestrator`
(`api/v1alpha3/orchestrator_types.go`).  For each it installs up to three other
operators through OLM (OpenShift Serverless Logic "OSL", OpenShift Serverless
"Knative", Red Hat Developer Hub "RHDH"), creates the resources those operators
act on, network policies and, optionally, the ArgoCD project and Tekton
objects, and keeps a status.  When the resource is deleted, a finalizer makes
it take things down again.

Everything the operator remembers is in the cluster.  Reads through
`client.Client` come from an informer cache that lags the API server, reads of
Subscriptions through the OLM client set do not.  Work is a queue of names of
resources; one name is never processed twice at a time, but the watch of
Subscriptions runs code in a goroutine of its own.  Each pass starts from
nothing: what survives is the cluster, the queue and one package variable.

| Component | Code | State | Operations | Correct when |
|---|---|---|---|---|
| Reconcile loop | `orchestrator_controller.go:97-249`, `395-434` | finalizer and status of the resource, its copy in a pass, work queue | fetch, add finalizer, initial status, five stages, final status, requeue | completed passes have made what they claim; errors come back; no status is lost |
| Operator installation | `sonataflow.go:56-116`, `knative/knative.go:48-104`, `rhdh/backstage.go:41-98`, `kube/kube_operations.go` | namespace, OperatorGroup, Subscription, InstallPlans | look up or create each, restore the Subscription's spec, approve the plan of the starting CSV | only the starting CSV is approved; the operator is installed in the end; drift is repaired |
| Subscription watch | `orchestrator_controller.go:487-530` | pending event | rerun the OSL or Knative installation | drift is repaired without the worker |
| Deletion | `orchestrator_controller.go:119-133`, `405-419`, `knative.go:232-251`, `sonataflow.go:299-389`, `backstage.go:273-319`, `kube_operations.go:232-257`, `334-368` | labelled namespaces and resources, finalizer | delete namespaces and resources, remove the finalizer | all that was made is asked to go before the finalizer goes, operands before their operator, the deletion ends |
| Operands | `sonataflow.go:119-297`, `knative.go:106-230`, `backstage.go:100-271` | SonataFlow, Knative and Backstage resources, secret, config maps | Get, and Create if not found | they exist when the pass completes |
| Network policies | `network_policy.go` | policies, package variable `allErrors` | Get, Create, Update; collect errors | the errors reported are those of the call |
| GitOps | `gitops/` | AppProject, Tasks, Pipeline | Get, Create, Update; clean up when disabled | as above |
| Kubernetes helpers | `kube/kube_operations.go` | none | namespaces, labels, CRDs, Subscriptions | part of their callers |
| Workflow pipeline | `gitops/pipeline.go`, `tasks.go`, `scripts.go` | workspaces of a run, branch `main` of the GitOps repository, registry | clone, flatten, build manifests, GitOps files and image, push | what is deployed exists and belongs together; no deployment is lost; every run ends |
| RHDH configuration | `rhdh/backstage.go:100-271`, `cm_template.go`, `rhdh_config*.go`, `rhdh_dynamic_plugin.go`, ... | secret and config maps in the RHDH namespace, shared by all resources that name it | render and create once, never update | a Backstage resource has its configuration, with the domain and the plugins that are enabled |
| API types, manager, dead code, manifests | `api/`, `cmd/main.go`, `controller/knative.go`, `config/`, `bundle/` | none | | |

What is hard here: calls of worker, watch, OLM, namespace controller and users
interleave; each decision is taken on a cached or earlier read; any call can
fail, also after it took effect; the process can restart between two calls;
some errors are returned, some logged, some collected in a variable that
outlives the pass; and everything that must happen eventually hangs on the
right request being put back into the queue.  The list of these hazards, line
by line with the properties that watch them, is in `PROJECT.json`.

## 2. The modules

| Module | Models | Extends or instantiates |
|---|---|---|
| `OperatorLifecycle` | what an installation promises: who approves what, seen through the Subscription | |
| `OperatorInstall` | the installation of one operator, call by call, by workers and watch | instantiates `OperatorLifecycle` |
| `FinalizerContract` | what a finalizer promises | |
| `CleanUp` | the life of one resource: finalizer, provisioning, clean up, release | instantiates `FinalizerContract` |
| `StatusContract` | what the status promises to who reads it | |
| `OrchestratorReconcile` | passes of Reconcile over the five stages, and the status | instantiates `StatusContract` |
| `SharedNamespace` | what resources that share an RHDH namespace may rely on, whoever of them makes or takes away what | |
| `RHDHNamespace` | resources that share an RHDH namespace: config maps, Backstage resources, clean up | instantiates `SharedNamespace` |
| `AtomicDeployment` | what the runs of the pipeline amount to: one step puts one commit on an unchanged branch | |
| `WorkflowPipeline` | runs of the Tekton pipeline that the GitOps stage installs | instantiates `AtomicDeployment` |
| `MC...` | instances for TLC | the module |
| `...Proofs` | its theorems | the module, `TLAPS` |

They are views of one system at different grain: `OrchestratorReconcile` has
the installation as one call, `CleanUp` has the five stages as one loop of
creations, `OperatorInstall` has the deletion by another resource as one action
(`DeleteNamespace`), `RHDHNamespace` has the RHDH stage call by call for several
resources, and `WorkflowPipeline` is what goes on in the cluster once the
pipeline is there.  `PROJECT.json` maps every definition to the lines it
translates.  Definitions keep the names of functions; the definitions
`X_Something` before some of them are mutated forms of `X`, not used by the
specification, by which each property is shown to be able to fail.

### OperatorInstall

Actors are the workers and the watch.  `pc[a]` is the API call an actor is
about to make; each call is an action (`CheckNamespaceExist`,
`updateNamespaceLabel`, `CreateNamespace`, `CheckSubscriptionExists`,
`getOperatorGroup`, `createOperatorGroup`, `createSubscription`,
`updateSubscription`, `getInstallPlan`, `ApproveInstallPlan`,
`CheckCRDExists`).  `snap[a]` is the local `existingSubscription`; on a
Subscription just created it is the empty one, so such a pass approves
nothing, as in the code.  `Flow` chooses among the three procedures: they
differ in what follows the creation of the namespace (`AfterNamespace`) and in
the watch, which ignores RHDH's Subscription.  `cache` holds the informers'
copies of namespace, OperatorGroup and InstallPlans; `sub.rv` is the version an
Update is checked against.

Environment: informers catch up one kind at a time, OLM makes a plan,
publishes it in the Subscription and carries it out, later offering a newer
CSV; users change or delete the Subscription, approve plans, delete the
namespace; a terminating namespace is emptied, then goes; a call fails or the
process restarts (`MaxFaults`; `MaxEvents` bounds faults and edits together).
`deleted` is a history variable: the namespace has been deleted.  The resync
(`Resync`) queues a worker that is between passes; the queue keeps a request
that comes during a pass until its end, as if it had come then.

`OperatorLifecycle` knows only the Subscription, what it proposes and whether
the operator runs.  `Lifecycle` maps to it: an InstallPlan that nobody names,
an actor's old snapshot, a cache, are not there at all, so every action on them
must be a stutter, and an approval through them must come out as the approval
of the present proposal.

### CleanUp

`obj` has each namespace and operand as absent, plain (without the
operator's label), labelled or terminating.  `cr` is the resource with its
deletion timestamp, the operator's finalizer (`mine`) and somebody else's
(`others`).  A pass reads `cache.cr`, then either cleans up, step by step, and
removes the finalizer, or adds the finalizer and provisions.  The deletion
branch does not return, so `addFinalizers` follows `RemoveFinalizer`, and its
refusal by the API server is modelled.  A failed call may have taken effect.
A Delete is a request: a namespace is left terminating until the namespace
controller has emptied it, and an operand with a finalizer (`WithFinalizer`)
until its operator has dealt with it (`OperandGone`), for which the operator's
namespace must still be there.  The worker waits for neither, so that an
operand may be left terminating for good (docs/main/README.md:470).
`known` is a history variable: the labelled objects in the cache when the
clean up began.  `Starts` are the situations in which the resource is made: the
namespaces users have, those another resource had made and labelled, and
whether somebody else has a finalizer on it.

`FinalizerContract` has three things to say: nothing is made but while the
finalizer is held, it is released when all that was due has been asked to go,
and the operator is asked to go after its operands.  It does not promise that
what was asked has gone.  `Contract` maps to it: the phase is that of
the finalizer in the API server (not of the cache, nor of the worker's copy),
and what is due is what the cache showed when the pass began and is still
there, not asked to go.  A failed call and a restart are `Interrupt`.

### OrchestratorReconcile

`obj` has each object as absent, other (somebody else's, with another
content), adopted (updated to the content the code wants) or ours; `seen` is
the cache.  `prereq` are the CRDs and namespaces that come from elsewhere.
`copy` is the local `orchestrator`, `fresh` whether its version is the latest,
`current` whether the informer's is.  `stage` is the stage whose error is being
reported.  `allErrors` is the package variable; the worker of another resource
writes into it as well (`OtherWorkerFails`).  `errs` is a history variable.
`Starts` are specs with what is there already, `Changes` what users make of
them.
Of equal members of a list (policies, config maps, tasks) two stand for all.
As nobody else creates or deletes these objects, a Get and the write it leads
to are one step.  Config maps and their loop order: a Go map, so any order.

`StatusContract` knows the finalizer, the status, what the spec asks for and
what of it is missing; it has neither copies nor a cache, so that a write from
an old copy must come out as a step that was allowed on the latest version.
Failed does not take the condition Completed back, nor does anything ever set
Available: the contract says so, as the code does, and vouches for the phase
alone, and only for the moment at which it was written.

### RHDHNamespace

Each `Orchestrator` has a worker of its own (`pc[r]`); a worker makes the
secret, the config maps in any order (a Go map) and its Backstage resource, one
call at a time, or cleans up.  `space` is the namespace with all that is in it,
`cache` the informers' copies, one kind at a time; a config map is the set of
sections it was rendered with, by the conditions in the templates
(`ConfigMapTemplateFactory`), and is never updated.  The parameters of
`GetOrCreateConfigMaps` are in the order of the code, `Rendered` calls it in the
order of the code.  `domain` is the ingress domain, which may be missing or set
later.  `known` is a history variable: the Backstage resources the cache showed
when a clean up began; `passed` another: an error of reading a config map was
passed over.  The resources have distinct `spec.rhdh.name`.  A namespace that
was deleted is not made again.

`SharedNamespace` has no workers, caches or loops.  A config map is written
once, with something its author may write on the terms of the day (`Offers`),
and stays so for those who come later: `GetOrCreateConfigMaps` takes what it
finds.  A tenant moves in when all maps are there, or one could not be read
(`gap`).  No tenancy ends before the namespace is closed, which only somebody on
the way out does, while there are tenants.  `Sharing` maps to it: the terms are
the specs and whether a worker can do without the domain (`Hosts`: not, when it
was there from the beginning), and `Texts` is what the templates then give each
resource for each map.

### WorkflowPipeline

`task[r][t]` is the state of task `t` of run `r`; Tekton starts a task when
those in `Before(t)` are done (`RunAfter`, and the tasks whose results it uses)
and nothing of the run has failed.  `ws[r]` is what is in the run's workspaces:
from which commit of the workflow repository the clone, the flat directory and
the manifests come, and the clone of the GitOps repository with its head, what
it deployed and what the run made of it.  Each script is an action that ends
its task, well or not: it stops at the first command that fails, such as the
`cp` of a directory that is not there, a `git commit` of nothing or a `git push`
that is not a fast forward.  A fault loses a task before or after its effect.
`Settings` are the layout of the workflow repository and the parameters of the
runs.  External: Tekton, the task `buildah`, the scripts `updater.sh` and
`kn-workflow`, and people who push to either repository.  Two assumptions about
their use: a workflow has an image repository of its own (`quayRepoName` is a
parameter of the run, `pipeline.go:174`), and manifests that an earlier commit
had and a later one has not, which `cp` leaves in the clone, are dealt with by
`updater.sh`.

`AtomicDeployment` has no tasks and no workspaces.  `Deploying` maps a
deployment to the commit of its image if its manifests are of the same commit,
and to no commit otherwise; the version of the branch a run saw is that of its
clone.  A push is the one step that deploys, and it must find the branch as
the run saw it.

## 3. Runs

| Run | Shows | Distinct states |
|---|---|---|
| `InstallOSL` | `TypeOK`, `OnlyStartingCSVApproved`, `SubscriptionHasGroup`, `NamespaceCanBeCleanedUp`, `RestsWhenInstalled`, `DriftAttended`, `ImplementsLifecycle` | 1.80 M |
| `InstallLive` | `SubscriptionExistsAtCRDCheck`, `EventuallyInstalled`, `LabelledInTheEnd`, `DriftRepaired`, `SharedOperatorRestored` | 256 k |
| `RHDHReinstall` | `DeployedAtRest` is violated | |
| `CleanUp` | `TypeOK`, `FinalizerBeforeProvision`, `CleanUpBeforeRelease`, `OperandsBeforeOperator`, `RestsSettled`, `DeletionCompletesWithCRDs`, `ImplementsContract` | 798 k |
| `CleanUpNoCRDs` | `DeletionCompletes` is violated | |
| `CleanUpRHDHDocs` | `RHDHOperatorRemoved` is violated | |
| `Reconcile` | `TypeOK`, `CompletedIsEarned`, `RestsWhenDone`, `StatusNeverForgotten`, `ImplementsStatus`, `ObjectsConverge`, `StatusConverges` | 631 k |
| `NetworkPolicyErrors` | `NetworkPolicyErrorsAreCurrent` is violated | |
| `GitOpsErrors` | `GitOpsErrorsReturned` is violated | |
| `RHDHNamespace` | `TypeOK`, `BackstageConfigured`, `HostComplete`, `KnownBackstageKept`, `NoneForgotten`, `RHDHProvided`, `ImplementsSharing` | 909 k |
| `ArgoCDPlugin` | `ArgoCDPluginInstalled` is violated | |
| `WorkflowPipeline` | `TypeOK`, `DeployedImageExists`, `ConflictsConfined`, `FailuresExplained`, `NoLostDeployment`, `ImplementsAtomicDeployment`, `RunsEnd` | 342 k |

**Bounds.**  In `InstallOSL` two workers and the watch meet in one operator's
namespace: all three may find the namespace, the group or the Subscription
missing at the same time.  The workers differ in their names only, so they are
symmetric (`Symmetry`); the run has invariants and action properties that treat
them alike and no liveness, for which symmetry would be unsound.  `InstallLive`
has one worker and the watch.  Two InstallPlans are needed for the starting CSV
and one upgrade (`Upgrades`), which is what the approval must tell apart; a
third would be another upgrade.  A fault or a user edit falls between any two
calls: one of either in `InstallOSL` (`MaxEvents` is 1), both in `InstallLive`
(2); recovery from two faults in a row is recovery from one, started from a
state that was reached with one, and the proofs hold for every number.
The `CleanUp` run installs OSL; it starts with a namespace of users for
RHDH, with one of the three Knative namespaces labelled for another resource, or with
a finalizer of others.  The parts of the clean up come one after the other, and
the Knative namespaces go through the same call.  `OtherBackstages` are
zero, one and two, the cases the code distinguishes; of the two SonataFlow
operands one has a finalizer (`WithFinalizer`), the other goes at once.  In
`Reconcile` the stages are sequential: `AllStarts` has a start for each, all with stale caches, a fault,
restart or error of the other worker; `AllChanges` turns monitoring off, and
GitOps on after the clean up of objects left over by an earlier resource.
`RHDHNamespace` has two resources, the number at which the clean up decides
differently, and two of the four config maps, the one with the domain and the
one with the plugins: two are enough for a loop that is interrupted halfway.
`ArgoCDPlugin` has every set of flags and all four config maps.
`WorkflowPipeline` has two runs, which may meet anywhere; two commits tell old
from new; one push by others.  `CleanUp`, `OrchestratorReconcile`,
`RHDHNamespace` and `WorkflowPipeline` may come to rest (nothing queued, all
runs ended), so deadlock is not checked there; `OperatorInstall` never does,
because of the resync.

**Fairness.**  Workers and watch are weakly fair: goroutines are scheduled and
a queue hands out what it holds.  Informers catch up, OLM and the namespace
controller do their work, CRDs that a spec waits for are provided, the owner
of another finalizer removes it (in `CleanUp`, `OrchestratorReconcile` and
`RHDHNamespace` together as `Cluster`, whose steps only ever make progress and
run out, so that fairness to their disjunction is fairness to each).  Nothing
is assumed of users or of faults.  The ten-hour resync is assumed in three
places only, where nothing else brings a worker back: `SharedOperatorRestored`
and `LabelledInTheEnd` state it as their hypothesis, and `RHDHNamespace`
(`Worker(r) \/ Resync(r)`), where the passes that another stage's requeue would bring are not modelled.
Tekton starts what it may and every task ends.  Backoff is not modelled, a
requeue is an immediate place in the queue.

**Where properties are qualified.**  `NamespaceCanBeCleanedUp` excepts faults
(the error of the labelling is logged only); `LabelledInTheEnd` says that such
an error does not last, if the resync brings a pass back.
`SubscriptionHasGroup` excepts an actual deletion of the namespace (`deleted`),
and nothing else users do; `EventuallyInstalled` and `SharedOperatorRestored`
except what may follow from it, a Subscription made again without its
OperatorGroup because the cache still shows the old one
(`kube_operations.go:155-176`): nothing looks at the group again.
`SubscriptionExistsAtCRDCheck` is about Knative: in the OSL and RHDH flows a
failed creation of the namespace is taken for success (`sonataflow.go:62`), and
the next lookup of the CRD finds out.  `DriftRepaired` excepts faults, and the
time during which the cache does not show the namespace: the watch then tries
to create it, fails and drops the event.  `DeletionCompletesWithCRDs` has the
CRDs as its hypothesis (see `CleanUpNoCRDs`), and is about the resource, not
about namespaces or operands that hang in terminating.  `CleanUpBeforeRelease`
and `OperandsBeforeOperator` are about deletions the API server has accepted,
because the code waits for nothing more.  `CompletedIsEarned` and
`ObjectsConverge` except, under faults, the objects of which the code passes
over an error (`ErrorsPassedOver`), and GitOps objects after a change of the
spec: the clean up of a pass before it deletes objects that the cache still
shows.  `StatusConverges` is about runs without faults in
which `allErrors` stayed empty (see `NetworkPolicyErrors`).  `BackstageConfigured`
excepts the error passed over at `backstage.go:229`; `HostComplete` is about a
domain set from the beginning; `KnownBackstageKept` is about neighbours the
cache showed when the clean up began (one made later may lose its namespace);
`ConflictsConfined` names the one pair of tasks that do write and read the same
directory at once; `RunsEnd` says of a run that ends well that its image is in
the registry and `main` has moved on, `ImplementsAtomicDeployment` says what a
push deploys.  `RestsWhenInstalled` excepts user edits and CRDs that were
there before (with which RHDH's worker does rest too early, see
`RHDHReinstall`); `DriftAttended` excepts the RHDH
Subscription, which the watch passes over, and a watch that meets a fault or
creates the namespace, whose result it drops; `RestsWhenDone` excepts the phase
under faults, because the error of the last status update is ignored.

**Rest and convergence.**  What must happen eventually hangs on a request being
put back.  So next to each liveness property stands the safety property at its
core, an invariant that says when the code may come to rest: `RestsWhenDone` to
`ObjectsConverge` and `StatusConverges`, `RestsWhenInstalled` to
`EventuallyInstalled`, `DriftAttended` to `DriftRepaired`, `RestsSettled` to
`DeletionCompletesWithCRDs`, `NoneForgotten` to `RHDHProvided`, `NoRunStuck` to
`RunsEnd`.  TLC checks both (but not `NoRunStuck`, without which the check of
`RunsEnd` would fail); the invariants are proved for every instance, so
that what is left to the small instances is that the steps which remain
possible lead there.

## 4. What the runs found

* `RHDHReinstall`: RHDH's InstallPlan is approved only in a pass that finds it
  in the Subscription.  If the RHDH CRDs are left from an earlier
  installation, the first pass completes, no requeue follows and the watch
  ignores that Subscription: everything comes to rest with the plan waiting for
  its approval.  It is not lost for ever, the ten-hour resync or another change
  brings a pass that approves it; but nothing prompt does.
* `CleanUpNoCRDs`: a List of SonataFlow resources without their CRD is a
  NoMatch error, which `RemoveCustomResourcesInNamespace` does not pass over;
  a resource deleted before OSL's CRDs exist stays until they do.  If the
  Subscription is there already OLM may still install them; the clean up does
  nothing to that end.
* `CleanUpRHDHDocs`: with no labelled Backstage resource `HandleRHDHCleanUp`
  returns before the operator's namespace; the docs say RHDH is removed.
* `NetworkPolicyErrors`: `allErrors` is never emptied.  A policy created in
  one pass and not yet in the cache of the next leaves AlreadyExists in it,
  and from then on every pass fails and does not reach GitOps.
* `GitOpsErrors`: an error of the Get of a Tekton task is passed over and the
  pass completes.
* `ArgoCDPlugin`: `argoCDEnabled` and `tektonEnabled` change places in the call
  of `GetOrCreateConfigMaps` (`orchestrator_controller.go:363`,
  `backstage.go:214`): the config map of the dynamic plugins has the ArgoCD
  plugin if Tekton is enabled and the other way round.

Seen while modelling, without a sentence in the repository that they
contradict: two resources with one RHDH namespace that are deleted at the same
time each see two Backstage resources, and neither removes the namespace; the
second of two Backstage resources in a namespace uses the base URL of the
first; the result `commit` of `fetch-workflow-gitops` is empty, because its
script does not enter the clone, and is not used; of two runs of the pipeline
that overlap one fails at the push, after it has pushed its image.

## 5. What is proved

For every value of the constants that satisfies the modules' assumptions: any
number of workers, plans, faults and edits in `OperatorInstall`; any subset of
operators, starts, CRDs and any number of faults in `CleanUp`; any specs, starts
and changes in `OrchestratorReconcile`; any number of resources and config maps
in `RHDHNamespace`, of runs, workflows and pushes in `WorkflowPipeline`.  The
assumptions are the named ones on the constants (`..Assumption`), which TLC
evaluates in the runs.

`OperatorInstallProofs`
* `TypeCorrect`: `[]TypeOK`, action by action.
* `ApprovalsCorrect`: `[]OnlyStartingCSVApproved`.  By itself it is not
  inductive: an actor could be about to approve anything.  `PlanInv` adds that
  a reference to a plan, in the Subscription or in any actor's old copy of it,
  is to a plan that exists with that CSV.  A plan's CSV never changes and its
  name is never used again, so age does not make a copy wrong.
* `GroupsCorrect`: `[]SubscriptionHasGroup`, by `GroupInv`: until the namespace
  is deleted a group once seen in a cache or by an actor is there, whatever
  becomes of the Subscription.
* `LabelsCorrect`: `[]NamespaceCanBeCleanedUp`, by `LabelInv`: without faults
  an actor beyond the check of the namespace has left it labelled.
* `KnativeCRDCheckCorrect`: for the Knative flow,
  `[]SubscriptionExistsAtCRDCheck`, by `CRDInv`: until users change something a
  Subscription stays, and who is past its creation has one.
* `InstallImplementsLifecycle`: `ImplementsLifecycle`.  Besides `PlanInv` it
  needs `ProposalInv`: a plan the Subscription does not name yet is named by
  nobody, there is one of them at most, and it leads to what is to be installed
  next; only then is the plan an actor approves through an old snapshot either
  the present proposal or one that no longer counts.
* `RestCorrect`: `[]RestsWhenInstalled`, by `RestInv` in two halves.
  `WorkersRest`: an actor's call ends in another call or in an error, which
  queues a worker (`RestMoves`), and only the look at the CRDs ends in neither.
  `InstalledInv`: CRDs come with an installation, and only the end of the
  namespace takes it back, which only an edit starts.
* `DriftCorrect`: `DriftAttended`, by `DriftInv`: if the Subscription is drifted
  and the watch is past its look at the spec, an event waits, or its Update is
  of the Subscription as it is.  The lemmas say who can bring the drift about:
  no actor leaves one that it found otherwise (`ActorsAnnounce`), whatever else
  writes announces it (`EnvironmentAnnounces`), and a conflict that fails the
  watch's Update is such a write (`WatchStep`).

`CleanUpProofs`
* `TypeCorrect`.
* `FinalizerCorrect`: `[]FinalizerBeforeProvision`, by `FinalizerInv`: a cache
  that shows the finalizer on a resource not being deleted is right about the
  finalizer, because the worker removes it only after it saw the deletion.
* `ReleaseCorrect`: `CleanUpBeforeRelease`, and `OperandsFirst`:
  `OperandsBeforeOperator`, by `CleanUpInv`: during a clean up an object known
  at its beginning is labelled in the cache if it is labelled in the cluster,
  and the deletion of those of the steps passed has been accepted: they are
  terminating or gone.
* `CleanUpImplementsContract`: `ImplementsContract`, by the same two
  invariants: initial states map to `Init`, and each action, each failure of a
  call before or after its effect, and each restart maps to a step of
  `FinalizerContract` or to none.
* `SettledCorrect`: `[]RestsSettled`, by `AttendedInv`: a deletion not cleaned
  up, or a resource without its finalizer, is queued, in the worker's hands or
  in an event on its way.

`OrchestratorReconcileProofs` (any set of specs, any objects met or left, any
number of faults and of changes of the spec)
* `TypeCorrect`.
* `StatusKept`: `StatusNeverForgotten`, by `VersionInv`: a copy that is not
  stale equals the resource, except between the first write of the status and
  the second Get, where the code writes nothing.  A write from such a copy adds
  a condition; a write from a stale copy is refused.
* `CompletedEarned`: `[]CompletedIsEarned`, by `EarnedInv`: in every step of a
  pass, each object of its spec whose own step is over (`After`) is in place or
  excepted.  It needs `SeenInv` (what the cache shows has not gone, unless it is
  a GitOps object and the spec was changed), `SpecInv` (the pass works on the
  current spec until it is changed), `LoopInv` (within a loop, what is not left
  to do is done, or `allErrors` will fail the pass), `PlaceInv` (a Knative
  resource has its namespace, so its Create can only fail by a fault: the error
  that is logged and dropped hides nothing else) and `BranchInv` (the branch
  taken for GitOps).  The argument goes step by step: each stage either ends
  the pass or leaves its object earned (`StageStep`, `StepEarned`), and an
  earned object stays so (`EarnedStays`).
* `RestCorrect`: `[]RestsWhenDone`: every way out of a pass but the last puts
  the request back, and the last one is taken with everything earned; a pass
  over an old version is followed by the event of the newer one.
* `StatusImplemented`: `ImplementsStatus`: a write that is accepted is made from
  the latest version (`VersionInv`), `Completed` is written with nothing missing
  (`EarnedInv`), a failure is of a stage the spec of the pass enables, and an
  object that is there stays while the spec is the same.

`RHDHNamespaceProofs`
* `TypeCorrect`.
* `ConfigMapsCorrect`: `[]BackstageConfigured`, by `CacheInv` (while the
  namespace is there the cache shows nothing that is not) and `ConfigMapInv`
  (what a loop has left behind it is made, whoever made it).
* `HostCorrect`: `[]HostComplete`, by `HostInv`: a worker past the call has the
  domain.
* `KnownBackstageCorrect`: `KnownBackstageKept`, by `KnownInv`: what a clean up
  knew at its beginning is still in the cache when it lists.
* `NoneForgottenCorrect`: `[]NoneForgotten`, by `AttendedInv` and
  `ConfigMapInv`: the pass that does not come back has made the Backstage
  resource, and a deletion is queued or in hand until the resource is gone.
* `SharingImplemented`: `ImplementsSharing`.  Besides `ConfigMapInv`, `HostInv` and
  `AttendedInv` it needs `TenantInv`: a clean up that goes for the namespace has
  seen somebody in it, and a resource that is gone has no worker.  What a worker
  renders is among what it may write (`RenderedOffered`), and a map that is there
  refuses the creation, so that no step writes it a second time.

`WorkflowPipelineProofs`
* `TypeCorrect`.
* `ConflictsCorrect`: `[]ConflictsConfined`, by `Ordered` alone.
* `FailuresCorrect`: `[]FailuresExplained`, by `Ordered` and `OutputInv`: a task
  that is done has left what the tasks after it need.
* `ImagesCorrect`: `[]DeployedImageExists`, and `NoDeploymentLost`:
  `NoLostDeployment`, by `PipelineInv`: all that is in a run's workspaces comes
  from one commit and one clone, the tree differs from the clone in the run's
  own workflow only, and a clone that is not behind `main` equals it.
* `NeverStuck`: `[]NoRunStuck`: the order of the tasks is well founded, so that
  of the tasks not done one has all before it done.
* `AtomicallyDeployed`: `ImplementsAtomicDeployment`.  Besides `PipelineInv` it
  needs `OnceInv`: a run clones each repository once, and what it has pushed
  stays behind `main`.  Each script maps to one step or to none
  (`ScriptEffect`), and the push to `Deploy` (`PushDeploys`): the image is in
  the registry, the manifests are of its commit, the branch is as it was cloned.

Only model-checked: liveness (`EventuallyInstalled`, `LabelledInTheEnd`,
`DriftRepaired`, `SharedOperatorRestored`, `DeletionCompletesWithCRDs`, `ObjectsConverge`,
`StatusConverges`, `RHDHProvided`, `RunsEnd`), which needs fairness and
`ENABLED`, out of the prover's reach, and the six findings.  Every invariant
and every action property of the passing runs, and the five refinements, are
proved; with the exception of `SharedOperatorRestored` and `LabelledInTheEnd`,
which are about the resync, each liveness property has its rest property proved.
`DeployedAtRest`, the property of a finding, is stated with `ENABLED` of all the
steps that are not somebody's doing.

## 6. Not modelled

The content of resources (Backstage patch, SonataFlow specs, ingress rules, the
text in the sections of the config maps): data without control.  The manager's
start-up (`cmd/main.go`) and generated code.  `CheckCSVExists`,
`CleanUpSubscriptionAndCSV` and `controller/knative.go`, which nothing calls.
Several labelled AppProjects or Pipelines of others in the GitOps namespace,
where the clean up deletes only if there is exactly one.  The creation of the
RHDH namespace, which is its users'.  Time: the one-minute requeue and the
backoff.  Leader election.

## 7. Plan

Done: the core modules, five abstract specifications with their refinements, the
RHDH namespace and the pipeline, and the proofs of all their safety properties,
those about rest among them.  Next:

1. GitOps clean up with labelled objects of others in the namespace.
2. Two whole resources in one model of `OrchestratorReconcile`, with a spec of
   each, instead of the errors of the other worker alone.
