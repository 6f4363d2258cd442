-------------------------- MODULE WorkflowPipeline --------------------------
(***************************************************************************)
(* The Tekton pipeline that the GitOps stage installs, at work: runs of it *)
(* build workflows from a source repository and deploy them through the    *)
(* branch main of a GitOps repository that all of them share.              *)
(*   gitops/pipeline.go  the tasks of workflow-deployment and their order  *)
(*   gitops/tasks.go     the task definitions: workspaces, results         *)
(*   gitops/scripts.go   what the tasks execute                            *)
(*                                                                         *)
(* Tekton starts a task when the tasks it runs after (and those whose      *)
(* results it uses) are done, and starts no more of a run once a task of   *)
(* it has failed; there are no retries.  Scripts stop at the first command *)
(* that fails (set -e, by gitCLITaskScript or by Tekton's preamble).  Each *)
(* run has workspaces of its own.  Tasks take time: other runs, people     *)
(* that push to either repository, and faults come in between.             *)
(***************************************************************************)
EXTENDS Naturals

CONSTANTS
  PipelineRuns,  \* runs of the pipeline that are ever created
  Workflows,     \* the values of the parameter workflowId
  Settings,      \* the repository layouts and run parameters considered
  MaxCommits,    \* bound on the commits of the workflow repository
  MaxPushes,     \* bound on pushes to main by others than the pipeline
  MaxFaults      \* bound on tasks that fail for reasons outside the scripts

(* nested: the workflow repository has a directory per workflow; id and    *)
(* flat: the parameters workflowId and convertToFlat of each run.          *)
ASSUME InputAssumption ==
  /\ Settings \subseteq [nested: BOOLEAN, id: [PipelineRuns -> Workflows],
                         flat: [PipelineRuns -> BOOLEAN]]
  /\ MaxCommits \in Nat \ {0} /\ MaxPushes \in Nat /\ MaxFaults \in Nat

Tasks == {"fetch-workflow", "fetch-workflow-gitops", "flatten-workflow",
          "build-manifests", "build-gitops", "build-and-push-image",
          "push-workflow-gitops"}

VARIABLES
  source,  \* the newest commit of the workflow repository
  given,   \* one of the Settings
  main,    \* the branch main of the GitOps repository
  images,  \* the images in the registry: workflow and tag
  created, \* the runs that exist
  task,    \* the state of each task of each run
  ws,      \* the workspaces of each run
  pushes,  \* pushes to main by others
  faults   \* faults so far

vars == <<source, given, main, images, created, task, ws, pushes, faults>>

(* Commits of the workflow repository are numbered; 0 stands for none.     *)
(* What main deploys of a workflow: the image tag that updater.sh set, and *)
(* the commit whose manifests are in kustomize/base.  Each workflow has an *)
(* image repository of its own (the parameter quayRepoName).  Manifests    *)
(* that an earlier commit had and a later one has not are updater.sh's to  *)
(* remove: the cp of buildGitOpsTaskScript does not.                       *)
Commits     == 0..MaxCommits
Deployments == [Workflows -> [tag: Commits, manifests: Commits]]
Nothing     == [w \in Workflows |-> [tag |-> 0, manifests |-> 0]]

TaskStates == {"waiting", "running", "done", "failed"}
Workspaces == [commit: Commits,         \* of workflow-source/workflow
               flat: Commits,           \* of workflow-source/flat/<workflowId>
               manifests: Commits,      \* of flat/<workflowId>/manifests
               base: Nat,               \* head of the clone in workflow-gitops
               cloned: Deployments,     \* ... what it deployed
               tree: Deployments]       \* the files in workflow-gitops

(***************************************************************************)
(* Type correctness of the model.                                          *)
(***************************************************************************)
TypeOK ==
  /\ source \in 1..MaxCommits
  /\ given \in Settings
  /\ main \in [commits: Nat \ {0}, deployed: Deployments]
  /\ images \in SUBSET (Workflows \X Commits)
  /\ created \in SUBSET PipelineRuns
  /\ task \in [PipelineRuns -> [Tasks -> TaskStates]]
  /\ ws \in [PipelineRuns -> Workspaces]
  /\ pushes \in 0..MaxPushes
  /\ faults \in 0..MaxFaults

-----------------------------------------------------------------------------
Init ==
  /\ source = 1
  /\ given \in Settings
  /\ main = [commits |-> 1, deployed |-> Nothing]
  /\ images = {}
  /\ created = {}
  /\ task = [r \in PipelineRuns |-> [t \in Tasks |-> "waiting"]]
  /\ ws = [r \in PipelineRuns |->
             [commit |-> 0, flat |-> 0, manifests |-> 0,
              base |-> 0, cloned |-> Nothing, tree |-> Nothing]]
  /\ pushes = 0
  /\ faults = 0

Fault   == faults < MaxFaults /\ faults' = faults + 1
NoFault == UNCHANGED faults

(* The RunAfter fields of the pipeline's tasks.                            *)
RunAfter ==
  [t \in Tasks |->
     CASE t \in {"fetch-workflow", "fetch-workflow-gitops"} -> {}
       [] t = "flatten-workflow"     -> {"fetch-workflow"}
       [] t = "build-manifests"      -> {"flatten-workflow"}
       [] t = "build-gitops"         -> {"build-manifests", "fetch-workflow-gitops"}
       [] t = "build-and-push-image" -> {"flatten-workflow"}
       [] t = "push-workflow-gitops" -> {"build-gitops", "build-and-push-image"}]

(* The tasks that use the result "commit" of fetch-workflow (imageTag,     *)
(* IMAGE, WORKFLOW_COMMIT); Tekton orders them after it.                   *)
ResultUsers == {"build-gitops", "build-and-push-image", "push-workflow-gitops"}

(* Mutants: the push does not wait for the image; the GitOps files not for *)
(* their repository; the image not for the directory it is built from; the *)
(* manifests wait for the GitOps files, which wait for them.               *)
Before_NoImage(t) == RunAfter[t] \ {"build-and-push-image"}
Before_NoClone(t) == RunAfter[t] \ {"fetch-workflow-gitops"}
Before_NoFlat(t) ==
  IF t = "build-and-push-image" THEN {"fetch-workflow"} ELSE RunAfter[t]
Before_Cycle(t) ==
  RunAfter[t] \union (IF t = "build-manifests" THEN {"build-gitops"} ELSE {})

Before(t) == RunAfter[t] \union (IF t \in ResultUsers THEN {"fetch-workflow"} ELSE {})

(* What the tasks read and write in the workspaces of their run.           *)
ReadSet ==
  [t \in Tasks |->
     CASE t \in {"fetch-workflow", "fetch-workflow-gitops"} -> {}
       [] t = "flatten-workflow"     -> {"workflow"}
       [] t \in {"build-manifests", "build-gitops", "build-and-push-image"} -> {"flat"}
       [] t = "push-workflow-gitops" -> {"workflow-gitops"}]

WriteSet ==
  [t \in Tasks |->
     CASE t = "fetch-workflow"        -> {"workflow"}
       [] t = "fetch-workflow-gitops" -> {"workflow-gitops"}
       [] t = "flatten-workflow"      -> {"workflow", "flat"}
       [] t = "build-manifests"       -> {"flat"}
       [] t = "build-gitops"          -> {"workflow-gitops"}
       [] t = "build-and-push-image"  -> {}
       [] t = "push-workflow-gitops"  -> {"workflow-gitops"}]

-----------------------------------------------------------------------------
(* Tekton.                                                                 *)
CreateRun(r) ==
  /\ r \notin created
  /\ created' = created \union {r}
  /\ UNCHANGED <<source, given, main, images, task, ws, pushes, faults>>

MayStart(r, t) ==
  /\ task[r][t] = "waiting"
  /\ \A u \in Before(t) : task[r][u] = "done"
  /\ \A u \in Tasks : task[r][u] # "failed"

StartTask(r, t) ==
  /\ r \in created
  /\ MayStart(r, t)
  /\ task' = [task EXCEPT ![r][t] = "running"]
  /\ UNCHANGED <<source, given, main, images, created, ws, pushes, faults>>

(* A task comes to its end: its script succeeds, or stops where it is not  *)
(* ready for what it finds; or the task is lost, before or after the       *)
(* effect.                                                                 *)
EndTask(r, t, ready, effect) ==
  /\ task[r][t] = "running"
  /\ \/ NoFault /\ ready /\ effect /\ task' = [task EXCEPT ![r][t] = "done"]
     \/ NoFault /\ ~ready /\ UNCHANGED <<ws, images, main>>
        /\ task' = [task EXCEPT ![r][t] = "failed"]
     \/ Fault /\ ready /\ effect /\ task' = [task EXCEPT ![r][t] = "failed"]
     \/ Fault /\ UNCHANGED <<ws, images, main>>
        /\ task' = [task EXCEPT ![r][t] = "failed"]
  /\ UNCHANGED <<source, given, created, pushes>>

-----------------------------------------------------------------------------
(* The scripts.                                                            *)
gitCloneScript(r) ==
  EndTask(r, "fetch-workflow", TRUE,
          /\ ws' = [ws EXCEPT ![r].commit = source]
          /\ UNCHANGED <<main, images>>)

gitCloneGitOpsScript(r) ==
  EndTask(r, "fetch-workflow-gitops", TRUE,
          /\ ws' = [ws EXCEPT ![r].base = main.commits, ![r].cloned = main.deployed,
                              ![r].tree = main.deployed]
          /\ UNCHANGED <<main, images>>)

(* Copies the resources and the licence.  With convertToFlat = false it    *)
(* also moves workflow/src, which a repository with a directory per        *)
(* workflow does not have.                                                 *)
flattenerTaskScript(r) ==
  EndTask(r, "flatten-workflow", ws[r].commit # 0 /\ (given.nested => given.flat[r]),
          /\ ws' = [ws EXCEPT ![r].flat = ws[r].commit]
          /\ UNCHANGED <<main, images>>)

buildManifestTaskScript(r) ==
  EndTask(r, "build-manifests", ws[r].flat # 0,
          /\ ws' = [ws EXCEPT ![r].manifests = ws[r].flat]
          /\ UNCHANGED <<main, images>>)

(* Copies the manifests and sets the image tag of the workflow.            *)
buildGitOpsTaskScript(r) ==
  EndTask(r, "build-gitops", ws[r].manifests # 0 /\ ws[r].base # 0,
          /\ ws' = [ws EXCEPT ![r].tree[given.id[r]] =
                      [tag |-> ws[r].commit, manifests |-> ws[r].manifests]]
          /\ UNCHANGED <<main, images>>)

(* Mutant: the tag is the result of the other fetch.                       *)
buildah_OtherTag(r) ==
  EndTask(r, "build-and-push-image", ws[r].flat # 0,
          /\ images' = images \union {<<given.id[r], ws[r].base>>}
          /\ UNCHANGED <<main, ws>>)

(* The task buildah of openshift-pipelines.                                *)
buildah(r) ==
  EndTask(r, "build-and-push-image", ws[r].flat # 0,
          /\ images' = images \union {<<given.id[r], ws[r].commit>>}
          /\ UNCHANGED <<main, ws>>)

(* Mutant: git push --force.                                               *)
Rejected_Force(r) == FALSE

(* git commit fails if there is nothing to commit; git push is rejected    *)
(* unless main is where it was when it was cloned.                         *)
NothingToCommit(r) == ws[r].tree = ws[r].cloned
Rejected(r) == ws[r].base # main.commits

gitScript(r) ==
  EndTask(r, "push-workflow-gitops",
          ws[r].base # 0 /\ ~NothingToCommit(r) /\ ~Rejected(r),
          /\ main' = [commits |-> main.commits + 1, deployed |-> ws[r].tree]
          /\ UNCHANGED <<ws, images>>)

Task(r) ==
  \/ gitCloneScript(r)
  \/ gitCloneGitOpsScript(r)
  \/ flattenerTaskScript(r)
  \/ buildManifestTaskScript(r)
  \/ buildGitOpsTaskScript(r)
  \/ buildah(r)
  \/ gitScript(r)

-----------------------------------------------------------------------------
(* People commit to the workflow repository, and push other things to the  *)
(* GitOps repository.                                                      *)
CommitWorkflow ==
  /\ source < MaxCommits
  /\ source' = source + 1
  /\ UNCHANGED <<given, main, images, created, task, ws, pushes, faults>>

PushOther ==
  /\ pushes < MaxPushes
  /\ pushes' = pushes + 1
  /\ main' = [main EXCEPT !.commits = @ + 1]
  /\ UNCHANGED <<source, given, images, created, task, ws, faults>>

Next ==
  \/ \E r \in PipelineRuns :
       CreateRun(r) \/ (\E t \in Tasks : StartTask(r, t)) \/ Task(r)
  \/ CommitWorkflow
  \/ PushOther

(* Tekton starts what it may start, and every task comes to an end.        *)
Fairness ==
  \A r \in PipelineRuns :
    /\ \A t \in Tasks : WF_vars(StartTask(r, t))
    /\ WF_vars(Task(r))

Spec == Init /\ [][Next]_vars /\ Fairness

-----------------------------------------------------------------------------
(***************************************************************************)
(* What main deploys can be pulled and belongs together: the image of      *)
(* every deployed tag is in the registry, and its manifests are those of   *)
(* the same commit, although the image and the manifests are built by      *)
(* tasks that run side by side, in any number of runs, any of which fails. *)
(***************************************************************************)
DeployedImageExists ==
  \A w \in Workflows :
    LET d == main.deployed[w]
    IN d.tag # 0 => <<w, d.tag>> \in images /\ d.manifests = d.tag

(***************************************************************************)
(* Two tasks of a run that overlap in time touch the same directory of the *)
(* shared workspace in one case only: build-manifests unpacks kn-workflow  *)
(* and writes the manifests into flat/<workflowId> while that directory is *)
(* the build context of build-and-push-image.                              *)
(***************************************************************************)
Conflict(t, u) ==
  WriteSet[t] \intersect (ReadSet[u] \union WriteSet[u]) # {}

ConflictsConfined ==
  \A r \in PipelineRuns : \A t, u \in Tasks :
    /\ t # u /\ task[r][t] = "running" /\ task[r][u] = "running"
    /\ Conflict(t, u)
    => t = "build-manifests" /\ u = "build-and-push-image"

(***************************************************************************)
(* Without faults a run fails for three reasons only: convertToFlat =      *)
(* false in a repository with a directory per workflow; the commit is      *)
(* deployed already, so there is nothing to commit; or main moved on since *)
(* the run cloned it.  No task ever starts before what it needs is there.  *)
(***************************************************************************)
Reason(r, t) ==
  \/ t = "flatten-workflow" /\ given.nested /\ ~given.flat[r]
  \/ t = "push-workflow-gitops" /\ (NothingToCommit(r) \/ Rejected(r))

FailuresExplained ==
  faults = 0 => \A r \in PipelineRuns : \A t \in Tasks :
    task[r][t] = "failed" => Reason(r, t)

(***************************************************************************)
(* No deployment is lost to another run: a push changes the deployment of  *)
(* its own workflow alone, and what it replaces is what the run had        *)
(* cloned.  (So main goes back to an older commit only when a run fetched  *)
(* the workflow first and the GitOps repository after a later commit had   *)
(* been deployed: the two fetches are not ordered.)                        *)
(***************************************************************************)
PushReplacesTheCloned ==
  \A w \in Workflows : main'.deployed[w] # main.deployed[w] =>
    \E r \in PipelineRuns :
      /\ given.id[r] = w /\ task[r]["push-workflow-gitops"] = "running"
      /\ ws[r].cloned[w] = main.deployed[w]
NoLostDeployment == [][PushReplacesTheCloned]_main

(***************************************************************************)
(* Every run ends; one that ends well has its image in the registry, and   *)
(* main has moved on since the run cloned it (what a push then deploys is  *)
(* the subject of ImplementsAtomicDeployment).                             *)
(***************************************************************************)
Ended(r) ==
  /\ \A t \in Tasks : task[r][t] # "running"
  /\ \/ \E t \in Tasks : task[r][t] = "failed"
     \/ /\ \A t \in Tasks : task[r][t] = "done"
        /\ <<given.id[r], ws[r].commit>> \in images
        /\ main.commits > ws[r].base

RunsEnd == \A r \in PipelineRuns : r \in created ~> Ended(r)

(***************************************************************************)
(* No run comes to rest before its end: one of which no task is running    *)
(* has a task that may start, or a task of it failed, or its image is in   *)
(* the registry and main has moved on from where the run cloned it.        *)
(***************************************************************************)
NoRunStuck ==
  \A r \in created :
    (\A t \in Tasks : task[r][t] # "running") =>
      Ended(r) \/ \E t \in Tasks : MayStart(r, t)

-----------------------------------------------------------------------------
(***************************************************************************)
(* All the tasks of all the runs amount to atomic deployments: whatever    *)
(* main deploys of a workflow was put there, image and manifests together, *)
(* by one run of that workflow, of the one commit that the run fetched,    *)
(* after its image had been pushed, and only because main was still where  *)
(* that run had cloned it.                                                 *)
(***************************************************************************)
Mixed == MaxCommits + 1   \* no commit: the image of one, the manifests of another
CommitOf(d) == IF d.manifests = d.tag THEN d.tag ELSE Mixed

Deploying == INSTANCE AtomicDeployment WITH
  Runs      <- PipelineRuns,
  target    <- given.id,
  version   <- main.commits,
  deployed  <- [w \in Workflows |-> CommitOf(main.deployed[w])],
  published <- images,
  taken     <- [r \in PipelineRuns |-> ws[r].commit],
  seen      <- [r \in PipelineRuns |-> ws[r].base]

ImplementsAtomicDeployment == Deploying!Spec

-----------------------------------------------------------------------------
(***************************************************************************)
(* The strengthening by which the safety properties are inductive (proved  *)
(* in WorkflowPipelineProofs): tasks keep their order, what is in a        *)
(* workspace comes from the one commit and the one clone of its run, and a *)
(* clone that is not behind main equals it.                                *)
(***************************************************************************)
Ordered(r) ==
  \A t \in Tasks : task[r][t] # "waiting" =>
    \A u \in Before(t) : task[r][u] = "done"

Deployed(r) ==
  [ws[r].cloned EXCEPT ![given.id[r]] =
     [tag |-> ws[r].commit, manifests |-> ws[r].commit]]

WorkspaceInv(r) ==
  /\ ws[r].flat \in {0, ws[r].commit}
  /\ ws[r].manifests \in {0, ws[r].commit}
  /\ task[r]["flatten-workflow"] = "waiting" => ws[r].flat = 0
  /\ task[r]["build-manifests"] = "waiting" => ws[r].manifests = 0
  /\ ws[r].tree \in {ws[r].cloned, Deployed(r)}
  /\ task[r]["build-gitops"] = "waiting" => ws[r].tree = ws[r].cloned
  /\ ws[r].base <= main.commits
  /\ ws[r].base = main.commits => ws[r].cloned = main.deployed
  /\ task[r]["build-and-push-image"] = "done" =>
       <<given.id[r], ws[r].commit>> \in images

(* What a task that is done leaves for the tasks after it.                 *)
OutputInv(r) ==
  /\ task[r]["fetch-workflow"] = "done" => ws[r].commit # 0
  /\ task[r]["fetch-workflow-gitops"] = "done" => ws[r].base # 0
  /\ task[r]["flatten-workflow"] = "done" => ws[r].flat # 0
  /\ task[r]["build-manifests"] = "done" => ws[r].manifests # 0

(* A run clones each repository once, and what it pushed stays behind main. *)
OnceInv(r) ==
  /\ task[r]["fetch-workflow"] \in {"waiting", "running"} => ws[r].commit = 0
  /\ task[r]["fetch-workflow-gitops"] \in {"waiting", "running"} => ws[r].base = 0
  /\ task[r]["push-workflow-gitops"] = "done" => main.commits > ws[r].base

PipelineInv == \A r \in PipelineRuns : Ordered(r) /\ WorkspaceInv(r)
=============================================================================
