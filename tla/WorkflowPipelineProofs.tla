----------------------- MODULE WorkflowPipelineProofs -----------------------
(***************************************************************************)
(* Proofs about WorkflowPipeline for any number of runs, workflows,        *)
(* commits, pushes of others and lost tasks.                               *)
(***************************************************************************)
EXTENDS WorkflowPipeline, TLAPS

-----------------------------------------------------------------------------
(* What every script does to the scheduler's state.                        *)
LEMMA TaskStep ==
  ASSUME TypeOK, NEW r \in PipelineRuns, Task(r)
  PROVE  /\ \E t \in Tasks, s \in {"done", "failed"} :
              task[r][t] = "running" /\ task' = [task EXCEPT ![r][t] = s]
         /\ UNCHANGED <<source, given, created, pushes>>
         /\ faults' \in 0..MaxFaults
<1> DEFINE Scheduled ==
      /\ \E t \in Tasks, s \in {"done", "failed"} :
           task[r][t] = "running" /\ task' = [task EXCEPT ![r][t] = s]
      /\ UNCHANGED <<source, given, created, pushes>>
      /\ faults' \in 0..MaxFaults
<1>0. NoFault \/ Fault => faults' \in 0..MaxFaults
  BY InputAssumption DEF TypeOK, NoFault, Fault
<1>1. CASE gitCloneScript(r)
  BY <1>0, <1>1 DEF gitCloneScript, EndTask, Tasks
<1>2. CASE gitCloneGitOpsScript(r)
  BY <1>0, <1>2 DEF gitCloneGitOpsScript, EndTask, Tasks
<1>3. CASE flattenerTaskScript(r)
  BY <1>0, <1>3 DEF flattenerTaskScript, EndTask, Tasks
<1>4. CASE buildManifestTaskScript(r)
  BY <1>0, <1>4 DEF buildManifestTaskScript, EndTask, Tasks
<1>5. CASE buildGitOpsTaskScript(r)
  BY <1>0, <1>5 DEF buildGitOpsTaskScript, EndTask, Tasks
<1>6. CASE buildah(r)
  BY <1>0, <1>6 DEF buildah, EndTask, Tasks
<1>7. CASE gitScript(r)
  BY <1>0, <1>7 DEF gitScript, EndTask, Tasks
<1> QED BY <1>1, <1>2, <1>3, <1>4, <1>5, <1>6, <1>7 DEF Task

(* What the scripts do to the workspaces, the registry and main.           *)
LEMMA ScriptTypes ==
  ASSUME TypeOK, NEW r \in PipelineRuns, Task(r)
  PROVE  /\ ws' \in [PipelineRuns -> Workspaces]
         /\ images' \in SUBSET (Workflows \X Commits)
         /\ main' \in [commits: Nat \ {0}, deployed: Deployments]
<1> USE DEF TypeOK
<1>a. source \in Commits
  BY InputAssumption DEF Commits
<1>b. given.id[r] \in Workflows
  BY InputAssumption
<1>1. CASE gitCloneScript(r)
  <2> DEFINE new == [ws[r] EXCEPT !.commit = source]
  <2>1. new \in Workspaces
    BY <1>a DEF Workspaces
  <2>2. ws' \in {ws, [ws EXCEPT ![r] = new]} /\ UNCHANGED <<main, images>>
    BY <1>1 DEF gitCloneScript, EndTask
  <2> QED BY <2>1, <2>2
<1>2. CASE gitCloneGitOpsScript(r)
  <2> DEFINE new == [ws[r] EXCEPT !.base = main.commits, !.cloned = main.deployed,
                               !.tree = main.deployed]
  <2>1. new \in Workspaces
    BY <1>a DEF Workspaces
  <2>2. ws' \in {ws, [ws EXCEPT ![r] = new]} /\ UNCHANGED <<main, images>>
    BY <1>2 DEF gitCloneGitOpsScript, EndTask
  <2> QED BY <2>1, <2>2
<1>3. CASE flattenerTaskScript(r)
  <2> DEFINE new == [ws[r] EXCEPT !.flat = ws[r].commit]
  <2>1. new \in Workspaces
    BY <1>a DEF Workspaces
  <2>2. ws' \in {ws, [ws EXCEPT ![r] = new]} /\ UNCHANGED <<main, images>>
    BY <1>3 DEF flattenerTaskScript, EndTask
  <2> QED BY <2>1, <2>2
<1>4. CASE buildManifestTaskScript(r)
  <2> DEFINE new == [ws[r] EXCEPT !.manifests = ws[r].flat]
  <2>1. new \in Workspaces
    BY <1>a DEF Workspaces
  <2>2. ws' \in {ws, [ws EXCEPT ![r] = new]} /\ UNCHANGED <<main, images>>
    BY <1>4 DEF buildManifestTaskScript, EndTask
  <2> QED BY <2>1, <2>2
<1>5. CASE buildGitOpsTaskScript(r)
  <2> DEFINE entry == [tag |-> ws[r].commit, manifests |-> ws[r].manifests]
             tree  == [ws[r].tree EXCEPT ![given.id[r]] = entry]
  <2>1. entry \in [tag: Commits, manifests: Commits]
    BY DEF Workspaces
  <2>2. tree \in Deployments
    BY <1>b, <2>1 DEF Workspaces, Deployments
  <2> DEFINE new == [ws[r] EXCEPT !.tree = tree]
  <2>3. new \in Workspaces
    BY <2>2 DEF Workspaces
  <2>4. ws' \in {ws, [ws EXCEPT ![r] = new]} /\ UNCHANGED <<main, images>>
    BY <1>5 DEF buildGitOpsTaskScript, EndTask
  <2> HIDE DEF new
  <2> QED BY <2>3, <2>4
<1>6. CASE buildah(r)
  BY <1>6, <1>b DEF buildah, EndTask, Workspaces
<1>7. CASE gitScript(r)
  <2>1. ws[r].tree \in Deployments
    BY DEF Workspaces
  <2> QED BY <1>7, <2>1 DEF gitScript, EndTask
<1> QED BY <1>1, <1>2, <1>3, <1>4, <1>5, <1>6, <1>7 DEF Task

LEMMA TypeInit == Init => TypeOK
<1> SUFFICES ASSUME Init PROVE TypeOK
  OBVIOUS
<1>1. Nothing \in Deployments
  BY InputAssumption DEF Nothing, Deployments, Commits
<1>2. main \in [commits: Nat \ {0}, deployed: Deployments]
  BY <1>1 DEF Init
<1>3. ws \in [PipelineRuns -> Workspaces]
  BY <1>1, InputAssumption DEF Init, Workspaces, Commits
<1>4. task \in [PipelineRuns -> [Tasks -> TaskStates]]
  BY DEF Init, TaskStates
<1> QED BY <1>2, <1>3, <1>4, InputAssumption DEF Init, TypeOK

LEMMA TypeNext == TypeOK /\ [Next]_vars => TypeOK'
<1> SUFFICES ASSUME TypeOK, [Next]_vars PROVE TypeOK'
  OBVIOUS
<1>1. ASSUME NEW r \in PipelineRuns, CreateRun(r) PROVE TypeOK'
  BY <1>1 DEF CreateRun, TypeOK
<1>2. ASSUME NEW r \in PipelineRuns, NEW t \in Tasks, StartTask(r, t) PROVE TypeOK'
  BY <1>2 DEF StartTask, MayStart, TypeOK, TaskStates
<1>3. ASSUME NEW r \in PipelineRuns, Task(r) PROVE TypeOK'
  <2>1. task' \in [PipelineRuns -> [Tasks -> TaskStates]]
    BY <1>3, TaskStep DEF TypeOK, TaskStates
  <2> QED BY <1>3, <2>1, TaskStep, ScriptTypes DEF TypeOK
<1>4. CASE CommitWorkflow
  BY <1>4, InputAssumption DEF CommitWorkflow, TypeOK
<1>5. CASE PushOther
  BY <1>5, InputAssumption DEF PushOther, TypeOK
<1>6. CASE UNCHANGED vars
  BY <1>6 DEF vars, TypeOK
<1> QED BY <1>1, <1>2, <1>3, <1>4, <1>5, <1>6 DEF Next

(***************************************************************************)
(* The type invariant holds in every behaviour.                            *)
(***************************************************************************)
THEOREM TypeCorrect == Spec => []TypeOK
<1>1. Init => TypeOK
  BY TypeInit
<1>2. TypeOK /\ [Next]_vars => TypeOK'
  BY TypeNext
<1> QED BY <1>1, <1>2, PTL DEF Spec

-----------------------------------------------------------------------------
(* Tasks keep their order: a task that has started stays behind tasks that *)
(* are done, and a task that is done is never started again.               *)
LEMMA OrderedInit == Init => \A r \in PipelineRuns : Ordered(r)
  BY DEF Init, Ordered

LEMMA OrderedStep ==
  ASSUME TypeOK, \A r \in PipelineRuns : Ordered(r), [Next]_vars
  PROVE  \A r \in PipelineRuns : Ordered(r)'
<1>1. ASSUME NEW r \in PipelineRuns, NEW t \in Tasks, StartTask(r, t)
      PROVE  \A q \in PipelineRuns : Ordered(q)'
  BY <1>1 DEF StartTask, MayStart, Ordered, TypeOK
<1>2. ASSUME NEW r \in PipelineRuns, Task(r)
      PROVE  \A q \in PipelineRuns : Ordered(q)'
  <2> PICK t \in Tasks, s \in {"done", "failed"} :
        task[r][t] = "running" /\ task' = [task EXCEPT ![r][t] = s]
    BY <1>2, TaskStep
  <2>1. \A q \in PipelineRuns, u \in Tasks :
          /\ task[q][u] = "done" => task'[q][u] = "done"
          /\ task'[q][u] # "waiting" => task[q][u] # "waiting"
    BY DEF TypeOK
  <2>2. \A u \in Tasks : Before(u) \subseteq Tasks
    BY DEF Before, RunAfter, ResultUsers, Tasks
  <2> QED BY <2>1, <2>2 DEF Ordered
<1>3. CASE UNCHANGED task
  BY <1>3 DEF Ordered
<1> QED BY <1>1, <1>2, <1>3 DEF Next, CreateRun, CommitWorkflow, PushOther, vars

(* The order, spelled out for the tasks whose output others read.          *)
LEMMA Later ==
  ASSUME TypeOK, NEW r \in PipelineRuns, Ordered(r)
  PROVE  /\ task[r]["fetch-workflow"] = "running" =>
              /\ task[r]["flatten-workflow"] = "waiting"
              /\ task[r]["build-manifests"] = "waiting"
              /\ task[r]["build-gitops"] = "waiting"
              /\ task[r]["build-and-push-image"] = "waiting"
         /\ task[r]["fetch-workflow-gitops"] = "running" =>
              task[r]["build-gitops"] = "waiting"
         /\ task[r]["flatten-workflow"] = "running" =>
              /\ task[r]["build-manifests"] = "waiting"
              /\ task[r]["build-and-push-image"] = "waiting"
         /\ task[r]["build-manifests"] = "running" =>
              task[r]["build-gitops"] = "waiting"
         /\ task[r]["push-workflow-gitops"] = "running" =>
              task[r]["build-and-push-image"] = "done"
  BY DEF Ordered, Before, RunAfter, ResultUsers, Tasks, TypeOK

-----------------------------------------------------------------------------
(* What others do leaves the workspaces of a run as they should be.        *)
LEMMA OthersKeepWorkspace ==
  ASSUME TypeOK, TypeOK', NEW r \in PipelineRuns, WorkspaceInv(r),
         UNCHANGED given, ws'[r] = ws[r],
         \A t \in Tasks : task[r][t] # "waiting" => task'[r][t] # "waiting",
         task'[r]["build-and-push-image"] = "done" =>
           task[r]["build-and-push-image"] = "done",
         images \subseteq images', main.commits <= main'.commits,
         main'.commits = main.commits => main' = main
  PROVE  WorkspaceInv(r)'
<1>1. Deployed(r)' = Deployed(r)
  BY DEF Deployed
<1>2. ws[r].base \in Nat /\ main.commits \in Nat /\ main'.commits \in Nat
  BY DEF TypeOK, Workspaces
<1>3. {"flatten-workflow", "build-manifests", "build-gitops"} \subseteq Tasks
  BY DEF Tasks
<1>4. ws[r].base <= main'.commits
  BY <1>2 DEF WorkspaceInv
<1>5. ws[r].base = main'.commits => main' = main
  BY <1>2 DEF WorkspaceInv
<1> QED BY <1>1, <1>3, <1>4, <1>5 DEF WorkspaceInv

(* What the tasks of a run do keeps its workspaces as they should be.      *)
LEMMA TaskKeepsWorkspace ==
  ASSUME TypeOK, NEW r \in PipelineRuns, Ordered(r), WorkspaceInv(r), Task(r)
  PROVE  WorkspaceInv(r)'
<1> DEFINE W == ws[r]
<1>0. W \in Workspaces
  BY DEF TypeOK
<1>a. task[r] \in [Tasks -> TaskStates] /\ task \in [PipelineRuns -> [Tasks -> TaskStates]]
  BY DEF TypeOK
<1>b. UNCHANGED given
  BY TaskStep
<1>c. /\ "fetch-workflow" \in Tasks /\ "fetch-workflow-gitops" \in Tasks
      /\ "flatten-workflow" \in Tasks /\ "build-manifests" \in Tasks
      /\ "build-gitops" \in Tasks /\ "build-and-push-image" \in Tasks
      /\ "push-workflow-gitops" \in Tasks
  BY DEF Tasks
<1>d. ws \in [PipelineRuns -> Workspaces]
  BY DEF TypeOK
<1>1. CASE gitCloneScript(r)
  <2>1. /\ ws'[r] \in {W, [W EXCEPT !.commit = source]}
        /\ UNCHANGED <<main, images>>
        /\ task'[r] \in {[task[r] EXCEPT !["fetch-workflow"] = "done"],
                         [task[r] EXCEPT !["fetch-workflow"] = "failed"]}
    BY <1>1, <1>a, <1>c, <1>d DEF gitCloneScript, EndTask
  <2>2. /\ W.flat = 0 /\ W.manifests = 0 /\ W.tree = W.cloned
        /\ task[r]["build-and-push-image"] = "waiting"
    BY <1>1, Later DEF gitCloneScript, EndTask, WorkspaceInv
  <2>3. /\ ws'[r].flat = 0 /\ ws'[r].manifests = 0 /\ ws'[r].tree = ws'[r].cloned
        /\ ws'[r].base = W.base /\ ws'[r].cloned = W.cloned
    BY <2>1, <2>2, <1>0 DEF Workspaces
  <2>4. task'[r]["build-and-push-image"] = "waiting"
    BY <2>1, <2>2, <1>a, <1>c
  <2> QED BY <2>1, <2>3, <2>4 DEF WorkspaceInv
<1>2. CASE gitCloneGitOpsScript(r)
  <2>1. /\ ws'[r] \in {W, [W EXCEPT !.base = main.commits, !.cloned = main.deployed,
                                    !.tree = main.deployed]}
        /\ UNCHANGED <<main, images>>
        /\ task'[r] \in {[task[r] EXCEPT !["fetch-workflow-gitops"] = "done"],
                         [task[r] EXCEPT !["fetch-workflow-gitops"] = "failed"]}
    BY <1>2, <1>a, <1>c, <1>d DEF gitCloneGitOpsScript, EndTask
  <2>2. W.tree = W.cloned
    BY <1>2, Later DEF gitCloneGitOpsScript, EndTask, WorkspaceInv
  <2>3. /\ ws'[r].flat = W.flat /\ ws'[r].manifests = W.manifests
        /\ ws'[r].commit = W.commit /\ ws'[r].tree = ws'[r].cloned
    BY <2>1, <2>2, <1>0 DEF Workspaces
  <2>4. /\ ws'[r].base <= main.commits
        /\ ws'[r].base = main.commits => ws'[r].cloned = main.deployed
    <3>1. main.commits \in Nat
      BY DEF TypeOK
    <3>2. CASE ws'[r] = W
      BY <3>2 DEF WorkspaceInv
    <3>3. CASE ws'[r] # W
      <4> DEFINE new == [W EXCEPT !.base = main.commits, !.cloned = main.deployed,
                                  !.tree = main.deployed]
      <4>1. new.base = main.commits /\ new.cloned = main.deployed
        BY <1>0 DEF Workspaces
      <4>2. ws'[r] = new
        BY <2>1, <3>3
      <4> HIDE DEF new
      <4> QED BY <3>1, <4>1, <4>2
    <3> QED BY <3>2, <3>3
  <2>5. /\ task'[r]["flatten-workflow"] = task[r]["flatten-workflow"]
        /\ task'[r]["build-manifests"] = task[r]["build-manifests"]
        /\ task'[r]["build-and-push-image"] = task[r]["build-and-push-image"]
    BY <2>1, <1>a, <1>c
  <2> QED BY <1>b, <2>1, <2>3, <2>4, <2>5 DEF WorkspaceInv
<1>3. CASE flattenerTaskScript(r)
  <2>1. /\ ws'[r] \in {W, [W EXCEPT !.flat = W.commit]}
        /\ UNCHANGED <<main, images>>
        /\ task'[r] \in {[task[r] EXCEPT !["flatten-workflow"] = "done"],
                         [task[r] EXCEPT !["flatten-workflow"] = "failed"]}
    BY <1>3, <1>a, <1>c, <1>d DEF flattenerTaskScript, EndTask
  <2>2. /\ ws'[r].flat \in {0, W.commit} /\ ws'[r].manifests = W.manifests
        /\ ws'[r].commit = W.commit /\ ws'[r].tree = W.tree
        /\ ws'[r].cloned = W.cloned /\ ws'[r].base = W.base
    BY <2>1, <1>0 DEF Workspaces, WorkspaceInv
  <2>3. /\ task'[r]["flatten-workflow"] # "waiting"
        /\ task'[r]["build-manifests"] = task[r]["build-manifests"]
        /\ task'[r]["build-gitops"] = task[r]["build-gitops"]
        /\ task'[r]["build-and-push-image"] = task[r]["build-and-push-image"]
    BY <2>1, <1>a, <1>c
  <2>4. Deployed(r)' = Deployed(r)
    BY <1>b, <2>2 DEF Deployed
  <2> QED BY <1>b, <2>1, <2>2, <2>3, <2>4 DEF WorkspaceInv
<1>4. CASE buildManifestTaskScript(r)
  <2>1. /\ ws'[r] \in {W, [W EXCEPT !.manifests = W.flat]}
        /\ UNCHANGED <<main, images>>
        /\ task'[r] \in {[task[r] EXCEPT !["build-manifests"] = "done"],
                         [task[r] EXCEPT !["build-manifests"] = "failed"]}
    BY <1>4, <1>a, <1>c, <1>d DEF buildManifestTaskScript, EndTask
  <2>2. /\ ws'[r].flat = W.flat /\ ws'[r].manifests \in {0, W.commit}
        /\ ws'[r].commit = W.commit /\ ws'[r].tree = W.tree
        /\ ws'[r].cloned = W.cloned /\ ws'[r].base = W.base
    BY <2>1, <1>0 DEF Workspaces, WorkspaceInv
  <2>3. /\ task'[r]["build-manifests"] # "waiting"
        /\ task'[r]["flatten-workflow"] = task[r]["flatten-workflow"]
        /\ task'[r]["build-gitops"] = task[r]["build-gitops"]
        /\ task'[r]["build-and-push-image"] = task[r]["build-and-push-image"]
    BY <2>1, <1>a, <1>c
  <2>4. Deployed(r)' = Deployed(r)
    BY <1>b, <2>2 DEF Deployed
  <2> QED BY <1>b, <2>1, <2>2, <2>3, <2>4 DEF WorkspaceInv
<1>5. CASE buildGitOpsTaskScript(r)
  <2> DEFINE entry == [tag |-> W.commit, manifests |-> W.manifests]
             tree  == [W.tree EXCEPT ![given.id[r]] = entry]
  <2>1. /\ ws'[r] = W \/ (W.manifests # 0 /\ ws'[r] = [W EXCEPT !.tree = tree])
        /\ UNCHANGED <<main, images>>
        /\ task'[r] \in {[task[r] EXCEPT !["build-gitops"] = "done"],
                         [task[r] EXCEPT !["build-gitops"] = "failed"]}
    BY <1>5, <1>a, <1>c, <1>d DEF buildGitOpsTaskScript, EndTask
  <2>2. W.manifests # 0 => tree \in {W.cloned, Deployed(r)}
    <3> SUFFICES ASSUME W.manifests # 0 PROVE tree \in {W.cloned, Deployed(r)}
      OBVIOUS
    <3>1. entry = [tag |-> W.commit, manifests |-> W.commit]
      BY DEF WorkspaceInv
    <3>2. given.id[r] \in Workflows
      BY InputAssumption DEF TypeOK
    <3>3. W.cloned \in Deployments /\ W.tree \in {W.cloned, Deployed(r)}
      BY <1>0 DEF Workspaces, WorkspaceInv
    <3> HIDE DEF entry
    <3>4. CASE W.tree = W.cloned
      BY <3>1, <3>4 DEF Deployed
    <3>5. CASE W.tree = Deployed(r)
      BY <3>1, <3>2, <3>3, <3>5 DEF Deployed, Deployments
    <3> QED BY <3>3, <3>4, <3>5
  <2>3. /\ ws'[r].flat = W.flat /\ ws'[r].manifests = W.manifests
        /\ ws'[r].commit = W.commit /\ ws'[r].tree \in {W.cloned, Deployed(r)}
        /\ ws'[r].cloned = W.cloned /\ ws'[r].base = W.base
    <3> HIDE DEF tree
    <3> QED BY <2>1, <2>2, <1>0 DEF Workspaces, WorkspaceInv
  <2>4. /\ task'[r]["build-gitops"] # "waiting"
        /\ task'[r]["flatten-workflow"] = task[r]["flatten-workflow"]
        /\ task'[r]["build-manifests"] = task[r]["build-manifests"]
        /\ task'[r]["build-and-push-image"] = task[r]["build-and-push-image"]
    BY <2>1, <1>a, <1>c
  <2>5. Deployed(r)' = Deployed(r)
    BY <1>b, <2>3 DEF Deployed
  <2> QED BY <1>b, <2>1, <2>3, <2>4, <2>5 DEF WorkspaceInv
<1>6. CASE buildah(r)
  <2>1. /\ ws' = ws /\ UNCHANGED main /\ images \subseteq images'
        /\ \/ /\ task'[r] = [task[r] EXCEPT !["build-and-push-image"] = "done"]
              /\ <<given.id[r], W.commit>> \in images'
           \/ task'[r] = [task[r] EXCEPT !["build-and-push-image"] = "failed"]
    BY <1>6, <1>a, <1>c DEF buildah, EndTask
  <2>2. /\ task'[r]["flatten-workflow"] = task[r]["flatten-workflow"]
        /\ task'[r]["build-manifests"] = task[r]["build-manifests"]
        /\ task'[r]["build-gitops"] = task[r]["build-gitops"]
        /\ task'[r]["build-and-push-image"] = "done" =>
              <<given.id[r], W.commit>> \in images'
    BY <2>1, <1>a, <1>c
  <2>3. Deployed(r)' = Deployed(r)
    BY <1>b, <2>1 DEF Deployed
  <2> QED BY <1>b, <2>1, <2>2, <2>3 DEF WorkspaceInv
<1>7. CASE gitScript(r)
  <2>1. /\ ws' = ws /\ UNCHANGED images
        /\ UNCHANGED main \/ main'.commits = main.commits + 1
        /\ task'[r] \in {[task[r] EXCEPT !["push-workflow-gitops"] = "done"],
                         [task[r] EXCEPT !["push-workflow-gitops"] = "failed"]}
    BY <1>7, <1>a, <1>c DEF gitScript, EndTask
  <2>2. /\ task'[r]["flatten-workflow"] = task[r]["flatten-workflow"]
        /\ task'[r]["build-manifests"] = task[r]["build-manifests"]
        /\ task'[r]["build-gitops"] = task[r]["build-gitops"]
        /\ task'[r]["build-and-push-image"] = task[r]["build-and-push-image"]
    BY <2>1, <1>a, <1>c
  <2>3. Deployed(r)' = Deployed(r)
    BY <1>b, <2>1 DEF Deployed
  <2>4. /\ W.base <= main'.commits
        /\ W.base = main'.commits => UNCHANGED main
    BY <2>1, <1>0 DEF WorkspaceInv, Workspaces, TypeOK
  <2> QED BY <1>b, <2>1, <2>2, <2>3, <2>4 DEF WorkspaceInv
<1> QED BY <1>1, <1>2, <1>3, <1>4, <1>5, <1>6, <1>7 DEF Task

LEMMA PipelineInit == Init => PipelineInv
<1> SUFFICES ASSUME Init, NEW r \in PipelineRuns PROVE WorkspaceInv(r)
  BY OrderedInit DEF PipelineInv
<1>1. /\ ws[r] = [commit |-> 0, flat |-> 0, manifests |-> 0,
                  base |-> 0, cloned |-> Nothing, tree |-> Nothing]
      /\ main.commits = 1 /\ task[r] = [t \in Tasks |-> "waiting"]
  BY DEF Init
<1> QED BY <1>1 DEF WorkspaceInv, Tasks

LEMMA PipelineStep == TypeOK /\ PipelineInv /\ [Next]_vars => PipelineInv'
<1> SUFFICES ASSUME TypeOK, PipelineInv, [Next]_vars, NEW q \in PipelineRuns
             PROVE  WorkspaceInv(q)'
  BY OrderedStep DEF PipelineInv
<1>0. TypeOK' /\ Ordered(q) /\ WorkspaceInv(q)
  BY TypeNext DEF PipelineInv
<1>a. main.commits \in Nat
  BY DEF TypeOK
<1>1. ASSUME NEW r \in PipelineRuns, CreateRun(r) PROVE WorkspaceInv(q)'
  BY <1>0, <1>1, <1>a, OthersKeepWorkspace DEF CreateRun
<1>2. ASSUME NEW r \in PipelineRuns, NEW t \in Tasks, StartTask(r, t)
      PROVE  WorkspaceInv(q)'
  <2>1. /\ \A u \in Tasks : task[q][u] # "waiting" => task'[q][u] # "waiting"
        /\ \A u \in Tasks : task'[q][u] = "done" => task[q][u] = "done"
    BY <1>2 DEF StartTask, MayStart, TypeOK
  <2>2. "build-and-push-image" \in Tasks
    BY DEF Tasks
  <2> QED BY <1>0, <1>2, <1>a, <2>1, <2>2, OthersKeepWorkspace DEF StartTask, MayStart
<1>3. ASSUME NEW r \in PipelineRuns, Task(r) PROVE WorkspaceInv(q)'
  <2>1. CASE q = r
    BY <1>0, <1>3, <2>1, TaskKeepsWorkspace
  <2>2. CASE q # r
    <3>1. task'[q] = task[q] /\ UNCHANGED given
      BY <1>3, <2>2, TaskStep DEF TypeOK
    <3>2. /\ ws'[q] = ws[q] /\ images \subseteq images'
          /\ main' = main \/ main'.commits = main.commits + 1
      BY <1>3, <2>2 DEF Task, EndTask, gitCloneScript, gitCloneGitOpsScript,
         flattenerTaskScript, buildManifestTaskScript, buildGitOpsTaskScript,
         buildah, gitScript, TypeOK
    <3>3. main.commits <= main'.commits /\ (main'.commits = main.commits => main' = main)
      BY <1>a, <3>2
    <3> QED BY <1>0, <3>1, <3>2, <3>3, OthersKeepWorkspace
  <2> QED BY <2>1, <2>2
<1>4. CASE CommitWorkflow
  BY <1>0, <1>4, <1>a, OthersKeepWorkspace DEF CommitWorkflow
<1>5. CASE PushOther
  <2>1. main'.commits = main.commits + 1
    BY <1>5 DEF PushOther, TypeOK
  <2> QED BY <1>0, <1>5, <1>a, <2>1, OthersKeepWorkspace DEF PushOther
<1>6. CASE UNCHANGED vars
  BY <1>0, <1>6, <1>a, OthersKeepWorkspace DEF vars
<1> QED BY <1>1, <1>2, <1>3, <1>4, <1>5, <1>6 DEF Next

-----------------------------------------------------------------------------
(* A change of what main deploys is the push of a run whose clone was not  *)
(* behind, and whose image and manifests are those of its commit.          *)
LEMMA DeploymentStep ==
  ASSUME TypeOK, PipelineInv, [Next]_vars
  PROVE  \/ main'.deployed = main.deployed
         \/ \E r \in PipelineRuns :
              /\ task[r]["push-workflow-gitops"] = "running"
              /\ ws[r].cloned = main.deployed
              /\ main'.deployed = Deployed(r)
              /\ <<given.id[r], ws[r].commit>> \in images
<1> DEFINE Goal == \/ main'.deployed = main.deployed
                   \/ \E r \in PipelineRuns :
                        /\ task[r]["push-workflow-gitops"] = "running"
                        /\ ws[r].cloned = main.deployed
                        /\ main'.deployed = Deployed(r)
                        /\ <<given.id[r], ws[r].commit>> \in images
<1>1. ASSUME NEW r \in PipelineRuns, gitScript(r) PROVE Goal
  <2>1. CASE UNCHANGED main
    BY <2>1
  <2>2. CASE ~UNCHANGED main
    <3>1. /\ task[r]["push-workflow-gitops"] = "running"
          /\ ~NothingToCommit(r) /\ ~Rejected(r)
          /\ main'.deployed = ws[r].tree
      BY <1>1, <2>2 DEF gitScript, EndTask
    <3>2. Ordered(r) /\ WorkspaceInv(r)
      BY DEF PipelineInv
    <3>3. ws[r].cloned = main.deployed /\ main'.deployed = Deployed(r)
      BY <3>1, <3>2 DEF WorkspaceInv, NothingToCommit, Rejected
    <3>4. <<given.id[r], ws[r].commit>> \in images
      BY <3>1, <3>2, Later DEF WorkspaceInv
    <3> QED BY <3>1, <3>3, <3>4
  <2> QED BY <2>1, <2>2
<1>2. CASE \E r \in PipelineRuns : Task(r) /\ ~gitScript(r)
  BY <1>2 DEF Task, EndTask, gitCloneScript, gitCloneGitOpsScript, flattenerTaskScript,
     buildManifestTaskScript, buildGitOpsTaskScript, buildah
<1>3. CASE PushOther
  BY <1>3 DEF PushOther, TypeOK
<1>4. CASE UNCHANGED main
  BY <1>4
<1> QED BY <1>1, <1>2, <1>3, <1>4 DEF Next, CreateRun, StartTask, MayStart, CommitWorkflow, vars

LEMMA ImageStep ==
  TypeOK /\ PipelineInv /\ DeployedImageExists /\ [Next]_vars => DeployedImageExists'
<1> SUFFICES ASSUME TypeOK, PipelineInv, DeployedImageExists, [Next]_vars,
                    NEW w \in Workflows, main'.deployed[w].tag # 0
             PROVE  /\ <<w, main'.deployed[w].tag>> \in images'
                    /\ main'.deployed[w].manifests = main'.deployed[w].tag
  BY DEF DeployedImageExists
<1>1. images \subseteq images'
  BY DEF Next, vars, CreateRun, StartTask, CommitWorkflow, PushOther, Task, EndTask,
     gitCloneScript, gitCloneGitOpsScript, flattenerTaskScript, buildManifestTaskScript,
     buildGitOpsTaskScript, buildah, gitScript
<1>2. CASE main'.deployed = main.deployed
  BY <1>1, <1>2 DEF DeployedImageExists
<1>3. ASSUME NEW r \in PipelineRuns, ws[r].cloned = main.deployed,
             main'.deployed = Deployed(r), <<given.id[r], ws[r].commit>> \in images
      PROVE  /\ <<w, main'.deployed[w].tag>> \in images'
             /\ main'.deployed[w].manifests = main'.deployed[w].tag
  <2>1. main.deployed \in Deployments
    BY DEF TypeOK
  <2>2. CASE w = given.id[r]
    <3>1. main'.deployed[w] = [tag |-> ws[r].commit, manifests |-> ws[r].commit]
      BY <1>3, <2>1, <2>2 DEF Deployed, Deployments
    <3> QED BY <1>1, <1>3, <2>2, <3>1
  <2>3. CASE w # given.id[r]
    <3>1. main'.deployed[w] = main.deployed[w]
      BY <1>3, <2>1, <2>3 DEF Deployed, Deployments
    <3> QED BY <1>1, <3>1 DEF DeployedImageExists
  <2> QED BY <2>2, <2>3
<1> QED BY <1>2, <1>3, DeploymentStep

(***************************************************************************)
(* What main deploys has its image in the registry and the manifests of    *)
(* the same commit, for any number of runs and lost tasks.                 *)
(***************************************************************************)
THEOREM ImagesCorrect == Spec => []DeployedImageExists
<1>1. Init => TypeOK /\ PipelineInv /\ DeployedImageExists
  BY TypeInit, PipelineInit DEF Init, DeployedImageExists, Nothing
<1>2. TypeOK /\ PipelineInv /\ DeployedImageExists /\ [Next]_vars
      => (TypeOK /\ PipelineInv /\ DeployedImageExists)'
  BY TypeNext, PipelineStep, ImageStep
<1> QED BY <1>1, <1>2, PTL DEF Spec

(***************************************************************************)
(* A push replaces only deployments that the run had cloned, and changes   *)
(* the one of its own workflow alone.                                      *)
(***************************************************************************)
THEOREM NoDeploymentLost == Spec => NoLostDeployment
<1>1. Init => TypeOK /\ PipelineInv
  BY TypeInit, PipelineInit
<1>2. TypeOK /\ PipelineInv /\ [Next]_vars => (TypeOK /\ PipelineInv)'
  BY TypeNext, PipelineStep
<1>3. TypeOK /\ PipelineInv /\ [Next]_vars => [PushReplacesTheCloned]_main
  <2> SUFFICES ASSUME TypeOK, PipelineInv, [Next]_vars, NEW w \in Workflows,
                      main'.deployed[w] # main.deployed[w]
               PROVE  \E r \in PipelineRuns :
                        /\ given.id[r] = w /\ task[r]["push-workflow-gitops"] = "running"
                        /\ ws[r].cloned[w] = main.deployed[w]
    BY DEF PushReplacesTheCloned
  <2>1. PICK r \in PipelineRuns :
          /\ task[r]["push-workflow-gitops"] = "running"
          /\ ws[r].cloned = main.deployed /\ main'.deployed = Deployed(r)
    BY DeploymentStep
  <2>2. main.deployed \in Deployments
    BY DEF TypeOK
  <2>3. given.id[r] = w
    BY <2>1, <2>2 DEF Deployed, Deployments
  <2> QED BY <2>1, <2>3
<1> QED BY <1>1, <1>2, <1>3, PTL DEF Spec, NoLostDeployment

(* What is done when a task that conflicts with others runs.               *)
LEMMA Chain ==
  ASSUME NEW r \in PipelineRuns, Ordered(r)
  PROVE  /\ task[r]["flatten-workflow"] = "running" =>
              /\ task[r]["fetch-workflow"] = "done"
              /\ task[r]["build-manifests"] = "waiting"
              /\ task[r]["build-gitops"] = "waiting"
              /\ task[r]["build-and-push-image"] = "waiting"
         /\ task[r]["build-gitops"] = "running" =>
              /\ task[r]["build-manifests"] = "done"
              /\ task[r]["flatten-workflow"] = "done"
              /\ task[r]["fetch-workflow-gitops"] = "done"
              /\ task[r]["push-workflow-gitops"] = "waiting"
         /\ task[r]["push-workflow-gitops"] = "running" =>
              /\ task[r]["build-gitops"] = "done"
              /\ task[r]["fetch-workflow-gitops"] = "done"
  BY DEF Ordered, Before, RunAfter, ResultUsers, Tasks

(***************************************************************************)
(* The only tasks of a run that overlap on a directory are build-manifests *)
(* and build-and-push-image, whatever else happens.                        *)
(***************************************************************************)
THEOREM ConflictsCorrect == Spec => []ConflictsConfined
<1>1. Init => TypeOK /\ PipelineInv
  BY TypeInit, PipelineInit
<1>2. TypeOK /\ PipelineInv /\ [Next]_vars => (TypeOK /\ PipelineInv)'
  BY TypeNext, PipelineStep
<1>3. TypeOK /\ PipelineInv => ConflictsConfined
  <2> SUFFICES ASSUME PipelineInv, NEW r \in PipelineRuns, NEW t \in Tasks, NEW u \in Tasks,
                      t # u, task[r][t] = "running", task[r][u] = "running", Conflict(t, u)
               PROVE  t = "build-manifests" /\ u = "build-and-push-image"
    BY DEF ConflictsConfined
  <2>1. Ordered(r)
    BY DEF PipelineInv
  <2>2. \/ task[r]["flatten-workflow"] = "running" /\ "flatten-workflow" \in {t, u}
        \/ task[r]["build-gitops"] = "running" /\ "build-gitops" \in {t, u}
        \/ task[r]["push-workflow-gitops"] = "running" /\ "push-workflow-gitops" \in {t, u}
        \/ {t, u} = {"build-manifests", "build-and-push-image"}
    BY DEF Conflict, ReadSet, WriteSet, Tasks
  <2>3. CASE task[r]["flatten-workflow"] = "running" /\ "flatten-workflow" \in {t, u}
    <3>1. {t, u} \subseteq {"flatten-workflow", "fetch-workflow", "build-manifests",
                           "build-gitops", "build-and-push-image"}
      BY <2>3 DEF Conflict, ReadSet, WriteSet, Tasks
    <3> QED BY <2>1, <2>3, <3>1, Chain
  <2>4. CASE task[r]["build-gitops"] = "running" /\ "build-gitops" \in {t, u}
    <3>1. {t, u} \subseteq {"build-gitops", "flatten-workflow", "build-manifests",
                           "fetch-workflow-gitops", "push-workflow-gitops"}
      BY <2>4 DEF Conflict, ReadSet, WriteSet, Tasks
    <3> QED BY <2>1, <2>4, <3>1, Chain
  <2>5. CASE task[r]["push-workflow-gitops"] = "running" /\ "push-workflow-gitops" \in {t, u}
    <3>1. {t, u} \subseteq {"push-workflow-gitops", "build-gitops", "fetch-workflow-gitops"}
      BY <2>5 DEF Conflict, ReadSet, WriteSet, Tasks
    <3> QED BY <2>1, <2>5, <3>1, Chain
  <2>6. CASE {t, u} = {"build-manifests", "build-and-push-image"}
    BY <2>6 DEF Conflict, ReadSet, WriteSet, Tasks
  <2> QED BY <2>2, <2>3, <2>4, <2>5, <2>6
<1> QED BY <1>1, <1>2, <1>3, PTL DEF Spec

-----------------------------------------------------------------------------
(* A task that is done has left what the next ones need.                   *)
LEMMA OutputInit == Init => \A r \in PipelineRuns : OutputInv(r)
<1> SUFFICES ASSUME Init, NEW r \in PipelineRuns PROVE OutputInv(r)
  OBVIOUS
<1>1. task[r] = [t \in Tasks |-> "waiting"]
  BY DEF Init
<1> QED BY <1>1 DEF OutputInv, Tasks

LEMMA TaskOutput ==
  ASSUME TypeOK, NEW r \in PipelineRuns, Ordered(r), OutputInv(r), Task(r)
  PROVE  OutputInv(r)'
<1> DEFINE W == ws[r]
<1>0. W \in Workspaces /\ ws \in [PipelineRuns -> Workspaces]
  BY DEF TypeOK
<1>a. /\ task[r] \in [Tasks -> TaskStates]
      /\ task \in [PipelineRuns -> [Tasks -> TaskStates]]
  BY DEF TypeOK
<1>c. /\ "fetch-workflow" \in Tasks /\ "fetch-workflow-gitops" \in Tasks
      /\ "flatten-workflow" \in Tasks /\ "build-manifests" \in Tasks
      /\ "build-gitops" \in Tasks /\ "build-and-push-image" \in Tasks
      /\ "push-workflow-gitops" \in Tasks
  BY DEF Tasks
<1>1. CASE gitCloneScript(r)
  <2> DEFINE new == [W EXCEPT !.commit = source]
  <2>1. \/ ws'[r] = new /\ task'[r] = [task[r] EXCEPT !["fetch-workflow"] = "done"]
        \/ /\ ws'[r] \in {W, new}
           /\ task'[r] = [task[r] EXCEPT !["fetch-workflow"] = "failed"]
    BY <1>1, <1>0, <1>a, <1>c DEF gitCloneScript, EndTask
  <2>2. new.commit # 0 /\ new.base = W.base /\ new.flat = W.flat /\ new.manifests = W.manifests
    BY <1>0, InputAssumption DEF Workspaces, TypeOK
  <2> HIDE DEF new
  <2> QED BY <1>a, <1>c, <2>1, <2>2 DEF OutputInv
<1>2. CASE gitCloneGitOpsScript(r)
  <2> DEFINE new == [W EXCEPT !.base = main.commits, !.cloned = main.deployed,
                              !.tree = main.deployed]
  <2>1. \/ ws'[r] = new /\ task'[r] = [task[r] EXCEPT !["fetch-workflow-gitops"] = "done"]
        \/ /\ ws'[r] \in {W, new}
           /\ task'[r] = [task[r] EXCEPT !["fetch-workflow-gitops"] = "failed"]
    BY <1>2, <1>0, <1>a, <1>c DEF gitCloneGitOpsScript, EndTask
  <2>2. new.base # 0 /\ new.commit = W.commit /\ new.flat = W.flat /\ new.manifests = W.manifests
    BY <1>0 DEF Workspaces, TypeOK
  <2> HIDE DEF new
  <2> QED BY <1>a, <1>c, <2>1, <2>2 DEF OutputInv
<1>3. CASE flattenerTaskScript(r)
  <2> DEFINE new == [W EXCEPT !.flat = W.commit]
  <2>1. /\ \/ /\ ws'[r] = new /\ W.commit # 0
              /\ task'[r] = [task[r] EXCEPT !["flatten-workflow"] = "done"]
           \/ /\ ws'[r] \in {W, new}
              /\ task'[r] = [task[r] EXCEPT !["flatten-workflow"] = "failed"]
        /\ task[r]["flatten-workflow"] = "running"
    BY <1>3, <1>0, <1>a, <1>c DEF flattenerTaskScript, EndTask
  <2>2. new.flat = W.commit /\ new.base = W.base /\ new.commit = W.commit
        /\ new.manifests = W.manifests
    BY <1>0 DEF Workspaces
  <2> HIDE DEF new
  <2> QED BY <1>a, <1>c, <2>1, <2>2 DEF OutputInv
<1>4. CASE buildManifestTaskScript(r)
  <2> DEFINE new == [W EXCEPT !.manifests = W.flat]
  <2>1. /\ \/ /\ ws'[r] = new /\ W.flat # 0
              /\ task'[r] = [task[r] EXCEPT !["build-manifests"] = "done"]
           \/ /\ ws'[r] \in {W, new}
              /\ task'[r] = [task[r] EXCEPT !["build-manifests"] = "failed"]
        /\ task[r]["build-manifests"] = "running"
    BY <1>4, <1>0, <1>a, <1>c DEF buildManifestTaskScript, EndTask
  <2>2. new.manifests = W.flat /\ new.base = W.base /\ new.commit = W.commit
        /\ new.flat = W.flat
    BY <1>0 DEF Workspaces
  <2> HIDE DEF new
  <2> QED BY <1>a, <1>c, <2>1, <2>2 DEF OutputInv
<1>5. CASE buildGitOpsTaskScript(r)
  <2> DEFINE new == [W EXCEPT !.tree[given.id[r]] =
                       [tag |-> W.commit, manifests |-> W.manifests]]
  <2>1. /\ ws'[r] \in {W, new}
        /\ task'[r] \in {[task[r] EXCEPT !["build-gitops"] = "done"],
                         [task[r] EXCEPT !["build-gitops"] = "failed"]}
    BY <1>5, <1>0, <1>a, <1>c DEF buildGitOpsTaskScript, EndTask
  <2>2. new.base = W.base /\ new.commit = W.commit /\ new.flat = W.flat
        /\ new.manifests = W.manifests
    BY <1>0 DEF Workspaces
  <2> HIDE DEF new
  <2> QED BY <1>a, <1>c, <2>1, <2>2 DEF OutputInv
<1>6. CASE buildah(r) \/ gitScript(r)
  <2>1. /\ ws' = ws
        /\ \E t \in {"build-and-push-image", "push-workflow-gitops"}, s \in {"done", "failed"} :
             task'[r] = [task[r] EXCEPT ![t] = s]
    BY <1>6, <1>a, <1>c DEF buildah, gitScript, EndTask
  <2> QED BY <1>a, <1>c, <2>1 DEF OutputInv
<1> QED BY <1>1, <1>2, <1>3, <1>4, <1>5, <1>6 DEF Task

(* The branch main only moves on, and so does the number of faults.        *)
LEMMA MainStep ==
  ASSUME TypeOK, [Next]_vars
  PROVE  /\ main' = main \/ main'.commits = main.commits + 1
         /\ faults' = 0 => faults = 0
<1> DEFINE Goal == /\ main' = main \/ main'.commits = main.commits + 1
                   /\ faults' = 0 => faults = 0
<1>1. ASSUME NEW r \in PipelineRuns, Task(r) PROVE Goal
  <2>1. /\ NoFault \/ Fault
        /\ main' = main \/ main'.commits = main.commits + 1
    BY <1>1 DEF Task, EndTask, gitCloneScript, gitCloneGitOpsScript,
       flattenerTaskScript, buildManifestTaskScript, buildGitOpsTaskScript,
       buildah, gitScript, Tasks
  <2>2. Fault => faults' # 0
    BY DEF TypeOK, Fault
  <2> QED BY <2>1, <2>2 DEF NoFault
<1>2. CASE PushOther
  BY <1>2 DEF PushOther, TypeOK
<1>3. CASE UNCHANGED <<main, faults>>
  BY <1>3
<1> QED BY <1>1, <1>2, <1>3 DEF Next, vars, CreateRun, StartTask, CommitWorkflow

(* A failure stays explained: nothing that explains it changes later.      *)
LEMMA ReasonKept ==
  ASSUME TypeOK, PipelineInv, [Next]_vars, NEW r \in PipelineRuns, NEW t \in Tasks,
         task[r][t] = "failed", Reason(r, t)
  PROVE  Reason(r, t)'
<1>0. UNCHANGED given
  BY TaskStep DEF Next, CreateRun, StartTask, MayStart, CommitWorkflow, PushOther, vars
<1>1. CASE t = "flatten-workflow"
  BY <1>0, <1>1 DEF Reason
<1>2. CASE t = "push-workflow-gitops" /\ (NothingToCommit(r) \/ Rejected(r))
  <2>1. /\ task[r]["build-gitops"] = "done" /\ task[r]["fetch-workflow-gitops"] = "done"
    <3>1. Ordered(r)
      BY DEF PipelineInv
    <3> QED BY <1>2, <3>1 DEF Ordered, Before, RunAfter, ResultUsers, Tasks
  <2>2. ws'[r].base = ws[r].base /\ ws'[r].tree = ws[r].tree /\ ws'[r].cloned = ws[r].cloned
    <3>1. CASE UNCHANGED ws
      BY <3>1
    <3>2. ASSUME NEW q \in PipelineRuns, Task(q)
          PROVE  ws'[r].base = ws[r].base /\ ws'[r].tree = ws[r].tree
                 /\ ws'[r].cloned = ws[r].cloned
      <4>1. CASE q = r
        <5>1. ws[r] \in Workspaces /\ ws \in [PipelineRuns -> Workspaces]
          BY DEF TypeOK
        <5>2. gitCloneScript(r) \/ flattenerTaskScript(r) \/ buildManifestTaskScript(r)
              \/ buildah(r) \/ gitScript(r)
          BY <2>1, <3>2, <4>1 DEF Task, gitCloneGitOpsScript, buildGitOpsTaskScript, EndTask
        <5>3. \/ ws'[r] = ws[r]
              \/ ws'[r] = [ws[r] EXCEPT !.commit = source]
              \/ ws'[r] = [ws[r] EXCEPT !.flat = ws[r].commit]
              \/ ws'[r] = [ws[r] EXCEPT !.manifests = ws[r].flat]
          BY <5>1, <5>2 DEF gitCloneScript, flattenerTaskScript, buildManifestTaskScript,
             buildah, gitScript, EndTask
        <5> QED BY <5>1, <5>3 DEF Workspaces
      <4>2. CASE q # r
        BY <3>2, <4>2 DEF Task, EndTask, gitCloneScript, gitCloneGitOpsScript,
           flattenerTaskScript, buildManifestTaskScript, buildGitOpsTaskScript,
           buildah, gitScript, TypeOK
      <4> QED BY <4>1, <4>2
    <3> QED BY <3>1, <3>2 DEF Next, CreateRun, StartTask, MayStart, CommitWorkflow, PushOther, vars
  <2>3. main'.commits >= main.commits
    <3>1. main' = main \/ main'.commits = main.commits + 1
      BY MainStep
    <3>2. main.commits \in Nat
      BY DEF TypeOK
    <3> QED BY <3>1, <3>2
  <2>4. /\ ws[r].base <= main.commits /\ ws[r].base \in Nat
        /\ main.commits \in Nat /\ main'.commits \in Nat
    BY TypeNext DEF PipelineInv, WorkspaceInv, TypeOK, Workspaces
  <2> QED BY <1>2, <2>2, <2>3, <2>4 DEF Reason, NothingToCommit, Rejected
<1> QED BY <1>1, <1>2 DEF Reason

(* A task that fails without a fault has one of the reasons.               *)
LEMMA NewFailure ==
  ASSUME TypeOK, PipelineInv, NEW r \in PipelineRuns, OutputInv(r), Task(r),
         NEW t \in Tasks, task[r][t] # "failed", task'[r][t] = "failed", faults' = 0
  PROVE  Reason(r, t)'
<1>0. Ordered(r) /\ UNCHANGED given
  BY TaskStep DEF PipelineInv
<1>a. /\ task[r] \in [Tasks -> TaskStates]
      /\ task \in [PipelineRuns -> [Tasks -> TaskStates]]
  BY DEF TypeOK
<1>b. ~Fault
  BY DEF TypeOK, Fault
<1>c. /\ "fetch-workflow" \in Tasks /\ "fetch-workflow-gitops" \in Tasks
      /\ "flatten-workflow" \in Tasks /\ "build-manifests" \in Tasks
      /\ "build-gitops" \in Tasks /\ "build-and-push-image" \in Tasks
      /\ "push-workflow-gitops" \in Tasks
  BY DEF Tasks
<1>d. \A u \in Tasks : task[r][u] = "running" => \A v \in Before(u) : task[r][v] = "done"
  BY <1>0 DEF Ordered
<1>1. CASE gitCloneScript(r)
  BY <1>1, <1>a, <1>b, <1>c DEF gitCloneScript, EndTask
<1>2. CASE gitCloneGitOpsScript(r)
  BY <1>2, <1>a, <1>b, <1>c DEF gitCloneGitOpsScript, EndTask
<1>3. CASE flattenerTaskScript(r)
  <2>1. t = "flatten-workflow" /\ task[r][t] = "running"
        /\ ~(ws[r].commit # 0 /\ (given.nested => given.flat[r]))
    BY <1>3, <1>a, <1>b, <1>c DEF flattenerTaskScript, EndTask
  <2>2. task[r]["fetch-workflow"] = "done"
    BY <1>d, <2>1 DEF Before, RunAfter, Tasks
  <2> QED BY <1>0, <2>1, <2>2 DEF OutputInv, Reason
<1>4. CASE buildManifestTaskScript(r)
  <2>1. task[r]["build-manifests"] = "running" /\ ~(ws[r].flat # 0)
    BY <1>4, <1>a, <1>b, <1>c DEF buildManifestTaskScript, EndTask
  <2>2. task[r]["flatten-workflow"] = "done"
    BY <1>d, <2>1 DEF Before, RunAfter, Tasks
  <2> QED BY <2>1, <2>2 DEF OutputInv
<1>5. CASE buildGitOpsTaskScript(r)
  <2>1. task[r]["build-gitops"] = "running" /\ ~(ws[r].manifests # 0 /\ ws[r].base # 0)
    BY <1>5, <1>a, <1>b, <1>c DEF buildGitOpsTaskScript, EndTask
  <2>2. task[r]["build-manifests"] = "done" /\ task[r]["fetch-workflow-gitops"] = "done"
    BY <1>d, <2>1 DEF Before, RunAfter, Tasks
  <2> QED BY <2>1, <2>2 DEF OutputInv
<1>6. CASE buildah(r)
  <2>1. task[r]["build-and-push-image"] = "running" /\ ~(ws[r].flat # 0)
    BY <1>6, <1>a, <1>b, <1>c DEF buildah, EndTask
  <2>2. task[r]["flatten-workflow"] = "done"
    BY <1>d, <2>1 DEF Before, RunAfter, Tasks
  <2> QED BY <2>1, <2>2 DEF OutputInv
<1>7. CASE gitScript(r)
  <2>1. /\ t = "push-workflow-gitops" /\ task[r][t] = "running"
        /\ ~(ws[r].base # 0 /\ ~NothingToCommit(r) /\ ~Rejected(r))
        /\ UNCHANGED <<ws, main>>
    BY <1>7, <1>a, <1>b, <1>c DEF gitScript, EndTask
  <2>2. task[r]["build-gitops"] = "done"
    BY <1>d, <2>1 DEF Before, RunAfter, Tasks
  <2>3. task[r]["fetch-workflow-gitops"] = "done"
    BY <1>0, <1>c, <2>2 DEF Ordered, Before, RunAfter, Tasks
  <2> QED BY <2>1, <2>3 DEF OutputInv, Reason, NothingToCommit, Rejected
<1> QED BY <1>1, <1>2, <1>3, <1>4, <1>5, <1>6, <1>7 DEF Task

(***************************************************************************)
(* Without faults a run fails for the three reasons only; in particular no *)
(* task ever starts before what it needs is there.                         *)
(***************************************************************************)
THEOREM FailuresCorrect == Spec => []FailuresExplained
<1> DEFINE Outputs == \A r \in PipelineRuns : OutputInv(r)
           Inv == TypeOK /\ PipelineInv /\ Outputs /\ FailuresExplained
<1>1. Init => Inv
  <2>1. Init => FailuresExplained
    BY DEF Init, FailuresExplained
  <2> QED BY <2>1, TypeInit, PipelineInit, OutputInit
<1>2. Inv /\ [Next]_vars => Inv'
  <2> SUFFICES ASSUME Inv, [Next]_vars PROVE Inv'
    OBVIOUS
  <2>1. TypeOK' /\ PipelineInv'
    BY TypeNext, PipelineStep
  <2>2. Outputs'
    <3> SUFFICES ASSUME NEW q \in PipelineRuns PROVE OutputInv(q)'
      OBVIOUS
    <3>1. ASSUME NEW r \in PipelineRuns, Task(r) PROVE OutputInv(q)'
      <4>1. CASE q = r
        BY <3>1, <4>1, TaskOutput DEF PipelineInv
      <4>2. CASE q # r
        <5>1. ws'[q] = ws[q]
          BY <3>1, <4>2 DEF Task, EndTask, gitCloneScript, gitCloneGitOpsScript,
             flattenerTaskScript, buildManifestTaskScript, buildGitOpsTaskScript,
             buildah, gitScript, TypeOK
        <5>2. task'[q] = task[q]
          BY <3>1, <4>2, TaskStep DEF TypeOK
        <5> QED BY <5>1, <5>2 DEF OutputInv
      <4> QED BY <4>1, <4>2
    <3>2. ASSUME NEW r \in PipelineRuns, NEW t \in Tasks, StartTask(r, t)
          PROVE  OutputInv(q)'
      BY <3>2 DEF StartTask, MayStart, OutputInv, TypeOK
    <3>3. CASE UNCHANGED <<task, ws>>
      BY <3>3 DEF OutputInv
    <3> QED BY <3>1, <3>2, <3>3 DEF Next, CreateRun, CommitWorkflow, PushOther, vars
  <2>3. FailuresExplained'
    <3> SUFFICES ASSUME faults' = 0, NEW q \in PipelineRuns, NEW u \in Tasks,
                        task'[q][u] = "failed"
                 PROVE  Reason(q, u)'
      BY DEF FailuresExplained
    <3>0. faults = 0
      BY MainStep
    <3>1. CASE task[q][u] = "failed"
      BY <3>0, <3>1, ReasonKept DEF FailuresExplained
    <3>2. CASE task[q][u] # "failed"
      <4>1. ASSUME NEW r \in PipelineRuns, NEW t \in Tasks, StartTask(r, t) PROVE FALSE
        BY <3>2, <4>1 DEF StartTask, MayStart, TypeOK
      <4>2. CASE UNCHANGED task
        BY <3>2, <4>2
      <4>3. ASSUME NEW r \in PipelineRuns, Task(r) PROVE r = q
        BY <3>2, <4>3, TaskStep DEF TypeOK
      <4> QED BY <3>2, <4>1, <4>2, <4>3, NewFailure
          DEF Next, CreateRun, CommitWorkflow, PushOther, vars
    <3> QED BY <3>1, <3>2
  <2> QED BY <2>1, <2>2, <2>3
<1> QED BY <1>1, <1>2, PTL DEF Spec

-----------------------------------------------------------------------------
(* The steps that matter to a run's commit, clone and push.                *)
LEMMA OnceInit == Init => \A r \in PipelineRuns : OnceInv(r)
<1> SUFFICES ASSUME Init, NEW r \in PipelineRuns PROVE OnceInv(r)
  OBVIOUS
<1>1. ws[r].commit = 0 /\ ws[r].base = 0 /\ task[r] = [t \in Tasks |-> "waiting"]
  BY DEF Init
<1> QED BY <1>1 DEF OnceInv, Tasks

(* What a script does to the commit and the clone of its run, and to what  *)
(* all runs share: the steps of the abstract specification.                *)
LEMMA ScriptEffect ==
  ASSUME TypeOK, NEW r \in PipelineRuns, Ordered(r), WorkspaceInv(r), OnceInv(r), Task(r)
  PROVE  /\ \A q \in PipelineRuns : q # r => ws'[q] = ws[q]
         /\ \/ /\ ws'[r].commit = ws[r].commit /\ ws'[r].base = ws[r].base
               /\ UNCHANGED <<main, images>>
            \/ /\ ws[r].commit = 0 /\ ws'[r].commit = source /\ ws'[r].base = ws[r].base
               /\ task'[r]["fetch-workflow"] \in {"done", "failed"}
               /\ UNCHANGED <<main, images>>
            \/ /\ ws[r].base = 0 /\ ws'[r].base = main.commits
               /\ ws'[r].commit = ws[r].commit
               /\ task'[r]["fetch-workflow-gitops"] \in {"done", "failed"}
               /\ task'[r]["push-workflow-gitops"] # "done"
               /\ UNCHANGED <<main, images>>
            \/ /\ ws[r].commit # 0 /\ images' = images \union {<<given.id[r], ws[r].commit>>}
               /\ UNCHANGED <<main, ws>>
            \/ /\ ws[r].base = main.commits /\ ws[r].tree # ws[r].cloned
               /\ main' = [commits |-> main.commits + 1, deployed |-> ws[r].tree]
               /\ <<given.id[r], ws[r].commit>> \in images
               /\ UNCHANGED <<ws, images>>
         /\ task'[r]["push-workflow-gitops"] = "done" =>
              task[r]["push-workflow-gitops"] = "done" \/ main' # main
<1> DEFINE W == ws[r]
<1>0. W \in Workspaces /\ ws \in [PipelineRuns -> Workspaces]
  BY DEF TypeOK
<1>a. /\ task[r] \in [Tasks -> TaskStates]
      /\ task \in [PipelineRuns -> [Tasks -> TaskStates]]
  BY DEF TypeOK
<1>c. /\ "fetch-workflow" \in Tasks /\ "fetch-workflow-gitops" \in Tasks
      /\ "flatten-workflow" \in Tasks /\ "build-manifests" \in Tasks
      /\ "build-gitops" \in Tasks /\ "build-and-push-image" \in Tasks
      /\ "push-workflow-gitops" \in Tasks
  BY DEF Tasks
<1>d. \A t \in Tasks, s \in TaskStates :
        t # "push-workflow-gitops" /\ task'[r] = [task[r] EXCEPT ![t] = s]
        => task'[r]["push-workflow-gitops"] = task[r]["push-workflow-gitops"]
  BY <1>a, <1>c
<1>1. CASE gitCloneScript(r)
  <2> DEFINE new == [W EXCEPT !.commit = source]
  <2>1. /\ ws' \in {ws, [ws EXCEPT ![r] = new]} /\ UNCHANGED <<main, images>>
        /\ \E s \in {"done", "failed"} : task'[r] = [task[r] EXCEPT !["fetch-workflow"] = s]
        /\ task[r]["fetch-workflow"] = "running"
    BY <1>1, <1>0, <1>a, <1>c DEF gitCloneScript, EndTask
  <2>2. new.commit = source /\ new.base = W.base /\ W.commit = 0
    BY <1>0, <2>1 DEF Workspaces, OnceInv
  <2>3. /\ task'[r]["push-workflow-gitops"] = task[r]["push-workflow-gitops"]
        /\ task'[r]["fetch-workflow"] \in {"done", "failed"}
    BY <2>1, <1>a, <1>c
  <2>4. ws'[r] \in {W, new} /\ \A q \in PipelineRuns : q # r => ws'[q] = ws[q]
    BY <2>1, <1>0
  <2> HIDE DEF new
  <2> QED BY <2>1, <2>2, <2>3, <2>4
<1>2. CASE gitCloneGitOpsScript(r)
  <2> DEFINE new == [W EXCEPT !.base = main.commits, !.cloned = main.deployed,
                              !.tree = main.deployed]
  <2>1. /\ ws' \in {ws, [ws EXCEPT ![r] = new]} /\ UNCHANGED <<main, images>>
        /\ \E s \in {"done", "failed"} :
             task'[r] = [task[r] EXCEPT !["fetch-workflow-gitops"] = s]
        /\ task[r]["fetch-workflow-gitops"] = "running"
    BY <1>2, <1>0, <1>a, <1>c DEF gitCloneGitOpsScript, EndTask
  <2>2. new.commit = W.commit /\ new.base = main.commits /\ W.base = 0
    BY <1>0, <2>1 DEF Workspaces, OnceInv
  <2>3. /\ task'[r]["push-workflow-gitops"] = task[r]["push-workflow-gitops"]
        /\ task'[r]["fetch-workflow-gitops"] \in {"done", "failed"}
    BY <2>1, <1>a, <1>c
  <2>4. ws'[r] \in {W, new} /\ \A q \in PipelineRuns : q # r => ws'[q] = ws[q]
    BY <2>1, <1>0
  <2>5. task[r]["build-gitops"] = "waiting"
    BY <2>1, Later
  <2>6. task[r]["push-workflow-gitops"] = "waiting"
    BY <2>5, <1>a, <1>c DEF Ordered, Before, RunAfter, ResultUsers, Tasks, TaskStates
  <2> HIDE DEF new
  <2> QED BY <2>1, <2>2, <2>3, <2>4, <2>6
<1>3. CASE flattenerTaskScript(r)
  <2> DEFINE new == [W EXCEPT !.flat = W.commit]
  <2>1. /\ ws' \in {ws, [ws EXCEPT ![r] = new]} /\ UNCHANGED <<main, images>>
        /\ \E s \in {"done", "failed"} : task'[r] = [task[r] EXCEPT !["flatten-workflow"] = s]
    BY <1>3, <1>0, <1>a, <1>c DEF flattenerTaskScript, EndTask
  <2>2. new.commit = W.commit /\ new.base = W.base
    BY <1>0 DEF Workspaces
  <2>3. task'[r]["push-workflow-gitops"] = task[r]["push-workflow-gitops"]
    BY <2>1, <1>a, <1>c
  <2>4. ws'[r] \in {W, new} /\ \A q \in PipelineRuns : q # r => ws'[q] = ws[q]
    BY <2>1, <1>0
  <2> HIDE DEF new
  <2> QED BY <2>1, <2>2, <2>3, <2>4
<1>4. CASE buildManifestTaskScript(r)
  <2> DEFINE new == [W EXCEPT !.manifests = W.flat]
  <2>1. /\ ws' \in {ws, [ws EXCEPT ![r] = new]} /\ UNCHANGED <<main, images>>
        /\ \E s \in {"done", "failed"} : task'[r] = [task[r] EXCEPT !["build-manifests"] = s]
    BY <1>4, <1>0, <1>a, <1>c DEF buildManifestTaskScript, EndTask
  <2>2. new.commit = W.commit /\ new.base = W.base
    BY <1>0 DEF Workspaces
  <2>3. task'[r]["push-workflow-gitops"] = task[r]["push-workflow-gitops"]
    BY <2>1, <1>a, <1>c
  <2>4. ws'[r] \in {W, new} /\ \A q \in PipelineRuns : q # r => ws'[q] = ws[q]
    BY <2>1, <1>0
  <2> HIDE DEF new
  <2> QED BY <2>1, <2>2, <2>3, <2>4
<1>5. CASE buildGitOpsTaskScript(r)
  <2> DEFINE new == [W EXCEPT !.tree[given.id[r]] =
                       [tag |-> W.commit, manifests |-> W.manifests]]
  <2>1. /\ ws' \in {ws, [ws EXCEPT ![r] = new]} /\ UNCHANGED <<main, images>>
        /\ \E s \in {"done", "failed"} : task'[r] = [task[r] EXCEPT !["build-gitops"] = s]
    BY <1>5, <1>0, <1>a, <1>c DEF buildGitOpsTaskScript, EndTask
  <2>2. new.commit = W.commit /\ new.base = W.base
    BY <1>0 DEF Workspaces
  <2>3. task'[r]["push-workflow-gitops"] = task[r]["push-workflow-gitops"]
    BY <2>1, <1>a, <1>c
  <2>4. ws'[r] \in {W, new} /\ \A q \in PipelineRuns : q # r => ws'[q] = ws[q]
    BY <2>1, <1>0
  <2> HIDE DEF new
  <2> QED BY <2>1, <2>2, <2>3, <2>4
<1>6. CASE buildah(r)
  <2>1. /\ ws' = ws /\ UNCHANGED main
        /\ images' = images \/ (W.flat # 0 /\ images' = images \union {<<given.id[r], W.commit>>})
        /\ \E s \in {"done", "failed"} : task'[r] = [task[r] EXCEPT !["build-and-push-image"] = s]
    BY <1>6, <1>a, <1>c DEF buildah, EndTask
  <2>2. W.flat # 0 => W.commit # 0
    BY DEF WorkspaceInv
  <2>3. task'[r]["push-workflow-gitops"] = task[r]["push-workflow-gitops"]
    BY <2>1, <1>a, <1>c
  <2> QED BY <2>1, <2>2, <2>3
<1>7. CASE gitScript(r)
  <2>1. /\ UNCHANGED <<ws, images>> /\ task[r]["push-workflow-gitops"] = "running"
        /\ \/ UNCHANGED main /\ task'[r]["push-workflow-gitops"] # "done"
           \/ /\ ~NothingToCommit(r) /\ ~Rejected(r)
              /\ main' = [commits |-> main.commits + 1, deployed |-> W.tree]
    BY <1>7, <1>a, <1>c DEF gitScript, EndTask
  <2>2. <<given.id[r], W.commit>> \in images
    BY <2>1, Later DEF WorkspaceInv
  <2>3. main.commits \in Nat
    BY DEF TypeOK
  <2>4. main' = [commits |-> main.commits + 1, deployed |-> W.tree] => main' # main
    BY <2>3
  <2> QED BY <2>1, <2>2, <2>4 DEF NothingToCommit, Rejected
<1> QED BY <1>1, <1>2, <1>3, <1>4, <1>5, <1>6, <1>7 DEF Task

LEMMA OnceStep ==
  ASSUME TypeOK, PipelineInv, \A r \in PipelineRuns : OnceInv(r), [Next]_vars
  PROVE  \A r \in PipelineRuns : OnceInv(r)'
<1> SUFFICES ASSUME NEW q \in PipelineRuns PROVE OnceInv(q)'
  OBVIOUS
<1>0. OnceInv(q) /\ WorkspaceInv(q) /\ Ordered(q)
  BY DEF PipelineInv
<1>a. /\ "fetch-workflow" \in Tasks /\ "fetch-workflow-gitops" \in Tasks
      /\ "push-workflow-gitops" \in Tasks
  BY DEF Tasks
<1>b. /\ main.commits \in Nat /\ ws[q].base \in Nat
      /\ main' = main \/ main'.commits = main.commits + 1
  BY MainStep DEF TypeOK, Workspaces
<1>c. task[q] \in [Tasks -> TaskStates] /\ task \in [PipelineRuns -> [Tasks -> TaskStates]]
  BY DEF TypeOK
<1>1. ASSUME NEW r \in PipelineRuns, NEW t \in Tasks, StartTask(r, t) PROVE OnceInv(q)'
  <2>1. /\ task'[q]["fetch-workflow"] \in {"waiting", "running"} =>
             task[q]["fetch-workflow"] \in {"waiting", "running"}
        /\ task'[q]["fetch-workflow-gitops"] \in {"waiting", "running"} =>
             task[q]["fetch-workflow-gitops"] \in {"waiting", "running"}
        /\ task'[q]["push-workflow-gitops"] = "done" =>
             task[q]["push-workflow-gitops"] = "done"
    BY <1>1, <1>a, <1>c DEF StartTask, MayStart
  <2> QED BY <1>0, <1>1, <2>1 DEF OnceInv, StartTask
<1>2. ASSUME NEW r \in PipelineRuns, Task(r) PROVE OnceInv(q)'
  <2>1. CASE q = r
    <3>1. /\ task'[q]["fetch-workflow"] \in {"waiting", "running"} =>
               task[q]["fetch-workflow"] \in {"waiting", "running"}
          /\ task'[q]["fetch-workflow-gitops"] \in {"waiting", "running"} =>
               task[q]["fetch-workflow-gitops"] \in {"waiting", "running"}
      <4> PICK t \in Tasks, s \in {"done", "failed"} :
            task[r][t] = "running" /\ task' = [task EXCEPT ![r][t] = s]
        BY <1>2, TaskStep
      <4> QED BY <1>a, <1>c, <2>1
    <3>2. /\ ws'[q].commit = ws[q].commit
             \/ task'[q]["fetch-workflow"] \in {"done", "failed"}
          /\ ws'[q].base = ws[q].base
             \/ /\ task'[q]["fetch-workflow-gitops"] \in {"done", "failed"}
                /\ task'[q]["push-workflow-gitops"] # "done"
          /\ task'[q]["push-workflow-gitops"] = "done" =>
               \/ task[q]["push-workflow-gitops"] = "done"
               \/ /\ ws[q].base = main.commits /\ ws'[q].base = ws[q].base
                  /\ main'.commits = main.commits + 1
      <4>1. Task(q)
        BY <1>2, <2>1
      <4>2. [commits |-> main.commits + 1, deployed |-> ws[q].tree].commits
              = main.commits + 1
        OBVIOUS
      <4> QED BY <1>0, <4>1, <4>2, ScriptEffect
    <3> QED BY <1>0, <1>b, <3>1, <3>2 DEF OnceInv
  <2>2. CASE q # r
    <3>1. task'[q] = task[q]
      BY <1>2, <2>2, TaskStep DEF TypeOK
    <3>2. ws'[q] = ws[q]
      BY <1>2, <2>2, ScriptEffect DEF PipelineInv
    <3> QED BY <1>0, <1>b, <3>1, <3>2 DEF OnceInv
  <2> QED BY <2>1, <2>2
<1>3. CASE UNCHANGED <<task, ws>>
  BY <1>0, <1>3, <1>b DEF OnceInv
<1> QED BY <1>1, <1>2, <1>3 DEF Next, CreateRun, CommitWorkflow, PushOther, vars

LEMMA OnceCorrect ==
  Spec => [](TypeOK /\ PipelineInv /\ DeployedImageExists
             /\ \A r \in PipelineRuns : OnceInv(r))
<1> DEFINE Inv == /\ TypeOK /\ PipelineInv /\ DeployedImageExists
                  /\ \A r \in PipelineRuns : OnceInv(r)
<1>1. Init => Inv
  BY TypeInit, PipelineInit, OnceInit DEF Init, DeployedImageExists, Nothing
<1>2. Inv /\ [Next]_vars => Inv'
  BY TypeNext, PipelineStep, ImageStep, OnceStep
<1> QED BY <1>1, <1>2, PTL DEF Spec

(***************************************************************************)
(* No run comes to rest before its end, whatever fails: the order of the   *)
(* tasks is free of cycles, and the last of them leaves main ahead of the  *)
(* clone it started from.                                                  *)
(***************************************************************************)
THEOREM NeverStuck == Spec => []NoRunStuck
<1>1. TypeOK /\ PipelineInv /\ (\A r \in PipelineRuns : OnceInv(r)) => NoRunStuck
  <2> SUFFICES ASSUME TypeOK, PipelineInv, \A r \in PipelineRuns : OnceInv(r),
                      NEW r \in created, \A t \in Tasks : task[r][t] # "running",
                      ~Ended(r), \A t \in Tasks : ~MayStart(r, t)
               PROVE  FALSE
    BY DEF NoRunStuck
  <2>0. r \in PipelineRuns
    BY DEF TypeOK
  <2>1. \A t \in Tasks : task[r][t] \in {"waiting", "done"}
    BY <2>0 DEF Ended, TypeOK, TaskStates
  <2>2. \A t \in Tasks : (\A u \in Before(t) : task[r][u] = "done") => task[r][t] = "done"
    BY <2>1 DEF MayStart
  <2>3. /\ "fetch-workflow" \in Tasks /\ Before("fetch-workflow") = {}
        /\ "fetch-workflow-gitops" \in Tasks /\ Before("fetch-workflow-gitops") = {}
        /\ "flatten-workflow" \in Tasks /\ Before("flatten-workflow") = {"fetch-workflow"}
        /\ "build-manifests" \in Tasks /\ Before("build-manifests") = {"flatten-workflow"}
        /\ "build-gitops" \in Tasks
        /\ Before("build-gitops") =
             {"build-manifests", "fetch-workflow-gitops", "fetch-workflow"}
        /\ "build-and-push-image" \in Tasks
        /\ Before("build-and-push-image") = {"flatten-workflow", "fetch-workflow"}
        /\ "push-workflow-gitops" \in Tasks
        /\ Before("push-workflow-gitops") =
             {"build-gitops", "build-and-push-image", "fetch-workflow"}
    BY DEF Tasks, Before, RunAfter, ResultUsers
  <2>4. task[r]["fetch-workflow"] = "done" /\ task[r]["fetch-workflow-gitops"] = "done"
    BY <2>2, <2>3
  <2>5. task[r]["flatten-workflow"] = "done"
    BY <2>2, <2>3, <2>4
  <2>6. task[r]["build-manifests"] = "done" /\ task[r]["build-and-push-image"] = "done"
    BY <2>2, <2>3, <2>4, <2>5
  <2>7. task[r]["build-gitops"] = "done"
    BY <2>2, <2>3, <2>4, <2>6
  <2>8. task[r]["push-workflow-gitops"] = "done"
    BY <2>2, <2>3, <2>4, <2>6, <2>7
  <2>9. \A t \in Tasks : task[r][t] = "done"
    BY <2>4, <2>5, <2>6, <2>7, <2>8 DEF Tasks
  <2>10. WorkspaceInv(r) /\ OnceInv(r)
    BY <2>0 DEF PipelineInv
  <2> QED BY <2>6, <2>8, <2>9, <2>10 DEF Ended, WorkspaceInv, OnceInv
<1> QED BY <1>1, OnceCorrect, PTL

(* A push is an atomic deployment.                                         *)
LEMMA PushDeploys ==
  ASSUME TypeOK, PipelineInv, DeployedImageExists, NEW r \in PipelineRuns,
         ws[r].base = main.commits, ws[r].tree # ws[r].cloned,
         main' = [commits |-> main.commits + 1, deployed |-> ws[r].tree],
         <<given.id[r], ws[r].commit>> \in images, UNCHANGED <<source, given, images, ws>>
  PROVE  Deploying!Deploy(r)
<1> DEFINE w0 == given.id[r]
           c == ws[r].commit
           entry == [tag |-> c, manifests |-> c]
           D == [w \in Workflows |-> CommitOf(main.deployed[w])]
<1>0. w0 \in Workflows /\ c \in Commits /\ main.deployed \in Deployments
  BY InputAssumption DEF TypeOK, Workspaces
<1>1. /\ ws[r].cloned = main.deployed
      /\ main'.deployed = [main.deployed EXCEPT ![w0] = entry]
      /\ main'.commits = main.commits + 1
  BY DEF PipelineInv, WorkspaceInv, Deployed
<1>2. CommitOf(entry) = c
  BY DEF CommitOf
<1>3. \A w \in Workflows : CommitOf(main'.deployed[w]) =
        IF w = w0 THEN c ELSE CommitOf(main.deployed[w])
  <2> HIDE DEF entry
  <2> QED BY <1>0, <1>1, <1>2 DEF Deployments
<1>4. [w \in Workflows |-> CommitOf(main'.deployed[w])] = [D EXCEPT ![w0] = c]
  BY <1>3
<1>5. D[w0] # c
  <2>1. main.deployed[w0] \in [tag: Commits, manifests: Commits]
    BY <1>0 DEF Deployments
  <2>2. main.deployed[w0] # entry
    <3> SUFFICES ASSUME main.deployed[w0] = entry PROVE FALSE
      OBVIOUS
    <3>1. [main.deployed EXCEPT ![w0] = entry] = main.deployed
      BY <1>0 DEF Deployments
    <3> HIDE DEF entry
    <3> QED BY <1>1, <3>1
  <2>3. Mixed # c
    BY <1>0, InputAssumption DEF Mixed, Commits
  <2>4. CommitOf(main.deployed[w0]) = c => main.deployed[w0] = entry
    BY <2>1, <2>3 DEF CommitOf
  <2> QED BY <1>0, <2>2, <2>4
<1>6. [q \in PipelineRuns |-> ws[q].base][r] = main.commits
      /\ [q \in PipelineRuns |-> ws[q].commit][r] = c
  OBVIOUS
<1> QED BY <1>1, <1>4, <1>5, <1>6 DEF Deploying!Deploy

(***************************************************************************)
(* The tasks of all runs, in any order, with any of them lost, implement   *)
(* atomic deployments.                                                     *)
(***************************************************************************)
THEOREM AtomicallyDeployed == Spec => ImplementsAtomicDeployment
<1> DEFINE taken == [q \in PipelineRuns |-> ws[q].commit]
           seen  == [q \in PipelineRuns |-> ws[q].base]
           D     == [w \in Workflows |-> CommitOf(main.deployed[w])]
<1>1. Init => Deploying!Init
  <2> SUFFICES ASSUME Init PROVE Deploying!Init
    OBVIOUS
  <2>1. given.id \in [PipelineRuns -> Workflows]
    BY InputAssumption DEF Init
  <2>2. \A w \in Workflows : CommitOf(main.deployed[w]) = 0
    BY DEF Init, Nothing, CommitOf
  <2>3. \A r \in PipelineRuns : ws[r].commit = 0 /\ ws[r].base = 0
    BY DEF Init
  <2>4. source = 1 /\ main.commits = 1 /\ images = {}
    BY DEF Init
  <2> QED BY <2>1, <2>2, <2>3, <2>4 DEF Deploying!Init
<1>2. TypeOK /\ PipelineInv /\ DeployedImageExists /\ (\A r \in PipelineRuns : OnceInv(r))
      /\ [Next]_vars => [Deploying!Next]_(Deploying!deployments)
  <2> SUFFICES ASSUME TypeOK, PipelineInv, DeployedImageExists,
                      \A r \in PipelineRuns : OnceInv(r), [Next]_vars
               PROVE  Deploying!Next \/ UNCHANGED Deploying!deployments
    OBVIOUS
  <2>1. ASSUME NEW r \in PipelineRuns, Task(r)
        PROVE  Deploying!Next \/ UNCHANGED Deploying!deployments
    <3>0. UNCHANGED <<source, given>>
      BY <2>1, TaskStep
    <3>1. \A q \in PipelineRuns : q # r => ws'[q] = ws[q]
      BY <2>1, ScriptEffect DEF PipelineInv
    <3>2. CASE /\ ws'[r].commit = ws[r].commit /\ ws'[r].base = ws[r].base
               /\ UNCHANGED <<main, images>>
      BY <3>0, <3>1, <3>2 DEF Deploying!deployments
    <3>3. CASE /\ ws[r].commit = 0 /\ ws'[r].commit = source /\ ws'[r].base = ws[r].base
               /\ UNCHANGED <<main, images>>
      <4>1. taken' = [taken EXCEPT ![r] = source] /\ UNCHANGED seen
        BY <3>1, <3>3
      <4> QED BY <3>0, <3>3, <4>1 DEF Deploying!Next, Deploying!Take
    <3>4. CASE /\ ws[r].base = 0 /\ ws'[r].base = main.commits
               /\ ws'[r].commit = ws[r].commit
               /\ UNCHANGED <<main, images>>
      <4>1. seen' = [seen EXCEPT ![r] = main.commits] /\ UNCHANGED taken
        BY <3>1, <3>4
      <4> QED BY <3>0, <3>4, <4>1 DEF Deploying!Next, Deploying!See
    <3>5. CASE /\ ws[r].commit # 0
               /\ images' = images \union {<<given.id[r], ws[r].commit>>}
               /\ UNCHANGED <<main, ws>>
      BY <3>0, <3>5 DEF Deploying!Next, Deploying!Publish
    <3>6. CASE /\ ws[r].base = main.commits /\ ws[r].tree # ws[r].cloned
               /\ main' = [commits |-> main.commits + 1, deployed |-> ws[r].tree]
               /\ <<given.id[r], ws[r].commit>> \in images
               /\ UNCHANGED <<ws, images>>
      BY <3>0, <3>6, PushDeploys DEF Deploying!Next
    <3> QED BY <2>1, <3>2, <3>3, <3>4, <3>5, <3>6, ScriptEffect DEF PipelineInv
  <2>2. CASE CommitWorkflow
    BY <2>2 DEF CommitWorkflow, Deploying!Next, Deploying!Commit
  <2>3. CASE PushOther
    <3>1. main'.commits = main.commits + 1 /\ main'.deployed = main.deployed
      BY <2>3 DEF PushOther, TypeOK
    <3> QED BY <2>3, <3>1 DEF PushOther, Deploying!Next, Deploying!Push
  <2>4. CASE UNCHANGED <<source, given, main, images, ws>>
    BY <2>4 DEF Deploying!deployments
  <2> QED BY <2>1, <2>2, <2>3, <2>4 DEF Next, CreateRun, StartTask, vars
<1> QED BY <1>1, <1>2, OnceCorrect,
        PTL DEF Spec, ImplementsAtomicDeployment, Deploying!Spec
=============================================================================
