-------------------------- MODULE AtomicDeployment --------------------------
(***************************************************************************)
(* What the runs of a pipeline amount to, without tasks, workspaces,       *)
(* scripts or lost work.  A run takes one commit of its workflow and one   *)
(* look at the branch, in either order; it publishes an image of that      *)
(* commit; and it deploys the commit, image and manifests together, in one *)
(* step, which changes nothing else and is possible only while the branch  *)
(* is as the run saw it.  WorkflowPipeline implements it.                  *)
(***************************************************************************)
EXTENDS Naturals

CONSTANTS
  Runs,
  Workflows

VARIABLES
  target,    \* the workflow of each run
  source,    \* the newest commit of the workflows
  version,   \* of the branch
  deployed,  \* the commit of each workflow that the branch deploys, or 0
  published, \* the images that can be pulled
  taken,     \* the commit that each run is about, or 0
  seen       \* the version of the branch that each run saw, or 0

deployments == <<target, source, version, deployed, published, taken, seen>>

Init ==
  /\ target \in [Runs -> Workflows]
  /\ source = 1 /\ version = 1
  /\ deployed = [w \in Workflows |-> 0] /\ published = {}
  /\ taken = [r \in Runs |-> 0] /\ seen = [r \in Runs |-> 0]

Commit ==
  /\ source' = source + 1
  /\ UNCHANGED <<target, version, deployed, published, taken, seen>>

Take(r) ==
  /\ taken[r] = 0
  /\ taken' = [taken EXCEPT ![r] = source]
  /\ UNCHANGED <<target, source, version, deployed, published, seen>>

See(r) ==
  /\ seen[r] = 0
  /\ seen' = [seen EXCEPT ![r] = version]
  /\ UNCHANGED <<target, source, version, deployed, published, taken>>

Publish(r) ==
  /\ taken[r] # 0
  /\ published' = published \union {<<target[r], taken[r]>>}
  /\ UNCHANGED <<target, source, version, deployed, taken, seen>>

Deploy(r) ==
  /\ seen[r] = version
  /\ <<target[r], taken[r]>> \in published
  /\ deployed[target[r]] # taken[r]
  /\ deployed' = [deployed EXCEPT ![target[r]] = taken[r]]
  /\ version' = version + 1
  /\ UNCHANGED <<target, source, published, taken, seen>>

(* The branch moves on for other reasons.                                  *)
Push ==
  /\ version' = version + 1
  /\ UNCHANGED <<target, source, deployed, published, taken, seen>>

Next ==
  \/ Commit \/ Push
  \/ \E r \in Runs : Take(r) \/ See(r) \/ Publish(r) \/ Deploy(r)

Spec == Init /\ [][Next]_deployments
=============================================================================
