----------------------- MODULE MCOrchestratorReconcile -----------------------
(* Small instances of OrchestratorReconcile for TLC: the specs users give, *)
(* what is there already, and how users change the spec.                   *)
EXTENDS OrchestratorReconcile

OSL     == [NoSpec EXCEPT !.osl = TRUE, !.monitoring = TRUE]
Knative == [NoSpec EXCEPT !.knative = TRUE]
RHDH    == [NoSpec EXCEPT !.rhdh = TRUE]
GitOps  == [NoSpec EXCEPT !.gitops = TRUE]

Start(spec, others, ours) == [spec |-> spec, others |-> others, ours |-> ours]

OSLStarts    == {Start(OSL, {}, {})}
GitOpsStarts == {Start(GitOps, {"wfns"}, {})}

(* A policy of somebody else in the workflow namespace; GitOps objects of  *)
(* an earlier resource, which the GitOps stage of NoSpec removes.          *)
AllStarts ==
  {Start(OSL, {}, {}),
   Start(Knative, {"wfns"}, {}),
   Start(RHDH, {"wfns", "np-intra"}, {}),
   Start(GitOps, {"wfns"}, {}),
   Start(NoSpec, {"wfns"}, {"appproject", "pipeline", "task-git"})}

NoChanges  == {}
AllChanges == {<<OSL, [OSL EXCEPT !.monitoring = FALSE]>>, <<NoSpec, GitOps>>}
=============================================================================
