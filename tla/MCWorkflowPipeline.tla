------------------------- MODULE MCWorkflowPipeline -------------------------
EXTENDS WorkflowPipeline, TLC

CONSTANTS r1, r2, w1, w2

Setting(nested, id2, flat2) ==
  [nested |-> nested, id |-> (r1 :> w1 @@ r2 :> id2), flat |-> (r1 :> TRUE @@ r2 :> flat2)]

(* Two runs of one workflow, of two, and one that must not be flattened.   *)
OneWorkflow  == Setting(FALSE, w1, TRUE)
TwoWorkflows == Setting(TRUE, w2, TRUE)
NotFlat      == Setting(TRUE, w2, FALSE)
MCSettings   == {OneWorkflow, TwoWorkflows, NotFlat}
=============================================================================
