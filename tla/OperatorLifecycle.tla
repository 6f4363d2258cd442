------------------------- MODULE OperatorLifecycle -------------------------
(***************************************************************************)
(* What the installation of an operator promises, seen through the         *)
(* operator's Subscription alone: a Subscription is made, OLM proposes     *)
(* what to install, somebody approves the proposal, OLM carries it out.    *)
(* There are no workers here, no caches and no failed calls; the point is  *)
(* who approves what.  OperatorInstall implements it.                      *)
(***************************************************************************)
VARIABLES
  subscribed, \* the Subscription exists
  proposal,   \* what it names for installation
  running     \* the operator runs

lifecycle == <<subscribed, proposal, running>>

None == [csv |-> "none", by |-> "nobody"]

Init ==
  /\ subscribed \in BOOLEAN
  /\ proposal = None
  /\ running = FALSE

Subscribe ==
  /\ ~subscribed
  /\ subscribed' = TRUE
  /\ UNCHANGED <<proposal, running>>

(* OLM proposes the starting CSV first, newer ones to an operator that     *)
(* runs.  Where users made it automatic the approval comes with it.        *)
Propose ==
  /\ subscribed
  /\ proposal = None \/ running
  /\ \E by \in {"nobody", "other"} :
       proposal' = [csv |-> IF running THEN "newer" ELSE "starting", by |-> by]
  /\ UNCHANGED <<subscribed, running>>

(* The operator approves the starting CSV, and nothing else.               *)
OperatorApproves ==
  /\ proposal = [csv |-> "starting", by |-> "nobody"]
  /\ proposal' = [csv |-> "starting", by |-> "operator"]
  /\ UNCHANGED <<subscribed, running>>

UserApproves ==
  /\ proposal # None /\ proposal.by = "nobody"
  /\ proposal' = [proposal EXCEPT !.by = "other"]
  /\ UNCHANGED <<subscribed, running>>

(* What is installed has been approved.                                    *)
Install ==
  /\ proposal.by # "nobody" /\ ~running
  /\ running' = TRUE
  /\ UNCHANGED <<subscribed, proposal>>

(* The Subscription goes, alone or with its namespace and the operator.    *)
Remove ==
  /\ subscribed' = FALSE
  /\ proposal' = None
  /\ running' \in {running, FALSE}

Next == Subscribe \/ Propose \/ OperatorApproves \/ UserApproves \/ Install \/ Remove

Spec == Init /\ [][Next]_lifecycle
=============================================================================
