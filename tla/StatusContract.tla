---------------------------- MODULE StatusContract ----------------------------
(***************************************************************************)
(* What the status of a resource promises to who reads it, without         *)
(* workers, caches, copies or failed calls.  The finalizer comes before    *)
(* any status, Running before any outcome; the phase says Completed only   *)
(* of a moment at which nothing was missing; a failure names a stage that  *)
(* the spec has enabled; and what was once reported is never taken back,   *)
(* so that a resource may be Failed and bear the condition Completed.      *)
(* OrchestratorReconcile implements it.                                    *)
(***************************************************************************)
CONSTANTS
  Stages,   \* what a pass goes through
  None,     \* no stage
  Things    \* what a spec may ask for

VARIABLES
  finalizer, \* the finalizer is on the resource
  phase,
  reports,   \* the conditions Available and Completed that were reported
  degrading, \* the stage named by the condition Degrading
  enabled,   \* the stages that the spec enables
  asked,     \* what the spec asks for
  missing    \* what of it is not there

report == <<phase, reports, degrading>>
spec   == <<enabled, asked>>
status == <<finalizer, report, spec, missing>>

Init ==
  /\ finalizer = FALSE
  /\ phase = "none" /\ reports = {} /\ degrading = None
  /\ enabled \in SUBSET Stages
  /\ asked \in SUBSET Things
  /\ missing \in SUBSET asked

(* Things are made at any time, and none goes while the spec is the same.  *)
Meanwhile == missing' \in SUBSET missing /\ UNCHANGED spec

Hold ==
  /\ ~finalizer /\ finalizer' = TRUE
  /\ UNCHANGED report
  /\ Meanwhile

Run ==
  /\ finalizer /\ phase = "none"
  /\ phase' = "Running" /\ reports' = {"Available"}
  /\ UNCHANGED <<finalizer, degrading>>
  /\ Meanwhile

Complete ==
  /\ phase # "none" /\ missing = {}
  /\ phase' = "Completed" /\ reports' = reports \union {"Completed"}
  /\ UNCHANGED <<finalizer, degrading>>
  /\ Meanwhile

Fail(s) ==
  /\ phase # "none" /\ s \in enabled
  /\ phase' = "Failed" /\ degrading' = s
  /\ UNCHANGED <<finalizer, reports>>
  /\ Meanwhile

Make == Meanwhile /\ UNCHANGED <<finalizer, report>>

(* Another spec asks for other things.                                     *)
Edit ==
  /\ enabled' \in SUBSET Stages /\ asked' \in SUBSET Things
  /\ spec' # spec
  /\ missing' \in SUBSET asked'
  /\ UNCHANGED <<finalizer, report>>

Next == Hold \/ Run \/ Complete \/ (\E s \in Stages : Fail(s)) \/ Make \/ Edit

Spec == Init /\ [][Next]_status
=============================================================================
