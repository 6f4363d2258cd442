------------------------- MODULE FinalizerContract -------------------------
(***************************************************************************)
(* What a finalizer promises, without workers, caches, steps or failed     *)
(* calls: things are made only while the finalizer is held; it is released *)
(* only at the end of a clean up that has asked all that was due in it to  *)
(* go; an interrupted clean up counts for nothing.  It does not promise    *)
(* that what was asked has gone by then.  CleanUp implements it.           *)
(***************************************************************************)
CONSTANTS
  Things,    \* what a resource may have made for it
  Operator,  \* the one among them that
  Operated   \* those among them need to end properly

VARIABLES
  phase,  \* of the resource
  made,   \* the things that are there to stay: not asked to go
  due     \* what the present clean up has still to ask

contract == <<phase, made, due>>

(* Others may have made things of the kind before.                         *)
Init == phase = "new" /\ made \in SUBSET Things /\ due = {}

Hold ==
  /\ phase = "new" /\ phase' = "held"
  /\ UNCHANGED <<made, due>>

(* A resource may go before anything was made for it.                      *)
Abandon ==
  /\ phase = "new" /\ phase' = "released"
  /\ UNCHANGED <<made, due>>

Make(o) ==
  /\ phase = "held"
  /\ made' = made \union {o}
  /\ UNCHANGED <<phase, due>>

(* A clean up owes what it can see.                                        *)
Begin ==
  /\ phase = "held" /\ phase' = "cleaning"
  /\ due' \in SUBSET made
  /\ UNCHANGED made

(* A thing is asked to go: the operator after what it operates.            *)
MayGo(o) == o = Operator => due \intersect Operated = {}

Take(o) ==
  /\ phase \in {"cleaning", "released"} /\ MayGo(o)
  /\ made' = made \ {o} /\ due' = due \ {o}
  /\ UNCHANGED phase

(* A clean up breaks off, with its last request accepted or not.           *)
Interrupt ==
  /\ phase = "cleaning" /\ phase' = "held"
  /\ made' = made \/ \E o \in Things : MayGo(o) /\ made' = made \ {o}
  /\ due' = {}

Release ==
  /\ phase = "cleaning" /\ due = {}
  /\ phase' = "released"
  /\ UNCHANGED <<made, due>>

Next ==
  \/ Hold \/ Abandon \/ Begin \/ Interrupt \/ Release
  \/ \E o \in Things : Make(o) \/ Take(o)

Spec == Init /\ [][Next]_contract
=============================================================================
