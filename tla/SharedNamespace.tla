--------------------------- MODULE SharedNamespace ---------------------------
(***************************************************************************)
(* What tenants of one namespace may rely on, without workers, caches,     *)
(* loops or failed calls.  A map is written once, by a tenant to be, and   *)
(* has all that is known by then; it stays as its first author wrote it,   *)
(* also for those who come later.  A tenant moves in when every map is     *)
(* there.  Nobody and nothing leaves the namespace before it is closed, by *)
(* one who is leaving, with all that is in it; one that nobody moved into  *)
(* is never closed.  RHDHNamespace implements it.                          *)
(***************************************************************************)
CONSTANTS
  Users,   \* who may move in
  Maps,    \* what they find there
  Blank,   \* the content of a map that is not written
  Offers   \* on given terms, what each user may write into each map

VARIABLES
  terms,   \* on which all users are
  state,   \* of the namespace: open, closing, closed
  content, \* of each map
  tenants, \* who has moved in
  leaving, \* users on their way out
  gone,    \* users who are out
  gap      \* a map may be missing: it could not be read

place == <<terms, state, content, tenants, leaving, gone, gap>>

Init ==
  /\ \A u \in Users : \A m \in Maps : Blank \notin Offers[terms][u][m]
  /\ state = "open"
  /\ content = [m \in Maps |-> Blank] /\ tenants = {}
  /\ leaving = {} /\ gone = {}
  /\ gap = FALSE

Write(u, m) ==
  /\ state = "open" /\ u \notin gone
  /\ content[m] = Blank
  /\ \E text \in Offers[terms][u][m] : content' = [content EXCEPT ![m] = text]
  /\ UNCHANGED <<terms, state, tenants, leaving, gone, gap>>

MissMap ==
  /\ gap' = TRUE
  /\ UNCHANGED <<terms, state, content, tenants, leaving, gone>>

MoveIn(u) ==
  /\ state = "open" /\ u \notin tenants \union gone
  /\ gap \/ \A m \in Maps : content[m] # Blank
  /\ tenants' = tenants \union {u}
  /\ UNCHANGED <<terms, state, content, leaving, gone, gap>>

Leave(u) ==
  /\ u \notin leaving \union gone
  /\ leaving' = leaving \union {u}
  /\ UNCHANGED <<terms, state, content, tenants, gone, gap>>

Close(u) ==
  /\ state = "open" /\ u \in leaving /\ tenants # {}
  /\ state' = "closing"
  /\ UNCHANGED <<terms, content, tenants, leaving, gone, gap>>

Vanish ==
  /\ state = "closing" /\ state' = "closed"
  /\ content' = [m \in Maps |-> Blank] /\ tenants' = {}
  /\ UNCHANGED <<terms, leaving, gone, gap>>

Go(u) ==
  /\ u \in leaving
  /\ leaving' = leaving \ {u} /\ gone' = gone \union {u}
  /\ UNCHANGED <<terms, state, content, tenants, gap>>

Next ==
  \/ MissMap \/ Vanish
  \/ \E u \in Users : \/ MoveIn(u) \/ Leave(u) \/ Close(u) \/ Go(u)
                      \/ \E m \in Maps : Write(u, m)

Spec == Init /\ [][Next]_place
=============================================================================
