------------------------------ MODULE MCCleanUp ------------------------------
(* Small instances of CleanUp for TLC: what is there when the Orchestrator *)
(* is created.                                                             *)
EXTENDS CleanUp

NothingThere == [made |-> {}, shared |-> {}, others |-> FALSE]
RHDHThere    == [made |-> {"rhdh"}, shared |-> {}, others |-> FALSE]
Finalized    == [made |-> {}, shared |-> {}, others |-> TRUE]
KnativeThere == [made |-> {}, shared |-> {"serving"}, others |-> FALSE]

NewStarts  == {NothingThere}
RHDHStarts == {RHDHThere}
AnyStarts  == {RHDHThere, Finalized, KnativeThere}
=============================================================================
