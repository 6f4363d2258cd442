------------------------- MODULE MCOperatorInstall -------------------------
(* Small instances of OperatorInstall for TLC: what users do meanwhile.    *)
EXTENDS OperatorInstall, TLC

NoEdits   == {}
LiveEdits == {"spec", "namespace"}
AllEdits  == {"spec", "delete", "approve", "namespace"}

(* The workers differ in nothing but their names.                          *)
Symmetry == Permutations(Workers)
=============================================================================
