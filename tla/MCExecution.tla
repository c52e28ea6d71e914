---------------------------- MODULE MCExecution ----------------------------
(***************************************************************************)
(* The operation  { a { m } l { z } a { e } l { w } } : a is an optional    *)
(* object and l a list of one optional object, both selected twice; m is an *)
(* optional list of one list of two scalars; all fields of e are skipped.   *)
(***************************************************************************)
EXTENDS Execution

Tree == [a1 |-> "root", m |-> "a1", m0 |-> "m", m00 |-> "m0", m01 |-> "m0",
         l1 |-> "root", i1 |-> "l1", z |-> "i1", a2 |-> "root", e |-> "a2",
         l2 |-> "root", i2 |-> "l2", w |-> "i2"]

MCField  == DOMAIN Tree
MCParent == Tree
MCKey == [f \in MCField |->
    CASE f \in {"a1", "a2"} -> "a" [] f \in {"l1", "l2"} -> "l"
      [] f \in {"m0", "m00", "i1", "i2"} -> "0" [] f = "m01" -> "1" [] OTHER -> f]
MCRank == [f \in MCField |->
    CASE f \in {"m", "m01", "l1"} -> 1 [] f = "a2" -> 2 [] f = "l2" -> 3 [] OTHER -> 0]
MCKind == [f \in MCField |->
    CASE f \in {"a1", "a2", "i1", "i2", "e"} -> "object"
      [] f \in {"m", "m0", "l1", "l2"} -> "list" [] OTHER -> "leaf"]
=============================================================================
