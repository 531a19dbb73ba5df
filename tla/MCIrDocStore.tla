---------------------------- MODULE MCIrDocStore ----------------------------
(* A small instance of IrDocStore: the second model cannot be written back; the
   document to load has geometry that is not the solution of the first. *)
EXTENDS IrDocStore, TLC

CONSTANTS m1, m2, g1, g2

MCSolutionOf == [m \in {m1, m2} |-> IF m = m1 THEN g1 ELSE None]
MCLoads == {<<m2, g2, g1>>}
=============================================================================
