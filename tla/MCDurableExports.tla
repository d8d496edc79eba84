--------------------------- MODULE MCDurableExports ---------------------------
(* Model values for DurableExports: one export of one account. *)
EXTENDS DurableExports

CONSTANTS e1, o1, w1, w2

ExportOwner == [e \in Exports |-> o1]
ExportWorker == [e \in Exports |-> w1]
===============================================================================
