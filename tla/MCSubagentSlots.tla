--------------------------- MODULE MCSubagentSlots ---------------------------
(* A small instance of SubagentSlots. *)
EXTENDS SubagentSlots
=============================================================================
