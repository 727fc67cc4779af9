----------------------------- MODULE MCGraphLock -----------------------------
(* Two rows with the same trip and sequence number, two handlers, a word   *)
(* of three values.                                                        *)
EXTENDS GraphLock

CONSTANTS q1, q2, k1, k2

MCKeyOf == <<k1, k1>>
MCScheduled == <<[arr_sec |-> 0, dep_sec |-> 1], [arr_sec |-> 2, dep_sec |-> 2]>>
==============================================================================
