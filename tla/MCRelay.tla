------------------------------- MODULE MCRelay -------------------------------
(* A client with a request and an answer in two parts, and one that only   *)
(* connects.                                                               *)
EXTENDS Relay

CONSTANTS c1, c2

OnePart == [c \in Clients |-> IF c = c1 THEN 1 ELSE 0]
TwoParts == [c \in Clients |-> IF c = c1 THEN 2 ELSE 0]
=============================================================================
