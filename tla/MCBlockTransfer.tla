--------------------------- MODULE MCBlockTransfer ---------------------------
(***************************************************************************)
(* A small network: a sends two contents to b, and b one to a and c, with  *)
(* the identifier of the third block of a. Their ints have 16 bits.        *)
(***************************************************************************)
EXTENDS BlockTransfer

CONSTANTS a, b, c, t1, t2, t3

MCFrom == [t \in Transfers |-> IF t = t3 THEN b ELSE a]
MCTo == [t \in Transfers |-> IF t = t3 THEN {a, c} ELSE {b}]
MCMethod == [t \in Transfers |-> IF t = t2 THEN "PUT" ELSE "POST"]
MCLast == [t \in Transfers |-> IF t = t1 THEN 2 ELSE IF t = t2 THEN 1 ELSE 0]
MCFirstMids == [n \in Nodes |-> IF n = b THEN {2} ELSE {0}]

ASSUME OrderlyAssumption == Orderly
=============================================================================
