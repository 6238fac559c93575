--------------------------- MODULE MCTrxProtocol ----------------------------
(* Instances of TrxProtocol: who coordinates, stores, reads and writes what.*)
EXTENDS TrxProtocol

CONSTANTS w1, w2, t1, t2, t3, x, y

(* One worker does everything. *)
OneHome == [t \in Trx |-> w1]
OnePlace == [k \in Key |-> w1]

(* Two workers, one transaction and one key at each. *)
TwoHome == [t \in Trx |-> IF t = t2 THEN w2 ELSE w1]
TwoPlace == [k \in Key |-> IF k = y THEN w2 ELSE w1]

(* Write skew. *)
SkewReads == [t \in Trx |-> IF t = t1 THEN {x} ELSE {y}]
SkewWrites == [t \in Trx |-> IF t = t1 THEN {y} ELSE {x}]

(* Write skew whose second half also overwrites what the first half wrote, *)
(* and a reader of both keys.                                              *)
MixReads == [t \in Trx |-> CASE t = t1 -> {x} [] t = t2 -> {y} [] OTHER -> {x, y}]
MixWrites == [t \in Trx |-> CASE t = t1 -> {y} [] t = t2 -> {x, y} [] OTHER -> {}]

(* Both write both keys, one on each worker; one of them reads one first. *)
CrossReads == [t \in Trx |-> IF t = t2 THEN {} ELSE {x}]
CrossWrites == [t \in Trx |-> {x, y}]
=============================================================================
