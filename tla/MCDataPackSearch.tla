-------------------------- MODULE MCDataPackSearch --------------------------
(* Every collection of up to four packs over positions 0 .. 4, among them  *)
(* out of order, repeated and missing positions.                           *)
EXTENDS DataPackSearch
Positions == 0 .. 4
=============================================================================
