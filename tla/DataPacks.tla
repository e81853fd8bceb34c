------------------------------ MODULE DataPacks ------------------------------
(***************************************************************************)
(* BaseBenchmark::findDataPackIndex(): the data pack of a collection that  *)
(* holds the parameter at a given position.  The packs of a collection may *)
(* come in any order; each says which parameter position it is for.        *)
(*                                                                         *)
(* The search is written twice: as the function's result, which the        *)
(* backends use, and as the loop that computes it.                         *)
(***************************************************************************)
EXTENDS Naturals, Sequences

\* packs is p_data_packs, indexed from 1; indices are those of the code.
PackAt(packs, i) == packs[i + 1].param_position
Matches(packs, pos) == {i \in 0 .. Len(packs) - 1 : PackAt(packs, i) = pos}
MinIndex(S) == CHOOSE i \in S : \A j \in S : i <= j

\* The index of a match, the one at pos itself for preference, else the first;
\* or Len(packs) if there is none.
findDataPackIndex(packs, pos) ==
    IF pos \in Matches(packs, pos) THEN pos
    ELSE IF Matches(packs, pos) # {} THEN MinIndex(Matches(packs, pos))
    ELSE Len(packs)
=============================================================================
