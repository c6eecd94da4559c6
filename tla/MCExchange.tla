----------------------------- MODULE MCExchange -----------------------------
(***************************************************************************)
(* Small instances of Exchange.  Positions are the cells of a line; a cut  *)
(* gives each rank an interval of it, and a cell is near the regions of    *)
(* the neighbouring cells.                                                 *)
(***************************************************************************)
EXTENDS ExchangeInvariant, TLC

CONSTANTS a, b, c

Cell == 0..(NProc - 1)

(* A cut may leave ranks empty: "low" gives the first rank every cell.     *)
OwnerOf == [even |-> [x \in Cell |-> x], low |-> [x \in Cell |-> 0]]
Around(owner, x) == {owner[y] : y \in {z \in Cell : z \in (x - 1)..(x + 1)}}
NearOf == [k \in {"even", "low"} |-> [x \in Cell |-> Around(OwnerOf[k], x)]]

MCCuts == {"even", "low"}
MCOwner == OwnerOf
MCNear == NearOf

Interchangeable == Permutations(Particle)
=============================================================================
