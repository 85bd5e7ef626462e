------------------------------ MODULE Selection ------------------------------
(***************************************************************************)
(* What deleting rows does to an ordered store (a table read by its key or *)
(* its date, a Map read in the order of insertion): the others stay, in    *)
(* their order.  Defined by the rank of a row among those that are kept,   *)
(* so that it can be reasoned about without induction.                     *)
(***************************************************************************)
EXTENDS Naturals, Sequences, FiniteSets

Rank(i, kept) == Cardinality({j \in kept : j <= i})
Nth(n, kept) == CHOOSE i \in kept : Rank(i, kept) = n

\* The rows of the sequence `rows` whose index is in `kept`.
Keep(rows, kept) == [n \in 1 .. Cardinality(kept) |-> rows[Nth(n, kept)]]
=============================================================================
