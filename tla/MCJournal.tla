------------------------------ MODULE MCJournal ------------------------------
(* SegmentedJournal for TLC: payloads and readers are interchangeable. *)
EXTENDS SegmentedJournal, TLC

Symmetry == Permutations(Vals) \cup Permutations(Readers)

===========================================================================
