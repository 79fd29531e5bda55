----------------------------- MODULE MCJournal -----------------------------
(* Model-checking instance of Journal. *)
EXTENDS Journal, TLC

SymEvents == Permutations(Events)
=============================================================================
