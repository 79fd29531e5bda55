--------------------------- MODULE StoreIterators ---------------------------
(***************************************************************************)
(* Store::iter and Store::last of both back ends                           *)
(* (store/src/stores/fjall.rs, store/src/stores/memory.rs), as operators   *)
(* on a scan: the sequence of <<key, value>> pairs that the back end's     *)
(* prefix iterator yields.  An Option is <<>> or a sequence of one         *)
(* element; an absent bound of the iterator options is NoBound.            *)
(***************************************************************************)
EXTENDS Store, Sequences

Seqs == INSTANCE SequencesExt

NoBound == -1

\* The elements of a finite set in a strict order.
Sorted(S, Before(_, _)) ==
    CHOOSE seq \in [1..Cardinality(S) -> S] :
        \A i, j \in 1..Cardinality(S) : i < j => Before(seq[i], seq[j])

\* The entries of a map in the order of their keys.
Scan(m) ==
    LET keys == Sorted(DOMAIN m, <)
    IN  [i \in DOMAIN keys |-> <<keys[i], m[keys[i]]>>]

\* Iterator::last.
LastOf(scan) == IF scan = <<>> THEN <<>> ELSE <<scan[Len(scan)]>>

\* The key of the last entry, or 0.
LastKeyOf(scan) == IF scan = <<>> THEN 0 ELSE scan[Len(scan)][1]

\* Iterator::take.  Without a count everything is taken.
Take(seq, count) ==
    IF count = NoBound THEN seq ELSE SubSeq(seq, 1, Min({count, Len(seq)}))

\* Iterator::filter_map, by the key.  As a function, for the proofs.
Filter(scan, keys) ==
    LET kept[i \in 0..Len(scan)] ==
            IF i = 0 THEN <<>>
            ELSE IF scan[i][1] \in keys THEN Append(kept[i - 1], scan[i])
            ELSE kept[i - 1]
    IN  kept[Len(scan)]

\* Mutant: `from` itself is left out.
ForwardExclusive(scan, from, count) == Take(Filter(scan, {k \in Nat : from < k}), count)

\* IteratorOptions::Forward { from, count }.
ForwardOf(scan, from, count) == Take(Filter(scan, {k \in Nat : from <= k}), count)

\* IteratorOptions::Reverse { from, count }.
ReverseOf(scan, from, count) ==
    LET start == IF from = NoBound THEN LastKeyOf(scan) ELSE from
    IN  Take(Filter(Seqs!Reverse(scan), 0..start), count)

\* IteratorOptions::Range { from, to }.
RangeOf(scan, from, to) ==
    LET end == IF to = NoBound THEN LastKeyOf(scan) ELSE to
    IN  Filter(scan, from..end)
=============================================================================
