---------------------------- MODULE BaseJournal ----------------------------
(***************************************************************************)
(* The methods of `BaseJournal` (store/src/journal.rs) that compute on its *)
(* two fields, `store` and `next_sequence`.  They are shared by the        *)
(* journal actor (Journal) and by the persistent actor that owns one       *)
(* (Persistent).                                                           *)
(***************************************************************************)
EXTENDS Store

\* Mutant: the last key itself instead of its successor.
NewReusesLastKey(m) == IF DOMAIN m = {} THEN 0 ELSE LastKey(m)

\* BaseJournal::new: where the next event goes, given what the store holds.
NewNextSequence(m) == IF DOMAIN m = {} THEN 0 ELSE LastKey(m) + 1

\* Mutant: the position of the next event instead of the last one.
LatestIsNext(next) == next

\* BaseJournal::latest_sequence: 0 both for an empty journal and for one event.
LatestSequence(next) == IF next = 0 THEN 0 ELSE next - 1

\* BaseJournal::range(from, None).
RangeToLatest(m, next, from) == StoreRange(m, from, LatestSequence(next))
=============================================================================
