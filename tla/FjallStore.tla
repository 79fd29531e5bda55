----------------------------- MODULE FjallStore -----------------------------
(***************************************************************************)
(* The fjall back end (store/src/stores/fjall.rs).  The stores of one name *)
(* share a keyspace, an ordered map from byte strings; the entry of key k  *)
(* of the store with prefix p is kept under "{p}:{k:014}".  get, put and   *)
(* del build that string; last, iter and purge scan the keyspace for the   *)
(* strings that begin with p, so they also meet the entries of every id of *)
(* the keyspace that begins with the characters of p.                      *)
(*                                                                         *)
(* An element of Ids is a pair of name and prefix.  Begins relates q to p  *)
(* when both are of one keyspace and q's prefix begins with p's;           *)
(* ByteOrder lists the ids in the order of their entries' byte strings     *)
(* (after equal beginnings ':' sorts behind the digits and before the      *)
(* letters: "10:" < "1:" but "a:" < "ab:").  Within an id keys are         *)
(* formatted to a fixed width, so their byte order is the numeric one.     *)
(*                                                                         *)
(* A single call to fjall is atomic.  A purge is one scan, over the        *)
(* keyspace as it was when the scan began, and one remove for each entry   *)
(* met; other tasks use the keyspace in between.                           *)
(***************************************************************************)
EXTENDS StoreIterators

CONSTANTS
    Ids,         \* the stores of the database
    Keys,        \* bound: the keys in use
    Values,
    Begins,      \* <<q, p>>: the prefix of q begins with the prefix of p
    ByteOrder    \* Ids in the byte order of their entries

ASSUME FjallAssumption ==
    /\ Begins \subseteq Ids \X Ids
    /\ \A p \in Ids : <<p, p>> \notin Begins
    /\ Keys \in SUBSET Nat /\ Keys # {} /\ IsFiniteSet(Keys)

VARIABLES
    space,      \* the entries: id -> key -> value
    purge,      \* each id's purge: none, busy, or what it answered
    left        \* the entries a purge has still to remove

store == <<space, purge, left>>

StoreInit ==
    /\ space = [p \in Ids |-> EmptyStore]
    /\ purge = [p \in Ids |-> "none"]
    /\ left = [p \in Ids |-> {}]

-----------------------------------------------------------------------------
(* The prefix scan. *)

\* The ids whose entries a scan for p meets.
Met(p) == {p} \cup {q \in Ids : <<q, p>> \in Begins}

\* Those entries, as pairs of id and key.
Entries(p) == UNION {{q} \X DOMAIN space[q] : q \in Met(p)}

Rank(q) == CHOOSE i \in DOMAIN ByteOrder : ByteOrder[i] = q

\* The byte order of two entries.
Precedes(d, e) ==
    IF d[1] = e[1] THEN d[2] < e[2] ELSE Rank(d[1]) < Rank(e[1])

\* Keyspace::prefix and into_key_value: what follows the last ':' is the key,
\* whatever id the entry belongs to.
PrefixIterator(p) ==
    LET found == Sorted(Entries(p), Precedes)
    IN  [i \in DOMAIN found |-> <<found[i][2], space[found[i][1]][found[i][2]]>>]

\* Store::get builds the key of its own id.
Get(p, k) == IF Has(space[p], k) THEN <<space[p][k]>> ELSE <<>>

\* Store::last, and Store::iter with each of its options.
Last(p) == LastOf(PrefixIterator(p))
Forward(p, from, count) == ForwardOf(PrefixIterator(p), from, count)
Backward(p, from, count) == ReverseOf(PrefixIterator(p), from, count)
Range_(p, from, to) == RangeOf(PrefixIterator(p), from, to)

-----------------------------------------------------------------------------
(* The writes.  A handle is used by one task, so not during its own purge. *)

Write(p, map) ==
    /\ purge[p] # "busy"
    /\ space' = [space EXCEPT ![p] = map]
    /\ purge' = [purge EXCEPT ![p] = "none"]
    /\ UNCHANGED left

\* Store::put.
Put(p, k, v) == Write(p, StorePut(space[p], k, v))

\* Store::del.
Del(p, k) == Write(p, StoreDel(space[p], k))

\* Mutant: the scan misses the first key.
PurgeStartPastFirst(p) ==
    /\ purge[p] # "busy"
    /\ purge' = [purge EXCEPT ![p] = "busy"]
    /\ left' = [left EXCEPT ![p] = {e \in Entries(p) : e[2] > 0}]
    /\ UNCHANGED space

\* Store::purge opens the scan.
PurgeStart(p) ==
    /\ purge[p] # "busy"
    /\ purge' = [purge EXCEPT ![p] = "busy"]
    /\ left' = [left EXCEPT ![p] = Entries(p)]
    /\ UNCHANGED space

\* The scan's next entry is removed.
PurgeRemove(p) ==
    /\ purge[p] = "busy"
    /\ \E e \in left[p] :
        /\ \A d \in left[p] \ {e} : Precedes(e, d)
        /\ space' = [space EXCEPT ![e[1]] = StoreDel(@, e[2])]
        /\ left' = [left EXCEPT ![p] = @ \ {e}]
    /\ UNCHANGED purge

\* The scan is at its end: the purge answers Ok.
PurgeDone(p) ==
    /\ purge[p] = "busy"
    /\ left[p] = {}
    /\ purge' = [purge EXCEPT ![p] = "ok"]
    /\ UNCHANGED <<space, left>>

\* Reading or removing an entry fails: the purge answers with the error, the
\* entries behind it stay.
PurgeFails(p) ==
    /\ purge[p] = "busy"
    /\ left[p] # {}
    /\ purge' = [purge EXCEPT ![p] = "err"]
    /\ left' = [left EXCEPT ![p] = {}]
    /\ UNCHANGED space

\* The process dies: the entries stay, no purge goes on.
StoreCrash ==
    /\ purge' = [p \in Ids |-> "none"]
    /\ left' = [p \in Ids |-> {}]
    /\ UNCHANGED space

-----------------------------------------------------------------------------
(* Properties. *)

Promise == INSTANCE Stores WITH maps <- space

StoreTypeOK ==
    /\ DOMAIN space = Ids
    /\ \A p \in Ids : IsStore(space[p], Keys, Values)
    /\ purge \in [Ids -> Promise!Purges]
    /\ DOMAIN left = Ids
    /\ \A p \in Ids : left[p] \subseteq Ids \X Keys

\* The stores of fjall keep what every store promises: whatever is interleaved
\* with the removals of a purge, fails or dies between two of them, no store
\* loses or gains what was not done to it, and a purge that answers Ok has
\* emptied its store, although it removes what a scan found earlier; as long
\* as no purge's scan meets another id (store/src/stores/fjall.rs:175).
ImplementsStores == Promise!Spec

\* The first entries of p in pages of n, each page from behind the last key of
\* the one before.
Pages(p, n) ==
    LET bound == Max(Keys) + 2
        pages[from \in 0..bound] ==
            LET page == Forward(p, from, n)
            IN  IF page = <<>> THEN <<>>
                ELSE page \o pages[LastKeyOf(page) + 1]
    IN  pages[0]

\* What the iterator options select, for a store whose scan meets no other:
\* reading in pages of any size, or in a range without an end, yields each
\* entry once, and backwards is the reverse of forwards
\* (store/src/stores/fjall.rs:184).
IterationComplete ==
    \A p \in {q \in Ids : Met(q) = {q}} :
        LET all == Scan(space[p])
        IN  /\ \A n \in 1..Cardinality(Keys) : Pages(p, n) = all
            /\ Range_(p, 0, NoBound) = all
            /\ LET back == Backward(p, NoBound, NoBound)
               IN  /\ DOMAIN back = DOMAIN all
                   /\ \A i \in DOMAIN all : back[i] = all[Len(all) + 1 - i]

\* snapshot.rs:34-35: the id is "used to determine the prefix of the stores
\* for the snapshotter, allowing different actor instances to have their own
\* separate stores": what a scan yields is the store's own.
ScansSeeOwn ==
    \A p \in Ids :
        /\ Last(p) = Promise!Last(p)
        /\ Forward(p, NoBound, NoBound) = Promise!Forward(p, NoBound, NoBound)
=============================================================================
