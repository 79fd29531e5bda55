------------------------------- MODULE Store -------------------------------
(***************************************************************************)
(* The `Store` trait of store/src/stores/mod.rs as both back ends          *)
(* implement it for one store handle: an ordered map from u64 keys to      *)
(* values.  A store is a function whose domain is the set of keys that     *)
(* hold an entry.  The operators are pure; the modules that use them keep  *)
(* the map in a variable.                                                  *)
(*                                                                         *)
(* Keys are formatted as `{prefix}:{:014}`, so the byte order of the back  *)
(* end is the numeric order of the keys (below 10^14), which is what       *)
(* LastKey relies on.  `flush` is the trait's default, which does nothing, *)
(* in both back ends.                                                      *)
(***************************************************************************)
EXTENDS Integers, FiniteSetsExt

\* m is a store with keys in K and values in V.
IsStore(m, K, V) == DOMAIN m \subseteq K /\ m \in [DOMAIN m -> V]

\* A freshly created store.
EmptyStore == [k \in {} |-> k]

\* Store::get finds an entry.
Has(m, k) == k \in DOMAIN m

\* Store::put: insert or overwrite.
StorePut(m, k, v) == [x \in DOMAIN m \cup {k} |-> IF x = k THEN v ELSE m[x]]

\* Store::del.
StoreDel(m, k) == [x \in DOMAIN m \ {k} |-> m[x]]

\* The key of Store::last; meaningful on a non-empty store only.
LastKey(m) == Max(DOMAIN m)

\* Store::iter(IteratorOptions::Range { from, to: Some(to) }), as the map of
\* the entries it yields.
StoreRange(m, from, to) ==
    [k \in {x \in DOMAIN m : from <= x /\ x <= to} |-> m[k]]
=============================================================================
