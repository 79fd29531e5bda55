---------------------------- MODULE StoreProofs ----------------------------
(***************************************************************************)
(* What the operations on stores return, for every store: the lemmas that  *)
(* the proofs about the journal and the persistent actor cite.             *)
(***************************************************************************)
EXTENDS BaseJournal, WellFoundedInduction, TLAPS

(* Naturals.  Induction is over a set of them. *)

\* A set of naturals has a least element.
LEMMA LeastNat ==
    ASSUME NEW T \in SUBSET Nat, T # {}
    PROVE  \E n \in T : \A m \in T : n <= m
<1> DEFINE R == OpToRel(<, Nat)
<1>1. IsWellFoundedOn(R, Nat)
  BY NatLessThanWellFounded
<1>2. \A x, y \in Nat : <<y, x>> \in R <=> y < x
  BY DEF OpToRel
<1> HIDE DEF R
<1>3. PICK n \in T : \A m \in T : <<m, n>> \notin R
  BY <1>1, WFMin
<1>4. ASSUME NEW m \in T PROVE n <= m
  <2>1. m \in Nat /\ n \in Nat /\ <<m, n>> \notin R
    BY <1>3
  <2>2. ~(m < n)
    BY <1>2, <2>1, Zenon
  <2> QED
    BY <2>1, <2>2
<1> QED
  BY <1>4

\* Induction, for a set of naturals.
LEMMA Induction ==
    ASSUME NEW N \in Nat, NEW T, 0 \in T, \A i \in 1..N : i - 1 \in T => i \in T
    PROVE  \A i \in 0..N : i \in T
<1> SUFFICES ASSUME \E i \in 0..N : i \notin T PROVE FALSE
  OBVIOUS
<1> DEFINE C == {i \in 0..N : i \notin T}
<1>1. PICK n \in C : \A m \in C : n <= m
  <2>1. C \in SUBSET Nat /\ C # {}
    OBVIOUS
  <2> HIDE DEF C
  <2> QED
    BY <2>1, LeastNat
<1>2. n \in 1..N /\ n - 1 \in 0..N /\ n - 1 \notin C
  BY <1>1
<1> QED
  BY <1>1, <1>2

-----------------------------------------------------------------------------
(* Stores. *)

\* The maximum that FiniteSetsExt chooses is the one there is.
LEMMA MaxIs ==
    ASSUME NEW S, S \subseteq Int, NEW m \in S, \A y \in S : y <= m
    PROVE  Max(S) = m
<1>1. \E x \in S : \A y \in S : x >= y
  OBVIOUS
<1>2. \A x \in S : (\A y \in S : x >= y) => x = m
  OBVIOUS
<1> QED
  BY <1>1, <1>2 DEF Max

\* A non-empty bounded set of naturals has a maximum.
LEMMA BoundedMax ==
    ASSUME NEW n \in Nat, NEW S, S \subseteq 0..n, S # {}
    PROVE  Max(S) \in S /\ \A y \in S : y <= Max(S)
<1> DEFINE T == {n - x : x \in S}
<1>1. T \subseteq Nat
  OBVIOUS
<1>2. \A x \in S : n - x \in T
  OBVIOUS
<1>3. \A t \in T : \E x \in S : t = n - x
  OBVIOUS
<1> HIDE DEF T
<1>4. PICK t \in T : \A y \in T : t <= y
  BY <1>1, <1>2, LeastNat
<1>5. PICK m \in S : t = n - m
  BY <1>3, <1>4
<1>6. \A y \in S : y <= m
  BY <1>2, <1>4, <1>5
<1>7. Max(S) = m
  <2>1. S \subseteq Int
    OBVIOUS
  <2> QED
    BY <1>6, <2>1, MaxIs
<1> QED
  BY <1>5, <1>6, <1>7

\* put keeps a store a store, and changes one entry (store/src/stores/mod.rs).
LEMMA StorePutIs ==
    ASSUME NEW K, NEW V, NEW m, IsStore(m, K, V), NEW k \in K, NEW v \in V
    PROVE  /\ IsStore(StorePut(m, k, v), K, V)
           /\ DOMAIN StorePut(m, k, v) = DOMAIN m \cup {k}
           /\ StorePut(m, k, v)[k] = v
           /\ \A x \in DOMAIN m : x # k => StorePut(m, k, v)[x] = m[x]
BY DEF IsStore, StorePut

\* del keeps a store a store, and removes one key.
LEMMA StoreDelIs ==
    ASSUME NEW K, NEW V, NEW m, IsStore(m, K, V), NEW k
    PROVE  /\ IsStore(StoreDel(m, k), K, V)
           /\ DOMAIN StoreDel(m, k) = DOMAIN m \ {k}
BY DEF IsStore, StoreDel

\* A journal reopened on a store whose last key is known
\* (store/src/journal.rs:53).
LEMMA ReopenedNext ==
    ASSUME NEW m, NEW n \in Nat,
           DOMAIN m \subseteq 0..(n - 1),
           DOMAIN m # {} => n - 1 \in DOMAIN m
    PROVE  NewNextSequence(m) = IF DOMAIN m = {} THEN 0 ELSE n
<1>1. CASE DOMAIN m = {}
  BY <1>1 DEF NewNextSequence
<1>2. CASE DOMAIN m # {}
  <2>1. Max(DOMAIN m) = n - 1
    BY <1>2, MaxIs
  <2> QED
    BY <1>2, <2>1 DEF NewNextSequence, LastKey
<1> QED
  BY <1>1, <1>2
=============================================================================
