-------------------------- MODULE PersistentProofs --------------------------
(***************************************************************************)
(* Proofs about Persistent, for every set of events and every bound, when  *)
(* insert_event only corrects positions that were already persisted        *)
(* (InsertAhead = 0).                                                      *)
(*                                                                         *)
(* The heart of the invariant is SnapOK: every copy of the actor's state   *)
(* that is in use, in a mailbox or on disk carries a position that the     *)
(* journal has reached, and holds the events up to that position.  It is   *)
(* stated over an explicit journal j, exempt set x and counter n, so that  *)
(* one lemma per kind of journal step carries all the copies across it.    *)
(***************************************************************************)
EXTENDS Persistent, StoreProofs

Refl(j, x, st, k) ==
    \A p \in Positions :
        /\ Len(st[p]) <= 1
        /\ p > k \/ p \notin DOMAIN j => st[p] = <<>>
        /\ p <= k /\ p \in DOMAIN j \ x => st[p] = <<j[p]>>

SnapOK(j, x, n, k, st) == k <= LatestSequence(n) /\ Refl(j, x, st, k)

\* The copy st, taken at position k, is good in the current state.
Good(k, st) == SnapOK(journal, Exempt, next_sequence, k, st)

\* Positions are never skipped and, apart from the first life's start, an
\* actor that runs has its two children registered.
LogInv ==
    /\ DOMAIN journal = 0..(next_sequence - 1)
    /\ phase \in {"loading", "replaying", "idle", "applying", "stopping"} => gen \in Gens
    /\ phase \in {"loading", "replaying", "idle", "applying", "retrying"} => registered # {}

\* The in-memory state in each phase.
StateInv ==
    /\ phase \in {"down", "loading"} => state = Fresh
    /\ phase = "replaying" => Good(from, state)
    /\ phase = "idle" => Good(LatestSequence(next_sequence), state)
    /\ phase = "applying" =>
        /\ next_sequence > 0
        /\ pending = next_sequence - 1
        /\ state[pending] = <<>>
        /\ Refl(journal, Exempt \cup {pending}, state, pending)

SnapsInv == \A k \in DOMAIN snaps : Good(k, snaps[k])
BoxInv == \A g \in Gens : \A i \in 1..Len(box[g]) : Good(box[g][i].key, box[g][i].data)

\* The first life starts on an empty journal.
FirstInv ==
    /\ gen = 0 \/ (gen = 1 /\ phase \in {"loading", "replaying"}) => next_sequence = 0
    /\ gen = 1 /\ phase \in {"idle", "applying"} =>
        \A p \in DOMAIN journal \ (refused \cup corrected) :
            (phase = "applying" => p # pending) => state[p] = <<journal[p]>>

\* Every acknowledged event is where it was put.
AckedInv ==
    \A p \in DOMAIN acked \ corrected : p \in DOMAIN journal /\ journal[p] = acked[p]

IndInv == TypeOK /\ LogInv /\ StateInv /\ SnapsInv /\ BoxInv /\ FirstInv /\ AckedInv

-----------------------------------------------------------------------------
(* How a copy of the state survives the steps that change the journal. *)

\* Persisting a further event (store/src/persist.rs:221).
LEMMA GoodAfterPersist ==
    ASSUME NEW j, NEW x, NEW n \in 0..MaxEvents, NEW e, NEW k \in Positions,
           NEW st \in States, n < MaxEvents,
           DOMAIN j = 0..(n - 1), 0 \in x, SnapOK(j, x, n, k, st)
    PROVE  SnapOK(StorePut(j, n, e), x, n + 1, k, st)
<1>1. n \in Nat /\ k \in Nat /\ MaxEvents \in Nat /\ n \in Positions
  BY PersistentAssumption DEF Positions
<1>2. k <= LatestSequence(n + 1)
  BY <1>1 DEF SnapOK, LatestSequence
<1> DEFINE j2 == StorePut(j, n, e)
<1>3. DOMAIN j2 = 0..n /\ \A p \in 0..(n - 1) : j2[p] = j[p]
  BY <1>1 DEF StorePut
<1>4. k < n \/ (k = 0 /\ n = 0)
  BY <1>1 DEF SnapOK, LatestSequence
<1> HIDE DEF j2
<1>5. ASSUME NEW p \in Positions
      PROVE  /\ Len(st[p]) <= 1
             /\ p > k \/ p \notin DOMAIN j2 => st[p] = <<>>
             /\ p <= k /\ p \in DOMAIN j2 \ x => st[p] = <<j2[p]>>
  <2>1. /\ Len(st[p]) <= 1
        /\ p > k \/ p \notin DOMAIN j => st[p] = <<>>
        /\ p <= k /\ p \in DOMAIN j \ x => st[p] = <<j[p]>>
    BY DEF SnapOK, Refl
  <2>2. p \in Nat
    BY <1>1 DEF Positions
  <2> QED
    BY <1>1, <1>3, <1>4, <2>1, <2>2
<1> QED
  BY <1>2, <1>5 DEF SnapOK, Refl, j2

\* Exempting further positions.
LEMMA GoodAfterExempt ==
    ASSUME NEW j, NEW x, NEW y, x \subseteq y, NEW n, NEW k, NEW st, SnapOK(j, x, n, k, st)
    PROVE  SnapOK(j, y, n, k, st)
BY DEF SnapOK, Refl

\* Rewriting a position (store/src/persist.rs:295).
LEMMA GoodAfterInsert ==
    ASSUME NEW j, NEW x, NEW n, NEW s \in DOMAIN j, NEW e, NEW k, NEW st,
           SnapOK(j, x, n, k, st)
    PROVE  SnapOK(StorePut(j, s, e), x \cup {s}, n, k, st)
<1>1. DOMAIN StorePut(j, s, e) = DOMAIN j
  BY DEF StorePut
<1>2. \A p \in DOMAIN j \ {s} : StorePut(j, s, e)[p] = j[p]
  BY DEF StorePut
<1> QED
  BY <1>1, <1>2 DEF SnapOK, Refl

-----------------------------------------------------------------------------
(* Reopening the journal restores its counter. *)

\* A journal that is opened again continues where the last one was.
LEMMA Reopened == TypeOK /\ LogInv => NewNextSequence(journal) = next_sequence
<1> SUFFICES ASSUME TypeOK, LogInv PROVE NewNextSequence(journal) = next_sequence
  OBVIOUS
<1>1. next_sequence \in Nat /\ DOMAIN journal = 0..(next_sequence - 1)
  BY PersistentAssumption DEF TypeOK, LogInv
<1>2. CASE next_sequence = 0
  <2>1. \A y \in DOMAIN journal : FALSE
    BY <1>1, <1>2
  <2>2. DOMAIN journal = {}
    BY <2>1
  <2> QED
    BY <1>2, <2>2 DEF NewNextSequence
<1>3. CASE next_sequence # 0
  <2>1. next_sequence - 1 \in DOMAIN journal
    BY <1>1, <1>3
  <2>2. DOMAIN journal # {}
    BY <2>1
  <2>3. NewNextSequence(journal) = IF DOMAIN journal = {} THEN 0 ELSE next_sequence
    BY <1>1, <2>1, ReopenedNext
  <2> QED
    BY <2>2, <2>3
<1> QED
  BY <1>2, <1>3

\* The only steps that change the journal, its counter or the exempt
\* positions are persist, a refusing apply_event, and insert_event.
LEMMA JournalSteps ==
    TypeOK /\ LogInv /\ [Next]_vars =>
        \/ UNCHANGED <<journal, next_sequence, refused, corrected>>
        \/ \E e \in Events : Persist(e)
        \/ ApplyFails
        \/ \E e \in Events, q \in Positions : InsertEvent(q, e)
<1> SUFFICES ASSUME TypeOK, LogInv, [Next]_vars,
                    ~(\E e \in Events : Persist(e)), ~ApplyFails,
                    ~(\E e \in Events, q \in Positions : InsertEvent(q, e))
             PROVE  UNCHANGED <<journal, next_sequence, refused, corrected>>
  OBVIOUS
<1>1. CASE Start \/ Retry
  <2>1. UNCHANGED <<journal, refused, corrected>>
    BY <1>1 DEF Start, Retry, disk, history
  <2>2. UNCHANGED next_sequence
    BY <1>1, Reopened DEF Start, Retry, CreateStores, children
  <2> QED
    BY <2>1, <2>2
<1>2. CASE LoadSnapshot \/ Replay \/ ReplayFails \/ GiveUp \/ Snapshot \/ Stop
           \/ JournalStop \/ Terminate \/ Restart \/ Crash
  BY <1>2 DEF LoadSnapshot, Replay, ReplayFails, GiveUp, Snapshot, Stop, JournalStop,
              Terminate, Restart, Crash, disk, history, children
<1>3. CASE Apply
  BY <1>3 DEF Apply, disk, children
<1>4. ASSUME NEW g \in Gens, Save(g) \/ SnapshotterStop(g)
      PROVE  UNCHANGED <<journal, next_sequence, refused, corrected>>
  BY <1>4 DEF Save, SnapshotterStop, disk, history
<1>5. CASE UNCHANGED vars
  BY <1>5 DEF vars, disk, children, history
<1> QED
  BY <1>1, <1>2, <1>3, <1>4, <1>5 DEF Next

\* No step spoils a good copy of the state.
LEMMA GoodKept ==
    ASSUME InsertAhead = 0, TypeOK, LogInv, [Next]_vars,
           NEW k \in Positions, NEW st \in States, Good(k, st)
    PROVE  SnapOK(journal', Exempt', next_sequence', k, st)
<1>g. SnapOK(journal, Exempt, next_sequence, k, st)
  BY DEF Good
<1>t. /\ next_sequence \in 0..MaxEvents /\ next_sequence \in Nat
      /\ DOMAIN journal = 0..(next_sequence - 1) /\ 0 \in Exempt
  BY PersistentAssumption DEF TypeOK, LogInv, Exempt
<1>1. CASE UNCHANGED <<journal, next_sequence, refused, corrected>>
  BY <1>1, <1>g DEF Exempt
<1>2. ASSUME NEW e \in Events, Persist(e)
      PROVE  SnapOK(journal', Exempt', next_sequence', k, st)
  <2>1. /\ next_sequence < MaxEvents
        /\ journal' = StorePut(journal, next_sequence, e)
        /\ next_sequence' = next_sequence + 1
        /\ Exempt' = Exempt
    BY <1>2 DEF Persist, Exempt, history
  <2>2. SnapOK(StorePut(journal, next_sequence, e), Exempt, next_sequence + 1, k, st)
    BY <1>g, <1>t, <2>1, GoodAfterPersist
  <2> QED
    BY <2>1, <2>2
<1>3. CASE ApplyFails
  <2>1. Exempt \subseteq Exempt' /\ UNCHANGED <<journal, next_sequence>>
    BY <1>3 DEF ApplyFails, Exempt, disk, children
  <2> DEFINE y == Exempt'
  <2>2. Exempt \subseteq y
    BY <2>1
  <2> HIDE DEF y
  <2>3. SnapOK(journal, y, next_sequence, k, st)
    BY <1>g, <2>2, GoodAfterExempt
  <2> QED
    BY <2>1, <2>3 DEF y
<1>4. ASSUME NEW e \in Events, NEW q \in Positions, InsertEvent(q, e)
      PROVE  SnapOK(journal', Exempt', next_sequence', k, st)
  <2>1. /\ journal' = StorePut(journal, q, e)
        /\ Exempt' = Exempt \cup {q}
        /\ next_sequence' = next_sequence
        /\ q < next_sequence
    BY <1>4, <1>t DEF InsertEvent, Exempt, children
  <2>2. q \in DOMAIN journal
    BY <1>t, <2>1, PersistentAssumption DEF Positions
  <2>3. SnapOK(StorePut(journal, q, e), Exempt \cup {q}, next_sequence, k, st)
    BY <1>g, <2>2, GoodAfterInsert
  <2> QED
    BY <2>1, <2>3
<1> QED
  BY <1>1, <1>2, <1>3, <1>4, JournalSteps

-----------------------------------------------------------------------------
(* The invariant holds initially and every step keeps it. *)

\* The invariant holds initially.
LEMMA InitInd == Init => IndInv
<1> SUFFICES ASSUME Init PROVE IndInv
  OBVIOUS
<1>c. /\ MaxEvents \in Nat \ {0} /\ MaxStarts \in Nat /\ MaxRetries \in Nat
      /\ MaxFaults \in Nat
  BY PersistentAssumption
<1>1. DOMAIN EmptyStore = {} /\ \A K, V : IsStore(EmptyStore, K, V)
  BY DEF EmptyStore, IsStore
<1>2. Fresh \in States
  BY DEF Fresh, States
<1>3. TypeOK
  BY <1>c, <1>1, <1>2 DEF Init, TypeOK, Positions
<1>4. LogInv /\ StateInv /\ SnapsInv /\ BoxInv /\ FirstInv /\ AckedInv
  BY <1>c, <1>1 DEF Init, LogInv, StateInv, SnapsInv, BoxInv, FirstInv, AckedInv
<1> QED
  BY <1>3, <1>4 DEF IndInv

\* What ApplyAll makes of a state.
LEMMA ApplyAllType ==
    ASSUME NEW st \in States, NEW m, IsStore(m, Positions, Events)
    PROVE  /\ ApplyAll(st, m) \in States
           /\ \A p \in Positions : p \in DOMAIN m => ApplyAll(st, m)[p] = Append(st[p], m[p])
           /\ \A p \in Positions : p \notin DOMAIN m => ApplyAll(st, m)[p] = st[p]
BY DEF ApplyAll, States, IsStore

\* What a range of the journal holds.
LEMMA RangeType ==
    ASSUME NEW m, IsStore(m, Positions, Events), NEW a, NEW b
    PROVE  IsStore(StoreRange(m, a, b), Positions, Events)
BY DEF StoreRange, IsStore

\* Every step keeps the types.
LEMMA TypeStep ==
    ASSUME InsertAhead = 0, TypeOK, LogInv, StateInv, [Next]_vars
    PROVE  TypeOK'
<1>c. /\ MaxEvents \in Nat \ {0} /\ MaxStarts \in Nat /\ MaxRetries \in Nat
      /\ MaxFaults \in Nat
  BY PersistentAssumption
<1>f. Fresh \in States
  BY DEF Fresh, States
<1>0. 0 \in Positions
  BY <1>c DEF Positions
<1>1. CASE Start \/ Retry
  <2>1. CASE UNCHANGED children /\ phase' = "retrying"
    BY <1>1, <2>1, <1>c DEF TypeOK, Start, Retry, disk, children, history
  <2>2. CASE /\ gen < MaxStarts /\ gen' = gen + 1 /\ alive' = alive \cup {gen + 1}
             /\ registered' = Children /\ next_sequence' = next_sequence
             /\ phase' = "loading" /\ UNCHANGED <<ending, box>>
    BY <1>1, <2>2, <1>c DEF TypeOK, Start, Retry, disk, history, Gens
  <2> QED
    BY <1>1, <2>1, <2>2, Reopened DEF Start, Retry, CreateStores
<1>2. CASE LoadSnapshot
  <2>1. CASE DOMAIN snaps = {} /\ from' = 0 /\ UNCHANGED state
    BY <1>2, <2>1, <1>0 DEF TypeOK, LoadSnapshot, disk, children, history
  <2>2. CASE DOMAIN snaps # {} /\ from' = LastKey(snaps) /\ state' = snaps[LastKey(snaps)]
    <3>1. MaxEvents - 1 \in Nat /\ DOMAIN snaps \subseteq 0..(MaxEvents - 1)
      BY <1>c DEF TypeOK, IsStore, Positions
    <3>2. LastKey(snaps) \in DOMAIN snaps
      BY <2>2, <3>1, BoundedMax DEF LastKey
    <3>3. LastKey(snaps) \in Positions /\ snaps[LastKey(snaps)] \in States
      BY <3>2 DEF TypeOK, IsStore
    <3> QED
      BY <1>2, <2>2, <3>3 DEF TypeOK, LoadSnapshot, disk, children, history
  <2> QED
    BY <1>2, <2>1, <2>2 DEF LoadSnapshot, LastSnapshot
<1>3. CASE Replay \/ ReplayFails
  <2>1. IsStore(Replayed, Positions, Events)
    BY RangeType DEF TypeOK, Replayed, RangeToLatest
  <2>2. state' \in States
    <3>1. CASE state' = ApplyAll(state, Replayed)
      BY <2>1, <3>1, ApplyAllType DEF TypeOK
    <3>2. ASSUME NEW p \in DOMAIN Replayed,
                 state' = ApplyAll(state, StoreRange(Replayed, 0, p - 1))
          PROVE  state' \in States
      <4>1. IsStore(StoreRange(Replayed, 0, p - 1), Positions, Events)
        BY <2>1, RangeType
      <4> QED
        BY <3>2, <4>1, ApplyAllType DEF TypeOK
    <3> QED
      BY <1>3, <3>1, <3>2 DEF Replay, ReplayFails
  <2> QED
    BY <1>3, <2>2, <1>0, <1>c DEF TypeOK, Replay, ReplayFails, disk, children, history
<1>4. CASE GiveUp \/ Terminate
  BY <1>4, <1>f, <1>0, <1>c
  DEF TypeOK, GiveUp, Terminate, ActorEnds, disk, children, history
<1>5. ASSUME NEW e \in Events, Persist(e) PROVE TypeOK'
  <2>1. next_sequence \in Positions /\ next_sequence + 1 \in 0..MaxEvents
    BY <1>5, <1>c DEF Persist, TypeOK, Positions
  <2>2. IsStore(StorePut(journal, next_sequence, e), Positions, Events)
    BY <1>5, <2>1 DEF TypeOK, IsStore, StorePut
  <2> QED
    BY <1>5, <2>1, <2>2 DEF TypeOK, Persist, history
<1>6. CASE Apply
  <2>1. pending \in DOMAIN journal
    BY <1>6, <1>c DEF Apply, StateInv, LogInv, TypeOK
  <2>2. journal[pending] \in Events
    BY <2>1 DEF TypeOK, IsStore
  <2>3. IsStore(acked', Positions, Events)
    BY <1>6, <2>2 DEF Apply, TypeOK, IsStore, StorePut
  <2>4. IsStore(StoreRange(journal, pending, pending), Positions, Events)
    BY RangeType DEF TypeOK
  <2>5. state' \in States
    BY <1>6, <2>4, ApplyAllType DEF Apply, TypeOK
  <2> QED
    BY <1>6, <2>3, <2>5 DEF TypeOK, Apply, disk, children
<1>7. CASE ApplyFails
  BY <1>7, <1>c DEF TypeOK, ApplyFails, disk, children
<1>8. ASSUME NEW e \in Events, NEW q \in Positions, InsertEvent(q, e) PROVE TypeOK'
  <2>1. IsStore(StorePut(journal, q, e), Positions, Events)
    BY <1>8 DEF TypeOK, IsStore, StorePut
  <2> QED
    BY <1>8, <2>1 DEF TypeOK, InsertEvent, actor, children
<1>9. CASE Snapshot \/ Stop
  <2>1. CurrentSnapshot \in Snapshots
    BY <1>c DEF CurrentSnapshot, Snapshots, LatestSequence, TypeOK, Positions
  <2>2. gen \in Gens
    BY <1>9 DEF Snapshot, Stop, LogInv
  <2>3. box' \in [Gens -> Seq(Snapshots)]
    <3>1. box' = [box EXCEPT ![gen] = Append(box[gen], CurrentSnapshot)]
      BY <1>9 DEF Snapshot, Stop, Flush, TellSnapshot
    <3>2. box \in [Gens -> Seq(Snapshots)]
      BY DEF TypeOK
    <3>3. Append(box[gen], CurrentSnapshot) \in Seq(Snapshots)
      BY <2>1, <2>2, <3>2
    <3> QED
      BY <2>2, <3>1, <3>2, <3>3
  <2> QED
    BY <1>9, <2>2, <2>3 DEF TypeOK, Snapshot, Stop, disk, actor, history
<1>10. CASE JournalStop \/ Restart
  BY <1>10 DEF TypeOK, LogInv, JournalStop, Restart, Children, disk, children, history
<1>11. ASSUME NEW g \in Gens, Save(g) PROVE TypeOK'
  <2>1. Head(box[g]) \in Snapshots /\ Tail(box[g]) \in Seq(Snapshots)
    <3>1. box[g] \in Seq(Snapshots) /\ box[g] # <<>>
      BY <1>11 DEF Save, TypeOK
    <3> QED
      BY <3>1
  <2>2. box' \in [Gens -> Seq(Snapshots)]
    BY <1>11, <2>1 DEF Save, TypeOK
  <2>3. Head(box[g]).key \in Positions /\ Head(box[g]).data \in States
    BY <2>1 DEF Snapshots
  <2>4. IsStore(snaps', Positions, States)
    <3> DEFINE key == Head(box[g]).key
               data == Head(box[g]).data
    <3>1. key \in Positions /\ data \in States
      BY <2>3
    <3>2. snaps' = StorePut(snaps, key, data) \/ snaps' = snaps
      BY <1>11 DEF Save
    <3> HIDE DEF key, data
    <3> QED
      BY <3>1, <3>2 DEF TypeOK, IsStore, StorePut
  <2>5. faults' \in 0..MaxFaults
    BY <1>11, <1>c DEF Save, TypeOK
  <2> QED
    BY <1>11, <2>2, <2>4, <2>5 DEF TypeOK, Save, actor, history
<1>12. ASSUME NEW g \in Gens, SnapshotterStop(g) PROVE TypeOK'
  BY <1>12 DEF TypeOK, SnapshotterStop, Children, disk, history
<1>13. CASE Crash
  BY <1>13, <1>f, <1>0, <1>c DEF TypeOK, Crash, ActorEnds, disk, history
<1>14. CASE UNCHANGED vars
  BY <1>14 DEF TypeOK, vars, disk, actor, children, history
<1> QED
  BY <1>1, <1>2, <1>3, <1>4, <1>5, <1>6, <1>7, <1>8, <1>9, <1>10, <1>11, <1>12,
     <1>13, <1>14 DEF Next

\* Every step keeps the journal free of holes.
LEMMA LogStep ==
    ASSUME InsertAhead = 0, TypeOK, LogInv, [Next]_vars
    PROVE  LogInv'
<1>c. MaxEvents \in Nat /\ MaxStarts \in Nat /\ next_sequence \in Nat
  BY PersistentAssumption DEF TypeOK
<1>1. DOMAIN journal' = 0..(next_sequence' - 1)
  <2>1. CASE UNCHANGED <<journal, next_sequence, refused, corrected>>
    BY <2>1 DEF LogInv
  <2>2. ASSUME NEW e \in Events, Persist(e) PROVE DOMAIN journal' = 0..(next_sequence' - 1)
    BY <2>2, <1>c DEF Persist, LogInv, StorePut
  <2>3. CASE ApplyFails
    BY <2>3 DEF ApplyFails, LogInv, disk, children
  <2>4. ASSUME NEW e \in Events, NEW q \in Positions, InsertEvent(q, e)
        PROVE  DOMAIN journal' = 0..(next_sequence' - 1)
    BY <2>4, <1>c DEF InsertEvent, LogInv, StorePut, Positions, children
  <2> QED
    BY <2>1, <2>2, <2>3, <2>4, JournalSteps
<1>2. phase' \in {"loading", "replaying", "idle", "applying", "stopping"} => gen' \in Gens
  <2>1. CASE Start \/ Retry
    BY <2>1, <1>c DEF Start, Retry, CreateStores, TypeOK, LogInv, Gens, children
  <2>2. CASE UNCHANGED gen /\ (phase' = phase \/ phase' \in {"down", "retrying"})
    BY <2>2 DEF LogInv
  <2>3. CASE UNCHANGED gen /\ phase \in {"loading", "replaying", "idle", "applying"}
    BY <2>3 DEF LogInv
  <2>4. CASE LoadSnapshot \/ Replay \/ ReplayFails \/ Apply \/ ApplyFails \/ Snapshot
             \/ Stop \/ (\E e \in Events : Persist(e))
             \/ (\E e \in Events, q \in Positions : InsertEvent(q, e))
    BY <2>3, <2>4 DEF LoadSnapshot, Replay, ReplayFails, Apply, ApplyFails, Snapshot, Stop,
                      Persist, InsertEvent, children
  <2>5. CASE GiveUp \/ JournalStop \/ Terminate \/ Restart \/ Crash \/ UNCHANGED vars
             \/ (\E g \in Gens : Save(g) \/ SnapshotterStop(g))
    BY <2>2, <2>5 DEF GiveUp, JournalStop, Terminate, Restart, Crash, Save, SnapshotterStop,
                      vars, children, actor, ActorEnds
  <2> QED
    BY <2>1, <2>4, <2>5 DEF Next
<1>3. phase' \in {"loading", "replaying", "idle", "applying", "retrying"} => registered' # {}
  <2>1. CASE Start \/ Retry
    BY <2>1 DEF Start, Retry, CreateStores, Children, children
  <2>2. CASE phase' \in {"down", "stopping"}
    BY <2>2
  <2>3. CASE /\ UNCHANGED registered
             /\ phase' = phase \/ phase \in {"loading", "replaying", "idle", "applying"}
    BY <2>3 DEF LogInv
  <2>4. CASE LoadSnapshot \/ Replay \/ ReplayFails \/ Apply \/ ApplyFails \/ Snapshot
             \/ JournalStop \/ Restart \/ UNCHANGED vars \/ (\E e \in Events : Persist(e))
             \/ (\E e \in Events, q \in Positions : InsertEvent(q, e))
             \/ (\E g \in Gens : Save(g) \/ SnapshotterStop(g))
    BY <2>3, <2>4 DEF LoadSnapshot, Replay, ReplayFails, Apply, ApplyFails, Snapshot,
                      JournalStop, Restart, vars, Persist, InsertEvent, Save,
                      SnapshotterStop, children, actor
  <2>5. CASE GiveUp \/ Stop \/ Terminate \/ Crash
    BY <2>2, <2>5 DEF GiveUp, Stop, Terminate, Crash, ActorEnds
  <2> QED
    BY <2>1, <2>4, <2>5 DEF Next
<1> QED
  BY <1>1, <1>2, <1>3 DEF LogInv

\* The copies on disk: a saved one comes from a mailbox.
LEMMA SnapsStep ==
    ASSUME InsertAhead = 0, TypeOK, LogInv, SnapsInv, BoxInv, [Next]_vars
    PROVE  SnapsInv'
<1>1. ASSUME NEW k \in DOMAIN snaps
      PROVE  SnapOK(journal', Exempt', next_sequence', k, snaps[k])
  <2>1. k \in Positions /\ snaps[k] \in States
    BY <1>1 DEF TypeOK, IsStore
  <2>2. Good(k, snaps[k])
    BY <1>1 DEF SnapsInv
  <2> DEFINE st == snaps[k]
  <2>3. st \in States /\ Good(k, st)
    BY <2>1, <2>2
  <2> HIDE DEF st
  <2>4. SnapOK(journal', Exempt', next_sequence', k, st)
    BY <2>1, <2>3, GoodKept
  <2> QED
    BY <2>4 DEF st
<1>2. CASE UNCHANGED snaps
  BY <1>1, <1>2 DEF SnapsInv, Good
<1>3. ASSUME NEW g \in Gens, Save(g), ~UNCHANGED snaps PROVE SnapsInv'
  <2> DEFINE key == Head(box[g]).key
             data == Head(box[g]).data
  <2>1. box[g] \in Seq(Snapshots) /\ box[g] # <<>>
    BY <1>3 DEF Save, TypeOK
  <2>2. Len(box[g]) \in Nat /\ Len(box[g]) # 0 /\ Head(box[g]) = box[g][1]
        /\ Head(box[g]) \in Snapshots
    BY <2>1
  <2>3. Good(box[g][1].key, box[g][1].data)
    BY <1>3, <2>2 DEF BoxInv
  <2>4. key \in Positions /\ data \in States /\ Good(key, data)
    BY <2>2, <2>3 DEF Snapshots
  <2>5. snaps' = StorePut(snaps, key, data)
    BY <1>3 DEF Save
  <2> HIDE DEF key, data
  <2>6. SnapOK(journal', Exempt', next_sequence', key, data)
    BY <2>4, GoodKept
  <2>7. /\ DOMAIN snaps' = DOMAIN snaps \cup {key}
        /\ snaps'[key] = data
        /\ \A k \in DOMAIN snaps : k # key => snaps'[k] = snaps[k]
    BY <2>5 DEF StorePut
  <2>8. ASSUME NEW k \in DOMAIN snaps'
        PROVE  SnapOK(journal', Exempt', next_sequence', k, snaps'[k])
    <3>1. CASE k = key
      BY <2>6, <2>7, <3>1
    <3>2. CASE k # key
      <4>1. k \in DOMAIN snaps
        BY <2>7, <2>8, <3>2
      <4> QED
        BY <1>1, <2>7, <3>2, <4>1
    <3> QED
      BY <3>1, <3>2
  <2> QED
    BY <2>8 DEF SnapsInv, Good
<1>4. CASE Start \/ LoadSnapshot \/ Replay \/ ReplayFails \/ Retry \/ GiveUp \/ Apply
           \/ ApplyFails \/ Snapshot \/ Stop \/ JournalStop \/ Terminate \/ Restart \/ Crash
  BY <1>2, <1>4 DEF Start, LoadSnapshot, Replay, ReplayFails, Retry, GiveUp, Apply,
                    ApplyFails, Snapshot, Stop, JournalStop, Terminate, Restart, Crash, disk
<1>5. CASE (\E e \in Events : Persist(e)) \/ UNCHANGED vars
           \/ (\E e \in Events, q \in Positions : InsertEvent(q, e))
           \/ (\E g \in Gens : SnapshotterStop(g))
  BY <1>2, <1>5 DEF Persist, InsertEvent, SnapshotterStop, vars, disk
<1> QED
  BY <1>2, <1>3, <1>4, <1>5 DEF Next

\* The copies in the mailboxes: a new one is the state of the idle actor.
LEMMA BoxStep ==
    ASSUME InsertAhead = 0, TypeOK, LogInv, StateInv, BoxInv, [Next]_vars
    PROVE  BoxInv'
<1>c. MaxEvents \in Nat \ {0} /\ next_sequence \in 0..MaxEvents
  BY PersistentAssumption DEF TypeOK
<1>b. box \in [Gens -> Seq(Snapshots)]
  BY DEF TypeOK
<1>1. ASSUME NEW g \in Gens, NEW i \in 1..Len(box[g])
      PROVE  SnapOK(journal', Exempt', next_sequence', box[g][i].key, box[g][i].data)
  <2> DEFINE key == box[g][i].key
             data == box[g][i].data
  <2>1. box[g] \in Seq(Snapshots)
    BY <1>b
  <2>2. box[g][i] \in Snapshots
    BY <2>1
  <2>3. key \in Positions /\ data \in States /\ Good(key, data)
    BY <2>2 DEF BoxInv, Snapshots
  <2> HIDE DEF key, data
  <2>4. SnapOK(journal', Exempt', next_sequence', key, data)
    BY <2>3, GoodKept
  <2> QED
    BY <2>4 DEF key, data
<1>2. CASE UNCHANGED box
  BY <1>1, <1>2 DEF BoxInv, Good
<1>3. CASE Snapshot \/ Stop
  <2> DEFINE new == CurrentSnapshot
  <2>1. /\ gen \in Gens
        /\ box' = [box EXCEPT ![gen] = Append(box[gen], new)]
    BY <1>3 DEF Snapshot, Stop, Flush, TellSnapshot, LogInv
  <2>2. SnapOK(journal', Exempt', next_sequence', new.key, new.data)
    <3>1. LatestSequence(next_sequence) \in Positions /\ state \in States
      BY <1>c DEF LatestSequence, Positions, TypeOK
    <3>2. Good(LatestSequence(next_sequence), state)
      BY <1>3 DEF Snapshot, Stop, StateInv
    <3> DEFINE key == LatestSequence(next_sequence)
    <3>3. key \in Positions /\ Good(key, state)
      BY <3>1, <3>2
    <3> HIDE DEF key
    <3>4. SnapOK(journal', Exempt', next_sequence', key, state)
      BY <3>1, <3>3, GoodKept
    <3> QED
      BY <3>4 DEF CurrentSnapshot, key
  <2> HIDE DEF new
  <2>3. ASSUME NEW g \in Gens, NEW i \in 1..Len(box'[g])
        PROVE  SnapOK(journal', Exempt', next_sequence', box'[g][i].key, box'[g][i].data)
    <3>1. box[g] \in Seq(Snapshots) /\ Len(box[g]) \in Nat
      BY <1>b
    <3>2. CASE g # gen
      <4>1. box'[g] = box[g]
        BY <1>b, <2>1, <3>2
      <4> QED
        BY <1>1, <2>3, <4>1
    <3>3. CASE g = gen
      <4>1. box'[g] = Append(box[g], new)
        BY <1>b, <2>1, <3>3
      <4>2. CASE i \in 1..Len(box[g])
        <5>1. box'[g][i] = box[g][i]
          BY <3>1, <4>1, <4>2
        <5> QED
          BY <1>1, <4>2, <5>1
      <4>3. CASE i = Len(box[g]) + 1
        <5>1. box'[g][i] = new
          BY <3>1, <4>1, <4>3
        <5> QED
          BY <2>2, <5>1
      <4> QED
        BY <2>3, <3>1, <4>1, <4>2, <4>3
    <3> QED
      BY <3>2, <3>3
  <2> QED
    BY <2>3 DEF BoxInv, Good
<1>4. ASSUME NEW h \in Gens, Save(h) PROVE BoxInv'
  <2>1. /\ box' = [box EXCEPT ![h] = Tail(box[h])]
        /\ box[h] # <<>>
    BY <1>4 DEF Save
  <2>2. ASSUME NEW g \in Gens, NEW i \in 1..Len(box'[g])
        PROVE  SnapOK(journal', Exempt', next_sequence', box'[g][i].key, box'[g][i].data)
    <3>1. box[g] \in Seq(Snapshots) /\ Len(box[g]) \in Nat
      BY <1>b
    <3>2. CASE g # h
      <4>1. box'[g] = box[g]
        BY <1>b, <2>1, <3>2
      <4> QED
        BY <1>1, <2>2, <4>1
    <3>3. CASE g = h
      <4>1. box'[g] = Tail(box[g]) /\ box[g] # <<>>
        BY <1>b, <2>1, <3>3
      <4>2. i \in Nat /\ i + 1 \in 1..Len(box[g]) /\ box'[g][i] = box[g][i + 1]
        BY <2>2, <3>1, <4>1
      <4> QED
        BY <1>1, <4>2
    <3> QED
      BY <3>2, <3>3
  <2> QED
    BY <2>2 DEF BoxInv, Good
<1>5. ASSUME NEW h \in Gens, SnapshotterStop(h) PROVE BoxInv'
  <2>1. box' = [box EXCEPT ![h] = <<>>]
    BY <1>5 DEF SnapshotterStop
  <2>2. ASSUME NEW g \in Gens, NEW i \in 1..Len(box'[g])
        PROVE  SnapOK(journal', Exempt', next_sequence', box'[g][i].key, box'[g][i].data)
    <3>1. CASE g # h
      <4>1. box'[g] = box[g]
        BY <1>b, <2>1, <3>1
      <4> QED
        BY <1>1, <2>2, <4>1
    <3>2. CASE g = h
      BY <1>b, <2>1, <2>2, <3>2
    <3> QED
      BY <3>1, <3>2
  <2> QED
    BY <2>2 DEF BoxInv, Good
<1>6. CASE Crash
  BY <1>6 DEF Crash, BoxInv
<1>7. CASE Start \/ LoadSnapshot \/ Replay \/ ReplayFails \/ Retry \/ GiveUp \/ Apply
           \/ ApplyFails \/ JournalStop \/ Terminate \/ Restart
  BY <1>2, <1>7 DEF Start, CreateStores, LoadSnapshot, Replay, ReplayFails, Retry, GiveUp,
                    Apply, ApplyFails, JournalStop, Terminate, Restart, children
<1>8. CASE (\E e \in Events : Persist(e)) \/ UNCHANGED vars
           \/ (\E e \in Events, q \in Positions : InsertEvent(q, e))
  BY <1>2, <1>8 DEF Persist, InsertEvent, vars, children
<1> QED
  BY <1>3, <1>4, <1>5, <1>6, <1>7, <1>8 DEF Next

\* Acknowledged events stay where they are.
LEMMA AckedStep ==
    ASSUME InsertAhead = 0, TypeOK, LogInv, StateInv, AckedInv, [Next]_vars
    PROVE  AckedInv'
<1>c. next_sequence \in Nat
  BY PersistentAssumption DEF TypeOK
<1>1. CASE UNCHANGED <<journal, acked, corrected>>
  BY <1>1 DEF AckedInv
<1>2. ASSUME NEW e \in Events, Persist(e) PROVE AckedInv'
  BY <1>2, <1>c DEF Persist, AckedInv, LogInv, StorePut, history
<1>3. CASE Apply
  <2>1. pending \in DOMAIN journal
    BY <1>3, <1>c DEF Apply, StateInv, LogInv
  <2> QED
    BY <1>3, <2>1 DEF Apply, AckedInv, StorePut, disk
<1>4. ASSUME NEW e \in Events, NEW q \in Positions, InsertEvent(q, e) PROVE AckedInv'
  BY <1>4 DEF InsertEvent, AckedInv, StorePut
<1>5. CASE Start \/ LoadSnapshot \/ Replay \/ ReplayFails \/ Retry \/ GiveUp \/ ApplyFails
           \/ Snapshot \/ Stop \/ JournalStop \/ Terminate \/ Restart \/ Crash
  BY <1>1, <1>5 DEF Start, LoadSnapshot, Replay, ReplayFails, Retry, GiveUp, ApplyFails,
                    Snapshot, Stop, JournalStop, Terminate, Restart, Crash, disk, history
<1>6. CASE UNCHANGED vars \/ (\E g \in Gens : Save(g) \/ SnapshotterStop(g))
  BY <1>1, <1>6 DEF Save, SnapshotterStop, vars, disk, history
<1> QED
  BY <1>2, <1>3, <1>4, <1>5, <1>6 DEF Next

\* The state in memory.
LEMMA StateStep ==
    ASSUME InsertAhead = 0, TypeOK, LogInv, StateInv, SnapsInv, [Next]_vars
    PROVE  StateInv'
<1>c. MaxEvents \in Nat \ {0} /\ next_sequence \in Nat /\ next_sequence \in 0..MaxEvents
  BY PersistentAssumption DEF TypeOK
<1>j. DOMAIN journal = 0..(next_sequence - 1) /\ IsStore(journal, Positions, Events)
  BY DEF LogInv, TypeOK
<1>s. state \in [Positions -> Seq(Events)]
  BY DEF TypeOK, States
<1>1. CASE UNCHANGED <<phase, state, from, pending, journal, next_sequence, refused, corrected>>
  BY <1>1 DEF StateInv, Good, Exempt
<1>2. CASE phase' \in {"retrying", "stopping"}
  BY <1>2 DEF StateInv
<1>3. CASE ActorEnds
  BY <1>3 DEF ActorEnds, StateInv
<1>4. CASE Start
  BY <1>4 DEF Start, CreateStores, StateInv
<1>5. CASE Retry
  BY <1>2, <1>5 DEF Retry, CreateStores, LogInv
<1>6. CASE LoadSnapshot
  <2>1. phase' = "replaying" /\ UNCHANGED <<journal, next_sequence, refused, corrected>>
    BY <1>6 DEF LoadSnapshot, disk, children, history
  <2>2. CASE DOMAIN snaps = {} /\ from' = 0 /\ UNCHANGED state
    <3>1. state = Fresh
      BY <1>6 DEF LoadSnapshot, StateInv
    <3>2. \A p \in Positions : state[p] = <<>> /\ (p <= 0 => p \in Exempt)
      BY <3>1, <1>c DEF Fresh, Exempt, Positions
    <3>3. 0 <= LatestSequence(next_sequence)
      BY <1>c DEF LatestSequence
    <3>4. Good(0, state)
      BY <3>2, <3>3 DEF Good, SnapOK, Refl
    <3> QED
      BY <2>1, <2>2, <3>4 DEF StateInv, Good, Exempt
  <2>3. CASE DOMAIN snaps # {} /\ from' = LastKey(snaps) /\ state' = snaps[LastKey(snaps)]
    <3>1. MaxEvents - 1 \in Nat /\ DOMAIN snaps \subseteq 0..(MaxEvents - 1)
      BY <1>c DEF TypeOK, IsStore, Positions
    <3>2. LastKey(snaps) \in DOMAIN snaps
      BY <2>3, <3>1, BoundedMax DEF LastKey
    <3>3. Good(LastKey(snaps), snaps[LastKey(snaps)])
      BY <3>2 DEF SnapsInv
    <3> QED
      BY <2>1, <2>3, <3>3 DEF StateInv, Good, Exempt
  <2> QED
    BY <1>6, <2>2, <2>3 DEF LoadSnapshot, LastSnapshot
<1>7. CASE Replay
  <2>1. /\ phase' = "idle"
        /\ state' = ApplyAll(state, Replayed)
        /\ UNCHANGED <<journal, next_sequence, refused, corrected>>
    BY <1>7 DEF Replay, disk, children, history
  <2>2. Good(from, state) /\ from \in Nat
    BY <1>7, <1>c DEF Replay, StateInv, TypeOK, Positions
  <2> DEFINE last == LatestSequence(next_sequence)
  <2>3. last \in Nat /\ from <= last /\ (next_sequence > 0 => last = next_sequence - 1)
        /\ (next_sequence = 0 => last = 0)
    BY <2>2, <1>c DEF LatestSequence, Good, SnapOK
  <2>4. DOMAIN Replayed = {p \in DOMAIN journal : from + 1 <= p /\ p <= last}
        /\ \A p \in DOMAIN Replayed : Replayed[p] = journal[p]
    BY DEF Replayed, RangeToLatest, StoreRange
  <2>5. IsStore(Replayed, Positions, Events)
    BY <1>j, RangeType DEF Replayed, RangeToLatest
  <2> HIDE DEF last
  <2>6. ASSUME NEW p \in Positions
        PROVE  /\ Len(state'[p]) <= 1
               /\ p > last \/ p \notin DOMAIN journal => state'[p] = <<>>
               /\ p <= last /\ p \in DOMAIN journal \ Exempt => state'[p] = <<journal[p]>>
    <3>1. /\ Len(state[p]) <= 1
          /\ p > from \/ p \notin DOMAIN journal => state[p] = <<>>
          /\ p <= from /\ p \in DOMAIN journal \ Exempt => state[p] = <<journal[p]>>
      BY <2>2 DEF Good, SnapOK, Refl
    <3>2. p \in Nat
      BY <1>c DEF Positions
    <3>3. CASE p \in DOMAIN Replayed
      <4>1. state'[p] = Append(state[p], journal[p])
        BY <2>1, <2>4, <2>5, <3>3, ApplyAllType DEF TypeOK
      <4>2. state[p] = <<>> /\ p \in DOMAIN journal /\ p <= last
        BY <2>2, <2>4, <3>1, <3>2, <3>3
      <4>3. state'[p] = <<journal[p]>>
        BY <4>1, <4>2
      <4> QED
        BY <2>3, <3>2, <4>2, <4>3
    <3>4. CASE p \notin DOMAIN Replayed
      <4>1. state'[p] = state[p]
        BY <2>1, <2>5, <3>4, ApplyAllType DEF TypeOK
      <4>2. p <= from \/ p > last \/ p \notin DOMAIN journal
        BY <2>2, <2>3, <2>4, <3>2, <3>4
      <4> QED
        BY <2>2, <2>3, <3>1, <3>2, <4>1, <4>2
    <3> QED
      BY <3>3, <3>4
  <2> QED
    <3>1. Refl(journal, Exempt, state', last)
      BY <2>6 DEF Refl
    <3> QED
      BY <2>1, <2>3, <3>1 DEF StateInv, Good, SnapOK, last, Exempt
<1>8. CASE ReplayFails \/ Restart \/ Stop
  BY <1>2, <1>8 DEF ReplayFails, Restart, Stop
<1>9. CASE GiveUp \/ Terminate \/ Crash
  BY <1>3, <1>9 DEF GiveUp, Terminate, Crash
<1>10. ASSUME NEW e \in Events, Persist(e) PROVE StateInv'
  <2>1. /\ phase' = "applying" /\ next_sequence' = next_sequence + 1
        /\ pending' = next_sequence /\ next_sequence < MaxEvents
        /\ journal' = StorePut(journal, next_sequence, e)
        /\ UNCHANGED <<state, refused, corrected>>
    BY <1>10 DEF Persist, history
  <2> DEFINE last == LatestSequence(next_sequence)
  <2>2. Refl(journal, Exempt, state, last)
    BY <1>10 DEF Persist, StateInv, Good, SnapOK
  <2>3. next_sequence \in Positions /\ next_sequence \notin DOMAIN journal
    BY <2>1, <1>c, <1>j DEF Positions
  <2>4. state[next_sequence] = <<>>
    BY <2>2, <2>3 DEF Refl
  <2>5. last \in Nat /\ last <= next_sequence /\ (next_sequence > 0 => last = next_sequence - 1)
    BY <1>c DEF LatestSequence
  <2>6. DOMAIN journal' = 0..next_sequence /\ \A p \in DOMAIN journal : journal'[p] = journal[p]
    BY <2>1, <2>3, <1>c, <1>j DEF StorePut
  <2> HIDE DEF last
  <2>7. ASSUME NEW p \in Positions
        PROVE  /\ Len(state[p]) <= 1
               /\ p > next_sequence \/ p \notin DOMAIN journal' => state[p] = <<>>
               /\ p <= next_sequence /\ p \in DOMAIN journal' \ (Exempt \cup {next_sequence})
                    => state[p] = <<journal'[p]>>
    <3>1. /\ Len(state[p]) <= 1
          /\ p > last \/ p \notin DOMAIN journal => state[p] = <<>>
          /\ p <= last /\ p \in DOMAIN journal \ Exempt => state[p] = <<journal[p]>>
      BY <2>2 DEF Refl
    <3>2. p \in Nat
      BY <1>c DEF Positions
    <3>3. p > next_sequence \/ p \notin DOMAIN journal' => p \notin DOMAIN journal
      BY <2>6, <3>2, <1>c, <1>j
    <3>4. p <= next_sequence /\ p \in DOMAIN journal' \ (Exempt \cup {next_sequence})
            => p \in DOMAIN journal \ Exempt /\ p <= last
      BY <2>5, <2>6, <3>2, <1>c, <1>j
    <3> QED
      BY <2>6, <3>1, <3>3, <3>4
  <2>8. Refl(journal', Exempt \cup {next_sequence}, state, next_sequence)
    BY <2>7 DEF Refl
  <2> QED
    BY <2>1, <2>4, <2>8, <1>c DEF StateInv, Exempt
<1>11. CASE Apply \/ ApplyFails
  <2>1. /\ phase' = "idle" /\ UNCHANGED <<journal, next_sequence, corrected>>
        /\ phase = "applying"
    BY <1>11 DEF Apply, ApplyFails, disk, children
  <2>2. /\ next_sequence > 0 /\ pending = next_sequence - 1 /\ state[pending] = <<>>
        /\ Refl(journal, Exempt \cup {pending}, state, pending)
        /\ pending \in Nat /\ pending \in DOMAIN journal
        /\ pending = LatestSequence(next_sequence)
        /\ pending \in Positions
    BY <2>1, <1>c, <1>j DEF StateInv, LatestSequence, TypeOK
  <2>3. CASE Apply
    <3> DEFINE m == StoreRange(journal, pending, pending)
    <3>1. DOMAIN m = {pending} /\ m[pending] = journal[pending]
      BY <2>2, <1>j, <1>c DEF StoreRange
    <3>2. IsStore(m, Positions, Events)
      BY <1>j, RangeType
    <3>3. state' = ApplyAll(state, m) /\ Exempt' = Exempt
      BY <2>3 DEF Apply, Exempt
    <3> HIDE DEF m
    <3>4. /\ state'[pending] = Append(state[pending], journal[pending])
          /\ \A p \in Positions : p # pending => state'[p] = state[p]
      <4>1. state \in States
        BY DEF TypeOK
      <4>2. /\ \A p \in Positions : p \in DOMAIN m => ApplyAll(state, m)[p] = Append(state[p], m[p])
            /\ \A p \in Positions : p \notin DOMAIN m => ApplyAll(state, m)[p] = state[p]
        BY <4>1, <3>2, ApplyAllType
      <4> QED
        BY <2>2, <3>1, <3>3, <4>2
    <3>5. state'[pending] = <<journal[pending]>>
      BY <2>2, <3>4
    <3>6. ASSUME NEW p \in Positions
          PROVE  /\ Len(state'[p]) <= 1
                 /\ p > pending \/ p \notin DOMAIN journal => state'[p] = <<>>
                 /\ p <= pending /\ p \in DOMAIN journal \ Exempt => state'[p] = <<journal[p]>>
      <4>1. CASE p = pending
        <5>1. p \in Nat /\ p \in DOMAIN journal
          BY <2>2, <4>1
        <5>2. state'[p] = <<journal[p]>>
          BY <3>5, <4>1
        <5>3. Len(<<journal[p]>>) <= 1 /\ ~(p > p)
          BY <5>1
        <5> QED
          BY <4>1, <5>1, <5>2, <5>3, Zenon
      <4>2. CASE p # pending
        BY <2>2, <3>4, <4>2 DEF Refl
      <4> QED
        BY <4>1, <4>2
    <3>7. Refl(journal, Exempt, state', pending)
      BY <3>6 DEF Refl
    <3> QED
      <4>0. LatestSequence(next_sequence') = pending /\ pending <= pending
        BY <2>1, <2>2
      <4>1. SnapOK(journal', Exempt', next_sequence', LatestSequence(next_sequence'), state')
        BY <2>1, <2>2, <3>3, <3>7, <4>0, Zenon DEF SnapOK
      <4> QED
        BY <2>1, <4>1 DEF StateInv, Good
  <2>4. CASE ApplyFails
    <3>1. Exempt' = Exempt \cup {pending} /\ UNCHANGED state
      BY <2>1, <2>4 DEF ApplyFails, Exempt
    <3> QED
      <4>0. LatestSequence(next_sequence') = pending /\ pending <= pending
        BY <2>1, <2>2
      <4>1. SnapOK(journal', Exempt', next_sequence', LatestSequence(next_sequence'), state')
        BY <2>1, <2>2, <3>1, <4>0, Zenon DEF SnapOK
      <4> QED
        BY <2>1, <4>1 DEF StateInv, Good
  <2> QED
    BY <1>11, <2>3, <2>4
<1>12. ASSUME NEW e \in Events, NEW q \in Positions, InsertEvent(q, e) PROVE StateInv'
  <2> DEFINE key == LatestSequence(next_sequence)
  <2>1. /\ phase = "idle" /\ UNCHANGED <<phase, state, next_sequence>>
    BY <1>12 DEF InsertEvent, actor, children
  <2>2. key \in Positions /\ state \in States /\ Good(key, state)
    BY <2>1, <1>c DEF StateInv, LatestSequence, Positions, TypeOK
  <2> HIDE DEF key
  <2>3. SnapOK(journal', Exempt', next_sequence', key, state)
    BY <2>2, GoodKept
  <2> QED
    BY <2>1, <2>3 DEF StateInv, Good, key
<1>13. CASE Snapshot \/ JournalStop \/ UNCHANGED vars
            \/ (\E g \in Gens : Save(g) \/ SnapshotterStop(g))
  BY <1>1, <1>13 DEF Snapshot, JournalStop, Save, SnapshotterStop, vars, actor, disk, history,
                     children
<1> QED
  BY <1>4, <1>5, <1>6, <1>7, <1>8, <1>9, <1>10, <1>11, <1>12, <1>13 DEF Next

\* The first life.
LEMMA FirstStep ==
    ASSUME InsertAhead = 0, TypeOK, LogInv, StateInv, FirstInv, [Next]_vars
    PROVE  FirstInv'
<1>c. MaxEvents \in Nat \ {0} /\ next_sequence \in Nat /\ gen \in Nat /\ MaxStarts \in Nat
  BY PersistentAssumption DEF TypeOK
<1>j. DOMAIN journal = 0..(next_sequence - 1)
  BY DEF LogInv
<1>1. CASE UNCHANGED <<phase, state, pending, journal, next_sequence, gen, refused, corrected>>
  BY <1>1 DEF FirstInv
<1>2. CASE /\ UNCHANGED <<journal, next_sequence, gen>>
           /\ phase' \in {"down", "retrying", "stopping"}
  BY <1>2, <1>c DEF FirstInv
<1>3. CASE Start \/ Retry
  <2>1. UNCHANGED <<journal, next_sequence>> /\ phase' \in {"retrying", "loading"}
        /\ (gen' = gen \/ gen' = gen + 1)
        /\ (phase' = "retrying" => gen' = gen)
        /\ (phase' = "loading" => gen' = gen + 1)
    BY <1>3, Reopened DEF Start, Retry, CreateStores, disk, children
  <2> QED
    BY <2>1, <1>c DEF FirstInv
<1>4. CASE LoadSnapshot
  BY <1>4 DEF LoadSnapshot, FirstInv, disk, children
<1>5. CASE Replay
  <2>1. /\ phase' = "idle" /\ phase = "replaying"
        /\ UNCHANGED <<journal, next_sequence, gen, refused, corrected>>
    BY <1>5 DEF Replay, disk, children, history
  <2>2. gen = 1 => \A p \in DOMAIN journal : FALSE
    BY <2>1, <1>j DEF FirstInv
  <2> QED
    BY <2>1, <2>2, <1>c DEF FirstInv
<1>6. CASE ReplayFails \/ Restart \/ Stop \/ GiveUp \/ Terminate \/ Crash
  BY <1>2, <1>6 DEF ReplayFails, Restart, Stop, GiveUp, Terminate, Crash, ActorEnds, disk,
                    children
<1>7. ASSUME NEW e \in Events, Persist(e) PROVE FirstInv'
  <2>1. /\ phase = "idle" /\ phase' = "applying" /\ next_sequence' = next_sequence + 1
        /\ pending' = next_sequence /\ gen' = gen
        /\ journal' = StorePut(journal, next_sequence, e)
        /\ UNCHANGED <<state, refused, corrected>>
    BY <1>7 DEF Persist, history
  <2>2. gen # 0
    BY <2>1 DEF LogInv, Gens
  <2>3. \A p \in DOMAIN journal' : p # next_sequence => p \in DOMAIN journal /\ journal'[p] = journal[p]
    BY <2>1 DEF StorePut
  <2> QED
    BY <2>1, <2>2, <2>3 DEF FirstInv
<1>8. CASE Apply
  <2>1. /\ phase' = "idle" /\ phase = "applying"
        /\ UNCHANGED <<journal, next_sequence, gen, refused, corrected>>
    BY <1>8 DEF Apply, disk, children
  <2>2. pending \in DOMAIN journal /\ state[pending] = <<>> /\ pending \in Positions /\ pending \in Int
    BY <2>1, <1>c, <1>j DEF StateInv, TypeOK
  <2> DEFINE m == StoreRange(journal, pending, pending)
  <2>3. DOMAIN m = {pending} /\ m[pending] = journal[pending]
    BY <2>2, <1>j, <1>c DEF StoreRange
  <2>4. IsStore(m, Positions, Events) /\ state' = ApplyAll(state, m) /\ state \in States
    BY <1>8, RangeType DEF TypeOK, Apply
  <2> HIDE DEF m
  <2>5. /\ \A p \in Positions : p \in DOMAIN m => state'[p] = Append(state[p], m[p])
        /\ \A p \in Positions : p \notin DOMAIN m => state'[p] = state[p]
    <3>1. /\ \A p \in Positions : p \in DOMAIN m => ApplyAll(state, m)[p] = Append(state[p], m[p])
          /\ \A p \in Positions : p \notin DOMAIN m => ApplyAll(state, m)[p] = state[p]
      BY <2>4, ApplyAllType
    <3> QED
      BY <2>4, <3>1
  <2>6. state'[pending] = <<journal[pending]>>
    BY <2>2, <2>3, <2>5
  <2>7. \A p \in DOMAIN journal : p # pending => state'[p] = state[p]
    BY <2>3, <2>5 DEF TypeOK, IsStore
  <2>8. ASSUME gen = 1, NEW p \in DOMAIN journal \ (refused \cup corrected)
        PROVE  state'[p] = <<journal[p]>>
    BY <2>1, <2>6, <2>7, <2>8 DEF FirstInv
  <2> QED
    BY <2>1, <2>8 DEF FirstInv
<1>9. CASE ApplyFails
  BY <1>9 DEF ApplyFails, FirstInv, disk, children
<1>10. ASSUME NEW e \in Events, NEW q \in Positions, InsertEvent(q, e) PROVE FirstInv'
  <2>1. /\ phase = "idle"
        /\ journal' = StorePut(journal, q, e) /\ corrected' = corrected \cup {q}
        /\ UNCHANGED <<phase, pending, state, gen, next_sequence, refused>>
    BY <1>10 DEF InsertEvent, actor, children
  <2>2. \A p \in DOMAIN journal' : p # q => p \in DOMAIN journal /\ journal'[p] = journal[p]
    BY <2>1 DEF StorePut
  <2> QED
    BY <2>1, <2>2 DEF FirstInv
<1>11. CASE Snapshot \/ JournalStop \/ UNCHANGED vars
            \/ (\E g \in Gens : Save(g) \/ SnapshotterStop(g))
  BY <1>1, <1>11 DEF Snapshot, JournalStop, Save, SnapshotterStop, vars, actor, disk, history,
                     children
<1> QED
  BY <1>3, <1>4, <1>5, <1>6, <1>7, <1>8, <1>9, <1>10, <1>11 DEF Next

\* Every step keeps the invariant.
LEMMA StepInd ==
    ASSUME InsertAhead = 0
    PROVE  IndInv /\ [Next]_vars => IndInv'
BY TypeStep, LogStep, StateStep, SnapsStep, BoxStep, FirstStep, AckedStep DEF IndInv

-----------------------------------------------------------------------------

\* The inductive invariant holds in every state.
THEOREM Inductive ==
    ASSUME InsertAhead = 0
    PROVE  Spec => []IndInv
BY InitInd, StepInd, PTL DEF Spec

\* The fields of the actor, its children and the stores keep their types
\* (store/src/persist.rs, store/src/snapshotter.rs).
THEOREM TypeCorrect ==
    ASSUME InsertAhead = 0
    PROVE  Spec => []TypeOK
<1>1. IndInv => TypeOK
  BY DEF IndInv
<1> QED
  BY Inductive, <1>1, PTL

\* Through any mix of crashes, late or lost snapshots, failures and restarts,
\* a running actor has applied every event after the first exactly once
\* (store/src/persist.rs:81, 221).
THEOREM RunningStateReflectsJournalHolds ==
    ASSUME InsertAhead = 0
    PROVE  Spec => []RunningStateReflectsJournal
<1>1. IndInv => RunningStateReflectsJournal
  BY DEF IndInv, StateInv, Good, SnapOK, Refl, RunningStateReflectsJournal, Reflects, ReflectsAt
<1> QED
  BY Inductive, <1>1, PTL

\* In its first life the actor lacks no event (store/src/persist.rs:81).
THEOREM FirstLifeCompleteHolds ==
    ASSUME InsertAhead = 0
    PROVE  Spec => []FirstLifeComplete
<1>1. IndInv => FirstLifeComplete
  BY DEF IndInv, FirstInv, FirstLifeComplete
<1> QED
  BY Inductive, <1>1, PTL

\* A saved snapshot holds the events up to its key and none after it, even if
\* a snapshotter that outlived its actor saved it (store/src/snapshotter.rs:59).
THEOREM SnapshotsMatchKeysHolds ==
    ASSUME InsertAhead = 0
    PROVE  Spec => []SnapshotsMatchKeys
<1>1. IndInv => SnapshotsMatchKeys
  BY DEF IndInv, SnapsInv, Good, SnapOK, Refl, SnapshotsMatchKeys, Reflects, ReflectsAt
<1> QED
  BY Inductive, <1>1, PTL

\* What persist has answered Ok for stays in the journal under its sequence
\* number (store/src/persist.rs:221).
THEOREM AckedDurableHolds ==
    ASSUME InsertAhead = 0
    PROVE  Spec => []AckedDurable
<1>1. ASSUME IndInv, NEW p \in DOMAIN acked \ corrected
      PROVE  /\ GetEvent(p) = <<acked[p]>>
             /\ LastEvent # <<>> /\ p <= LastSequence
             /\ Has(GetEvents(p), p) /\ GetEvents(p)[p] = acked[p]
  <2>1. p \in DOMAIN journal /\ journal[p] = acked[p]
    BY <1>1 DEF IndInv, AckedInv
  <2>2. next_sequence \in Nat /\ DOMAIN journal = 0..(next_sequence - 1)
    BY <1>1, PersistentAssumption DEF IndInv, TypeOK, LogInv
  <2>3. LastSequence = next_sequence - 1 /\ p \in 0..LastSequence
    BY <2>1, <2>2 DEF LastSequence, LatestSequence
  <2>4. LastSequence \in DOMAIN journal
    BY <2>2, <2>3
  <2> QED
    BY <2>1, <2>2, <2>3, <2>4
    DEF GetEvent, LastEvent, GetEvents, RangeToLatest, StoreRange, Has, LastSequence
<1>2. IndInv => AckedDurable
  BY <1>1 DEF AckedDurable
<1> QED
  BY Inductive, <1>2, PTL
=============================================================================
