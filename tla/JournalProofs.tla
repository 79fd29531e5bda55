--------------------------- MODULE JournalProofs ---------------------------
(***************************************************************************)
(* Proofs about Journal, for every set of events and every bound, when     *)
(* callers of Insert only correct positions that were already put          *)
(* (InsertAhead = 0).                                                      *)
(***************************************************************************)
EXTENDS Journal, StoreProofs

\* What each long operation knows about the file it reads or writes.
FileInv ==
    /\ file # NoFile => Len(file) <= MaxEvents
    /\ pc = "exporting" => exported = NoFile /\ Len(file) <= next_sequence
    /\ pc = "importing" =>
        /\ next_sequence <= Len(Records)
        /\ \A s \in DOMAIN store : store[s] = Records[s + 1]

\* No key lies at or past next_sequence, and the last one is just below it
\* even while a purge, which removes keys from the front, is under way.
EndInv ==
    /\ DOMAIN store \subseteq 0..(next_sequence - 1)
    /\ DOMAIN store # {} => next_sequence - 1 \in DOMAIN store
    /\ pc # "purging" /\ next_sequence > 0 => DOMAIN store # {}

\* Holes come from an interrupted purge only.
HoleInv ==
    /\ Contiguous
    /\ ~torn => DOMAIN store = {} \/ DOMAIN store = 0..(next_sequence - 1)
    /\ torn => DOMAIN store # {}
    /\ pc = "importing" => ~torn

IndInv == TypeOK /\ FileInv /\ EndInv /\ HoleInv

\* What is left of a file is a file, and not a longer one.
LEMMA PrefixType ==
    ASSUME NEW s \in Seq(Events), NEW p \in Prefixes(s)
    PROVE  p \in Seq(Events) /\ Len(p) <= Len(s)
BY DEF Prefixes

\* What import finds in a file is not more than the file holds.
LEMMA RecordsType ==
    ASSUME file \in Seq(Events)
    PROVE  Records \in Seq(Events) /\ Len(Records) <= Len(file)
<1>1. CASE gzipped
  <2>1. Records = <<>>
    BY <1>1 DEF Records
  <2> QED
    BY <2>1
<1>2. CASE ~gzipped
  BY <1>2 DEF Records
<1> QED
  BY <1>1, <1>2

-----------------------------------------------------------------------------

\* The invariant holds initially.
LEMMA InitInd == Init => IndInv
<1> SUFFICES ASSUME Init PROVE IndInv
  OBVIOUS
<1>1. store = [k \in {} |-> k] /\ next_sequence = 0
  BY DEF Init, EmptyStore, NewNextSequence
<1>2. IsStore(store, Positions, Events)
  BY <1>1 DEF IsStore
<1>3. next_sequence \in 0..MaxEvents
  BY <1>1, BoundsAssumption
<1>5. TypeOK
  BY <1>2, <1>3, Zenon DEF Init, TypeOK
<1>4. FileInv /\ EndInv /\ HoleInv
  BY <1>1 DEF Init, FileInv, EndInv, HoleInv, Contiguous
<1> QED
  BY <1>4, <1>5 DEF IndInv

\* The steps that touch neither the entries, nor the counter, nor the files.
LEMMA ReadsInd ==
    ASSUME IndInv, pc = "idle", pc' = "idle",
           UNCHANGED <<next_sequence, files, durable>>
    PROVE  IndInv'
BY DEF IndInv, TypeOK, FileInv, EndInv, HoleInv, Contiguous, files, durable

\* Every step keeps it.
LEMMA StepInd ==
    ASSUME InsertAhead = 0
    PROVE  IndInv /\ [Next]_vars => IndInv'
<1> SUFFICES ASSUME IndInv, [Next]_vars PROVE IndInv'
  OBVIOUS
<1>i. TypeOK /\ FileInv /\ EndInv /\ HoleInv
  BY DEF IndInv
<1>t. /\ next_sequence \in Nat
      /\ MaxEvents \in Nat
      /\ DOMAIN store \subseteq Positions
      /\ \A k \in DOMAIN store : store[k] \in Events
  BY <1>i, BoundsAssumption DEF TypeOK, IsStore
<1>s. IsStore(store, Positions, Events)
  BY <1>i DEF TypeOK
<1>1. ASSUME NEW e \in Events, Put(e) PROVE IndInv'
  <2>1. CASE UNCHANGED <<store, next_sequence>>
    BY <1>1, <2>1, ReadsInd DEF Put, files, durable
  <2>2. CASE store' = StorePut(store, next_sequence, e) /\ next_sequence' = next_sequence + 1
    <3>1. next_sequence \in Positions
      BY <1>1, <1>i, <1>t DEF Put, Positions
    <3>2. /\ IsStore(store', Positions, Events)
          /\ DOMAIN store' = DOMAIN store \cup {next_sequence}
      <4>1. /\ IsStore(StorePut(store, next_sequence, e), Positions, Events)
            /\ DOMAIN StorePut(store, next_sequence, e) = DOMAIN store \cup {next_sequence}
        BY <1>1, <3>1, <1>s DEF IsStore, StorePut
      <4> QED
        BY <2>2, <4>1, Zenon
    <3> QED
      BY <1>1, <2>2, <3>1, <3>2, <1>i, <1>t
      DEF IndInv, Put, TypeOK, FileInv, EndInv, HoleInv, Contiguous, files, Positions
  <2> QED
    BY <1>1, <2>1, <2>2 DEF Put
<1>2. ASSUME NEW e \in Events, NEW s \in Positions, Insert(s, e) PROVE IndInv'
  <2>1. CASE UNCHANGED store
    BY <1>2, <2>1, ReadsInd DEF Insert, files, durable
  <2>2. CASE store' = StorePut(store, s, e)
    <3>1. s < next_sequence
      BY <1>2, <1>i, <1>t DEF Insert, Positions
    <3>2. /\ IsStore(store', Positions, Events)
          /\ DOMAIN store' = DOMAIN store \cup {s}
      <4>1. /\ IsStore(StorePut(store, s, e), Positions, Events)
            /\ DOMAIN StorePut(store, s, e) = DOMAIN store \cup {s}
        BY <1>2, <1>s DEF IsStore, StorePut
      <4> QED
        BY <2>2, <4>1, Zenon
    <3> QED
      <4>1. pc = "idle" /\ UNCHANGED <<next_sequence, pc, file, gzipped, exported, torn>>
        BY <1>2, <2>2 DEF Insert, files
      <4>2. TypeOK'
        BY <3>2, <4>1, <1>i DEF TypeOK
      <4>3. FileInv'
        BY <4>1, <1>i DEF FileInv
      <4>4. EndInv'
        BY <3>1, <3>2, <4>1, <1>i, <1>t DEF EndInv, Positions
      <4>5. HoleInv'
        BY <3>1, <3>2, <4>1, <1>i, <1>t DEF EndInv, HoleInv, Contiguous, Positions
      <4> QED
        BY <4>2, <4>3, <4>4, <4>5 DEF IndInv
  <2> QED
    BY <1>2, <2>1, <2>2 DEF Insert
<1>3. ASSUME NEW s \in Positions, Get(s) \/ RangeOpen(s) PROVE IndInv'
  BY <1>3, ReadsInd DEF Get, RangeOpen
<1>4. ASSUME NEW from \in Positions, NEW to \in Positions, Range_(from, to)
      PROVE IndInv'
  BY <1>4, ReadsInd DEF Range_
<1>5. CASE Last \/ LastSequence \/ Flush \/ ExportRefused
  BY <1>5, ReadsInd DEF Last, LastSequence, Flush, ExportRefused
<1>6. CASE ExportStart
  BY <1>6, <1>i, <1>t, NoFileAssumption
  DEF IndInv, ExportStart, TypeOK, FileInv, EndInv, HoleInv, Contiguous, durable
<1>7. CASE ExportEvent
  <2>1. file \in Seq(Events) /\ store[Len(file)] \in Events
    BY <1>7, <1>i, <1>t DEF ExportEvent, TypeOK, Has
  <2>2. file' \in Seq(Events) /\ Len(file') = Len(file) + 1 /\ Len(file) \in Nat
    BY <1>7, <2>1 DEF ExportEvent
  <2>3. exported = NoFile
    BY <1>7, <1>i DEF ExportEvent, FileInv
  <2>4. /\ pc = "exporting" /\ pc' = "exporting" /\ exported' = NoFile
        /\ UNCHANGED <<next_sequence, resp, gzipped, durable>>
    BY <1>7, <2>3 DEF ExportEvent
  <2>5. TypeOK'
    BY <2>2, <2>4, <1>i DEF TypeOK, durable
  <2>6. Len(file') <= next_sequence /\ next_sequence <= MaxEvents
    BY <1>7, <2>2, <1>i, <1>t DEF ExportEvent, TypeOK
  <2>7. FileInv'
    BY <2>2, <2>4, <2>6, <1>t DEF FileInv, durable
  <2>8. EndInv' /\ HoleInv'
    BY <2>4, <1>i DEF EndInv, HoleInv, Contiguous, durable
  <2> QED
    BY <2>5, <2>7, <2>8 DEF IndInv
<1>8. CASE ExportMissing \/ ExportWriteFails
  <2>1. file \in Seq(Events) /\ file' \in Prefixes(file)
    BY <1>8, <1>i DEF ExportMissing, ExportWriteFails, TypeOK
  <2>2. file' \in Seq(Events) /\ Len(file') <= Len(file) /\ Len(file') \in Nat
    BY <2>1, PrefixType
  <2>3. /\ pc = "exporting" /\ pc' = "idle"
        /\ UNCHANGED <<next_sequence, gzipped, exported, durable>>
    BY <1>8 DEF ExportMissing, ExportWriteFails
  <2>4. exported' = NoFile
    BY <1>8, <2>3, <1>i DEF ExportMissing, ExportWriteFails, FileInv
  <2>5. Len(file) <= MaxEvents /\ Len(file) \in Nat
    BY <1>8, <1>i, <2>1, NoFileAssumption DEF ExportMissing, ExportWriteFails, FileInv
  <2>6. TypeOK'
    BY <2>2, <2>3, <2>4, <1>i DEF TypeOK, durable
  <2>7. FileInv'
    <3>1. Len(file') <= MaxEvents
      BY <2>2, <2>5, <1>t
    <3> QED
      BY <2>3, <2>4, <3>1 DEF FileInv
  <2>8. EndInv' /\ HoleInv'
    BY <2>3, <1>i DEF EndInv, HoleInv, Contiguous, durable
  <2> QED
    BY <2>6, <2>7, <2>8 DEF IndInv
<1>9. CASE ExportDone
  BY <1>9, <1>i, <1>t
  DEF IndInv, ExportDone, TypeOK, FileInv, EndInv, HoleInv, Contiguous, durable
<1>10. CASE ImportStart
  BY <1>10, <1>i, <1>t
  DEF IndInv, ImportStart, TypeOK, FileInv, EndInv, HoleInv, Contiguous, files, durable
<1>11. CASE PurgeKey
  <2>1. PICK k \in DOMAIN store :
          /\ \A j \in DOMAIN store : k <= j
          /\ store' = StoreDel(store, k)
          /\ torn' = (DOMAIN store' # {})
    BY <1>11 DEF PurgeKey
  <2>2. /\ IsStore(store', Positions, Events)
        /\ DOMAIN store' = DOMAIN store \ {k}
    BY <2>1, <1>s, StoreDelIs
  <2>3. EndInv'
    BY <1>11, <2>1, <2>2, <1>i, <1>t DEF PurgeKey, EndInv, Positions
  <2> QED
    BY <1>11, <2>1, <2>2, <2>3, <1>i, <1>t
    DEF IndInv, PurgeKey, TypeOK, FileInv, HoleInv, Contiguous, files
<1>12. CASE PurgeFails
  BY <1>12, <1>i, <1>t
  DEF IndInv, PurgeFails, TypeOK, FileInv, EndInv, HoleInv, Contiguous, files, durable
<1>13. CASE PurgeDone
  <2>1. DOMAIN store' = {} /\ next_sequence' = 0 /\ UNCHANGED <<store, file, gzipped, exported, torn>>
    BY <1>13 DEF PurgeDone, files, durable
  <2>2. ~torn
    BY <2>1, <1>i DEF HoleInv
  <2>3. TypeOK'
    <3>1. pc' \in {"idle", "importing"} /\ (pc' = "importing" => file # NoFile)
      BY <1>13 DEF PurgeDone
    <3> QED
      BY <2>1, <3>1, <1>i, <1>t DEF TypeOK
  <2>4. FileInv'
    <3>1. file # NoFile => Len(file) \in Nat
      BY <1>i DEF TypeOK
    <3>2. pc' = "idle" \/ (pc' = "importing" /\ file # NoFile)
      BY <1>13 DEF PurgeDone
    <3>3. pc' = "importing" => Len(Records) \in Nat /\ Len(Records') = Len(Records)
      BY <1>13, <3>2, <1>i, RecordsType DEF PurgeDone, TypeOK, Records, files
    <3> QED
      BY <2>1, <3>1, <3>2, <3>3, <1>i DEF FileInv
  <2> QED
    BY <2>1, <2>2, <2>3, <2>4 DEF IndInv, EndInv, HoleInv, Contiguous
<1>14. CASE ImportEvent
  <2>1. CASE UNCHANGED <<store, next_sequence>> /\ pc' = "idle"
    BY <1>14, <2>1, <1>i, <1>t
    DEF ImportEvent, IndInv, TypeOK, FileInv, EndInv, HoleInv, Contiguous, files
  <2>2. CASE /\ store' = StorePut(store, next_sequence, Records[next_sequence + 1])
             /\ next_sequence' = next_sequence + 1
             /\ pc' = pc
    <3>0. file \in Seq(Events) /\ Len(file) \in Nat /\ Len(file) <= MaxEvents
      BY <1>14, <1>i, NoFileAssumption DEF ImportEvent, TypeOK, FileInv
    <3>1. /\ Records \in Seq(Events) /\ Len(Records) \in Nat /\ Len(Records) <= MaxEvents
          /\ next_sequence < Len(Records)
          /\ next_sequence \notin DOMAIN store
          /\ Records' = Records
      BY <1>14, <1>i, <1>t, <3>0, RecordsType DEF ImportEvent, EndInv, Records, files
    <3>2. next_sequence \in Positions /\ Records[next_sequence + 1] \in Events
      BY <3>1, <1>t DEF Positions
    <3>3. /\ IsStore(store', Positions, Events)
          /\ DOMAIN store' = DOMAIN store \cup {next_sequence}
          /\ store'[next_sequence] = Records[next_sequence + 1]
          /\ \A x \in DOMAIN store : x # next_sequence => store'[x] = store[x]
      <4>1. ASSUME NEW e \in Events
            PROVE  /\ IsStore(StorePut(store, next_sequence, e), Positions, Events)
                   /\ DOMAIN StorePut(store, next_sequence, e) = DOMAIN store \cup {next_sequence}
                   /\ StorePut(store, next_sequence, e)[next_sequence] = e
                   /\ \A x \in DOMAIN store :
                        x # next_sequence => StorePut(store, next_sequence, e)[x] = store[x]
        BY <3>2, <4>1, <1>s, StorePutIs
      <4>2. Records[next_sequence + 1] \in Events
        BY <3>2
      <4> QED
        BY <2>2, <4>1, <4>2
    <3>4. TypeOK'
      BY <1>14, <2>2, <3>1, <3>3, <1>i, <1>t DEF ImportEvent, TypeOK, files
    <3>5. FileInv'
      BY <1>14, <2>2, <3>0, <3>1, <3>3, <1>i, <1>t DEF ImportEvent, FileInv, files
    <3>6. EndInv' /\ HoleInv'
      BY <1>14, <2>2, <3>1, <3>3, <1>i, <1>t
      DEF ImportEvent, EndInv, HoleInv, Contiguous, files
    <3> QED
      BY <3>4, <3>5, <3>6 DEF IndInv
  <2> QED
    BY <1>14, <2>1, <2>2 DEF ImportEvent
<1>15. CASE ImportDone
  BY <1>15, <1>i, <1>t
  DEF IndInv, ImportDone, TypeOK, FileInv, EndInv, HoleInv, Contiguous, files, durable
<1>16. CASE Crash
  <2>1. next_sequence' = IF DOMAIN store = {} THEN 0 ELSE next_sequence
    BY <1>16, <1>i, <1>t, ReopenedNext DEF Crash, EndInv
  <2>2. /\ file' \in Seq(Events) \cup {NoFile}
        /\ file' # NoFile => Len(file') <= MaxEvents
        /\ exported' \in {NoFile, file'}
    <3>1. CASE pc = "exporting"
      <4>1. file \in Seq(Events) /\ exported' = NoFile /\ file' \in Prefixes(file)
        BY <1>16, <3>1, <1>i DEF Crash, TypeOK, FileInv
      <4>2. file' \in Seq(Events) /\ Len(file') <= Len(file) /\ Len(file') \in Nat
        BY <4>1, PrefixType
      <4> QED
        BY <4>1, <4>2, <1>i, <1>t, NoFileAssumption DEF FileInv
    <3>2. CASE pc # "exporting"
      BY <1>16, <3>2, <1>i DEF Crash, TypeOK, FileInv
    <3> QED
      BY <3>1, <3>2
  <2>3. pc' = "idle" /\ UNCHANGED <<store, gzipped, torn>>
    BY <1>16 DEF Crash, durable
  <2>4. TypeOK' /\ FileInv'
    BY <2>1, <2>2, <2>3, <1>i, <1>t DEF TypeOK, FileInv
  <2>5. EndInv' /\ HoleInv'
    BY <2>1, <2>3, <1>i, <1>t DEF EndInv, HoleInv, Contiguous
  <2> QED
    BY <2>4, <2>5 DEF IndInv
<1>17. CASE Decompress
  BY <1>17, <1>i, <1>t
  DEF IndInv, Decompress, TypeOK, FileInv, EndInv, HoleInv, Contiguous, durable
<1>18. CASE UNCHANGED vars
  BY <1>18, <1>i DEF IndInv, vars, TypeOK, FileInv, EndInv, HoleInv, Contiguous, Records
<1> QED
  BY <1>1, <1>2, <1>3, <1>4, <1>5, <1>6, <1>7, <1>8, <1>9, <1>10, <1>11,
     <1>12, <1>13, <1>14, <1>15, <1>16, <1>17, <1>18 DEF Next

-----------------------------------------------------------------------------

\* The inductive invariant holds in every state.
THEOREM Inductive ==
    ASSUME InsertAhead = 0
    PROVE  Spec => []IndInv
BY InitInd, StepInd, PTL DEF Spec

\* The journal's fields keep their types (store/src/journal.rs:34).
THEOREM TypeCorrect ==
    ASSUME InsertAhead = 0
    PROVE  Spec => []TypeOK
<1>1. IndInv => TypeOK
  BY DEF IndInv
<1> QED
  BY Inductive, <1>1, PTL

\* It implies LatestIsLast.
LEMMA IndLatest == IndInv => LatestIsLast
<1> SUFFICES ASSUME IndInv, pc # "purging" PROVE
        /\ DOMAIN store = {} <=> next_sequence = 0
        /\ DOMAIN store # {} => LatestSequence(next_sequence) = LastKey(store)
  BY DEF LatestIsLast
<1>1. next_sequence \in Nat
  BY BoundsAssumption DEF IndInv, TypeOK
<1>2. DOMAIN store = {} <=> next_sequence = 0
  <2>1. ASSUME next_sequence = 0 PROVE DOMAIN store = {}
    <3>1. \A x \in DOMAIN store : x \in Int /\ 0 <= x /\ x <= 0 - 1
      BY <2>1 DEF IndInv, EndInv
    <3> QED
      BY <3>1, SMT
  <2>2. ASSUME next_sequence # 0 PROVE DOMAIN store # {}
    BY <2>2, <1>1 DEF IndInv, EndInv
  <2> QED
    BY <2>1, <2>2
<1>3. ASSUME DOMAIN store # {} PROVE LastKey(store) = next_sequence - 1
  <2>1. /\ DOMAIN store \subseteq 0..(next_sequence - 1)
        /\ next_sequence - 1 \in DOMAIN store
    BY <1>3 DEF IndInv, EndInv
  <2>2. Max(DOMAIN store) = next_sequence - 1
    BY <1>1, <2>1, MaxIs
  <2> QED
    BY <2>2 DEF LastKey
<1> QED
  BY <1>1, <1>2, <1>3 DEF LatestSequence

\* latest_sequence names the last stored event through puts, corrections,
\* interrupted imports and restarts (store/src/journal.rs:64-71).
THEOREM LatestIsLastHolds ==
    ASSUME InsertAhead = 0
    PROVE  Spec => []LatestIsLast
BY Inductive, IndLatest, PTL

\* A journal that no interrupted purge has torn has an event at every position
\* up to latest_sequence.
THEOREM ContiguousHolds ==
    ASSUME InsertAhead = 0
    PROVE  Spec => []Contiguous
<1>1. IndInv => Contiguous
  BY DEF IndInv, HoleInv
<1> QED
  BY Inductive, <1>1, PTL

\* Last answers with the newest event, and an open Range with every event
\* from its start on (store/src/journal.rs:144, 164).
THEOREM ReadsReachTheEndHolds ==
    ASSUME InsertAhead = 0
    PROVE  Spec => ReadsReachTheEnd
<1>1. ASSUME IndInv, pc = "idle"
      PROVE  /\ LatestIsLast
             /\ DOMAIN store # {} => LatestSequence(next_sequence) \in DOMAIN store
             /\ \A k \in DOMAIN store : k <= LatestSequence(next_sequence)
  <2>1. next_sequence \in Nat
    BY <1>1, BoundsAssumption DEF IndInv, TypeOK
  <2> QED
    BY <1>1, <2>1, IndLatest DEF IndInv, EndInv, LatestSequence
<1>2. ASSUME IndInv, Last
      PROVE  resp' = IF DOMAIN store = {} THEN NotFound
                     ELSE LastResp(LastKey(store), store[LastKey(store)])
  <2>1. pc = "idle" /\ pc # "purging"
    BY <1>2 DEF Last
  <2>2. CASE DOMAIN store = {}
    BY <1>2, <2>2 DEF Last, Has
  <2>3. CASE DOMAIN store # {}
    <3>1. /\ LatestSequence(next_sequence) = LastKey(store)
          /\ Has(store, LatestSequence(next_sequence))
      BY <1>1, <1>2, <2>1, <2>3 DEF LatestIsLast, Has
    <3> QED
      BY <1>2, <2>3, <3>1 DEF Last
  <2> QED
    BY <2>2, <2>3
<1>3. ASSUME IndInv, NEW s \in Positions, RangeOpen(s)
      PROVE  DOMAIN resp'.events = {k \in DOMAIN store : k >= s}
  <2>1. /\ resp' = EventsResp(RangeToLatest(store, next_sequence, s))
        /\ \A k \in DOMAIN store : k <= LatestSequence(next_sequence)
    BY <1>1, <1>3 DEF RangeOpen
  <2>2. resp'.events = StoreRange(store, s, LatestSequence(next_sequence))
    BY <2>1 DEF EventsResp, RangeToLatest
  <2>3. DOMAIN resp'.events =
          {x \in DOMAIN store : s <= x /\ x <= LatestSequence(next_sequence)}
    BY <2>2 DEF StoreRange
  <2>4. DOMAIN store \subseteq Int /\ s \in Int
    BY <1>3, BoundsAssumption DEF IndInv, TypeOK, IsStore, Positions
  <2> QED
    BY <2>1, <2>3, <2>4
<1>4. IndInv =>
        /\ Last => resp' = IF DOMAIN store = {} THEN NotFound
                           ELSE LastResp(LastKey(store), store[LastKey(store)])
        /\ \A s \in Positions : RangeOpen(s) =>
             DOMAIN resp'.events = {k \in DOMAIN store : k >= s}
  BY <1>2, <1>3
<1> QED
  BY Inductive, <1>4, PTL DEF ReadsReachTheEnd, Spec

\* Put and import never write over a stored event (store/src/journal.rs:86).
THEOREM PutNeverOverwritesHolds ==
    ASSUME InsertAhead = 0
    PROVE  Spec => PutNeverOverwrites
<1>1. IndInv => (next_sequence' = next_sequence + 1 /\ store' # store
                  => next_sequence \notin DOMAIN store)
  BY BoundsAssumption DEF IndInv, TypeOK, EndInv
<1> QED
  BY Inductive, <1>1, PTL DEF PutNeverOverwrites, Spec

\* Without an interrupted purge an export meets no missing event
\* (store/src/journal.rs:211-212).
THEOREM ExportMissesOnlyIfTornHolds ==
    ASSUME InsertAhead = 0
    PROVE  Spec => ExportMissesOnlyIfTorn
<1>1. IndInv => (ExportMissing => torn)
  <2> SUFFICES ASSUME IndInv, ExportMissing, ~torn PROVE FALSE
    OBVIOUS
  <2>1. DOMAIN store = 0..(next_sequence - 1) /\ file \in Seq(Events)
    BY DEF IndInv, HoleInv, Contiguous, ExportMissing, TypeOK
  <2>2. Len(file) \in Nat /\ next_sequence \in Nat
    BY <2>1, BoundsAssumption DEF IndInv, TypeOK
  <2> QED
    BY <2>1, <2>2 DEF ExportMissing, Has
<1> QED
  BY Inductive, <1>1, PTL DEF ExportMissesOnlyIfTorn, Spec

\* An import that reports success leaves a prefix of the file's records, and
\* nothing of the journal that it replaced (store/src/journal.rs:238-267).
THEOREM ImportTakesPrefixHolds ==
    ASSUME InsertAhead = 0
    PROVE  Spec => ImportTakesPrefix
<1>1. IndInv => (ImportDone =>
        /\ next_sequence <= Len(Records)
        /\ DOMAIN store = 0..(next_sequence - 1)
        /\ \A s \in DOMAIN store : store[s] = Records[s + 1])
  BY DEF ImportDone, IndInv, FileInv, HoleInv, Contiguous
<1> QED
  BY Inductive, <1>1, PTL DEF ImportTakesPrefix, Spec
=============================================================================
