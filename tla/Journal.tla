------------------------------ MODULE Journal ------------------------------
(***************************************************************************)
(* The journal actor (store/src/journal.rs): one `BaseJournal` that        *)
(* handles its messages one at a time, over a store that survives the      *)
(* process.  Import and export await file I/O, so a crash of the process   *)
(* can fall between any two of their steps; they are sequences of steps,   *)
(* every other message is one step.                                        *)
(*                                                                         *)
(* An export is a gzip stream of records.  Import reads through the write  *)
(* half of the gzip codec, which hands on the compressed bytes as they     *)
(* are: read_data takes the header of a stream for a length that the file  *)
(* does not have, and finds no record.  It finds them in a file that was   *)
(* decompressed outside the program.                                       *)
(***************************************************************************)
EXTENDS BaseJournal, Sequences

CONSTANTS
    Events,       \* the payloads
    MaxEvents,    \* bound: at most this many positions are written
    InsertAhead,  \* how far past the last event callers of Insert may reach
    NoFile        \* no export file at the path

ASSUME BoundsAssumption == MaxEvents \in Nat /\ InsertAhead \in Nat
ASSUME NoFileAssumption == NoFile \notin Seq(Events)

VARIABLES
    store,          \* the entries on disk: they survive a crash
    next_sequence,  \* BaseJournal::next_sequence
    pc,             \* "idle", or the long operation in progress
    file,           \* the records of the export file
    gzipped,        \* the file is as export wrote it, compressed
    resp,           \* the last answer (JournalResponse or ActorError)
    exported,       \* history: what the file must hold, NoFile unless the
                    \* export that wrote it finished
    torn            \* history: a purge removed some keys and left others

vars == <<store, next_sequence, pc, file, gzipped, resp, exported, torn>>
durable == <<store, torn>>
files == <<file, gzipped, exported>>

Positions == 0..(MaxEvents - 1)

\* JournalResponse and the error of a failed message.
NoneResp == [kind |-> "None"]
Err == [kind |-> "Err"]
NotFound == [kind |-> "NotFound"]
LastSequenceResp(s) == [kind |-> "LastSequence", seq |-> s]
EventResp(e) == [kind |-> "Event", event |-> e]
LastResp(s, e) == [kind |-> "Last", seq |-> s, event |-> e]
EventsResp(m) == [kind |-> "Events", events |-> m]

Init ==
    /\ store = EmptyStore
    /\ next_sequence = NewNextSequence(store)
    /\ pc = "idle"
    /\ file = NoFile
    /\ gzipped = FALSE
    /\ resp = NoneResp
    /\ exported = NoFile
    /\ torn = FALSE

-----------------------------------------------------------------------------
(* Messages that are handled in one step. *)

\* Mutant: the counter is advanced even when the store refused the event.
PutCountsFailures(e) ==
    /\ pc = "idle"
    /\ next_sequence < MaxEvents
    /\ \/ /\ store' = StorePut(store, next_sequence, e)
          /\ resp' = LastSequenceResp(next_sequence)
       \/ /\ resp' = Err
          /\ UNCHANGED store
    /\ next_sequence' = next_sequence + 1
    /\ UNCHANGED <<pc, files, torn>>

\* JournalMessage::Put: store, then advance; a store error changes nothing.
Put(e) ==
    /\ pc = "idle"
    /\ next_sequence < MaxEvents
    /\ \/ /\ store' = StorePut(store, next_sequence, e)
          /\ next_sequence' = next_sequence + 1
          /\ resp' = LastSequenceResp(next_sequence)
       \/ /\ resp' = Err
          /\ UNCHANGED <<store, next_sequence>>
    /\ UNCHANGED <<pc, files, torn>>

\* JournalMessage::Insert: overwrites or adds an entry, and leaves
\* next_sequence alone wherever the entry lands.
Insert(s, e) ==
    /\ pc = "idle"
    /\ s < next_sequence + InsertAhead
    /\ \/ store' = StorePut(store, s, e) /\ resp' = NoneResp
       \/ UNCHANGED store /\ resp' = Err
    /\ UNCHANGED <<next_sequence, pc, files, torn>>

\* JournalMessage::Get.
Get(s) ==
    /\ pc = "idle"
    /\ resp' = IF Has(store, s) THEN EventResp(store[s]) ELSE Err
    /\ UNCHANGED <<next_sequence, pc, files, durable>>

\* JournalMessage::Last: the entry at latest_sequence, if there is one.
Last ==
    /\ pc = "idle"
    /\ LET s == LatestSequence(next_sequence)
       IN  resp' = IF Has(store, s) THEN LastResp(s, store[s]) ELSE NotFound
    /\ UNCHANGED <<next_sequence, pc, files, durable>>

\* JournalMessage::LastSequence.
LastSequence ==
    /\ pc = "idle"
    /\ resp' = LastSequenceResp(LatestSequence(next_sequence))
    /\ UNCHANGED <<next_sequence, pc, files, durable>>

\* JournalMessage::Range(from, to) with an explicit end.
Range_(from, to) ==
    /\ pc = "idle"
    /\ resp' = EventsResp(StoreRange(store, from, to))
    /\ UNCHANGED <<next_sequence, pc, files, durable>>

\* JournalMessage::Range(from, None).
RangeOpen(from) ==
    /\ pc = "idle"
    /\ resp' = EventsResp(RangeToLatest(store, next_sequence, from))
    /\ UNCHANGED <<next_sequence, pc, files, durable>>

\* JournalMessage::Flush: the stores' flush does nothing and cannot fail.
Flush ==
    /\ pc = "idle"
    /\ resp' = NoneResp
    /\ UNCHANGED <<next_sequence, pc, files, durable>>

-----------------------------------------------------------------------------
(* Export.  While it runs, `file` is what was handed to the buffered gzip  *)
(* writer; if it ends early, any prefix of that may have reached the disk. *)

\* What a file that was cut off holds: whole records only.
Prefixes(s) == {SubSeq(s, 1, n) : n \in 0..Len(s)}

\* Mutant: the file is opened without being created.
ExportOpensOnly ==
    /\ pc = "idle"
    /\ pc' = "exporting"
    /\ UNCHANGED <<next_sequence, resp, files, durable>>

\* File::create truncates an earlier export.
ExportStart ==
    /\ pc = "idle"
    /\ pc' = "exporting"
    /\ file' = <<>>
    /\ gzipped' = TRUE
    /\ exported' = NoFile
    /\ UNCHANGED <<next_sequence, resp, durable>>

\* File::create fails: nothing is touched.
ExportRefused ==
    /\ pc = "idle"
    /\ resp' = Err
    /\ UNCHANGED <<next_sequence, pc, files, durable>>

\* One turn of the loop over 0..next_sequence.
ExportEvent ==
    /\ pc = "exporting"
    /\ Len(file) < next_sequence
    /\ Has(store, Len(file))
    /\ file' = Append(file, store[Len(file)])
    /\ UNCHANGED <<next_sequence, pc, resp, gzipped, exported, durable>>

\* `self.get(seq)?` finds no event at a position below next_sequence.
ExportMissing ==
    /\ pc = "exporting"
    /\ Len(file) < next_sequence
    /\ ~Has(store, Len(file))
    /\ file' \in Prefixes(file)
    /\ pc' = "idle"
    /\ resp' = Err
    /\ UNCHANGED <<next_sequence, gzipped, exported, durable>>

\* A write, the flush or the shutdown of the writer fails.
ExportWriteFails ==
    /\ pc = "exporting"
    /\ file' \in Prefixes(file)
    /\ pc' = "idle"
    /\ resp' = Err
    /\ UNCHANGED <<next_sequence, gzipped, exported, durable>>

\* The writer was flushed and shut down.
ExportDone ==
    /\ pc = "exporting"
    /\ Len(file) = next_sequence
    /\ exported' = file
    /\ pc' = "idle"
    /\ resp' = NoneResp
    /\ UNCHANGED <<next_sequence, file, gzipped, durable>>

-----------------------------------------------------------------------------
(* Import: purge key by key, reset the counter, open the file, put every   *)
(* event that can be read from it.                                         *)

\* The records that read_data finds in the file, one after the other.
Records == IF gzipped THEN <<>> ELSE file

\* The file at the path is decompressed, by somebody else.
Decompress ==
    /\ pc = "idle"
    /\ gzipped
    /\ gzipped' = FALSE
    /\ UNCHANGED <<next_sequence, pc, resp, file, exported, durable>>

ImportStart ==
    /\ pc = "idle"
    /\ pc' = "purging"
    /\ UNCHANGED <<next_sequence, resp, files, durable>>

\* FjallStore::purge removes the keys in ascending order, each on its own.
PurgeKey ==
    /\ pc = "purging"
    /\ \E k \in DOMAIN store :
        /\ \A j \in DOMAIN store : k <= j
        /\ store' = StoreDel(store, k)
        /\ torn' = (DOMAIN store' # {})
    /\ UNCHANGED <<next_sequence, pc, resp, files>>

\* A removal fails: import returns before it resets next_sequence.
PurgeFails ==
    /\ pc = "purging"
    /\ DOMAIN store # {}
    /\ pc' = "idle"
    /\ resp' = Err
    /\ UNCHANGED <<next_sequence, files, durable>>

\* Mutant: the counter is not reset after the purge.
PurgeDoneKeepsCounter ==
    /\ pc = "purging"
    /\ DOMAIN store = {}
    /\ \/ file # NoFile /\ pc' = "importing" /\ UNCHANGED resp
       \/ file = NoFile /\ pc' = "idle" /\ resp' = Err
    /\ UNCHANGED <<next_sequence, files, durable>>

\* The store is empty: the counter restarts and the file is opened.  If
\* there is none the events are gone all the same.
PurgeDone ==
    /\ pc = "purging"
    /\ DOMAIN store = {}
    /\ next_sequence' = 0
    /\ \/ file # NoFile /\ pc' = "importing" /\ UNCHANGED resp
       \/ file = NoFile /\ pc' = "idle" /\ resp' = Err
    /\ UNCHANGED <<files, durable>>

\* One event is read and put; its number in the file is next_sequence + 1.
ImportEvent ==
    /\ pc = "importing"
    /\ next_sequence < Len(Records)
    /\ \/ /\ store' = StorePut(store, next_sequence, Records[next_sequence + 1])
          /\ next_sequence' = next_sequence + 1
          /\ UNCHANGED <<pc, resp>>
       \/ /\ pc' = "idle"
          /\ resp' = Err
          /\ UNCHANGED <<store, next_sequence>>
    /\ UNCHANGED <<files, torn>>

\* read_data fails, at the end of the records or for any other reason before
\* it: every error ends the loop, and import answers that all is well.
ImportDone ==
    /\ pc = "importing"
    /\ pc' = "idle"
    /\ resp' = NoneResp
    /\ UNCHANGED <<next_sequence, files, durable>>

-----------------------------------------------------------------------------
\* The process dies and a new journal is opened on the same store; an export
\* that was under way leaves a prefix.
Crash ==
    /\ next_sequence' = NewNextSequence(store)
    /\ file' \in IF pc = "exporting" THEN Prefixes(file) ELSE {file}
    /\ pc' = "idle"
    /\ resp' = NoneResp
    /\ UNCHANGED <<gzipped, exported, durable>>

Next ==
    \/ \E e \in Events : Put(e) \/ \E s \in Positions : Insert(s, e)
    \/ \E s \in Positions : Get(s) \/ RangeOpen(s)
    \/ \E from, to \in Positions : Range_(from, to)
    \/ Last \/ LastSequence \/ Flush
    \/ ExportStart \/ ExportRefused \/ ExportEvent \/ ExportMissing
    \/ ExportWriteFails \/ ExportDone
    \/ ImportStart \/ PurgeKey \/ PurgeFails \/ PurgeDone
    \/ Decompress \/ ImportEvent \/ ImportDone
    \/ Crash

Spec == Init /\ [][Next]_vars

-----------------------------------------------------------------------------
(* Properties. *)

\* The journal's fields keep their types, whatever the sequence of messages
\* and crashes (store/src/journal.rs:34).
TypeOK ==
    /\ IsStore(store, Positions, Events)
    /\ next_sequence \in 0..MaxEvents
    /\ pc \in {"idle", "exporting", "purging", "importing"}
    /\ file \in Seq(Events) \cup {NoFile}
    /\ pc \in {"exporting", "importing"} => file \in Seq(Events)
    /\ exported \in {NoFile, file}
    /\ gzipped \in BOOLEAN
    /\ torn \in BOOLEAN

\* latest_sequence is the sequence number of the last stored event, however
\* the journal came to hold it (puts, corrections, an interrupted import, a
\* restart); during a purge nobody can ask (store/src/journal.rs:64-71).
LatestIsLast ==
    pc # "purging" =>
        /\ DOMAIN store = {} <=> next_sequence = 0
        /\ DOMAIN store # {} => LatestSequence(next_sequence) = LastKey(store)

\* Positions 0 .. latest_sequence all hold an event, so that a replay or an
\* export meets no hole, unless a purge was interrupted half way.
Contiguous ==
    pc # "purging" /\ ~torn => DOMAIN store = 0..(next_sequence - 1)

\* An event that was put is never overwritten by a later Put or by an import
\* (journal.rs:73-75 "reliably stored and can be replayed later"): a step
\* that advances the counter fills a position that was free.
PutNeverOverwrites ==
    [][next_sequence' = next_sequence + 1 /\ store' # store
        => next_sequence \notin DOMAIN store]_vars

\* Last answers with the newest event and an open Range with every event from
\* its start on: what a persistent actor's recovery reads is everything that
\* was written (store/src/journal.rs:144, 164).
ReadsReachTheEnd ==
    [][/\ Last => resp' = IF DOMAIN store = {} THEN NotFound
                          ELSE LastResp(LastKey(store), store[LastKey(store)])
       /\ \A s \in Positions : RangeOpen(s) =>
            DOMAIN resp'.events = {k \in DOMAIN store : k >= s}]_vars

\* An export stops at a missing event only after an interrupted purge.
ExportMissesOnlyIfTorn == [][ExportMissing => torn]_vars

\* An import that reports success leaves the first events of the file, from
\* the position 0 on and in their order, and nothing of the journal that it
\* replaced, whatever failed or crashed before (store/src/journal.rs:238-267).
ImportTakesPrefix ==
    [][ImportDone =>
        /\ next_sequence <= Len(Records)
        /\ DOMAIN store = 0..(next_sequence - 1)
        /\ \A s \in DOMAIN store : store[s] = Records[s + 1]]_vars

(* What the repository states and the code does not do. *)

\* When import reports success on a file that a finished export wrote, the
\* journal holds exactly the exported events again (store/src/journal.rs:228,
\* 236, 258).
ImportRestoresExport ==
    [][ImportDone /\ exported # NoFile =>
        /\ next_sequence = Len(exported)
        /\ DOMAIN store = 0..(Len(exported) - 1)
        /\ \A s \in DOMAIN store : store[s] = exported[s + 1]]_vars
=============================================================================
