# rush: specifications, model checking and proofs

rush is an actor system (`src/actor`) with a persistence layer on top of it
(`src/store`). This directory holds TLA+ modules of both, the TLC
configurations that check them on small instances, and TLAPS proofs of their
main invariants for every value of the constants. Paths such as
`runner.rs:172` mean `src/actor/src/runner.rs`, line 172; those of the store
crate are written `store/journal.rs` and so on.

To run: `tlc -config MCJournal.cfg MCJournal` (and likewise for the other
configurations), `tlapm JournalProofs.tla` (and likewise for the other
`*Proofs` modules).

## 1. The system

| Component | State | Operations | What it calls |
|---|---|---|---|
| Actor system (`system.rs`) | registry path -> actor, helpers, action senders, signal channel, cancellation token | `create_actor`, `stop_actor`, `remove_child`, `get_actor`, and the loop of `SystemRunner` | actors, by action channel |
| Supervision (`SupervicionHandler`, `system.rs:420-640`) | the shared registry; per supervisor its action senders | `create_actor`, `stop_child(ren)`, `restart_children`, `remove_child`, `get_childs` | registry lock, senders lock, action channels |
| `ActorRunner` (`runner.rs`) | lifecycle, retry counter, mailbox, signal and action receivers | `init`, `run`, `apply_supervision_strategy` | the actor's hooks and handlers, its children, its parent's signal channel |
| Mailbox, `ask`, `tell`, `retry_ask` (`handler.rs`, `actor.rs:599-660`) | a bounded channel; a oneshot per ask | send, handle, answer | the runner's loop |
| Supervision strategies (`supervision.rs`) | max_retries, durations left | `max_retries`, `next_backoff` | used by the runner and by `retry_ask` |
| Events (`event.rs`, `actor.rs`) | a broadcast channel | `emit_event`, `subscribe`, the loop of `EventManager` | event handlers |
| `ActorPath` (`path.rs`) | names | `parent`, `level`, `at_level`, `key`, the predicates, `/` | - |
| Journal actor (`store/journal.rs`) | a store and `next_sequence` | put, insert, get, last, last_sequence, range, flush, import, export | the store, files |
| Snapshotter actor (`store/snapshotter.rs`) | a store | save, load, last, flush | the store |
| Persistent actor (`store/persist.rs`) | the user's state | `init_state`, `persist`, `insert_event`, `snapshot`, `flush` | asks the journal, tells the snapshotter |
| Snapshot actor (`store/snapshot.rs`) | the user's state, one snapshot | `init_state`, `save`, `load`, `flush` | tells and asks its snapshotter |
| Stores (`store/stores`) | ordered map from keys to entries, per name and prefix | get, put, del, last, iter, purge, flush | fjall or memory |

Every actor is one task that handles one thing at a time: a message, a signal
of a child or an action of its supervisor, picked at random by `select!`. All
actors share the registry; a supervisor reaches its children through their
action channels and learns of their errors, faults and ends through its signal
channel. A persistent actor owns a journal and a snapshotter as child actors, a
snapshot actor a snapshotter. All stores of one name share a keyspace.

What is hard in it, with the property that says so (`PROJECT.json` lists all
hazards at their lines):

* *Two locks.* The registry and a supervisor's senders are written one after
  the other, and `System` is cloned into its clients and its runner. What can
  be looked up must be stoppable (`RegisteredStoppable`), once (`StopOnce`).
* *Names instead of identities.* `Stopped` carries a path, which may belong to
  another actor by the time it is handled (`LookupFindsRunning`). Paths are
  compared as strings in one place and as lists in another (`PathsAgree`).
* *Stopping a tree.* Parents wait for children through bounded channels, in
  any order, while handlers go on (`StopTerminates`, `ShutdownCompletes`,
  `NoOrphans`). Hooks, handlers and loops wait inside `emit_error`,
  `emit_fault` and `emit_stopped` while a supervisor's channel is full, and the
  supervisor may be waiting itself (`NoStall`).
* *Startup, restart and retry* share one counter and one loop (`FullRetries`,
  `BackoffsInOrder`, `RetriesAsPlanned`, `StartupDecided`).
* *Waiting.* A handler runs inside the loop that takes messages; both `tell`
  and `ask` may wait there (`NoDeadlock`, `CallsReturn`). An ask is resolved by
  the handler or by the drop of the mailbox, whatever ends the actor
  (`WaitersAreOwed`, `WaitingIsQueued`, `ImplementsActorLife`,
  `AnsweredByOwnHandling`).
* *Lossy events.* Subscribers that are behind the broadcast buffer skip
  (`EventsAccounted`, `EndsWithTheLast`, `SinksEnd`).
* *Persistence.* Events are written before they are applied, snapshots are
  told and therefore late or lost, `latest_sequence` is 0 for none and for one
  event, a crash falls between any two steps (`RunningStateReflectsJournal`,
  `SnapshotsMatchKeys`, `AckedDurable`, `SnapshotsInOrder`,
  `SavedNeverGoesBack`, `ReadYourSaves`).
* *Purge, import and export* are many store operations (`LatestIsLast`,
  `Contiguous`, `ImportTakesPrefix`, `ImplementsStores`).
* *Scans* go by the characters of a prefix and by bounds with a direction and
  a count (`ScansSeeOwn`, `IterationComplete`, `ReadsReachTheEnd`).

## 2. The modules

    Store --- BaseJournal --- Journal -------- MCJournal,       JournalProofs
       |               `----- Persistent ----- MCPersistent,    PersistentProofs
       |`-- StoreProofs
       |`-- StoreIterators -- Stores
       |               `----- FjallStore ----- SnapshotActor -- MCSnapshotActor,
       |                                                        SnapshotActorProofs
       `--- ActorSystem ---------------------- MCActorSystem,   ActorSystemProofs
    ActorPath ---'`--------------------------------------------- ActorPathProofs
    Supervision -- Runner -------------------- MCRunner,        RunnerProofs
    Messaging -------------------------------- MCMessaging,     MessagingProofs

    refinements:  Runner ==> ActorLife      FjallStore ==> Stores

An entry of the `map` in `PROJECT.json` for a function or a type as a whole
takes in its doc comment.

### Persistence

`Store` has the operations of one store handle as operators on a function from
keys to values; `StoreProofs` has the lemmas about them. `StoreIterators` has
`last` and the three kinds of `iter`, as operators on the sequence of entries
that a back end's scan yields.

`Stores` is the abstract specification of the stores of a database: one map
for each id, kept apart. It is also the memory back end, whose purge holds the
lock of its map. `FjallStore` is the other back end: the stores of one name
are one keyspace, `Begins` says which id's prefix begins with which,
`ByteOrder` in which order their entries lie, and the scans of `last`, `iter`
and `purge` meet the entries of all ids that begin with their own. A purge is
one scan and one removal for each entry, other tasks' writes in between. It
implements `Stores` as long as no purge's scan meets another id's entries
(`PurgesApart`); `ScansSeeOwn` is what does not hold when prefixes overlap.

`BaseJournal` has the three computations on `next_sequence` that `Journal` and
`Persistent` share.

`Journal` is the journal actor. `store` and `next_sequence` are its fields;
`pc` tells which long operation runs. Each message is one action, except
import (`ImportStart`, one `PurgeKey` per removed entry, `PurgeDone` with the
opening of the file, one `ImportEvent` per record, `ImportDone`) and export
(`ExportStart`, `ExportEvent`, `ExportMissing`, `ExportWriteFails`,
`ExportDone`): a failure or a `Crash` falls between any two of them. A crash
reopens the journal at once, so that `next_sequence` is that of
`BaseJournal::new`. `file` is the sequence of whole records that the export
file carries, and `gzipped` says that it is compressed, as export wrote it.
Import reads through `async_compression::tokio::write::GzipDecoder`, whose
reading half hands on the bytes of the inner reader undecoded; the header of a
gzip stream is then taken for the length of a first record. `Records`, what
`read_data` finds, is therefore empty for such a file, and is `file` only after
`Decompress`, a step of somebody outside the program. `ImportDone` may fall
after any record: the loop takes every error of `read_data` for the end and
answers Ok.

`Persistent` is a persistent actor with its two children: `phase` says where
its runner is (`loading` and `replaying` inside `init_state`, `applying`
between the journal's answer and `apply_event`, `stopping` after `Stop`).
`state` keeps, for each journal position, the events of that position it has
applied, so that a lost, a doubled and a foreign event are told apart. Journal
writes are steps of the actor since it waits for their answers. Snapshots go
through the mailbox `box` of a snapshotter; each start makes a new pair of
children, a generation, and a snapshotter may outlive its actor. The hooks
are the documented ones: `pre_start` calls `init_state`, `pre_stop` calls
`flush`.

`SnapshotActor` has the actors that keep one snapshot under key 0, over
`FjallStore`, beside a store that others put to, delete from and purge. A
state is its version. `save` tells, `load` asks, and both go through `box`. A
read that fails is `LoadMisread`, which the actor takes for the absence of a
snapshot (`misled`).

### Actors

`ActorPath` has paths as sequences of names, with the operations and
predicates of `path.rs`; `ActorSystem` is built on them.

`ActorSystem` is the supervision tree. Actors are numbered in the order of
their creation, since paths are reused. `stage` is where an actor's runner is,
`reply` where its `create_actor` call is, `acts` and `signals` are the
channels, `senders` the action senders of each supervisor (supervisor 0 is the
System). `active`, `cancelled`, `shutdown` and `task` are those of
`SystemRunner::run`; `task` is the call it is in the middle of, `calls` the
`stop_actor` and `remove_child` calls of clients that are between their two
locks. Handlers are arbitrary: they create, stop, restart and remove children,
one or all, emit errors and faults, and panic. `emitting` is the signal that a
hook, a handler or the loop itself is waiting to send: `Emit`, `RecvSignal` and
a loop that reports a fault set it, `Emitted` sends it when there is `Room`, and
meanwhile the actor takes no other step. A client's `stop_children` is a
sequence of the steps that its `stop_actor` takes. `remove_child` of a client
is modelled for top-level names.

`ActorLife` is the abstract specification of one actor as its creator and its
clients see it: it is created or refused, is up, is over; an ask is answered
Ok only while it is up, and always returns. `Runner` is one `ActorRunner` with
`lifecycle`, the retry counter, its mailbox and the clients that call
`retry_ask`; an `ask` is a `retry_ask` with one attempt, and `Abandon` is a
caller that drops the future. Its delays come from `Supervision`, which has
the strategies; a delay is a step that must be taken, not a time. `Runner`
implements `ActorLife` under the mapping `life`, `calls` at the end of the
module.

`Messaging` has actors, clients and event handlers that call each other
(`Call`, `Send` when there is room, `Take`, `Finish` with the answer,
`RunnerEnds` at any moment, in a handler a panic) and the broadcast of events
(`Emit`, `Subscribe`, `Receive`, `Lag`, `Close`). `Calls` says who may call
whom. `at` is what a party is doing, `call` the call it waits in, `current`
the message an actor's handler is at.

### What is abstracted

* An actor's calls on its own senders are one step, since only its task uses
  them; the System's calls are two steps, one for each lock. `get_childs`
  reads the registry once where the code takes its lock once per loop.
* The stores' `flush` does nothing in both back ends, so the Flush messages of
  journal and snapshotter change nothing; `Journal` has the step, `Persistent`
  and `SnapshotActor` leave it out.
* Action channels have no bound in `ActorSystem`. In the code they hold
  `action_buffer_size` actions, 10,000 unless configured otherwise, and a
  sender waits when one is full. A channel holds at most one Stop (`StopOnce`)
  and one Restart for each `restart_children` of its supervisor that the actor
  has not taken yet, so that nobody waits as long as fewer restarts are
  outstanding than that. With a buffer of one or two a supervisor could wait
  for a child that waits for room to send it a signal; `NoStall` and
  `ShutdownCompletes` are not about such configurations.
* A journal is opened on what its store holds. `FjallStore::last` and its
  iterators also answer a read or parse error as if there were no entry
  (`store/stores/fjall.rs:131`, `167-169`), on which `BaseJournal::new`
  (`store/journal.rs:53-57`) would restart at 0 over a full store. The same
  fault is modelled for snapshots (`LoadMisread`), not for the journal, whose
  properties and theorems hold of stores that can be read.
* The header of a gzip stream, as a length, is about 529 MB: that an export
  file larger than this might yield a record is left out.
* A startup is one choice between success and failure in `ActorSystem` and a
  loop of attempts in `Runner`.
* In `Persistent` an actor that was stopped is down before a new instance of
  it starts, as its creator waits for its end; its snapshotter may still run.
* Keys are numbers in numeric order: `{:014}` keeps that order below 10^14.
  The order of ids follows `:`, which sorts after the digits and before the
  letters. An id that itself contains a `:` followed by digits is not covered.
* A crash is one of the process: what fjall has accepted stays. Power loss is
  not modelled.
* A `retry_ask` with a maximum of 0 retries, which never sends, is left out.

## 3. The runs

Bounds are constants named in the modules. All runs that pass are exhaustive
under them.

| Run | Shows | Bounds |
|---|---|---|
| `journal` | counter, contiguity, reads and exports agree, and an import leaves a prefix of its file and nothing else, in all orders of messages, errors and crashes | 3 positions, 2 payloads |
| `persistent` | a running actor has applied every event after the first exactly once; snapshots match their keys; acknowledged events stay and are read back; a graceful stop ends, a startup is decided | 2 positions, 2 payloads, 2 lives, 1 retry, 1 failure, 1 rewrite, mailbox of 2 |
| `system` | what is registered has started and can be stopped; nobody is stopped twice; nobody waits for a full signal channel or a startup for good, with the exception that `NoStall` names | 3 actors, 1 name, 2 levels, reused paths, removals, signal buffer of 1, 1 error, fault or removal by a client |
| `system_live` | a cancelled system shuts down; path predicates agree | 2 actors, 2 names, panics, 1 restart, cancellation, signal buffer of 1, hooks that fail and whose fault is reported; all paths of up to 4 names, once |
| `runner` | the runner implements `ActorLife`, with liveness; answers, retries, delays and queued messages | 2 clients of 2 calls of 2 attempts, mailbox of 2, 2 restarts, 2 retries with 2 different delays |
| `messaging` | waiting callers are owed an answer and get it; one-way calls never deadlock; events are seen or reported missed | 2 actors, 1 client, 1 event handler that calls its actor, mailboxes of 2, event buffer of 2, 4 calls, 3 events |
| `stores` | snapshots in order, saves are read back and never go back; paging covers a store; the keyspace implements the abstract stores | 2 ids, `a` and `ab`, 3 keys, 3 versions, mailbox of 2, 1 fault |
| `persistent_replay`, `system_lookup`, `system_orphans`, `runner_backoffs`, `stores_prefix` | five statements of the code's comments that it does not keep, see section 6 | the smallest that show it |

Why these bounds are enough. Two positions hold one that replay skips and one
that it does not, and a snapshot before and after either; two lives let a
snapshotter of the first save while the second loads. The third life, for a
snapshot of the first that is saved during the second and loaded by the third,
is covered by the theorems only. In the journal a third position adds a middle
for an interrupted purge, an import that stops half way and an insert that
neither begins nor ends the journal. Three actors are a parent with two
children, a chain of three, or an actor and two successors under its path; a
signal buffer of 1 is full whenever one child is behind. A failing `pre_stop` (`MayFail`) is left to `system_live`: in
`system` hooks emit their own signals, `pre_stop` included. Two clients of a
mailbox of two fill it and make a third send wait; two restarts let one
restart use what another left behind. Four calls from three callers fill a
mailbox of two with a handler busy and one more caller waiting; three events
overrun a buffer of two. Two ids of which one begins with the other are what a
scan can meet wrongly. The theorems of section 5 hold without any of these
bounds.

Events are interchangeable in `MCJournal`, where symmetry is used; its
properties are safety properties.

`CHECK_DEADLOCK FALSE`: the persistent actor, the tree, the runner and the
parties of `Messaging` may all come to rest, ended or with every bound used up
(`NoDeadlock` says when rest is not a deadlock). `journal` always has a message
to handle and `stores` can always crash and start again: both are checked for
deadlock.

## 4. Fairness

Weak fairness, per task: tokio polls every spawned task that can make
progress, and hooks and handlers of the models return, unless they wait in an
`emit_...` or for a child to start. `select!` without
`biased` picks at random among its ready branches, so a branch that stays
ready is taken eventually; that is why each branch of a loop (`RecvStopped`,
`RecvStop`, ..., `SysCancelled`, `SysSignal`) has its own weak fairness. The
second half of a System call (`StopReturns`, `RemoveReturns`) is fair, as it
only waits for a lock that is held for a moment; so are a handler's return and
every step of an `EventManager` in `Messaging`. Actions that are somebody's
decision (user code, a supervisor, a caller that gives up, a failure, a crash,
the cancellation, the end of a runner) have none. No property rests on strong
fairness: a sender that waits for room in a channel is bounded in what it may
be overtaken by, as senders queue in order in tokio and as the number of calls
is bounded in the model.

`ActorLife` asks of its implementation that a creation is decided and that
every ask returns, both weakly fair. `Runner` meets it although hooks may
fail, retry, or panic, since the end of the runner drops its mailbox and with
it the oneshots of the messages in it.

## 5. The proofs

All are checked by tlapm, for arbitrary sets and bounds that meet the named
ASSUMEs of the modules.

**Journal** (`JournalProofs`), assuming `InsertAhead = 0`: callers of `Insert`
only correct positions that were already put, which is what `insert_event` is
for. Type correctness, `LatestIsLast`, `Contiguous`, `PutNeverOverwrites`,
`ReadsReachTheEnd`, `ExportMissesOnlyIfTorn` (which no run checks),
`ImportTakesPrefix`. They
are not inductive as they stand, since the counter is stale during a purge and
an import: `EndInv` says that no key lies at or past `next_sequence` and that
the last one is just below it, also while a purge removes keys from the front;
`HoleInv` that holes come from an interrupted purge only; `FileInv` that what
an import has put so far agrees with the records of its file.

**Persistent** (`PersistentProofs`), with the same assumption: type
correctness, `RunningStateReflectsJournal`, `FirstLifeComplete`,
`SnapshotsMatchKeys`, and `AckedDurable`, which is about what the journal's
reads answer. `SnapshotsMatchKeys` alone is not inductive: a snapshot in a
mailbox may be saved later than any event, so the invariant says of every
snapshot in every mailbox of every generation what it says of the saved ones,
of the state what its phase implies, and that the journal is contiguous. The
lemmas `Good...` say that a copy that is good stays so when the journal grows,
is rewritten or is reopened.

**ActorSystem** (`ActorSystemProofs`): `RegisteredStoppable`, `StopOnce`,
`RegisteredStarted`, `NoStall`, the types and `PathsAgree` for any number of actors,
names, depth and signals. Of the constants it asks that a name holds no slash
and no blank (a name with one is the last entry of section 6) and that
`MaxDepth` is at least 2, which `MAX_ACTOR_DEPTH = 100` is.
`IndInv` is `Core` (types; a call is answered once; every sender is under its
actor's path and leads to an actor not yet told to stop; a registry entry is
under its actor's path; a Stop in a channel was sent once), `SignalInv` and
`TaskInv` (a `Stopped` that the System is sent, or is handling, is about the
path of a child that has ended) and `Stoppable` (what `RegisteredStoppable`
says; an actor waits for one child at a time; and while it does, no older child
of its own is registered under the path of that one). The stale `Stopped` of
section 6 and a client's `remove_child` are why the System's case of
`RegisteredStoppable` needs its last disjunct, and `SignalInv` is what confines
the former. `EmitInv` says in which stages an actor may be emitting what.

`NoStall` says of every set of actors, some of which wait, and which holds all
that they wait for, that one of them goes on, or waits for the SystemRunner, or
is a startup that waits for the actor that waits for it. Its argument: actors are older than those they
create (`WaitInv`), and whoever waits for room waits for an older one, whose
channel is full, so that this one has a signal to take or waits as well
(`FullSupervisor`). The oldest of those that wait therefore waits for a startup;
the youngest such startup waits for none itself, so that it waits for room, in
the channel of its creator (`WaitsEnd`). It is a theorem for any tree and any
signal buffer, and false without its exception, see section 6.

**ActorPath** (`ActorPathProofs`), for paths of any length over any names of
one part: `Display` followed by `From` yields the path (`PathsReadBack`), the
text test of `is_ancestor_of` holds exactly for the prefixes that `at_level`
yields (`AncestorsAreLevels`), children are the descendants of the next level
(`ChildrenAreNext`), and `/` makes a child exactly of a text with one name
(`OneNameMakesAChild`). The run checks `PathsAgree` for paths of up to four
names; these theorems are where it follows from for all.

**Runner** (`RunnerProofs`): type correctness, `AnsweredByOwnHandling`,
`WaitingIsQueued`, `FullRetries`, `BackoffsInOrder`, and `SimulatesActorLife`, the safety half of
the refinement. `IndInv` relates the counter to the number of failures in a
row and to whether the creator was answered (`RetryInv`), says that no message
is queued twice or from a call to come (`MailboxInv`), and that each attempt
puts one message into the mailbox that is handled once (`ClientInv`).

**Messaging** (`MessagingProofs`): type correctness, `WaitersAreOwed`,
`EventsAccounted` and `EndsWithTheLast`, for any parties, any `Calls`
(circular ones included) and any sizes. The calls and the events share only
`at`, so that they have an invariant each: `CallInv` is the types with
`WaitersAreOwed`, which is inductive once it says that exactly one place, in
the handler or in the mailbox, holds the answer; `EventInv` says of every
subscription that its next event lies between its start and the newest, that
what was seen and what was missed partition what lies between, and that a
missed event is older than the buffer. `NoDeadlock` holds when `Calls` descend
in some order of the actors (`CallsDescend`): of the actors that wait, one has
the least rank, and the one it waits for neither waits nor is idle. Without the
assumption it is false, see section 6; `MCMessaging` has it as an ASSUME.

**Snapshot actor and stores** (`SnapshotActorProofs`), for any ids, keys,
versions, mailboxes and faults: type correctness, `SnapshotsInOrder`,
`SavedNeverGoesBack`, `ReadYourSaves`, and `ImplementsStores`, the whole
refinement. The three about snapshots assume that no snapshot actor's id begins
with the id of a store that is purged (`ActorsApart`), the refinement that no
id at all does (`PurgesApart`). They are about the ids an application chooses,
the code checks neither, and without them a purge deletes what another id
stored. In the instance of the runs `stores` and `stores_prefix` the prefixes
do overlap, in the direction that both allow (`InstanceApart`): scans meet the
other id, purges do not. The types and `IterationComplete` need neither.
`SnapshotsInOrder` needs the types and that an actor's own snapshotter is the
only one on its store; `ReadYourSaves` that the last save told is the last in
the mailbox or, with none there, what is stored (`ToldInv`); the refinement
that what a purge has still to remove is all its store has left (`LeftInv`),
which the interleaved writes keep since none is to the store being purged.

`IterationComplete` is proved for stores of any number of keys whose scan meets
no other. A scan is the list of a finite set of naturals in their order: it
exists, is onto and is unique (`ListExists`, `ListIsOnto`, `ListIsUnique`), so
that the scan of the keyspace is the scan of the map (`PrefixIteratorIs`). A
filter that passes the entries from an index on yields these (`FilterIs`); a
page is then a stretch of the scan, and the next page begins where it ends
(`PageJoins`, `PagesAreAll`). The same lemmas show that `ScansSeeOwn`, which
`stores_prefix` finds violated, holds when no id begins with another
(`ScansSeeOwnHolds`): such ids are its only cause.

Two notes on how the models are written for these proofs. Induction over
data is done with a set of naturals (`Induction` in `StoreProofs`, from the
library's theorem that `<` is well-founded), not with the library's induction
theorems, which take an operator. And `SelectSeq` and `SortSeq` are opaque to
the provers, so that `From`, `Filter` and `Sorted` are written as a recursive
function, a recursive function and a CHOOSE; the proofs show that what they
define exists.

Checked by TLC only: all liveness (`StopTerminates`, `StartupDecided`,
`ShutdownCompletes`, `CallsReturn`, `SinksEnd`, the liveness half of `ImplementsActorLife`), which is out of tlapm's reach. Every
other property of the runs that pass is a theorem.

## 6. Where code and comments disagree

With a run and an entry under `findings`:

* `persistent_replay`: without a snapshot `init_state` replays from position 1
  (`store/persist.rs:105`), so the first event is not recovered.
* `system_lookup`: the `Stopped` of an earlier actor takes its successor out
  of the registry (`system.rs:632`); two concurrent `create_actor` calls of
  one path, which both pass the check at `system.rs:444`, lead to the same.
* `system_orphans`: the default `on_child_error` of the System
  (`system.rs:202`) takes grandchildren out of the registry without stopping
  them.
* `runner_backoffs`: `supervision.rs:58` and `supervision.rs:176` let one
  specify a different delay for each retry; a strategy is made anew for every
  retry of a startup (`runner.rs:123`), which therefore waits the first delay
  each time.
* `stores_prefix`: `last` of the store of an id yields the entry of another id
  that begins with the same characters (`store/stores/fjall.rs:165`), 1 and 10
  for example. `iter` and `purge` do the same; a journal that is created
  over such an id takes the other's last key for its own.

Read in the code, without a run of their own. The modules state some of these
as definitions that no configuration checks, so that TLC shows a trace when one
is added. Persistence:

* A retried startup of a persistent actor finds the children of the first
  attempt registered (`store/persist.rs:147`, `system.rs:444`) and can never
  succeed, against `supervision.rs:45`; so does every Restart, which leaves the
  children registered too (`RetryRecovers`; in `MCPersistent.cfg`, with
  `MayCrash = FALSE`, TLC shows the Restart).
* `import` does not read back what `export` wrote (`ImportRestoresExport`, in
  `MCJournal.cfg`, against `store/journal.rs:228`, `236` and `258`): it empties the journal,
  finds no record in the compressed bytes, and answers Ok. Any other read error,
  at the first record or in the middle of the file, is answered Ok as well
  (`store/journal.rs:264`).
* The snapshot that `flush` tells the snapshotter in `pre_stop`
  (`store/persist.rs:404`) may be overtaken by the Stop that follows it on
  another channel, and is lost then.
* `insert` accepts any position (`store/journal.rs:108`) and does not advance
  `next_sequence`: with `InsertAhead = 1`, `LatestIsLast` does not hold.
* `persist` answers an error for an event that `apply_event` refused and that
  is in the journal nevertheless (`store/persist.rs:241`).
* A snapshotter answers a read error as if there were no snapshot
  (`store/snapshotter.rs:79`): the actor starts with its initial state, and its
  next save replaces a good snapshot.
* A Restart of a snapshot actor ends its snapshotter and leaves it in the
  registry, so that `init_state` fails ever after. A `flush` in `post_stop`, as
  in the module's test, runs when the snapshotter is gone.

Supervision:

* `stop_children` empties the registry of the children, so a parent of several
  ends at the first `Stopped` (`runner.rs:196`), its others still running.
* `create_child` need not return (`CreationsReturn`, in `MCActorSystem.cfg`):
  a child whose `pre_start` emits into the full channel of its supervisor waits
  for it, and the supervisor, inside `create_child`, waits for the child
  (`actor.rs:458-494`). No Stop reaches either of
  them then, and their ancestors wait for a `Stopped` that does not come.
  `NoStall` is what holds.
* The SystemRunner, once cancelled, ends at the first `Stopped` after which no
  top-level actor is registered, while others of them that `stop_children` has
  taken out of the registry still run (`ShutdownAwaitsActors`, in
  `MCActorSystemLive.cfg`; `system.rs:361`). `ShutdownCompletes` says that the
  loop ends, not that its actors have ended before it.
* An actor that has taken its Stop goes on handling messages; a child it
  creates then is stopped by nobody, and the actor waits for it forever
  (`runner.rs:219`).
* A Restart of an actor with the default strategy (`Stop`) ends it
  (`runner.rs:275`, `actor.rs:414`).
* A strategy that is used twice, as `retry_ask` may be handed, keeps its
  maximum while its durations run out (`supervision.rs:194`).
* The default `on_child_error` is documented to do nothing (`actor.rs:148`)
  and emits the error to the parent.

Messages, events and paths:

* `tell` is documented to answer an error when the mailbox is full
  (`handler.rs:124`) and waits for room instead. Calls in a circle, tells
  included, can therefore wait for each other forever: with `<<b, a>>` added to
  `Calls`, `NoDeadlock` does not hold.
* `tell` and `ask` hand the handler the receiver's own path as the sender's
  (`actor.rs:599-615`).
* `event_buffer_size` of the configuration is not used; the buffer has the size
  of the mailbox (`runner.rs:57`), rounded up to a power of two.
* `emit_event` errs only when there is no receiver at all, which is not so of a
  registered actor: its own `ActorRef` holds one.
* A name with a `/` or of blanks makes a path of more or fewer levels than one
  (`path.rs:197`): such an actor is no child of the actor that creates it.

## 7. Not modelled, and the plan

Done: every component of section 1. Not modelled: the helpers registry (a map
behind one lock, each operation one insert or one read, which nothing in the
repository reacts to), error types and crate roots (data only), benchmarks,
logging.

Next, in this order:

1. An abstract durable log (append, acknowledge, crash, recover), refined by
   `Journal` and by `Persistent` with the exemptions named in `Exempt`, as a
   theorem.
2. `IterationComplete` for pages that are read while entries are added.
