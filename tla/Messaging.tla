----------------------------- MODULE Messaging -----------------------------
(***************************************************************************)
(* Actors that tell and ask each other (actor/src/handler.rs) while their  *)
(* handlers publish events to subscribers (actor/src/event.rs).            *)
(*                                                                         *)
(* A handler runs inside the loop that takes messages, so an actor whose   *)
(* handler waits takes no message.  Both tell and ask wait for room in the *)
(* mailbox of the receiver; an ask then waits for its answer, which comes  *)
(* from the handler or, as an error, from the end of the receiver's runner *)
(* with whose mailbox it is dropped.  Publishing never waits: a broadcast  *)
(* buffer keeps the newest events, and an EventManager that is behind it   *)
(* skips to the oldest one kept.                                           *)
(*                                                                         *)
(* Startups, restarts and children are not of this module; an actor is up  *)
(* until its runner ends, between two messages or by a panic in one.       *)
(* ActorRef::tell and ask give the receiver's own path as the sender, so   *)
(* a handler learns nothing of who sent its message.                       *)
(***************************************************************************)
EXTENDS Integers, Sequences, FiniteSetsExt, Functions

CONSTANTS
    Actors,
    Clients,       \* tasks outside the actors that call them
    Sinks,         \* EventManagers
    Source,        \* the actor that an EventManager is subscribed to
    Calls,         \* who may call whom: <<caller, actor>>
    MailboxSize,   \* Config::mailbox_size
    EventBuffer,   \* capacity of the broadcast channel: the size of the
                   \* mailbox (runner.rs:57), which tokio rounds up to a
                   \* power of two
    MaxCalls,      \* bound: calls that are made
    MaxEvents      \* bound: events that an actor publishes

Parties == Actors \cup Clients \cup Sinks

ASSUME MessagingAssumption ==
    /\ Actors \cap Clients = {} /\ Actors \cap Sinks = {}
    /\ Clients \cap Sinks = {}
    /\ Source \in [Sinks -> Actors]
    /\ Calls \subseteq Parties \X Actors
    /\ MailboxSize \in Nat \ {0}
    /\ EventBuffer \in Nat /\ EventBuffer >= MailboxSize
    /\ MaxCalls \in Nat /\ MaxEvents \in Nat

VARIABLES
    at,         \* what a party is doing
    call,       \* the call it is in, if any
    mailbox,    \* the messages an actor has yet to take
    current,    \* the message its handler is at, if any
    made,       \* calls made so far
    emitted,    \* events an actor has published, numbered from 1
    start,      \* the first event after the subscription of a sink, or 0
    next,       \* the event a sink reads next
    seen,       \* history: the events its handler was notified of
    lagged      \* history: the events it was told it missed

calling == <<at, call, mailbox, current, made>>
events == <<emitted, start, next, seen, lagged>>
vars == <<calling, events>>

None == <<>>
Blocked == {"sending", "waiting"}

Init ==
    /\ at = [p \in Parties |-> "free"]
    /\ call = [p \in Parties |-> None]
    /\ mailbox = [a \in Actors |-> <<>>]
    /\ current = [a \in Actors |-> None]
    /\ made = 0
    /\ emitted = [a \in Actors |-> 0]
    /\ start = [s \in Sinks |-> 0]
    /\ next = [s \in Sinks |-> 0]
    /\ seen = [s \in Sinks |-> {}]
    /\ lagged = [s \in Sinks |-> {}]

-----------------------------------------------------------------------------
(* Calls. *)

\* Where a call returns to: the handler it was made in, if any.
Resumed(p) == IF p \in Clients THEN "free" ELSE "busy"

\* A client, a handler or an event handler makes a call.
Call(p, a, ask) ==
    /\ <<p, a>> \in Calls
    /\ at[p] = Resumed(p)
    /\ made < MaxCalls
    /\ made' = made + 1
    /\ at' = [at EXCEPT ![p] = "sending"]
    /\ call' = [call EXCEPT ![p] = [to |-> a, ask |-> ask]]
    /\ UNCHANGED <<mailbox, current, events>>

\* Mutant: a mailbox that is full takes one more.
SendOverfull(p) ==
    /\ at[p] = "sending"
    /\ LET to == call[p].to
       IN  /\ at[to] # "ended"
           /\ Len(mailbox[to]) <= MailboxSize
           /\ mailbox' = [mailbox EXCEPT ![to] =
                            Append(@, [from |-> p, ask |-> call[p].ask])]
    /\ IF call[p].ask
       THEN /\ at' = [at EXCEPT ![p] = "waiting"]
            /\ UNCHANGED call
       ELSE /\ at' = [at EXCEPT ![p] = Resumed(p)]
            /\ call' = [call EXCEPT ![p] = None]
    /\ UNCHANGED <<current, made, events>>

\* mpsc::Sender::send: there is room.  A tell returns, an ask awaits the
\* oneshot.
Send(p) ==
    /\ at[p] = "sending"
    /\ LET to == call[p].to
       IN  /\ at[to] # "ended"
           /\ Len(mailbox[to]) < MailboxSize
           /\ mailbox' = [mailbox EXCEPT ![to] =
                            Append(@, [from |-> p, ask |-> call[p].ask])]
    /\ IF call[p].ask
       THEN /\ at' = [at EXCEPT ![p] = "waiting"]
            /\ UNCHANGED call
       ELSE /\ at' = [at EXCEPT ![p] = Resumed(p)]
            /\ call' = [call EXCEPT ![p] = None]
    /\ UNCHANGED <<current, made, events>>

\* mpsc::Sender::send: the mailbox is closed.
SendFails(p) ==
    /\ at[p] = "sending"
    /\ at[call[p].to] = "ended"
    /\ at' = [at EXCEPT ![p] = Resumed(p)]
    /\ call' = [call EXCEPT ![p] = None]
    /\ UNCHANGED <<mailbox, current, made, events>>

\* The loop takes a message and calls the handler.
Take(a) ==
    /\ at[a] = "free"
    /\ mailbox[a] # <<>>
    /\ at' = [at EXCEPT ![a] = "busy"]
    /\ current' = [current EXCEPT ![a] = Head(mailbox[a])]
    /\ mailbox' = [mailbox EXCEPT ![a] = Tail(@)]
    /\ UNCHANGED <<call, made, events>>

\* The caller, if any, that waits for the answer to a message.
Asker(message) == IF message # None /\ message.ask THEN {message.from} ELSE {}

\* The calls of the parties in callers return, and a is at here.
Return(callers, a, here) ==
    /\ at' = [p \in Parties |->
                IF p = a THEN here
                ELSE IF p \in callers THEN Resumed(p) ELSE at[p]]
    /\ call' = [p \in Parties |-> IF p \in callers THEN None ELSE call[p]]

\* Mutant: the result is sent to nobody.
FinishUnanswered(a) ==
    /\ a \in Actors
    /\ at[a] = "busy"
    /\ Return({}, a, "free")
    /\ current' = [current EXCEPT ![a] = None]
    /\ UNCHANGED <<mailbox, made, events>>

\* ActorMessage::handle: the handler returns, its result is the answer.
Finish(a) ==
    /\ a \in Actors
    /\ at[a] = "busy"
    /\ Return(Asker(current[a]), a, "free")
    /\ current' = [current EXCEPT ![a] = None]
    /\ UNCHANGED <<mailbox, made, events>>

\* Mutant: the callers of messages not taken yet get no answer.
RunnerEndsSilently(a) ==
    /\ at[a] \in {"free", "busy"}
    /\ Return(Asker(current[a]), a, "ended")
    /\ current' = [current EXCEPT ![a] = None]
    /\ mailbox' = [mailbox EXCEPT ![a] = <<>>]
    /\ UNCHANGED <<made, events>>

\* The runner stops between two messages, or a handler panics: with the
\* mailbox the oneshots of its messages are dropped.
RunnerEnds(a) ==
    /\ at[a] \in {"free", "busy"}
    /\ Return(UNION {Asker(m) : m \in {current[a]} \cup Range(mailbox[a])}, a,
              "ended")
    /\ current' = [current EXCEPT ![a] = None]
    /\ mailbox' = [mailbox EXCEPT ![a] = <<>>]
    /\ UNCHANGED <<made, events>>

-----------------------------------------------------------------------------
(* Events. *)

\* ActorContext::emit_event in a handler.  The actor's own ActorRef in the
\* registry holds a receiver, so the broadcast has one and succeeds.
Emit(a) ==
    /\ at[a] = "busy"
    /\ emitted[a] < MaxEvents
    /\ emitted' = [emitted EXCEPT ![a] = @ + 1]
    /\ UNCHANGED <<calling, start, next, seen, lagged>>

\* ActorRef::subscribe: a receiver yields the events from the next one on.
Newest(s) == emitted[Source[s]] + 1

\* System::add_event_handler: the EventManager of a new receiver is spawned.
Subscribe(s) ==
    /\ start[s] = 0
    /\ start' = [start EXCEPT ![s] = Newest(s)]
    /\ next' = [next EXCEPT ![s] = Newest(s)]
    /\ UNCHANGED <<calling, emitted, seen, lagged>>

\* The oldest event in the buffer.
Oldest(s) == emitted[Source[s]] - EventBuffer + 1

\* EventManager::start waits for an event.
Listening(s) == start[s] > 0 /\ at[s] = "free"

\* recv yields an event, the handler is notified.
Receive(s) ==
    /\ Listening(s)
    /\ next[s] >= Oldest(s)
    /\ next[s] <= emitted[Source[s]]
    /\ at' = [at EXCEPT ![s] = "busy"]
    /\ seen' = [seen EXCEPT ![s] = @ \cup {next[s]}]
    /\ next' = [next EXCEPT ![s] = @ + 1]
    /\ UNCHANGED <<call, mailbox, current, made, emitted, start, lagged>>

\* Mutant: one event more is skipped than is reported.
LagSkipsMore(s) ==
    /\ Listening(s)
    /\ next[s] < Oldest(s)
    /\ next' = [next EXCEPT ![s] = Oldest(s) + 1]
    /\ lagged' = [lagged EXCEPT ![s] = @ \cup next[s]..(Oldest(s) - 1)]
    /\ UNCHANGED <<calling, emitted, start, seen>>

\* Mutant: the loop ends at a lag as it does at the end of the channel.
LagBreaks(s) ==
    /\ Listening(s)
    /\ next[s] < Oldest(s)
    /\ at' = [at EXCEPT ![s] = "ended"]
    /\ UNCHANGED <<call, mailbox, current, made, events>>

\* recv yields RecvError::Lagged.
Lag(s) ==
    /\ Listening(s)
    /\ next[s] < Oldest(s)
    /\ next' = [next EXCEPT ![s] = Oldest(s)]
    /\ lagged' = [lagged EXCEPT ![s] = @ \cup next[s]..(Oldest(s) - 1)]
    /\ UNCHANGED <<calling, emitted, start, seen>>

\* notify returns.
Notified(s) ==
    /\ s \in Sinks
    /\ at[s] = "busy"
    /\ at' = [at EXCEPT ![s] = "free"]
    /\ UNCHANGED <<call, mailbox, current, made, events>>

\* Mutant: the loop goes on at the end of the channel as it does at a lag.
CloseIgnored(s) ==
    /\ Listening(s)
    /\ next[s] > emitted[Source[s]]
    /\ at[Source[s]] = "ended"
    /\ UNCHANGED vars

\* recv yields RecvError::Closed: no event is left and the publisher's runner
\* has dropped its sender.
Close(s) ==
    /\ Listening(s)
    /\ next[s] > emitted[Source[s]]
    /\ at[Source[s]] = "ended"
    /\ at' = [at EXCEPT ![s] = "ended"]
    /\ UNCHANGED <<call, mailbox, current, made, events>>

-----------------------------------------------------------------------------
Next ==
    \/ \E p \in Parties :
        \/ \E a \in Actors, ask \in BOOLEAN : Call(p, a, ask)
        \/ Send(p) \/ SendFails(p)
    \/ \E a \in Actors : Take(a) \/ Finish(a) \/ RunnerEnds(a) \/ Emit(a)
    \/ \E s \in Sinks :
        Subscribe(s) \/ Receive(s) \/ Lag(s) \/ Notified(s) \/ Close(s)

Spec == Init /\ [][Next]_vars

\* A task that can go on does, and handlers return once what they call does.
\* A sender cannot be overtaken for ever: tokio serves them in their order.
Fairness ==
    /\ \A p \in Parties : WF_vars(Send(p)) /\ WF_vars(SendFails(p))
    /\ \A a \in Actors : WF_vars(Take(a)) /\ WF_vars(Finish(a))
    /\ \A s \in Sinks :
        /\ WF_vars(Receive(s)) /\ WF_vars(Lag(s))
        /\ WF_vars(Notified(s)) /\ WF_vars(Close(s))

FairSpec == Spec /\ Fairness

-----------------------------------------------------------------------------
(* Properties. *)

CallsMade == [to : Actors, ask : BOOLEAN]
Messages == [from : Parties, ask : BOOLEAN]

\* The types of the channels, of the calls and of the subscriptions.
TypeOK ==
    /\ at \in [Parties -> {"free", "busy", "ended"} \cup Blocked]
    /\ \A p \in Clients : at[p] \in {"free"} \cup Blocked
    /\ call \in [Parties -> CallsMade \cup {None}]
    /\ \A p \in Parties : call[p] # None <=> at[p] \in Blocked
    /\ mailbox \in [Actors -> Seq(Messages)]
    /\ \A a \in Actors : Len(mailbox[a]) <= MailboxSize
    /\ current \in [Actors -> Messages \cup {None}]
    /\ \A a \in Actors : current[a] # None <=> at[a] \in {"busy"} \cup Blocked
    /\ made \in 0..MaxCalls
    /\ emitted \in [Actors -> 0..MaxEvents]
    /\ start \in [Sinks -> 0..(MaxEvents + 1)]
    /\ next \in [Sinks -> 0..(MaxEvents + 1)]
    /\ seen \in [Sinks -> SUBSET (1..MaxEvents)]
    /\ lagged \in [Sinks -> SUBSET (1..MaxEvents)]

\* The places of the messages that actor a has to answer to p: 0 is the
\* handler, i the i-th of the mailbox.
Owed(a, p) ==
    {i \in 0..Len(mailbox[a]) :
        Asker(IF i = 0 THEN current[a] ELSE mailbox[a][i]) = {p}}

\* A caller that waits for an answer is owed exactly one, by an actor that is
\* up; nobody else is owed one, so that no answer finds another call of its
\* asker (actor/src/handler.rs:165, 54).
WaitersAreOwed ==
    \A p \in Parties, a \in Actors :
        IF at[p] = "waiting" /\ call[p].to = a
        THEN at[a] # "ended" /\ \E i \in Owed(a, p) : Owed(a, p) = {i}
        ELSE Owed(a, p) = {}

\* p can go on without waiting for another.
Moves(p) ==
    \/ at[p] = "sending" /\ (\/ at[call[p].to] = "ended"
                             \/ Len(mailbox[call[p].to]) < MailboxSize)
    \/ p \in Actors /\ at[p] = "busy"
    \/ p \in Actors /\ at[p] = "free" /\ mailbox[p] # <<>>

\* As long as actors call each other in one direction only, no wait of
\* handlers, clients and event handlers for room or for an answer is
\* circular.  Event handlers may call the actor they are subscribed to, since
\* nobody waits for an event handler (actor/src/actor.rs:613, 599).
NoDeadlock ==
    (\E p \in Parties : at[p] \in Blocked) => \E p \in Parties : Moves(p)

\* Every tell and every ask returns, although runners end and panic at any
\* moment with messages in their mailboxes (actor/src/handler.rs:126, 153).
CallsReturn == \A p \in Parties : at[p] \in Blocked ~> at[p] \notin Blocked

\* An event handler was notified of each event since its subscription or its
\* EventManager was told that it missed it, never both
\* (actor/src/event.rs:36).
EventsAccounted ==
    \A s \in Sinks :
        /\ seen[s] \cup lagged[s] = start[s]..(next[s] - 1)
        /\ seen[s] \cap lagged[s] = {}

\* What an EventManager misses is never among the last events: when it ends,
\* its handler was notified of as many as the buffer holds
\* (actor/src/event.rs:42).
EndsWithTheLast ==
    \A s \in Sinks : at[s] = "ended" =>
        Max({start[s], Oldest(s)})..emitted[Source[s]] \subseteq seen[s]

\* An EventManager ends after the actor it is subscribed to
\* (actor/src/event.rs:42).
SinksEnd ==
    \A s \in Sinks :
        at[Source[s]] = "ended" /\ start[s] > 0 ~> at[s] = "ended"
=============================================================================
