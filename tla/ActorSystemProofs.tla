------------------------- MODULE ActorSystemProofs -------------------------
(***************************************************************************)
(* Proofs about ActorSystem: whatever races, an actor that is registered   *)
(* is the one its creator can stop, and no actor is stopped twice.         *)
(***************************************************************************)
EXTENDS ActorSystem, ActorPathProofs

NoStop(q) == \A i \in DOMAIN q : q[i] # "Stop"
OneStop(q) == \A i, j \in DOMAIN q : q[i] = "Stop" /\ q[j] = "Stop" => i = j

\* The part of the types that the proofs need.
Types ==
    /\ spawned \in 0..MaxActors
    /\ path \in [Ids -> Seq(Names)]
    /\ parent \in [Ids -> Supervisors]
    /\ DOMAIN stage = Ids
    /\ reply = [a \in Ids |-> reply[a]]
    /\ acts \in [Ids -> Seq(Actions)]
    /\ DOMAIN senders = Supervisors
    /\ told \subseteq Ids /\ halted \subseteq Ids

\* A call is answered once: an actor that starts has not answered yet.
CallInv ==
    \A a \in Ids :
        /\ reply[a] # "unused" => a <= spawned
        /\ reply[a] = "unused" => stage[a] = "unused"
        /\ stage[a] = "starting" => reply[a] = "waiting"

\* Every sender is held by the creator of its actor, under the actor's path,
\* and leads to an actor that was not told to stop.
SenderInv ==
    \A s \in Supervisors : \A p \in DOMAIN senders[s] :
        LET a == senders[s][p]
        IN  /\ a \in Ids /\ path[a] = p /\ parent[a] = s
            /\ reply[a] = "registered" /\ a \notin told

\* An entry of the registry is under the path of its actor.
RegInv == \A p \in DOMAIN registry : registry[p] \in Ids /\ path[registry[p]] = p

\* A Stop was sent before it waits or was taken, and after its creation.
ToldInv ==
    \A a \in Ids :
        /\ a \in told => reply[a] = "registered"
        /\ a \in halted => a \in told
        /\ ~NoStop(acts[a]) => a \in told

\* What does not depend on the signals.
Core ==
    Types /\ CallInv /\ SenderInv /\ RegInv /\ ToldInv /\ RegisteredStarted /\ StopOnce

\* The paths under which a child of the System has ended.
Departures ==
    {path[b] : b \in {c \in Ids : reply[c] # "unused" /\ stage[c] = "ended" /\ parent[c] = System}}

\* Every Stopped that the System is sent is about a path of D.
Good(sigs, D) ==
    /\ sigs \in [Supervisors -> Seq(Kinds \X Seq(Names))]
    /\ \A i \in DOMAIN sigs[System] : sigs[System][i][1] = "Stopped" => sigs[System][i][2] \in D

\* The SystemRunner removes a path only after an actor with it has ended.
SignalInv == Good(signals, Departures)
TaskInv ==
    /\ task = [todo |-> task.todo, at |-> task.at, gone |-> task.gone]
    /\ task.gone \in BOOLEAN
    /\ task.gone => task.todo = {} /\ task.at \in Departures

Pending == {"waiting", "ok", "err", "inserting", "removing"}

\* An actor waits for one child at a time,
SerialInv ==
    \A a, b \in Ids :
        reply[a] \in Pending /\ reply[b] \in Pending /\ parent[a] = parent[b] /\ parent[a] # System
        => a = b

\* and no older child of its own is registered under the path of that one.
FreeInv ==
    \A a, b \in Ids :
        reply[a] \in Pending /\ a # b /\ parent[a] = parent[b] /\ parent[a] # System
        /\ path[a] \in DOMAIN registry => registry[path[a]] # b \/ path[b] # path[a]

Stoppable == RegisteredStoppable /\ SerialInv /\ FreeInv

IndInv == Core /\ SignalInv /\ TaskInv /\ Stoppable

\* An actor that emits is in a hook, a handler or its loop, and a loop begins
\* after the startup.
EmitInv ==
    /\ emitting \in [Ids -> Emissions]
    /\ \A a \in Ids : emitting[a] # "nothing" =>
        /\ stage[a] \notin {"unused", "ended", "finishing"}
        /\ emitting[a] = "LoopFault" => stage[a] # "starting"

-----------------------------------------------------------------------------
(* Action channels. *)

\* What sending an action does to the Stops of a channel.
LEMMA Appended ==
    ASSUME NEW q \in Seq(Actions)
    PROVE  /\ NoStop(q) => OneStop(Append(q, "Stop"))
           /\ OneStop(q) => OneStop(Append(q, "Restart"))
           /\ NoStop(q) => NoStop(Append(q, "Restart"))
           /\ Append(q, "Stop") \in Seq(Actions) /\ Append(q, "Restart") \in Seq(Actions)
BY DEF NoStop, OneStop, Actions

\* What taking an action does to the Stops of a channel.
LEMMA Taken1 ==
    ASSUME NEW q \in Seq(Actions), q # <<>>
    PROVE  /\ Tail(q) \in Seq(Actions)
           /\ OneStop(q) => OneStop(Tail(q))
           /\ NoStop(q) => NoStop(Tail(q))
           /\ OneStop(q) /\ Head(q) = "Stop" => NoStop(Tail(q))
BY DEF NoStop, OneStop, Actions

\* Only paths with a sender are reached.
LEMMA SendsReach ==
    ASSUME NEW s \in Supervisors, NEW C, NEW x \in Sends(s, C)
    PROVE  x.reached \subseteq x.tried /\ x.reached \subseteq DOMAIN senders[s]
<1> DEFINE bad == {p \in C : ~Reachable(s, p)}
<1>1. \A p \in C \ bad : p \in DOMAIN senders[s]
  BY DEF Reachable, Has
<1>2. CASE bad = {}
  <2>1. x = [tried |-> C, reached |-> C]
    BY <1>2 DEF Sends
  <2> QED
    BY <1>1, <1>2, <2>1
<1>3. CASE bad # {}
  <2>1. PICK D \in SUBSET (C \ bad), p \in bad : x = [tried |-> D \cup {p}, reached |-> D]
    BY <1>3 DEF Sends
  <2> QED
    BY <1>1, <2>1
<1> QED
  BY <1>2, <1>3


-----------------------------------------------------------------------------
(* What every step keeps. *)

Held(a) == Has(senders[parent[a]], path[a]) /\ senders[parent[a]][path[a]] = a

\* Actors keep their path and their parent, end once, and remain told.
Onward ==
    /\ \A a \in Ids : reply[a] # "unused" =>
        /\ path'[a] = path[a] /\ parent'[a] = parent[a] /\ reply'[a] # "unused"
        /\ stage[a] = "ended" => stage'[a] = "ended"
    /\ told \subseteq told' /\ forgotten \subseteq forgotten'

\* The registry keeps entries, and gets one only from an actor that is being
\* inserted.
Entries ==
    \A p \in DOMAIN registry' :
        \/ p \in DOMAIN registry /\ registry'[p] = registry[p]
        \/ /\ registry'[p] \in Ids /\ path'[registry'[p]] = p
           /\ reply'[registry'[p]] = "inserting"

\* A sender is lost only together with the entry, or for a reason that
\* RegisteredStoppable names.
Holding ==
    \A a \in Ids : Held(a) =>
        \/ Held(a)'
        \/ path[a] \notin DOMAIN registry' \/ registry'[path[a]] # a
        \/ parent[a] = System /\ (a \in told' \cup forgotten' \/ stage'[a] = "ended" \/ Shared(a))

Inserting == \A a \in Ids : reply[a] = "inserting" => reply'[a] = "inserting" \/ Held(a)'

\* No new call.
Calm == \A a \in Ids : reply'[a] \in Pending => reply[a] \in Pending

\* Departures last.
LEMMA DeparturesLast ==
    ASSUME Onward
    PROVE  Departures \subseteq Departures'
BY DEF Onward, Departures

\* Paths stay shared.
LEMMA SharedLasts ==
    ASSUME Onward, NEW a \in Ids, reply[a] # "unused", Shared(a)
    PROVE  Shared(a)'
BY DEF Onward, Shared

\* RegisteredStoppable is kept by steps with the properties above.
LEMMA RegisteredStep ==
    ASSUME Core, RegisteredStoppable, Onward, Entries, Holding, Inserting
    PROVE  RegisteredStoppable'
<1> SUFFICES ASSUME NEW p \in DOMAIN registry', NEW a, a = registry'[p]
             PROVE  /\ path'[a] = p
                    /\ \/ Has(senders'[parent'[a]], p) /\ senders'[parent'[a]][p] = a
                       \/ reply'[a] = "inserting"
                       \/ parent'[a] = System /\ (a \in told' \cup forgotten' \/ stage'[a] = "ended" \/ Shared(a)')
  BY DEF RegisteredStoppable, Shared
<1>1. CASE p \in DOMAIN registry /\ registry'[p] = registry[p]
  <2>1. a = registry[p] /\ a \in Ids /\ path[a] = p /\ reply[a] \in {"inserting", "registered"}
    BY <1>1 DEF Core, RegInv, RegisteredStarted
  <2>2. path'[a] = path[a] /\ parent'[a] = parent[a] /\ (stage[a] = "ended" => stage'[a] = "ended")
    BY <2>1 DEF Onward
  <2>3. \/ Held(a)
        \/ reply[a] = "inserting"
        \/ parent[a] = System /\ (a \in told \cup forgotten \/ stage[a] = "ended" \/ Shared(a))
    BY <1>1, <2>1 DEF RegisteredStoppable, Held
  <2>4. Shared(a) => Shared(a)'
    BY <2>1, SharedLasts
  <2>5. Held(a)' => Has(senders'[parent'[a]], p) /\ senders'[parent'[a]][p] = a
    BY <2>1, <2>2 DEF Held
  <2>6. \/ Held(a)'
        \/ reply'[a] = "inserting"
        \/ parent[a] = System /\ (a \in told' \cup forgotten' \/ stage'[a] = "ended" \/ Shared(a)')
    <3>1. CASE Held(a)
      BY <2>1, <2>4, <3>1 DEF Holding
    <3>2. CASE reply[a] = "inserting"
      BY <2>1, <3>2 DEF Inserting
    <3>3. CASE parent[a] = System /\ (a \in told \cup forgotten \/ stage[a] = "ended" \/ Shared(a))
      BY <2>2, <2>4, <3>3 DEF Onward
    <3> QED
      BY <2>3, <3>1, <3>2, <3>3
  <2> QED
    BY <2>1, <2>2, <2>5, <2>6
<1>2. CASE a \in Ids /\ path'[a] = p /\ reply'[a] = "inserting"
  BY <1>2
<1> QED
  BY <1>1, <1>2 DEF Entries

\* The same with the calls that are under way.
LEMMA StoppableStep ==
    ASSUME Core, Stoppable, Onward, Entries, Holding, Inserting, Calm
    PROVE  Stoppable'
<1>i. RegisteredStoppable /\ SerialInv /\ FreeInv
  BY DEF Stoppable
<1>1. RegisteredStoppable'
  BY <1>i, RegisteredStep
<1>2. \A a \in Ids : reply'[a] \in Pending =>
        reply[a] \in Pending /\ path'[a] = path[a] /\ parent'[a] = parent[a]
  BY DEF Calm, Onward, Pending
<1>3. \A a \in Ids : reply[a] = "unused" => reply'[a] \notin Pending
  BY DEF Calm, Pending
<1>4. SerialInv'
  BY <1>i, <1>2 DEF SerialInv
<1>5. FreeInv'
  <2> SUFFICES ASSUME NEW a \in Ids, NEW b \in Ids,
                      reply'[a] \in Pending, a # b, parent'[a] = parent'[b], parent'[a] # System,
                      path'[a] \in DOMAIN registry', registry'[path'[a]] = b, path'[b] = path'[a]
               PROVE  FALSE
    BY DEF FreeInv
  <2>1. reply[a] \in Pending /\ path'[a] = path[a] /\ parent'[a] = parent[a]
    BY <1>2
  <2>2. CASE path[a] \in DOMAIN registry /\ registry'[path[a]] = registry[path[a]]
    <3>1. registry[path[a]] = b
      BY <2>1, <2>2
    <3>2. path[b] = path[a] /\ reply[b] # "unused"
      BY <2>2, <3>1 DEF Core, RegInv, RegisteredStarted
    <3>3. parent'[b] = parent[b]
      BY <3>2 DEF Onward
    <3> QED
      BY <1>i, <2>1, <2>2, <3>1, <3>2, <3>3 DEF FreeInv
  <2>3. CASE reply'[b] = "inserting"
    BY <1>4, <2>3 DEF SerialInv, Pending
  <2> QED
    BY <2>1, <2>2, <2>3 DEF Entries
<1> QED
  BY <1>1, <1>4, <1>5 DEF Stoppable

\* Steps that only take entries out of the registry and of the senders, and
\* change no reply of an actor that is registered or being inserted.
LEMMA QuietStep ==
    ASSUME Core, UNCHANGED <<tree, acts, told, halted>>,
           DOMAIN stage' = Ids, reply' = [a \in Ids |-> reply'[a]], DOMAIN senders' = Supervisors,
           \A p \in DOMAIN registry' : p \in DOMAIN registry /\ registry'[p] = registry[p],
           \A s \in Supervisors : \A p \in DOMAIN senders'[s] :
               p \in DOMAIN senders[s] /\ senders'[s][p] = senders[s][p],
           \A a \in Ids : stage'[a] = "starting" => stage[a] = "starting" /\ reply'[a] = reply[a],
           \A a \in Ids : stage[a] = "unused" => stage'[a] = "unused",
           \A a \in Ids : \/ reply'[a] = reply[a]
                          \/ /\ reply[a] \notin {"unused", "inserting", "registered"}
                             /\ reply'[a] # "unused"
    PROVE  Core'
<1>i. Types /\ CallInv /\ SenderInv /\ RegInv /\ ToldInv /\ RegisteredStarted /\ StopOnce
  BY DEF Core
<1>1. Types' /\ CallInv'
  BY <1>i DEF Types, CallInv, tree
<1>2. SenderInv'
  BY <1>i DEF SenderInv, tree
<1>3. ToldInv' /\ StopOnce'
  BY <1>i DEF ToldInv, StopOnce, tree
<1>4. RegInv' /\ RegisteredStarted'
  BY <1>i DEF RegisteredStarted, RegInv, tree
<1> QED
  BY <1>1, <1>2, <1>3, <1>4 DEF Core

-----------------------------------------------------------------------------
(* Taking out of the two maps. *)

\* What Without leaves of the registry.
LEMMA RegistryWithout ==
    ASSUME NEW P, registry' = Without(registry, P)
    PROVE  \A p \in DOMAIN registry' : p \in DOMAIN registry /\ p \notin P /\ registry'[p] = registry[p]
BY DEF Without

\* What is left of the senders of s, and who loses its sender.
LEMMA SendersWithout ==
    ASSUME Core, NEW s \in Supervisors, NEW P,
           senders' = [senders EXCEPT ![s] = Without(@, P)], UNCHANGED tree
    PROVE  /\ DOMAIN senders' = Supervisors
           /\ \A u \in Supervisors : \A p \in DOMAIN senders'[u] :
                  p \in DOMAIN senders[u] /\ senders'[u][p] = senders[u][p] /\ (u = s => p \notin P)
           /\ \A a \in Ids : Held(a) => Held(a)' \/ (parent[a] = s /\ path[a] \in P)
<1>1. DOMAIN senders = Supervisors /\ parent \in [Ids -> Supervisors]
  BY DEF Core, Types
<1>2. /\ DOMAIN senders' = Supervisors /\ senders'[s] = Without(senders[s], P)
      /\ \A u \in Supervisors : u # s => senders'[u] = senders[u]
  BY <1>1
<1>3. /\ \A p \in DOMAIN senders'[s] : p \in DOMAIN senders[s] /\ p \notin P
                                       /\ senders'[s][p] = senders[s][p]
      /\ \A p \in DOMAIN senders[s] \ P : p \in DOMAIN senders'[s]
                                          /\ senders'[s][p] = senders[s][p]
  BY <1>2 DEF Without
<1>4. ASSUME NEW a \in Ids, Held(a)
      PROVE  Held(a)' \/ (parent[a] = s /\ path[a] \in P)
  <2>1. path'[a] = path[a] /\ parent'[a] = parent[a] /\ parent[a] \in Supervisors
    BY <1>1 DEF tree
  <2>2. path[a] \in DOMAIN senders[parent[a]] /\ senders[parent[a]][path[a]] = a
    BY <1>4 DEF Held, Has
  <2>3. CASE parent[a] # s
    <3>1. senders'[parent[a]] = senders[parent[a]]
      BY <1>2, <2>1, <2>3
    <3> QED
      BY <2>1, <2>2, <3>1 DEF Held, Has
  <2>4. CASE parent[a] = s /\ path[a] \notin P
    <3>1. path[a] \in DOMAIN senders'[s] /\ senders'[s][path[a]] = a
      BY <1>3, <2>2, <2>4
    <3> QED
      BY <2>1, <2>4, <3>1 DEF Held, Has
  <2> QED
    BY <2>3, <2>4
<1> QED
  BY <1>2, <1>3, <1>4

\* A call for one path: the actor that holds its sender is told to stop,
\* unless it has ended.
LEMMA SendsOne ==
    ASSUME Core, NEW s \in Supervisors, NEW p, NEW x \in Sends(s, {p})
    PROVE  /\ x.tried = {p}
           /\ \A a \in Ids : Held(a) /\ parent[a] = s /\ path[a] = p =>
                  a \in Targets(s, x.reached) \/ stage[a] = "ended"
<1>1. CASE Reachable(s, p)
  <2>1. {q \in {p} : ~Reachable(s, q)} = {}
    BY <1>1
  <2>2. x = [tried |-> {p}, reached |-> {p}]
    BY <2>1 DEF Sends
  <2>3. ASSUME NEW a \in Ids, Held(a), parent[a] = s, path[a] = p
        PROVE  a \in Targets(s, x.reached)
    BY <2>2, <2>3 DEF Held, Targets
  <2> QED
    BY <2>2, <2>3
<1>2. CASE ~Reachable(s, p)
  <2>1. {q \in {p} : ~Reachable(s, q)} = {p}
    BY <1>2
  <2>2. PICK D \in SUBSET ({p} \ {p}), q \in {p} : x = [tried |-> D \cup {q}, reached |-> D]
    BY <2>1 DEF Sends
  <2>3. ASSUME NEW a \in Ids, Held(a), parent[a] = s, path[a] = p
        PROVE  stage[a] = "ended"
    BY <1>2, <2>3 DEF Held, Reachable
  <2> QED
    BY <2>2, <2>3
<1> QED
  BY <1>1, <1>2

\* The second half of stop_child, for several paths (actor/src/system.rs:586).
LEMMA StopTakenStep ==
    ASSUME Core, NEW s \in Supervisors, NEW x, StopTaken(s, x),
           x.reached \subseteq x.tried, x.reached \subseteq DOMAIN senders[s],
           UNCHANGED <<tree, reply, halted, forgotten>>, DOMAIN stage' = Ids,
           \A p \in DOMAIN registry' : p \in DOMAIN registry /\ registry'[p] = registry[p],
           \A a \in Ids : stage'[a] = "starting" => stage[a] = "starting",
           \A a \in Ids : stage[a] = "unused" => stage'[a] = "unused"
    PROVE  Core'
<1>i. Types /\ CallInv /\ SenderInv /\ RegInv /\ ToldInv /\ RegisteredStarted /\ StopOnce
  BY DEF Core
<1> DEFINE T == Targets(s, x.reached)
<1>t. \A a \in T : \E p \in x.reached : a = senders[s][p]
  BY DEF Targets
<1>u. \A p \in x.reached : senders[s][p] \in T
  BY DEF Targets
<1>0. /\ senders' = [senders EXCEPT ![s] = Without(@, x.tried)]
      /\ acts' = [a \in Ids |-> IF a \in T THEN Append(acts[a], "Stop") ELSE acts[a]]
      /\ told' = told \cup T
      /\ UNCHANGED <<spawned, path, parent, reply, halted, forgotten>>
  BY DEF StopTaken, Sent, tree
<1> HIDE DEF T
<1>2. /\ DOMAIN senders' = Supervisors
      /\ \A u \in Supervisors : \A p \in DOMAIN senders'[u] :
            p \in DOMAIN senders[u] /\ senders'[u][p] = senders[u][p] /\ (u = s => p \notin x.tried)
  <2> DEFINE P == x.tried
  <2>1. senders' = [senders EXCEPT ![s] = Without(@, P)] /\ UNCHANGED tree
    BY <1>0 DEF tree
  <2> HIDE DEF P
  <2>2. /\ DOMAIN senders' = Supervisors
        /\ \A u \in Supervisors : \A p \in DOMAIN senders'[u] :
              p \in DOMAIN senders[u] /\ senders'[u][p] = senders[u][p] /\ (u = s => p \notin P)
    BY <2>1, SendersWithout
  <2> QED
    BY <2>2 DEF P
<1>3. \A a \in T : /\ a \in Ids /\ a \notin told /\ reply[a] = "registered"
                   /\ parent[a] = s /\ path[a] \in x.reached
  BY <1>t, <1>i DEF SenderInv
<1>4. ASSUME NEW a \in Ids
      PROVE  /\ acts'[a] \in Seq(Actions) /\ OneStop(acts'[a])
             /\ a \notin T => acts'[a] = acts[a]
  <2>1. acts[a] \in Seq(Actions) /\ OneStop(acts[a]) /\ (a \in T => NoStop(acts[a]))
    BY <1>3, <1>i DEF Types, StopOnce, OneStop, ToldInv
  <2> QED
    BY <1>0, <2>1, Appended
<1>5. Types'
  <2>1. acts' \in [Ids -> Seq(Actions)]
    BY <1>0, <1>4
  <2>2. told' \subseteq Ids
    BY <1>0, <1>3, <1>i DEF Types
  <2>3. reply' = [a \in Ids |-> reply'[a]]
    BY <1>0, <1>i DEF Types
  <2> HIDE DEF Actions
  <2> QED
    BY <1>0, <1>2, <1>i, <2>1, <2>2, <2>3, Zenon DEF Types
<1>6. CallInv' /\ RegInv'
  BY <1>0, <1>i DEF CallInv, RegInv
<1>7. SenderInv'
  <2> SUFFICES ASSUME NEW u \in Supervisors, NEW p \in DOMAIN senders'[u]
               PROVE  LET a == senders'[u][p]
                      IN  /\ a \in Ids /\ path[a] = p /\ parent[a] = u
                          /\ reply[a] = "registered" /\ a \notin told'
    BY <1>0 DEF SenderInv
  <2>1. /\ p \in DOMAIN senders[u] /\ senders'[u][p] = senders[u][p]
        /\ u = s => p \notin x.tried
    BY <1>2
  <2>2. LET a == senders[u][p]
        IN  /\ a \in Ids /\ path[a] = p /\ parent[a] = u
            /\ reply[a] = "registered" /\ a \notin told
    BY <2>1, <1>i DEF SenderInv
  <2>3. senders[u][p] \notin T
    BY <1>3, <2>1, <2>2
  <2> QED
    BY <1>0, <2>1, <2>2, <2>3
<1>8. ToldInv'
  BY <1>0, <1>3, <1>4, <1>i DEF ToldInv
<1>10. RegisteredStarted'
  BY <1>0, <1>i DEF RegisteredStarted
<1>11. StopOnce'
  <2> SUFFICES ASSUME NEW a \in Ids
               PROVE  OneStop(acts'[a]) /\ (a \in halted => NoStop(acts'[a]))
    BY <1>0 DEF StopOnce, OneStop, NoStop
  <2>1. a \in halted => a \notin T /\ NoStop(acts[a])
    BY <1>3, <1>i DEF ToldInv, StopOnce, NoStop
  <2> QED
    BY <1>4, <2>1
<1> QED
  BY <1>5, <1>6, <1>7, <1>8, <1>10, <1>11 DEF Core

-----------------------------------------------------------------------------
(* Signals. *)

\* More departures make no signal wrong.
LEMMA GoodGrows ==
    ASSUME NEW sigs, NEW D, NEW E, D \subseteq E, Good(sigs, D)
    PROVE  Good(sigs, E)
BY DEF Good

\* A received signal leaves the rest.
LEMMA GoodTail ==
    ASSUME NEW sigs, NEW D, Good(sigs, D), NEW s \in Supervisors, sigs[s] # <<>>
    PROVE  /\ Good([sigs EXCEPT ![s] = Tail(@)], D)
           /\ Head(sigs[s]) \in Kinds \X Seq(Names)
           /\ s = System /\ Head(sigs[s])[1] = "Stopped" => Head(sigs[s])[2] \in D
<1> DEFINE q == sigs[s]
           S == Kinds \X Seq(Names)
<1>1. q \in Seq(S) /\ q # <<>>
  BY DEF Good
<1>2. s = System => \A i \in DOMAIN q : q[i][1] = "Stopped" => q[i][2] \in D
  BY DEF Good
<1>3. sigs \in [Supervisors -> Seq(S)]
  BY DEF Good
<1>4. \A i \in DOMAIN sigs[System] : sigs[System][i][1] = "Stopped" => sigs[System][i][2] \in D
  BY DEF Good
<1> DEFINE t == [sigs EXCEPT ![s] = Tail(@)]
<1>5. t \in [Supervisors -> Seq(S)] /\ t[s] = Tail(q) /\ (s # System => t[System] = sigs[System])
  <2>1. Tail(q) \in Seq(S)
    <3> HIDE DEF q, S
    <3> QED
      BY <1>1
  <2>2. System \in Supervisors
    BY DEF Supervisors
  <2> HIDE DEF S
  <2> QED
    BY <1>3, <2>1, <2>2
<1> HIDE DEF q, S, t
<1>6. Head(q) \in S /\ 1 \in DOMAIN q /\ Head(q) = q[1]
  BY <1>1
<1>7. \A i \in DOMAIN Tail(q) : i + 1 \in DOMAIN q /\ Tail(q)[i] = q[i + 1]
  BY <1>1
<1>8. \A i \in DOMAIN t[System] : t[System][i][1] = "Stopped" => t[System][i][2] \in D
  <2>1. CASE s = System
    BY <1>2, <1>5, <1>7, <2>1
  <2>2. CASE s # System
    BY <1>4, <1>5, <2>2
  <2> QED
    BY <2>1, <2>2
<1>9. Good(t, D)
  BY <1>5, <1>8 DEF Good, S
<1> QED
  BY <1>2, <1>6, <1>9 DEF q, S, t

\* A signal that is sent is the actor's own.
LEMMA GoodSend ==
    ASSUME Core, NEW sigs, NEW D, Good(sigs, D), NEW a \in Ids, NEW kind \in Kinds,
           kind = "Stopped" /\ parent[a] = System => path[a] \in D
    PROVE  Good(WithSignal(sigs, a, kind), D)
<1> DEFINE s == parent[a]
           e == <<kind, path[a]>>
           S == Kinds \X Seq(Names)
           t == [sigs EXCEPT ![s] = Append(@, e)]
<1>1. s \in Supervisors /\ e \in S /\ System \in Supervisors
  BY DEF Core, Types, Supervisors
<1>2. /\ sigs \in [Supervisors -> Seq(S)]
      /\ \A i \in DOMAIN sigs[System] : sigs[System][i][1] = "Stopped" => sigs[System][i][2] \in D
  BY DEF Good
<1>3. s = System => (e[1] = "Stopped" => e[2] \in D)
  OBVIOUS
<1>4. WithSignal(sigs, a, kind) = t \/ WithSignal(sigs, a, kind) = sigs
  BY DEF WithSignal
<1> HIDE DEF s, e, S
<1>5. sigs[s] \in Seq(S) /\ sigs[System] \in Seq(S)
  BY <1>1, <1>2
<1>6. Append(sigs[s], e) \in Seq(S)
  BY <1>1, <1>5
<1>7. t \in [Supervisors -> Seq(S)] /\ t[s] = Append(sigs[s], e) /\ (s # System => t[System] = sigs[System])
  BY <1>1, <1>2, <1>6
<1> HIDE DEF t
<1>8. \A i \in DOMAIN t[System] : t[System][i][1] = "Stopped" => t[System][i][2] \in D
  <2>1. CASE s = System
    <3>1. \A i \in DOMAIN t[System] : t[System][i] = e \/ (i \in DOMAIN sigs[System] /\ t[System][i] = sigs[System][i])
      BY <1>1, <1>5, <1>7, <2>1
    <3> QED
      BY <1>2, <1>3, <2>1, <3>1
  <2>2. CASE s # System
    BY <1>2, <1>7, <2>2
  <2> QED
    BY <2>1, <2>2
<1>9. Good(t, D)
  BY <1>7, <1>8 DEF Good, S
<1> QED
  BY <1>4, <1>9

\* Steps that leave the SystemRunner's call alone.
LEMMA TaskQuiet ==
    ASSUME TaskInv, Onward, UNCHANGED task
    PROVE  TaskInv'
BY DeparturesLast DEF TaskInv

\* Steps that leave the signals alone.
LEMMA SignalQuiet ==
    ASSUME SignalInv, Onward, UNCHANGED signals
    PROVE  SignalInv'
BY DeparturesLast, GoodGrows DEF SignalInv

\* Steps that send a signal, if any, other than Stopped.
LEMMA SignalSends ==
    ASSUME Core, SignalInv, Onward, NEW a \in Ids, NEW kind \in Kinds, kind # "Stopped",
           signals' = signals \/ signals' = WithSignal(signals, a, kind)
    PROVE  SignalInv'
<1>1. Good(signals, Departures')
  BY DeparturesLast, GoodGrows DEF SignalInv
<1>2. Good(WithSignal(signals, a, kind), Departures')
  <2> DEFINE D == Departures'
  <2> HIDE DEF D
  <2>1. Good(signals, D)
    BY <1>1 DEF D
  <2>2. Good(WithSignal(signals, a, kind), D)
    BY <2>1, GoodSend
  <2> QED
    BY <2>2 DEF D
<1> QED
  BY <1>1, <1>2 DEF SignalInv

-----------------------------------------------------------------------------
(* The steps that leave the registry and the senders alone. *)

\* Steps that do not change the two maps.
LEMMA MapsKept ==
    ASSUME Core, Stoppable, Onward, UNCHANGED <<registry, senders, tree>>,
           \A a \in Ids : reply[a] = "inserting" => reply'[a] = "inserting",
           Calm
    PROVE  Stoppable'
<1>1. Entries
  BY DEF Entries
<1>2. Holding
  BY DEF Holding, Held, tree
<1>3. Inserting
  BY DEF Inserting
<1> QED
  BY <1>1, <1>2, <1>3, StoppableStep

\* Steps of one actor's runner that change its stage and its reply only, apart
\* from signals.
LEMMA RunnerStep ==
    ASSUME IndInv, NEW a \in Ids, NEW st, NEW re,
           UNCHANGED <<registry, tree, acts, senders, history, task>>,
           stage' = [stage EXCEPT ![a] = st], reply' = [reply EXCEPT ![a] = re],
           st # "starting", stage[a] \notin {"unused", "ended"},
           re = reply[a] \/ (reply[a] = "waiting" /\ re # "unused")
    PROVE  Core' /\ Onward /\ TaskInv' /\ Stoppable'
<1>i. Core /\ TaskInv /\ Stoppable /\ DOMAIN stage = Ids /\ reply = [b \in Ids |-> reply[b]]
      /\ DOMAIN senders = Supervisors
  BY DEF IndInv, Core, Types
<1>1. /\ DOMAIN stage' = Ids /\ reply' = [b \in Ids |-> reply'[b]]
      /\ stage'[a] = st /\ reply'[a] = re
      /\ \A b \in Ids \ {a} : stage'[b] = stage[b] /\ reply'[b] = reply[b]
  BY <1>i
<1>2. Core'
  BY <1>1, <1>i, QuietStep DEF history
<1>3. Onward
  BY <1>1 DEF Onward, tree, history
<1>4. TaskInv'
  BY <1>3, <1>i, TaskQuiet
<1>5. Stoppable'
  <2>1. Calm
    BY <1>1 DEF Calm, Pending
  <2> QED
    BY <1>1, <1>3, <1>i, <2>1, MapsKept
<1> QED
  BY <1>2, <1>3, <1>4, <1>5

\* The end of pre_start keeps the invariant.
LEMMA PreStartInd ==
    ASSUME IndInv, NEW a \in Ids, PreStart(a)
    PROVE  IndInv'
<1>1. PICK ok \in BOOLEAN :
        /\ stage' = [stage EXCEPT ![a] = IF ok THEN "running" ELSE "finishing"]
        /\ reply' = IF stage[a] = "starting"
                    THEN [reply EXCEPT ![a] = IF ok THEN "ok" ELSE "err"] ELSE reply
  BY DEF PreStart
<1> DEFINE st == IF ok THEN "running" ELSE "finishing"
           re == IF stage[a] = "starting" THEN (IF ok THEN "ok" ELSE "err") ELSE reply[a]
<1>2. st # "starting" /\ stage[a] \notin {"unused", "ended"} /\ stage' = [stage EXCEPT ![a] = st]
  BY <1>1 DEF PreStart
<1>3. re = reply[a] \/ (reply[a] = "waiting" /\ re # "unused")
  BY DEF IndInv, Core, CallInv
<1>4. reply' = [reply EXCEPT ![a] = re]
  BY <1>1 DEF IndInv, Core, Types
<1>5. UNCHANGED <<registry, tree, acts, senders, history, task>> /\ UNCHANGED signals
  BY DEF PreStart, runner
<1> HIDE DEF st, re
<1>6. Core' /\ Onward /\ TaskInv' /\ Stoppable'
  BY <1>2, <1>3, <1>4, <1>5, RunnerStep
<1> QED
  BY <1>5, <1>6, SignalQuiet DEF IndInv

\* A panic in pre_start keeps it.
LEMMA PreStartPanicsInd ==
    ASSUME IndInv, NEW a \in Ids, PreStartPanics(a)
    PROVE  IndInv'
<1>1. reply[a] = "waiting" /\ stage[a] \notin {"unused", "ended"}
  BY DEF PreStartPanics, IndInv, Core, CallInv
<1>2. /\ stage' = [stage EXCEPT ![a] = "ended"] /\ reply' = [reply EXCEPT ![a] = "err"]
      /\ UNCHANGED <<registry, tree, acts, senders, history, task>> /\ UNCHANGED signals
  BY DEF PreStartPanics, runner
<1>3. Core' /\ Onward /\ TaskInv' /\ Stoppable'
  BY <1>1, <1>2, RunnerStep
<1> QED
  BY <1>2, <1>3, SignalQuiet DEF IndInv

\* Steps of a runner that change no reply, and send no Stopped.
LEMMA LoopStep ==
    ASSUME IndInv, NEW a \in Ids, NEW st, NEW kind \in Kinds, kind # "Stopped",
           UNCHANGED <<registry, tree, reply, acts, senders, history, task>>,
           stage' = [stage EXCEPT ![a] = st], st # "starting", stage[a] \notin {"unused", "ended"},
           signals' = signals \/ signals' = WithSignal(signals, a, kind)
    PROVE  IndInv'
<1>1. reply' = [reply EXCEPT ![a] = reply[a]]
  BY DEF IndInv, Core, Types
<1>2. Core' /\ Onward /\ TaskInv' /\ Stoppable'
  BY <1>1, RunnerStep
<1>3. SignalInv'
  BY <1>2, SignalSends DEF IndInv
<1> QED
  BY <1>2, <1>3 DEF IndInv

\* A panic of a handler or a hook keeps it.
LEMMA PanicsInd ==
    ASSUME IndInv, NEW a \in Ids, Panics(a)
    PROVE  IndInv'
<1>1. stage[a] \notin {"unused", "ended"} /\ reply' = [reply EXCEPT ![a] = reply[a]]
  BY DEF Panics, InHook, IndInv, Core, Types
<1>2. /\ stage' = [stage EXCEPT ![a] = "ended"]
      /\ UNCHANGED <<registry, tree, acts, senders, history, task>> /\ UNCHANGED signals
  BY DEF Panics, runner
<1>3. Core' /\ Onward /\ TaskInv' /\ Stoppable'
  BY <1>1, <1>2, RunnerStep
<1> QED
  BY <1>2, <1>3, SignalQuiet DEF IndInv

\* The end of pre_stop keeps it.
LEMMA PreStopInd ==
    ASSUME IndInv, NEW a \in Ids, PreStop(a)
    PROVE  IndInv'
<1>1. /\ UNCHANGED <<registry, tree, reply, acts, senders, history, task>>
      /\ stage[a] \notin {"unused", "ended"} /\ signals' = signals
      /\ stage' = [stage EXCEPT ![a] = "closing"]
  BY DEF PreStop, runner
<1>2. "Fault" \in Kinds /\ "Fault" # "Stopped"
  BY DEF Kinds
<1> QED
  BY <1>1, <1>2, LoopStep

\* emit_stopped keeps it: the actor has ended when the signal is there.
LEMMA EmitStoppedInd ==
    ASSUME IndInv, NEW a \in Ids, EmitStopped(a)
    PROVE  IndInv'
<1>1. /\ UNCHANGED <<registry, tree, reply, acts, senders, history, task>>
      /\ stage[a] = "finishing" /\ stage' = [stage EXCEPT ![a] = "ended"]
      /\ signals' = WithSignal(signals, a, "Stopped")
  BY DEF EmitStopped, runner
<1>2. reply' = [reply EXCEPT ![a] = reply[a]]
  BY <1>1 DEF IndInv, Core, Types
<1>3. Core' /\ Onward /\ TaskInv' /\ Stoppable'
  BY <1>1, <1>2, RunnerStep
<1>4. reply[a] # "unused"
  BY <1>1 DEF IndInv, Core, CallInv
<1>5. stage'[a] = "ended" /\ UNCHANGED <<path, parent, reply>>
  BY <1>1 DEF IndInv, Core, Types, tree
<1>6. parent[a] = System => path[a] \in Departures'
  BY <1>4, <1>5 DEF Departures
<1>7. SignalInv'
  <2> DEFINE D == Departures'
  <2> HIDE DEF D
  <2>1. Good(signals, D)
    BY <1>3, DeparturesLast, GoodGrows DEF IndInv, SignalInv, D
  <2>2. Good(WithSignal(signals, a, "Stopped"), D)
    BY <1>6, <2>1, GoodSend DEF D, IndInv, Kinds
  <2> QED
    BY <1>1, <2>2 DEF D, SignalInv
<1> QED
  BY <1>3, <1>7 DEF IndInv

\* Steps of the SystemRunner that leave the two maps alone.
LEMMA SystemStep ==
    ASSUME IndInv,
           UNCHANGED <<registry, tree, stage, reply, acts, senders, history>>
    PROVE  Core' /\ Onward /\ Stoppable'
<1>1. Core'
  BY QuietStep DEF history, IndInv, Core, Types
<1>2. Onward
  BY DEF Onward, tree, history
<1> QED
  BY <1>1, <1>2, MapsKept DEF IndInv, Calm

\* A call that begins to stop children removes nothing.
LEMMA SweepTask ==
    ASSUME NEW p, Sweep(p)
    PROVE  TaskInv'
BY DEF Sweep, Idle, TaskInv

\* The cancellation keeps it.
LEMMA CancelInd ==
    ASSUME IndInv, Cancel
    PROVE  IndInv'
<1>1. UNCHANGED <<registry, tree, stage, reply, acts, senders, history>> /\ UNCHANGED signals
      /\ UNCHANGED task
  BY DEF Cancel
<1>2. Core' /\ Onward /\ Stoppable'
  BY <1>1, SystemStep
<1> QED
  BY <1>1, <1>2, TaskQuiet, SignalQuiet DEF IndInv

\* The cancelled branch keeps it.
LEMMA SysCancelledInd ==
    ASSUME IndInv, SysCancelled
    PROVE  IndInv'
<1>1. UNCHANGED <<registry, tree, stage, reply, acts, senders, history>> /\ UNCHANGED signals
      /\ Sweep(<<>>)
  BY DEF SysCancelled
<1>2. Core' /\ Onward /\ Stoppable'
  BY <1>1, SystemStep
<1> QED
  BY <1>1, <1>2, SweepTask, SignalQuiet DEF IndInv

\* An error or a fault that reaches the System keeps it.
LEMMA SysSignalInd ==
    ASSUME IndInv, SysSignal
    PROVE  IndInv'
<1>1. UNCHANGED <<registry, tree, stage, reply, acts, senders, history>>
      /\ signals[System] # <<>> /\ signals' = [signals EXCEPT ![System] = Tail(@)]
  BY DEF SysSignal
<1>2. TaskInv'
  BY SweepTask DEF SysSignal
<1>3. Core' /\ Onward /\ Stoppable'
  BY <1>1, SystemStep
<1>4. Good(signals', Departures)
  BY <1>1, GoodTail DEF IndInv, SignalInv, Supervisors
<1>5. SignalInv'
  BY <1>3, <1>4, DeparturesLast, GoodGrows DEF SignalInv
<1> QED
  BY <1>2, <1>3, <1>5 DEF IndInv

\* A child's error or fault that is taken keeps it.
LEMMA RecvSignalInd ==
    ASSUME IndInv, NEW a \in Ids, RecvSignal(a)
    PROVE  IndInv'
<1> DEFINE sigs == [signals EXCEPT ![a] = Tail(@)]
<1>1. UNCHANGED <<registry, tree, stage, reply, acts, senders, history>> /\ UNCHANGED task
  BY DEF RecvSignal, runner
<1>2. signals[a] # <<>> /\ signals' = sigs
  BY DEF RecvSignal
<1>3. Core' /\ Onward /\ Stoppable'
  BY <1>1, SystemStep
<1>4. Good(sigs, Departures)
  BY <1>2, GoodTail DEF IndInv, SignalInv, Supervisors
<1> HIDE DEF sigs
<1>5. SignalInv'
  BY <1>2, <1>3, <1>4, DeparturesLast, GoodGrows DEF SignalInv
<1> QED
  BY <1>1, <1>3, <1>5, TaskQuiet DEF IndInv

\* emit_error and emit_fault keep it: the caller begins to wait.
LEMMA EmitInd ==
    ASSUME IndInv, NEW a \in Ids, NEW kind \in {"Error", "Fault"}, Emit(a, kind)
    PROVE  IndInv'
<1>1. /\ UNCHANGED <<registry, tree, stage, reply, acts, senders, history>>
      /\ UNCHANGED signals /\ UNCHANGED task
  BY DEF Emit, runner
<1>2. Core' /\ Onward /\ Stoppable'
  BY <1>1, SystemStep
<1> QED
  BY <1>1, <1>2, TaskQuiet, SignalQuiet DEF IndInv

\* An error or a fault that is sent keeps it.
LEMMA EmittedInd ==
    ASSUME IndInv, EmitInv, NEW a \in Ids, Emitted(a)
    PROVE  IndInv'
<1> DEFINE kind == SignalOf(emitting[a])
<1>1. /\ UNCHANGED <<registry, tree, reply, acts, senders, history, task>>
      /\ signals' = WithSignal(signals, a, kind)
      /\ stage' = stage \/ stage' = [stage EXCEPT ![a] = "finishing"]
  BY DEF Emitted, runner
<1>2. /\ emitting[a] \in {"Error", "Fault", "LoopFault"}
      /\ stage[a] \notin {"unused", "ended", "finishing"}
      /\ stage[a] = "starting" => emitting[a] # "LoopFault"
  BY DEF Emitted, EmitInv, Emissions
<1>3. kind \in Kinds /\ kind # "Stopped"
  BY <1>2 DEF SignalOf, Kinds
<1> HIDE DEF kind
<1>4. CASE stage' = [stage EXCEPT ![a] = "finishing"]
  BY <1>1, <1>2, <1>3, <1>4, LoopStep
<1>5. CASE stage' = stage
  <2>1. Core' /\ Onward /\ Stoppable'
    BY <1>1, <1>5, SystemStep
  <2>2. TaskInv' /\ SignalInv'
    BY <1>1, <1>3, <2>1, TaskQuiet, SignalSends DEF IndInv
  <2> QED
    BY <2>1, <2>2 DEF IndInv
<1> QED
  BY <1>1, <1>4, <1>5

-----------------------------------------------------------------------------
(* The action channels. *)

\* Steps that change action channels only, adding no Stop.
LEMMA ActsStep ==
    ASSUME Core, UNCHANGED <<registry, tree, reply, senders, told>>,
           DOMAIN stage' = Ids, halted' \subseteq Ids,
           \A a \in Ids : stage'[a] = "starting" => stage[a] = "starting",
           \A a \in Ids : stage[a] = "unused" => stage'[a] = "unused",
           acts' = [a \in Ids |-> acts'[a]],
           \A a \in Ids : /\ acts'[a] \in Seq(Actions) /\ OneStop(acts'[a])
                          /\ NoStop(acts[a]) => NoStop(acts'[a])
                          /\ a \in halted' => a \in told /\ NoStop(acts'[a])
    PROVE  Core'
<1>i. Types /\ CallInv /\ SenderInv /\ RegInv /\ ToldInv /\ RegisteredStarted /\ StopOnce
  BY DEF Core
<1>1. Types'
  <2>1. acts' \in [Ids -> Seq(Actions)]
    <3> HIDE DEF Actions
    <3> QED
      OBVIOUS
  <2>2. reply' = [a \in Ids |-> reply'[a]] /\ UNCHANGED <<spawned, path, parent, senders, told>>
    BY <1>i DEF Types, tree
  <2> HIDE DEF Actions
  <2> QED
    BY <1>i, <2>1, <2>2, Zenon DEF Types
<1>2. CallInv' /\ SenderInv' /\ RegInv' /\ RegisteredStarted'
  BY <1>i DEF CallInv, SenderInv, RegInv, RegisteredStarted, tree
<1>3. ToldInv'
  BY <1>i DEF ToldInv
<1>4. StopOnce'
  BY DEF StopOnce, OneStop, NoStop
<1> QED
  BY <1>1, <1>2, <1>3, <1>4 DEF Core

\* Restart leaves the number of Stops as it is.
LEMMA RestartSent ==
    ASSUME Core, NEW A
    PROVE  \A a \in Ids :
             LET q == Sent(A, "Restart")[a]
             IN  /\ q \in Seq(Actions) /\ OneStop(q)
                 /\ NoStop(acts[a]) => NoStop(q)
<1> SUFFICES ASSUME NEW a \in Ids
             PROVE  LET q == Sent(A, "Restart")[a]
                    IN  /\ q \in Seq(Actions) /\ OneStop(q)
                        /\ NoStop(acts[a]) => NoStop(q)
  OBVIOUS
<1>1. acts[a] \in Seq(Actions) /\ OneStop(acts[a])
  BY DEF Core, Types, StopOnce, OneStop
<1>2. Sent(A, "Restart")[a] = acts[a] \/ Sent(A, "Restart")[a] = Append(acts[a], "Restart")
  BY DEF Sent
<1> QED
  BY <1>1, <1>2, Appended

\* What a step that leaves the maps and the replies alone keeps.
LEMMA ActsInd ==
    ASSUME IndInv, Core', UNCHANGED <<registry, tree, reply, senders, told, forgotten>>,
           \A a \in Ids : stage[a] = "ended" => stage'[a] = "ended"
    PROVE  Onward /\ Stoppable'
<1>1. Onward
  BY DEF Onward, tree
<1> QED
  BY <1>1, MapsKept DEF IndInv, Calm

\* restart_children keeps it: no Stop is sent.
LEMMA RestartChildrenInd ==
    ASSUME IndInv, NEW s \in Ids, RestartChildren(s)
    PROVE  IndInv'
<1>1. PICK x \in Sends(s, DOMAIN senders[s]) : acts' = Sent(Targets(s, x.reached), "Restart")
  BY DEF RestartChildren
<1>2. UNCHANGED <<registry, tree, reply, senders, told, forgotten>> /\ UNCHANGED <<stage, halted, forgotten>>
      /\ UNCHANGED signals /\ UNCHANGED task
  BY DEF RestartChildren, runner, history
<1>3. Core'
  <2> DEFINE A == Targets(s, x.reached)
  <2> HIDE DEF A
  <2>1. acts' = Sent(A, "Restart")
    BY <1>1 DEF A
  <2>2. acts' = [a \in Ids |-> acts'[a]]
    BY <2>1 DEF Sent
  <2>3. \A a \in Ids : /\ acts'[a] \in Seq(Actions) /\ OneStop(acts'[a])
                       /\ NoStop(acts[a]) => NoStop(acts'[a])
    BY <2>1, RestartSent DEF IndInv
  <2>4. \A a \in Ids : a \in halted' => a \in told /\ NoStop(acts[a])
    BY <1>2 DEF IndInv, Core, ToldInv, StopOnce, NoStop
  <2>5. DOMAIN stage' = Ids /\ halted' \subseteq Ids
    BY <1>2 DEF IndInv, Core, Types
  <2> QED
    BY <1>2, <2>2, <2>3, <2>4, <2>5, ActsStep DEF IndInv
<1>4. Onward /\ Stoppable'
  BY <1>2, <1>3, ActsInd
<1> QED
  BY <1>2, <1>3, <1>4, TaskQuiet, SignalQuiet DEF IndInv

\* Taking the Stop keeps it: it was the only one.
LEMMA RecvStopInd ==
    ASSUME IndInv, NEW a \in Ids, RecvStop(a)
    PROVE  IndInv'
<1>1. /\ stage[a] = "running" /\ acts[a] # <<>> /\ Head(acts[a]) = "Stop"
      /\ acts' = [acts EXCEPT ![a] = Tail(@)]
      /\ stage' = [stage EXCEPT ![a] = "pre_stop"]
      /\ halted' = halted \cup {a}
      /\ UNCHANGED <<registry, tree, reply, senders, told, forgotten>>
      /\ UNCHANGED signals /\ UNCHANGED task
  BY DEF RecvStop, Ready, runner
<1>2. acts \in [Ids -> Seq(Actions)] /\ DOMAIN stage = Ids /\ halted \subseteq Ids /\ ToldInv
      /\ \A b \in Ids : OneStop(acts[b]) /\ (b \in halted => NoStop(acts[b]))
  BY DEF IndInv, Core, Types, StopOnce, OneStop, NoStop
<1>3. /\ acts'[a] = Tail(acts[a]) /\ stage'[a] = "pre_stop"
      /\ \A b \in Ids \ {a} : acts'[b] = acts[b] /\ stage'[b] = stage[b]
      /\ acts' = [b \in Ids |-> acts'[b]] /\ DOMAIN stage' = Ids
  BY <1>1, <1>2
<1>4. /\ Tail(acts[a]) \in Seq(Actions) /\ OneStop(Tail(acts[a])) /\ NoStop(Tail(acts[a]))
      /\ ~NoStop(acts[a])
  <2>1. acts[a] \in Seq(Actions) /\ OneStop(acts[a])
    BY <1>2
  <2>2. ~NoStop(acts[a])
    BY <1>1, <2>1 DEF NoStop
  <2> QED
    BY <1>1, <2>1, <2>2, Taken1
<1>5. \A b \in Ids : /\ acts'[b] \in Seq(Actions) /\ OneStop(acts'[b])
                     /\ NoStop(acts[b]) => NoStop(acts'[b])
                     /\ b \in halted' => b \in told /\ NoStop(acts'[b])
  BY <1>1, <1>2, <1>3, <1>4 DEF ToldInv
<1>6. Core'
  BY <1>1, <1>2, <1>3, <1>5, ActsStep DEF IndInv
<1>7. Onward /\ Stoppable'
  BY <1>1, <1>3, <1>6, ActsInd
<1> QED
  BY <1>1, <1>6, <1>7, TaskQuiet, SignalQuiet DEF IndInv

\* Taking a Restart keeps it.
LEMMA RecvRestartInd ==
    ASSUME IndInv, NEW a \in Ids, RecvRestart(a)
    PROVE  IndInv'
<1>1. /\ stage[a] = "running" /\ acts[a] # <<>>
      /\ UNCHANGED <<registry, tree, reply, senders, told, forgotten>> /\ UNCHANGED halted /\ UNCHANGED task
  BY DEF RecvRestart, Ready, runner, history
<1>2. PICK x \in Sends(a, DOMAIN senders[a]) :
        acts' = [Sent(Targets(a, x.reached), "Restart") EXCEPT ![a] = Tail(@)]
  BY DEF RecvRestart
<1>3. stage' = [stage EXCEPT ![a] = "restarting"] /\ UNCHANGED signals
  BY DEF RecvRestart
<1>4. /\ DOMAIN stage' = Ids /\ stage'[a] = "restarting"
      /\ \A b \in Ids \ {a} : stage'[b] = stage[b]
  BY <1>3 DEF IndInv, Core, Types
<1> DEFINE A == Targets(a, x.reached)
           q == Sent(A, "Restart")
<1>5. acts' = [q EXCEPT ![a] = Tail(@)]
  BY <1>2
<1> HIDE DEF A
<1>6. \A b \in Ids : /\ q[b] \in Seq(Actions) /\ OneStop(q[b])
                     /\ NoStop(acts[b]) => NoStop(q[b])
  BY RestartSent DEF IndInv
<1>7. q[a] # <<>> /\ DOMAIN q = Ids
  <2>1. acts[a] \in Seq(Actions)
    BY DEF IndInv, Core, Types
  <2>2. q[a] = acts[a] \/ q[a] = Append(acts[a], "Restart")
    BY DEF Sent
  <2>3. Append(acts[a], "Restart") # <<>>
    BY <2>1
  <2>4. DOMAIN q = Ids
    BY DEF Sent
  <2> QED
    BY <1>1, <2>2, <2>3, <2>4
<1>8. /\ acts'[a] = Tail(q[a]) /\ acts' = [b \in Ids |-> acts'[b]]
      /\ \A b \in Ids \ {a} : acts'[b] = q[b]
  <2> HIDE DEF q
  <2> QED
    BY <1>5, <1>7
<1>9. \A b \in Ids : /\ acts'[b] \in Seq(Actions) /\ OneStop(acts'[b])
                     /\ NoStop(acts[b]) => NoStop(acts'[b])
  <2> HIDE DEF q
  <2>1. /\ Tail(q[a]) \in Seq(Actions) /\ OneStop(Tail(q[a]))
        /\ NoStop(acts[a]) => NoStop(Tail(q[a]))
    BY <1>6, <1>7, Taken1
  <2> QED
    BY <1>6, <1>8, <2>1
<1>10. \A b \in Ids : b \in halted' => b \in told /\ NoStop(acts'[b])
  BY <1>1, <1>9 DEF IndInv, Core, ToldInv, StopOnce, NoStop
<1>11. halted' \subseteq Ids
  BY <1>1 DEF IndInv, Core, Types
<1>12. Core'
  BY <1>1, <1>4, <1>8, <1>9, <1>10, <1>11, ActsStep DEF IndInv
<1>13. Onward /\ Stoppable'
  BY <1>1, <1>4, <1>12, ActsInd
<1> QED
  BY <1>1, <1>3, <1>12, <1>13, TaskQuiet, SignalQuiet DEF IndInv

-----------------------------------------------------------------------------
(* The steps that take entries out. *)

\* Steps that take paths out of the registry only.
LEMMA UnregisterStep ==
    ASSUME IndInv, NEW P, registry' = Without(registry, P),
           UNCHANGED <<tree, stage, reply, acts, senders, history>>
    PROVE  Core' /\ Onward /\ Stoppable'
<1>1. \A p \in DOMAIN registry' : p \in DOMAIN registry /\ registry'[p] = registry[p]
  BY RegistryWithout
<1>2. Core'
  BY <1>1, QuietStep DEF history, IndInv, Core, Types
<1>3. Onward
  BY DEF Onward, tree, history
<1>4. Entries
  BY <1>1 DEF Entries
<1>5. Holding /\ Inserting /\ Calm
  BY DEF Holding, Inserting, Calm, Held, tree
<1> QED
  BY <1>2, <1>3, <1>4, <1>5, StoppableStep DEF IndInv

\* remove_child by an actor, which changes its own stage at most.
LEMMA RemoveStep ==
    ASSUME IndInv, NEW a \in Ids, NEW P,
           registry' = Without(registry, P),
           senders' = [senders EXCEPT ![a] = Without(@, P)],
           UNCHANGED <<tree, reply, acts, history>>,
           DOMAIN stage' = Ids, \A b \in Ids : stage'[b] = "starting" => stage[b] = "starting",
           \A b \in Ids : stage[b] \in {"unused", "ended"} => stage'[b] = stage[b]
    PROVE  Core' /\ Onward /\ Stoppable'
<1>1. \A p \in DOMAIN registry' : p \in DOMAIN registry /\ p \notin P /\ registry'[p] = registry[p]
  BY RegistryWithout
<1>2. /\ DOMAIN senders' = Supervisors
      /\ \A u \in Supervisors : \A p \in DOMAIN senders'[u] :
            p \in DOMAIN senders[u] /\ senders'[u][p] = senders[u][p]
      /\ \A b \in Ids : Held(b) => Held(b)' \/ path[b] \in P
  <2>1. a \in Supervisors /\ UNCHANGED tree
    BY DEF Supervisors
  <2>2. /\ DOMAIN senders' = Supervisors
        /\ \A u \in Supervisors : \A p \in DOMAIN senders'[u] :
              p \in DOMAIN senders[u] /\ senders'[u][p] = senders[u][p] /\ (u = a => p \notin P)
        /\ \A b \in Ids : Held(b) => Held(b)' \/ (parent[b] = a /\ path[b] \in P)
    BY <2>1, SendersWithout DEF IndInv
  <2> QED
    BY <2>2
<1>3. reply' = [b \in Ids |-> reply'[b]]
  BY DEF IndInv, Core, Types
<1>4. Core'
  BY <1>1, <1>2, <1>3, QuietStep DEF history, IndInv
<1>5. Onward
  BY DEF Onward, tree, history
<1>6. Entries
  BY <1>1 DEF Entries
<1>7. Holding
  BY <1>1, <1>2 DEF Holding
<1>8. Inserting /\ Calm
  BY DEF Inserting, Calm
<1> QED
  BY <1>4, <1>5, <1>6, <1>7, <1>8, StoppableStep DEF IndInv

\* stop_child by an actor, for several paths.
LEMMA StopPathsStep ==
    ASSUME IndInv, NEW s \in Ids, NEW C, NEW x \in Sends(s, C), StopPaths(s, x),
           UNCHANGED <<tree, reply, halted, forgotten>>,
           DOMAIN stage' = Ids, \A b \in Ids : stage'[b] = "starting" => stage[b] = "starting",
           \A b \in Ids : stage[b] \in {"unused", "ended"} => stage'[b] = stage[b]
    PROVE  Core' /\ Onward /\ Stoppable'
<1>1. s \in Supervisors /\ StopTaken(s, x) /\ registry' = Without(registry, x.tried)
  BY DEF StopPaths, Supervisors
<1>2. x.reached \subseteq x.tried /\ x.reached \subseteq DOMAIN senders[s]
  BY <1>1, SendsReach
<1> DEFINE P == x.tried
<1>3. registry' = Without(registry, P) /\ senders' = [senders EXCEPT ![s] = Without(@, P)]
      /\ told \subseteq told'
  BY <1>1 DEF StopTaken
<1> HIDE DEF P
<1>4. \A p \in DOMAIN registry' : p \in DOMAIN registry /\ p \notin P /\ registry'[p] = registry[p]
  BY <1>3, RegistryWithout
<1>5. Core'
  BY <1>1, <1>2, <1>4, StopTakenStep DEF IndInv
<1>6. \A b \in Ids : Held(b) => Held(b)' \/ path[b] \in P
  BY <1>1, <1>3, SendersWithout DEF IndInv
<1>7. Onward
  BY <1>3 DEF Onward, tree
<1>8. Entries
  BY <1>4 DEF Entries
<1>9. Holding
  BY <1>4, <1>6 DEF Holding
<1>10. Inserting /\ Calm
  BY DEF Inserting, Calm
<1> QED
  BY <1>5, <1>7, <1>8, <1>9, <1>10, StoppableStep DEF IndInv

\* The second half of stop_child by a caller of the System.
LEMMA SystemStopStep ==
    ASSUME IndInv, NEW p, NEW x \in Sends(System, {p}), StopTaken(System, x),
           UNCHANGED <<registry, tree, stage, reply, halted, forgotten>>
    PROVE  Core' /\ Onward /\ Stoppable'
<1>1. System \in Supervisors
  BY DEF Supervisors
<1>2. x.reached \subseteq x.tried /\ x.reached \subseteq DOMAIN senders[System]
  BY <1>1, SendsReach
<1>3. Core'
  BY <1>1, <1>2, StopTakenStep DEF IndInv, Core, Types
<1>4. x.tried = {p} /\ \A a \in Ids : Held(a) /\ parent[a] = System /\ path[a] = p =>
                         a \in Targets(System, x.reached) \/ stage[a] = "ended"
  BY <1>1, SendsOne DEF IndInv
<1>5. told' = told \cup Targets(System, x.reached)
      /\ senders' = [senders EXCEPT ![System] = Without(@, {p})]
  BY <1>4 DEF StopTaken
<1>6. \A a \in Ids : Held(a) => Held(a)' \/ (parent[a] = System /\ path[a] \in {p})
  <2> DEFINE P == {p}
  <2>1. Core /\ UNCHANGED tree /\ senders' = [senders EXCEPT ![System] = Without(@, P)]
    BY <1>5 DEF IndInv
  <2> HIDE DEF P
  <2>2. \A a \in Ids : Held(a) => Held(a)' \/ (parent[a] = System /\ path[a] \in P)
    BY <1>1, <2>1, SendersWithout, Zenon
  <2> QED
    BY <2>2 DEF P
<1>7. Onward
  BY <1>5 DEF Onward, tree
<1>8. Entries
  BY DEF Entries
<1>9. Holding
  BY <1>4, <1>5, <1>6 DEF Holding
<1>10. Inserting /\ Calm
  BY DEF Inserting, Calm
<1> QED
  BY <1>3, <1>7, <1>8, <1>9, <1>10, StoppableStep DEF IndInv

\* The first half of stop_actor keeps it.
LEMMA StopActorInd ==
    ASSUME IndInv, NEW n \in Names, StopActor(n)
    PROVE  IndInv'
<1>1. /\ registry' = Without(registry, {<<n>>})
      /\ UNCHANGED <<tree, stage, reply, acts, senders, history>>
      /\ UNCHANGED signals /\ UNCHANGED task
  BY DEF StopActor, CallSystem, runner
<1>2. Core' /\ Onward /\ Stoppable'
  BY <1>1, UnregisterStep
<1> QED
  BY <1>1, <1>2, TaskQuiet, SignalQuiet DEF IndInv

\* The first half of a client's remove_child keeps it.
LEMMA RemoveActorInd ==
    ASSUME IndInv, NEW n \in Names, RemoveActor(n)
    PROVE  IndInv'
<1>1. /\ registry' = Without(registry, {<<n>>})
      /\ UNCHANGED <<tree, stage, reply, acts, senders, history>>
      /\ UNCHANGED signals /\ UNCHANGED task
  BY DEF RemoveActor, CallSystem, runner
<1>2. Core' /\ Onward /\ Stoppable'
  BY <1>1, UnregisterStep
<1> QED
  BY <1>1, <1>2, TaskQuiet, SignalQuiet DEF IndInv

\* The second half of stop_actor keeps it.
LEMMA StopReturnsInd ==
    ASSUME IndInv, NEW n \in Names, StopReturns(n)
    PROVE  IndInv'
<1>1. PICK x \in Sends(System, {<<n>>}) : StopTaken(System, x)
  BY DEF StopReturns
<1>2. /\ UNCHANGED <<registry, tree, stage, reply, halted, forgotten>>
      /\ UNCHANGED signals /\ UNCHANGED task
  BY DEF StopReturns, runner
<1>3. Core' /\ Onward /\ Stoppable'
  BY <1>1, <1>2, SystemStopStep
<1> QED
  BY <1>2, <1>3, TaskQuiet, SignalQuiet DEF IndInv

\* The second half of a client's remove_child keeps it: who loses its sender
\* is remembered as forgotten.
LEMMA RemoveReturnsInd ==
    ASSUME IndInv, NEW n \in Names, RemoveReturns(n)
    PROVE  IndInv'
<1> DEFINE P == {<<n>>}
<1> DEFINE F == {senders[System][p] : p \in P \cap DOMAIN senders[System]}
<1>1. /\ senders' = [senders EXCEPT ![System] = Without(@, P)]
      /\ forgotten' = forgotten \cup F
      /\ UNCHANGED <<registry, tree, stage, reply, acts, told, halted>>
      /\ UNCHANGED signals /\ UNCHANGED task
  BY DEF RemoveReturns, runner
<1>2. \A b \in Ids : Held(b) /\ parent[b] = System /\ path[b] \in P => b \in F
  BY DEF Held, Has
<1>3. System \in Supervisors /\ UNCHANGED tree
  BY <1>1 DEF Supervisors
<1> HIDE DEF P, F
<1>4. /\ DOMAIN senders' = Supervisors
      /\ \A u \in Supervisors : \A p \in DOMAIN senders'[u] :
            p \in DOMAIN senders[u] /\ senders'[u][p] = senders[u][p] /\ (u = System => p \notin P)
      /\ \A b \in Ids : Held(b) => Held(b)' \/ (parent[b] = System /\ path[b] \in P)
  BY <1>1, <1>3, SendersWithout DEF IndInv
<1>5. Core'
  BY <1>1, <1>4, QuietStep DEF IndInv, Core, Types
<1>6. Onward
  BY <1>1 DEF Onward, tree
<1>7. Entries /\ Inserting /\ Calm
  <2>1. Entries /\ Calm
    BY <1>1 DEF Entries, Calm
  <2>2. Inserting
    BY <1>1 DEF Inserting
  <2> QED
    BY <2>1, <2>2
<1>8. Holding
  BY <1>1, <1>2, <1>4 DEF Holding
<1>9. Stoppable'
  BY <1>5, <1>6, <1>7, <1>8, StoppableStep DEF IndInv
<1> QED
  BY <1>1, <1>5, <1>6, <1>9, TaskQuiet, SignalQuiet DEF IndInv

\* stop_child by an actor keeps it.
LEMMA StopChildInd ==
    ASSUME IndInv, NEW s \in Ids, NEW n \in Names, StopChild(s, n)
    PROVE  IndInv'
<1>1. PICK x \in Sends(s, {Append(path[s], n)}) : StopPaths(s, x)
  BY DEF StopChild
<1>2. /\ UNCHANGED <<tree, reply, halted, forgotten>> /\ UNCHANGED stage
      /\ UNCHANGED signals /\ UNCHANGED task
  BY DEF StopChild, runner
<1>3. DOMAIN stage' = Ids
  BY <1>2 DEF IndInv, Core, Types
<1>4. Core' /\ Onward /\ Stoppable'
  BY <1>1, <1>2, <1>3, StopPathsStep
<1> QED
  BY <1>2, <1>4, TaskQuiet, SignalQuiet DEF IndInv

\* stop_children by a handler keeps it.
LEMMA StopAllInd ==
    ASSUME IndInv, NEW s \in Ids, StopAll(s)
    PROVE  IndInv'
<1>1. PICK x \in Sends(s, GetChilds(path[s])) : StopPaths(s, x)
  BY DEF StopAll
<1>2. /\ UNCHANGED <<tree, reply, halted, forgotten>> /\ UNCHANGED stage
      /\ UNCHANGED signals /\ UNCHANGED task
  BY DEF StopAll, runner
<1>3. DOMAIN stage' = Ids
  BY <1>2 DEF IndInv, Core, Types
<1>4. Core' /\ Onward /\ Stoppable'
  BY <1>1, <1>2, <1>3, StopPathsStep
<1> QED
  BY <1>2, <1>4, TaskQuiet, SignalQuiet DEF IndInv

\* remove_child by a handler keeps it.
LEMMA ForgetInd ==
    ASSUME IndInv, NEW s \in Ids, NEW n \in Names, Forget(s, n)
    PROVE  IndInv'
<1> DEFINE P == {Append(path[s], n)}
<1>1. registry' = Without(registry, P) /\ senders' = [senders EXCEPT ![s] = Without(@, P)]
  BY DEF Forget, RemoveChild
<1>2. /\ UNCHANGED <<tree, reply, acts, history>> /\ UNCHANGED stage
      /\ UNCHANGED signals /\ UNCHANGED task
  BY DEF Forget, runner
<1>3. DOMAIN stage' = Ids
  BY <1>2 DEF IndInv, Core, Types
<1> HIDE DEF P
<1>4. Core' /\ Onward /\ Stoppable'
  BY <1>1, <1>2, <1>3, RemoveStep
<1> QED
  BY <1>2, <1>4, TaskQuiet, SignalQuiet DEF IndInv

\* stop_children by an actor keeps it.
LEMMA StopChildrenInd ==
    ASSUME IndInv, NEW a \in Ids, StopChildren(a)
    PROVE  IndInv'
<1>1. PICK x \in Sends(a, GetChilds(path[a])) :
        /\ StopPaths(a, x)
        /\ \E st \in {"finishing", "running"} : stage' = [stage EXCEPT ![a] = st]
  BY DEF StopChildren
<1>2. /\ UNCHANGED <<tree, reply, halted, forgotten>> /\ UNCHANGED task /\ UNCHANGED signals
      /\ stage[a] = "closing"
  BY DEF StopChildren, runner
<1>3. /\ DOMAIN stage' = Ids
      /\ \A b \in Ids : stage'[b] = "starting" => stage[b] = "starting"
      /\ \A b \in Ids : stage[b] \in {"unused", "ended"} => stage'[b] = stage[b]
  BY <1>1, <1>2 DEF IndInv, Core, Types
<1>4. Core' /\ Onward /\ Stoppable'
  BY <1>1, <1>2, <1>3, StopPathsStep
<1> QED
  BY <1>2, <1>4, TaskQuiet, SignalQuiet DEF IndInv

\* A Stopped that reaches an actor keeps it.
LEMMA RecvStoppedInd ==
    ASSUME IndInv, NEW a \in Ids, RecvStopped(a)
    PROVE  IndInv'
<1> DEFINE P == {Head(signals[a])[2]}
<1>1. /\ stage[a] = "running" /\ signals[a] # <<>>
      /\ signals' = [signals EXCEPT ![a] = Tail(@)]
      /\ \E st \in {"finishing", "running"} : stage' = [stage EXCEPT ![a] = st]
      /\ UNCHANGED <<tree, reply, acts, history>> /\ UNCHANGED task
  BY DEF RecvStopped, Ready, runner
<1>2. registry' = Without(registry, P) /\ senders' = [senders EXCEPT ![a] = Without(@, P)]
  BY DEF RecvStopped, RemoveChild
<1>3. /\ DOMAIN stage' = Ids
      /\ \A b \in Ids : stage'[b] = "starting" => stage[b] = "starting"
      /\ \A b \in Ids : stage[b] \in {"unused", "ended"} => stage'[b] = stage[b]
  BY <1>1 DEF IndInv, Core, Types
<1> HIDE DEF P
<1>4. Core' /\ Onward /\ Stoppable'
  BY <1>1, <1>2, <1>3, RemoveStep
<1>5. Good(signals', Departures)
  BY <1>1, GoodTail DEF IndInv, SignalInv, Supervisors
<1>6. SignalInv'
  BY <1>4, <1>5, DeparturesLast, GoodGrows DEF SignalInv
<1> QED
  BY <1>1, <1>4, <1>6, TaskQuiet DEF IndInv

\* The first half of a stop by the SystemRunner keeps it.
LEMMA SysUnregisterInd ==
    ASSUME IndInv, SysUnregister
    PROVE  IndInv'
<1>1. PICK p \in task.todo : registry' = Without(registry, {p}) /\ task' = [task EXCEPT !.at = p]
  BY DEF SysUnregister
<1>2. UNCHANGED <<tree, stage, reply, acts, senders, history>> /\ UNCHANGED signals
  BY DEF SysUnregister
<1>3. Core' /\ Onward /\ Stoppable'
  BY <1>1, <1>2, UnregisterStep
<1>4. ~task.gone /\ task = [todo |-> task.todo, at |-> task.at, gone |-> task.gone]
  BY <1>1 DEF IndInv, TaskInv
<1>5. task'.gone = FALSE /\ task' = [todo |-> task'.todo, at |-> task'.at, gone |-> task'.gone]
  BY <1>1, <1>4 DEF IndInv, TaskInv
<1>6. TaskInv'
  BY <1>5 DEF TaskInv
<1> QED
  BY <1>2, <1>3, <1>6, SignalQuiet DEF IndInv

\* The second half of a stop by the SystemRunner keeps it.
LEMMA SysStopChildInd ==
    ASSUME IndInv, SysStopChild
    PROVE  IndInv'
<1>1. PICK x \in Sends(System, {task.at}) :
        /\ StopTaken(System, x)
        /\ task' = [Idle EXCEPT !.todo = IF x.reached = {} THEN {} ELSE task.todo \ {task.at}]
  BY DEF SysStopChild
<1>2. UNCHANGED <<registry, tree, stage, reply, halted, forgotten>> /\ UNCHANGED signals
  BY DEF SysStopChild
<1> DEFINE p == task.at
<1>3. x \in Sends(System, {p})
  OBVIOUS
<1> HIDE DEF p
<1>4. Core' /\ Onward /\ Stoppable'
  BY <1>1, <1>2, <1>3, SystemStopStep
<1>5. TaskInv'
  BY <1>1 DEF TaskInv, Idle
<1> QED
  BY <1>2, <1>4, <1>5, SignalQuiet DEF IndInv

\* The first half of remove_child by the SystemRunner keeps it.
LEMMA SysStoppedInd ==
    ASSUME IndInv, SysStopped
    PROVE  IndInv'
<1> DEFINE p == Head(signals[System])[2]
<1>1. /\ signals[System] # <<>> /\ Head(signals[System])[1] = "Stopped"
      /\ signals' = [signals EXCEPT ![System] = Tail(@)]
      /\ registry' = Without(registry, {p})
      /\ task' = [todo |-> {}, at |-> p, gone |-> TRUE]
      /\ UNCHANGED <<tree, stage, reply, acts, senders, history>>
  BY DEF SysStopped
<1>2. Good(signals', Departures) /\ p \in Departures
  BY <1>1, GoodTail DEF IndInv, SignalInv, Supervisors
<1> HIDE DEF p
<1>3. Core' /\ Onward /\ Stoppable'
  BY <1>1, UnregisterStep
<1>4. SignalInv'
  BY <1>2, <1>3, DeparturesLast, GoodGrows DEF SignalInv
<1>5. TaskInv'
  BY <1>1, <1>2, <1>3, DeparturesLast DEF TaskInv
<1> QED
  BY <1>3, <1>4, <1>5 DEF IndInv

\* An actor under a path of Departures has ended, or shares its path.
LEMMA DepartedOrShared ==
    ASSUME NEW a \in Ids, path[a] \in Departures
    PROVE  stage[a] = "ended" \/ Shared(a)
BY DEF Departures, Shared

\* The second half of remove_child keeps it: whoever loses its sender has
\* ended, or shares its path.
LEMMA SysRemovedInd ==
    ASSUME IndInv, SysRemoved
    PROVE  IndInv'
<1> DEFINE P == {task.at}
<1>1. /\ task.gone /\ senders' = [senders EXCEPT ![System] = Without(@, P)] /\ task' = Idle
      /\ UNCHANGED <<registry, tree, stage, reply, acts, history>> /\ UNCHANGED signals
  BY DEF SysRemoved
<1>2. P \subseteq Departures /\ System \in Supervisors
  BY <1>1 DEF IndInv, TaskInv, Supervisors
<1> HIDE DEF P
<1>3. /\ DOMAIN senders' = Supervisors
      /\ \A u \in Supervisors : \A p \in DOMAIN senders'[u] :
            p \in DOMAIN senders[u] /\ senders'[u][p] = senders[u][p]
      /\ \A b \in Ids : Held(b) => Held(b)' \/ (parent[b] = System /\ path[b] \in P)
  <2>1. UNCHANGED tree
    BY <1>1
  <2>2. /\ DOMAIN senders' = Supervisors
        /\ \A u \in Supervisors : \A p \in DOMAIN senders'[u] :
              p \in DOMAIN senders[u] /\ senders'[u][p] = senders[u][p] /\ (u = System => p \notin P)
        /\ \A b \in Ids : Held(b) => Held(b)' \/ (parent[b] = System /\ path[b] \in P)
    BY <1>1, <1>2, <2>1, SendersWithout DEF IndInv
  <2> QED
    BY <2>2
<1>4. Core'
  BY <1>1, <1>3, QuietStep DEF history, IndInv, Core, Types
<1>5. Onward
  BY <1>1 DEF Onward, tree, history
<1>6. Entries /\ Inserting /\ Calm
  BY <1>1 DEF Entries, Inserting, Calm
<1>7. Holding
  BY <1>1, <1>2, <1>3, DepartedOrShared DEF Holding
<1>8. Stoppable'
  BY <1>4, <1>5, <1>6, <1>7, StoppableStep DEF IndInv
<1>9. TaskInv'
  BY <1>1 DEF TaskInv, Idle
<1> QED
  BY <1>1, <1>4, <1>5, <1>8, <1>9, SignalQuiet DEF IndInv

-----------------------------------------------------------------------------
(* create_actor. *)

\* A new actor is unknown to every map.
LEMMA SpawnActorInd ==
    ASSUME IndInv, NEW s \in Supervisors, NEW p \in Seq(Names), SpawnActor(s, p),
           s # System => ~Waiting(s)
    PROVE  IndInv'
<1>i. Types /\ CallInv /\ SenderInv /\ RegInv /\ ToldInv /\ RegisteredStarted /\ StopOnce
  BY DEF IndInv, Core
<1> DEFINE a == spawned + 1
<1>1. /\ spawned < MaxActors /\ spawned' = a
      /\ path' = [path EXCEPT ![a] = p]
      /\ parent' = [parent EXCEPT ![a] = s]
      /\ stage' = [stage EXCEPT ![a] = "starting"]
      /\ reply' = [reply EXCEPT ![a] = "waiting"]
      /\ UNCHANGED <<registry, acts, senders, told, halted, forgotten, task>> /\ UNCHANGED signals
  BY DEF SpawnActor, runner, history
<1>2. a \in Ids /\ reply[a] = "unused" /\ a \in 0..MaxActors
  BY <1>1, <1>i, SystemAssumption DEF Types, CallInv, Ids
<1> HIDE DEF a
<1>3. /\ stage'[a] = "starting" /\ reply'[a] = "waiting" /\ DOMAIN stage' = Ids
      /\ reply' = [b \in Ids |-> reply'[b]]
      /\ \A b \in Ids \ {a} : /\ path'[b] = path[b] /\ parent'[b] = parent[b]
                              /\ stage'[b] = stage[b] /\ reply'[b] = reply[b]
  BY <1>1, <1>2, <1>i DEF Types
<1>4. path' \in [Ids -> Seq(Names)] /\ parent' \in [Ids -> Supervisors]
  BY <1>1, <1>2, <1>i DEF Types
<1>5. Types'
  <2>1. /\ acts \in [Ids -> Seq(Actions)] /\ DOMAIN senders = Supervisors
        /\ told \subseteq Ids /\ halted \subseteq Ids
    BY <1>i DEF Types
  <2>2. spawned' \in 0..MaxActors
    BY <1>1, <1>2
  <2> QED
    BY <1>1, <1>3, <1>4, <2>1, <2>2, Zenon DEF Types
<1>6. CallInv'
  <2>1. \A b \in Ids : b <= spawned => b <= spawned'
    BY <1>1, <1>i DEF Types, Ids, a
  <2>2. a <= spawned'
    BY <1>1, <1>2
  <2> QED
    BY <1>3, <1>i, <2>1, <2>2 DEF CallInv
<1>7. SenderInv'
  BY <1>1, <1>2, <1>3, <1>i DEF SenderInv
<1>8. RegInv' /\ RegisteredStarted'
  BY <1>1, <1>2, <1>3, <1>i DEF RegInv, RegisteredStarted
<1>9. ToldInv' /\ StopOnce'
  BY <1>1, <1>2, <1>3, <1>i DEF ToldInv, StopOnce
<1>10. Onward
  BY <1>1, <1>2, <1>3 DEF Onward
<1>11. Entries /\ Inserting
  BY <1>1, <1>2, <1>3 DEF Entries, Inserting
<1>12. Holding
  <2> SUFFICES ASSUME NEW b \in Ids, Held(b) PROVE Held(b)'
    BY DEF Holding
  <2>1. path[b] \in DOMAIN senders[parent[b]] /\ senders[parent[b]][path[b]] = b
    BY DEF Held, Has
  <2>2. parent[b] \in Supervisors
    BY <1>i DEF Types
  <2>3. reply[b] = "registered"
    BY <2>1, <2>2, <1>i DEF SenderInv
  <2> QED
    BY <1>1, <1>2, <1>3, <2>1, <2>3 DEF Held, Has
<1>13. Core'
  BY <1>5, <1>6, <1>7, <1>8, <1>9 DEF Core
<1>14. RegisteredStoppable'
  BY <1>10, <1>11, <1>12, RegisteredStep DEF IndInv, Stoppable
<1>15. parent'[a] = s /\ path'[a] = p /\ p \notin DOMAIN registry
  BY <1>1, <1>2, <1>i DEF Types, SpawnActor
<1>16. s # System => \A b \in Ids : parent[b] = s => reply[b] \notin Pending
  BY DEF Waiting, IsPending, Pending
<1>17. SerialInv'
  <2>1. SerialInv
    BY DEF IndInv, Stoppable
  <2> QED
    BY <1>2, <1>3, <1>15, <1>16, <2>1 DEF SerialInv
<1>18. FreeInv'
  <2>1. FreeInv
    BY DEF IndInv, Stoppable
  <2> SUFFICES ASSUME NEW b \in Ids, NEW c \in Ids,
                      reply'[b] \in Pending, b # c, parent'[b] = parent'[c], parent'[b] # System,
                      path'[b] \in DOMAIN registry, registry[path'[b]] = c, path'[c] = path'[b]
               PROVE  FALSE
    BY <1>1 DEF FreeInv
  <2>2. c # a /\ reply[c] # "unused"
    BY <1>2, <1>i DEF RegisteredStarted
  <2>3. CASE b = a
    BY <1>15, <2>3
  <2>4. CASE b # a
    BY <1>3, <2>1, <2>2, <2>4 DEF FreeInv
  <2> QED
    BY <2>3, <2>4
<1> QED
  BY <1>1, <1>10, <1>13, <1>14, <1>17, <1>18, TaskQuiet, SignalQuiet DEF IndInv, Stoppable

\* The first half of the end of create_actor keeps it.
LEMMA CreateInsertsInd ==
    ASSUME IndInv, NEW a \in Ids, CreateInserts(a)
    PROVE  IndInv'
<1>i. Types /\ CallInv /\ SenderInv /\ RegInv /\ ToldInv /\ RegisteredStarted /\ StopOnce
  BY DEF IndInv, Core
<1>0. /\ UNCHANGED <<tree, stage, acts, senders, history>>
      /\ UNCHANGED signals /\ UNCHANGED task
      /\ reply[a] \in {"ok", "err"}
  BY DEF CreateInserts, runner
<1>1. PICK re \in {"inserting", "removing"} :
        /\ reply' = [reply EXCEPT ![a] = re]
        /\ \/ registry' = Without(registry, {path[a]})
           \/ registry' = StorePut(registry, path[a], a) /\ re = "inserting"
  BY DEF CreateInserts
<1>2. /\ reply'[a] = re /\ \A b \in Ids \ {a} : reply'[b] = reply[b]
      /\ reply' = [b \in Ids |-> reply'[b]] /\ DOMAIN stage' = Ids /\ DOMAIN senders' = Supervisors
  BY <1>0, <1>1, <1>i DEF Types
<1>3. Onward
  BY <1>0, <1>2 DEF Onward, tree, history
<1>4. Holding /\ Inserting /\ Calm
  BY <1>0, <1>2 DEF Holding, Inserting, Calm, Pending, Held, tree
<1>5. CASE registry' = Without(registry, {path[a]})
  <2>1. \A p \in DOMAIN registry' : p \in DOMAIN registry /\ registry'[p] = registry[p]
    BY <1>5, RegistryWithout
  <2>2. Core'
    <3>1. \A b \in Ids : \/ reply'[b] = reply[b]
                         \/ reply[b] \notin {"unused", "inserting", "registered"} /\ reply'[b] # "unused"
      BY <1>0, <1>2
    <3>2. \A b \in Ids : stage'[b] = "starting" => stage[b] = "starting" /\ reply'[b] = reply[b]
      BY <1>0, <1>2, <1>i DEF CallInv
    <3> QED
      BY <1>0, <1>2, <2>1, <3>1, <3>2, QuietStep DEF history, IndInv
  <2>3. Entries
    BY <2>1 DEF Entries
  <2> QED
    BY <1>0, <1>3, <1>4, <2>2, <2>3, StoppableStep, TaskQuiet, SignalQuiet DEF IndInv
<1>6. CASE registry' = StorePut(registry, path[a], a) /\ re = "inserting"
  <2>1. \A p \in DOMAIN registry' :
          \/ p \in DOMAIN registry /\ registry'[p] = registry[p] /\ registry'[p] \in Ids
          \/ p = path[a] /\ registry'[p] = a
    BY <1>6, <1>i DEF StorePut, RegInv
  <2>2. RegInv' /\ RegisteredStarted'
    BY <1>0, <1>2, <1>6, <1>i, <2>1 DEF RegInv, RegisteredStarted, tree
  <2>3. Types'
    BY <1>0, <1>2, <1>i, Zenon DEF Types, tree, history
  <2>4. CallInv' /\ SenderInv' /\ ToldInv' /\ StopOnce'
    BY <1>0, <1>2, <1>i DEF CallInv, SenderInv, ToldInv, StopOnce, tree, history
  <2>5. Core'
    BY <2>2, <2>3, <2>4 DEF Core
  <2>6. Entries
    BY <1>0, <1>2, <1>6, <2>1 DEF Entries, tree
  <2> QED
    BY <1>0, <1>3, <1>4, <2>5, <2>6, StoppableStep, TaskQuiet, SignalQuiet DEF IndInv
<1> QED
  BY <1>1, <1>5, <1>6

\* The second half of the end of create_actor keeps it.
LEMMA CreateReturnsInd ==
    ASSUME IndInv, NEW a \in Ids, CreateReturns(a)
    PROVE  IndInv'
<1>i. Types /\ CallInv /\ SenderInv /\ RegInv /\ ToldInv /\ RegisteredStarted /\ StopOnce
  BY DEF IndInv, Core
<1>0. /\ UNCHANGED <<registry, tree, stage, acts, history>> /\ UNCHANGED tree
      /\ UNCHANGED signals /\ UNCHANGED task
      /\ reply[a] # "unused"
  BY DEF CreateReturns, runner
<1>1. PICK re \in {"registered", "refused"} :
        /\ reply' = [reply EXCEPT ![a] = re]
        /\ \/ /\ reply[a] = "inserting" /\ re = "registered"
              /\ senders' = [senders EXCEPT ![parent[a]] = StorePut(@, path[a], a)]
           \/ /\ reply[a] = "removing"
              /\ senders' = [senders EXCEPT ![parent[a]] = Without(@, {path[a]})]
  BY DEF CreateReturns
<1>2. /\ reply'[a] = re /\ \A b \in Ids \ {a} : reply'[b] = reply[b]
      /\ reply' = [b \in Ids |-> reply'[b]] /\ DOMAIN stage' = Ids
      /\ parent[a] \in Supervisors
  BY <1>0, <1>1, <1>i DEF Types
<1>3. Onward
  BY <1>0, <1>2 DEF Onward, tree, history
<1>4. Entries
  BY <1>0 DEF Entries
<1>o. \A b \in Ids : b # a /\ parent[b] = parent[a] /\ path[b] = path[a] =>
        \/ path[b] \notin DOMAIN registry \/ registry[path[b]] # b
        \/ parent[b] = System /\ Shared(b)
  <2>1. reply[a] \in Pending /\ reply[a] # "unused"
    BY <1>1 DEF Pending
  <2> QED
    BY <2>1 DEF IndInv, Stoppable, FreeInv, Shared
<1> DEFINE s == parent[a]
<1>5. CASE /\ reply[a] = "removing"
           /\ senders' = [senders EXCEPT ![s] = Without(@, {path[a]})]
  <2>1. /\ DOMAIN senders' = Supervisors
        /\ \A u \in Supervisors : \A p \in DOMAIN senders'[u] :
              p \in DOMAIN senders[u] /\ senders'[u][p] = senders[u][p]
                /\ (u = s => p \notin {path[a]})
        /\ \A b \in Ids : Held(b) => Held(b)' \/ (parent[b] = s /\ path[b] \in {path[a]})
    <3> HIDE DEF s
    <3> DEFINE P == {path[a]}
    <3> HIDE DEF P
    <3>1. s \in Supervisors /\ senders' = [senders EXCEPT ![s] = Without(@, P)]
      BY <1>2, <1>5 DEF s, P
    <3>2. /\ DOMAIN senders' = Supervisors
          /\ \A u \in Supervisors : \A p \in DOMAIN senders'[u] :
                p \in DOMAIN senders[u] /\ senders'[u][p] = senders[u][p] /\ (u = s => p \notin P)
          /\ \A b \in Ids : Held(b) => Held(b)' \/ (parent[b] = s /\ path[b] \in P)
      BY <1>0, <3>1, SendersWithout DEF IndInv
    <3> QED
      BY <3>2 DEF P
  <2>2. Core'
    <3>1. \A b \in Ids : \/ reply'[b] = reply[b]
                         \/ reply[b] \notin {"unused", "inserting", "registered"} /\ reply'[b] # "unused"
      BY <1>2, <1>5
    <3>2. \A b \in Ids : stage'[b] = "starting" => stage[b] = "starting" /\ reply'[b] = reply[b]
      BY <1>0, <1>2, <1>5, <1>i DEF CallInv
    <3>3. \A u \in Supervisors : \A p \in DOMAIN senders'[u] :
              p \in DOMAIN senders[u] /\ senders'[u][p] = senders[u][p]
      BY <2>1
    <3> QED
      BY <1>0, <1>2, <2>1, <3>1, <3>2, <3>3, QuietStep DEF history, IndInv
  <2>3. Inserting /\ Calm
    BY <1>1, <1>2, <1>5 DEF Inserting, Calm, Pending
  <2>4. Holding
    <3> SUFFICES ASSUME NEW b \in Ids, Held(b), ~Held(b)'
                 PROVE  \/ path[b] \notin DOMAIN registry' \/ registry'[path[b]] # b
                        \/ parent[b] = System /\ Shared(b)
      BY DEF Holding
    <3>1. parent[b] = s /\ path[b] = path[a]
      BY <2>1
    <3>2. b # a
      BY <1>2, <1>5, <1>i, <3>1 DEF SenderInv, Held, Has
    <3> QED
      BY <1>0, <3>1, <3>2, <1>o
  <2> QED
    BY <1>0, <1>3, <1>4, <2>2, <2>3, <2>4, StoppableStep, TaskQuiet, SignalQuiet DEF IndInv
<1>6. CASE /\ reply[a] = "inserting" /\ re = "registered"
           /\ senders' = [senders EXCEPT ![s] = StorePut(@, path[a], a)]
  <2>1. DOMAIN senders = Supervisors /\ s \in Supervisors
    BY <1>2, <1>i DEF Types
  <2>2. /\ DOMAIN senders' = Supervisors /\ senders'[s] = StorePut(senders[s], path[a], a)
        /\ \A u \in Supervisors : u # s => senders'[u] = senders[u]
    <3> HIDE DEF s
    <3> QED
      BY <1>6, <2>1
  <2>3. /\ path[a] \in DOMAIN senders'[s] /\ senders'[s][path[a]] = a
        /\ \A p \in DOMAIN senders'[s] : p # path[a] =>
              p \in DOMAIN senders[s] /\ senders'[s][p] = senders[s][p]
        /\ \A p \in DOMAIN senders[s] : p # path[a] =>
              p \in DOMAIN senders'[s] /\ senders'[s][p] = senders[s][p]
    BY <2>2 DEF StorePut
  <2>4. UNCHANGED <<path, parent, spawned, told, halted, forgotten>>
    BY <1>0 DEF tree, history
  <2>5. a \notin told
    BY <1>6, <1>i DEF ToldInv
  <2>6. SenderInv'
    <3> SUFFICES ASSUME NEW u \in Supervisors, NEW p \in DOMAIN senders'[u]
                 PROVE  LET b == senders'[u][p]
                        IN  /\ b \in Ids /\ path[b] = p /\ parent[b] = u
                            /\ reply'[b] = "registered" /\ b \notin told
      BY <2>4 DEF SenderInv
    <3>1. CASE u = s /\ p = path[a]
      BY <1>2, <1>6, <2>3, <2>5, <3>1
    <3>2. CASE ~(u = s /\ p = path[a])
      <4>1. p \in DOMAIN senders[u] /\ senders'[u][p] = senders[u][p]
        BY <2>2, <2>3, <3>2
      <4> QED
        BY <1>2, <1>6, <1>i, <4>1 DEF SenderInv
    <3> QED
      BY <3>1, <3>2
  <2>7. Types'
    BY <1>0, <1>2, <1>i, <2>2, <2>4, Zenon DEF Types
  <2>8. CallInv' /\ RegInv' /\ RegisteredStarted' /\ ToldInv' /\ StopOnce'
    <3>1. CallInv' /\ RegInv'
      BY <1>0, <1>2, <1>6, <1>i, <2>4 DEF CallInv, RegInv
    <3>2. RegisteredStarted'
      BY <1>0, <1>2, <1>6, <1>i DEF RegInv, RegisteredStarted
    <3>3. ToldInv' /\ StopOnce'
      BY <1>0, <1>2, <1>6, <1>i, <2>4 DEF ToldInv, StopOnce
    <3> QED
      BY <3>1, <3>2, <3>3
  <2>9. Core'
    BY <2>6, <2>7, <2>8 DEF Core
  <2>10. Held(a)'
    BY <2>3, <2>4 DEF Held, Has
  <2>11. Inserting /\ Calm
    BY <1>2, <1>6, <2>10 DEF Inserting, Calm, Pending
  <2>12. Holding
    <3> SUFFICES ASSUME NEW b \in Ids, Held(b), ~Held(b)'
                 PROVE  \/ path[b] \notin DOMAIN registry' \/ registry'[path[b]] # b
                        \/ parent[b] = System /\ Shared(b)
      BY DEF Holding
    <3>1. parent[b] = s /\ path[b] = path[a]
      <4>1. parent[b] \in Supervisors
        BY <1>i DEF Types
      <4> QED
        BY <2>2, <2>3, <2>4, <4>1 DEF Held, Has
    <3>2. b # a
      BY <2>10
    <3> QED
      BY <1>0, <3>1, <3>2, <1>o
  <2> QED
    BY <1>0, <1>3, <1>4, <2>9, <2>11, <2>12, StoppableStep, TaskQuiet, SignalQuiet DEF IndInv
<1> QED
  BY <1>1, <1>5, <1>6

-----------------------------------------------------------------------------
(* The inductive invariant, and what follows from it. *)

\* It holds initially.
LEMMA InitInd == Init => IndInv
<1> SUFFICES ASSUME Init PROVE IndInv
  OBVIOUS
<1>1. DOMAIN EmptyStore = {}
  BY DEF EmptyStore
<1>2. Types
  BY SystemAssumption DEF Init, Types, Supervisors, System, Ids
<1>3. CallInv /\ SenderInv /\ RegInv /\ RegisteredStoppable /\ RegisteredStarted
  BY <1>1 DEF Init, CallInv, SenderInv, RegInv, RegisteredStoppable, RegisteredStarted
<1>4. ToldInv /\ StopOnce
  BY DEF Init, ToldInv, StopOnce, NoStop
<1>5. SignalInv
  BY DEF Init, SignalInv, Good, Supervisors
<1>6. TaskInv
  BY DEF Init, TaskInv, Idle
<1>7. SerialInv /\ FreeInv
  BY DEF Init, SerialInv, FreeInv, Pending
<1> QED
  BY <1>2, <1>3, <1>4, <1>5, <1>6, <1>7 DEF IndInv, Core, Stoppable

\* A call of create_actor keeps it.
LEMMA CreateActorInd ==
    ASSUME IndInv, NEW n \in Names, CreateActor(n)
    PROVE  IndInv'
<1>1. <<n>> \in Seq(Names) /\ System \in Supervisors
  BY DEF Supervisors
<1> QED
  BY <1>1, SpawnActorInd DEF CreateActor

\* A call of create_child keeps it: the parent waits for no other child.
LEMMA CreateChildInd ==
    ASSUME IndInv, NEW s \in Ids, NEW n \in Names, CreateChild(s, n)
    PROVE  IndInv'
<1> DEFINE p == Append(path[s], n)
<1>1. p \in Seq(Names) /\ s \in Supervisors
  BY DEF IndInv, Core, Types, Supervisors
<1>2. SpawnActor(s, p) /\ ~Waiting(s)
  BY DEF CreateChild, InHook, Busy
<1> HIDE DEF p
<1> QED
  BY <1>1, <1>2, SpawnActorInd

\* Every step keeps the inductive invariant.
LEMMA NextInd ==
    ASSUME IndInv, EmitInv, [Next]_vars
    PROVE  IndInv'
<1>1. CASE UNCHANGED vars
  <2>1. /\ UNCHANGED <<registry, tree, stage, reply, acts, senders, history>>
        /\ UNCHANGED signals /\ UNCHANGED task
    BY <1>1 DEF vars, runner
  <2>2. Core' /\ Onward /\ Stoppable'
    BY <2>1, SystemStep
  <2> QED
    BY <2>1, <2>2, TaskQuiet, SignalQuiet DEF IndInv
<1>2. ASSUME NEW n \in Names, CreateActor(n)
      PROVE  IndInv'
  BY <1>2, CreateActorInd
<1>3. ASSUME NEW n \in Names,
             StopActor(n) \/ StopReturns(n) \/ RemoveActor(n) \/ RemoveReturns(n)
      PROVE  IndInv'
  BY <1>3, StopActorInd, StopReturnsInd, RemoveActorInd, RemoveReturnsInd
<1>4. ASSUME NEW a \in Ids, Handler(a)
      PROVE  IndInv'
  BY <1>4, CreateChildInd, StopChildInd, ForgetInd, StopAllInd, PanicsInd, EmitInd,
     RestartChildrenInd DEF Handler
<1>5. ASSUME NEW a \in Ids, Loop(a)
      PROVE  IndInv'
  BY <1>5, RecvStoppedInd, RecvSignalInd, RecvStopInd, RecvRestartInd, PreStopInd,
     StopChildrenInd, EmittedInd DEF Loop
<1>6. ASSUME NEW a \in Ids,
             PreStart(a) \/ PreStartPanics(a) \/ EmitStopped(a)
               \/ CreateInserts(a) \/ CreateReturns(a)
      PROVE  IndInv'
  BY <1>6, PreStartInd, PreStartPanicsInd, EmitStoppedInd, CreateInsertsInd, CreateReturnsInd
<1>7. ASSUME Cancel \/ SysCancelled \/ SysSignal \/ SysUnregister \/ SysStopChild
               \/ SysStopped \/ SysRemoved
      PROVE  IndInv'
  BY <1>7, CancelInd, SysCancelledInd, SysSignalInd, SysUnregisterInd, SysStopChildInd,
     SysStoppedInd, SysRemovedInd
<1> QED
  BY <1>1, <1>2, <1>3, <1>4, <1>5, <1>6, <1>7 DEF Next

\* Every step keeps what emissions need.
LEMMA EmitStep ==
    ASSUME IndInv, EmitInv, [Next]_vars
    PROVE  EmitInv'
<1>i. /\ DOMAIN stage = Ids /\ spawned \in 0..MaxActors
      /\ \A a \in Ids : emitting[a] # "nothing" =>
            stage[a] # "unused" /\ reply[a] # "unused" /\ a <= spawned
  BY DEF IndInv, Core, Types, CallInv, EmitInv
<1>k. ASSUME UNCHANGED <<stage, emitting>> PROVE EmitInv'
  BY <1>k DEF EmitInv
<1>s. ASSUME NEW s, NEW p, SpawnActor(s, p) PROVE EmitInv'
  <2>1. PICK a \in Ids : a = spawned + 1 /\ stage' = [stage EXCEPT ![a] = "starting"]
    <3>1. spawned + 1 \in Ids
      BY <1>i, <1>s, SystemAssumption DEF SpawnActor, Ids
    <3> QED
      BY <1>s, <3>1 DEF SpawnActor
  <2>2. emitting[a] = "nothing" /\ UNCHANGED emitting
    BY <1>i, <1>s, <2>1 DEF SpawnActor
  <2> QED
    BY <1>i, <2>1, <2>2 DEF EmitInv
<1>w. ASSUME NEW a \in Ids, emitting[a] = "nothing", UNCHANGED emitting, NEW g,
             stage' = [stage EXCEPT ![a] = g]
      PROVE  EmitInv'
  BY <1>i, <1>w DEF EmitInv
<1>e. ASSUME NEW a \in Ids, emitting' = emitting \/ emitting' = Reporting(a),
             NEW g \in {"restarting", "running", "closing"},
             stage' = [stage EXCEPT ![a] = g]
      PROVE  EmitInv'
  BY <1>e, <1>i DEF EmitInv, Reporting, Emissions
<1>1. CASE UNCHANGED vars
  BY <1>1, <1>k DEF vars
<1>2. ASSUME NEW n \in Names, CreateActor(n) PROVE EmitInv'
  BY <1>2, <1>s DEF CreateActor
<1>3. ASSUME NEW n \in Names,
             StopActor(n) \/ StopReturns(n) \/ RemoveActor(n) \/ RemoveReturns(n)
      PROVE  EmitInv'
  BY <1>3, <1>k DEF StopActor, StopReturns, RemoveActor, RemoveReturns, CallSystem
<1>4. ASSUME NEW a \in Ids, Handler(a) PROVE EmitInv'
  <2>1. ASSUME NEW n \in Names, CreateChild(a, n) PROVE EmitInv'
    BY <1>s, <2>1 DEF CreateChild
  <2>2. CASE Panics(a)
    BY <1>w, <2>2 DEF Panics, InHook, Busy
  <2>3. ASSUME NEW kind \in {"Error", "Fault"}, Emit(a, kind) PROVE EmitInv'
    <3>1. /\ emitting' = [emitting EXCEPT ![a] = kind] /\ stage' = stage
          /\ stage[a] \in {"starting", "restarting", "running", "pre_stop"}
      BY <2>3 DEF Emit, InHook
    <3> QED
      BY <3>1 DEF EmitInv, Emissions
  <2> QED
    BY <1>4, <1>k, <2>1, <2>2, <2>3 DEF Handler, StopChild, Forget, StopAll, RestartChildren
<1>5. ASSUME NEW a \in Ids, Loop(a) PROVE EmitInv'
  <2>1. CASE RecvStopped(a) \/ RecvStop(a)
    <3>1. emitting[a] = "nothing" /\ UNCHANGED emitting /\ \E g : stage' = [stage EXCEPT ![a] = g]
      BY <2>1 DEF RecvStopped, RecvStop, Ready, Busy
    <3> QED
      BY <1>w, <3>1
  <2>2. CASE RecvSignal(a)
    <3>1. PICK kind : emitting' = [emitting EXCEPT ![a] = kind] /\ kind = Head(signals[a])[1]
      BY <2>2 DEF RecvSignal
    <3>2. stage' = stage /\ stage[a] = "running"
      BY <2>2 DEF RecvSignal, Ready
    <3>3. kind \in Kinds
      BY <2>2, <3>1, GoodTail DEF RecvSignal, IndInv, SignalInv, Supervisors
    <3> QED
      BY <2>2, <3>1, <3>2, <3>3 DEF EmitInv, Emissions, Kinds, RecvSignal
  <2>3. CASE RecvRestart(a)
    <3>1. stage' = [stage EXCEPT ![a] = "restarting"]
          /\ (emitting' = emitting \/ emitting' = Reporting(a))
      BY <2>3 DEF RecvRestart
    <3> QED
      BY <1>e, <3>1
  <2>4. CASE PreStop(a)
    <3>1. stage' = [stage EXCEPT ![a] = "closing"]
          /\ (emitting' = emitting \/ emitting' = Reporting(a))
      BY <2>4 DEF PreStop
    <3> QED
      BY <1>e, <3>1
  <2>5. CASE StopChildren(a)
    <3>1. emitting[a] = "nothing"
      BY <2>5 DEF StopChildren, Busy
    <3>2. PICK g \in {"running", "finishing"} : stage' = [stage EXCEPT ![a] = g]
                                                 /\ (g = "finishing" <=> GetChilds(path[a]) = {})
      BY <2>5 DEF StopChildren
    <3>3. PICK x \in Sends(a, GetChilds(path[a])) :
            emitting' = IF x.reached = GetChilds(path[a]) THEN emitting ELSE Reporting(a)
      BY <2>5 DEF StopChildren
    <3>4. CASE GetChilds(path[a]) = {}
      <4>1. x.reached = {}
        BY <3>3, <3>4 DEF Sends
      <4> QED
        BY <1>w, <3>1, <3>2, <3>3, <3>4, <4>1
    <3>5. CASE GetChilds(path[a]) # {}
      BY <1>e, <3>2, <3>3, <3>5
    <3> QED
      BY <3>4, <3>5
  <2>6. CASE Emitted(a)
    BY <1>i, <2>6 DEF Emitted, EmitInv, Emissions
  <2> QED
    BY <1>5, <2>1, <2>2, <2>3, <2>4, <2>5, <2>6 DEF Loop
<1>6. ASSUME NEW a \in Ids,
             PreStart(a) \/ PreStartPanics(a) \/ EmitStopped(a)
               \/ CreateInserts(a) \/ CreateReturns(a)
      PROVE  EmitInv'
  <2>1. CASE PreStart(a) \/ PreStartPanics(a)
    <3>1. emitting[a] = "nothing" /\ UNCHANGED emitting /\ \E g : stage' = [stage EXCEPT ![a] = g]
      BY <2>1 DEF PreStart, PreStartPanics, Busy
    <3> QED
      BY <1>w, <3>1
  <2>2. CASE EmitStopped(a)
    <3>1. emitting[a] = "nothing" /\ UNCHANGED emitting /\ stage' = [stage EXCEPT ![a] = "ended"]
      BY <2>2 DEF EmitStopped, EmitInv
    <3> QED
      BY <1>w, <3>1
  <2> QED
    BY <1>6, <1>k, <2>1, <2>2 DEF CreateInserts, CreateReturns
<1>7. ASSUME Cancel \/ SysCancelled \/ SysSignal \/ SysUnregister \/ SysStopChild
               \/ SysStopped \/ SysRemoved
      PROVE  EmitInv'
  BY <1>7, <1>k DEF Cancel, SysCancelled, SysSignal, SysUnregister, SysStopChild, SysStopped,
     SysRemoved
<1> QED
  BY <1>1, <1>2, <1>3, <1>4, <1>5, <1>6, <1>7 DEF Next

\* IndInv is inductive, together with EmitInv.
THEOREM Inductive == Spec => [](IndInv /\ EmitInv)
<1>1. Init => IndInv /\ EmitInv
  BY InitInd DEF Init, EmitInv, Emissions
<1>2. IndInv /\ EmitInv /\ [Next]_vars => IndInv' /\ EmitInv'
  BY NextInd, EmitStep
<1> QED
  BY <1>1, <1>2, PTL DEF Spec

\* An actor that can be looked up can be stopped by its creator, apart from
\* the races that the property names (actor/src/system.rs:483-490, 583-588).
THEOREM RegisteredStoppableHolds == Spec => []RegisteredStoppable
<1>1. IndInv => RegisteredStoppable
  BY DEF IndInv, Stoppable
<1> QED
  BY <1>1, Inductive, PTL

\* No actor is sent Stop twice or runs pre_stop twice, whoever stops it
\* (actor/src/system.rs:583, actor/src/runner.rs:213).
THEOREM StopOnceHolds == Spec => []StopOnce
<1>1. IndInv => StopOnce
  BY DEF IndInv, Core
<1> QED
  BY <1>1, Inductive, PTL

\* An actor is registered only after it started (actor/src/system.rs:465-490).
THEOREM RegisteredStartedHolds == Spec => []RegisteredStarted
<1>1. IndInv => RegisteredStarted
  BY DEF IndInv, Core
<1> QED
  BY <1>1, Inductive, PTL

-----------------------------------------------------------------------------
(* Types. *)

RegistryType == IsStore(registry, Paths, Ids)
SendersType == \A s \in Supervisors : IsStore(senders[s], Paths, Ids)
SignalsType == signals \in [Supervisors -> Seq(Kinds \X Paths)]

\* An actor that was spawned has a path, which is not too deep.
PathType ==
    /\ path \in [Ids -> Paths \cup {<<>>}]
    /\ \A a \in Ids : reply[a] # "unused" => path[a] \in Paths

StageType ==
    /\ stage \in [Ids -> {"unused", "starting", "restarting", "running", "pre_stop",
                          "closing", "finishing", "ended"}]
    /\ reply \in [Ids -> {"unused", "waiting", "ok", "err", "inserting", "registered",
                          "removing", "refused"}]

RunnerType ==
    /\ active \in BOOLEAN /\ cancelled \in BOOLEAN /\ shutdown \in BOOLEAN
    /\ task \in [todo : SUBSET Paths, at : Paths \cup {<<>>}, gone : BOOLEAN]
    /\ calls \subseteq {"stop", "remove"} \X Names

BoundsType ==
    /\ emitted \in 0..MaxSignals /\ restarts \in 0..MaxRestarts
    /\ forgotten \subseteq Ids

TypeInv ==
    /\ IndInv /\ EmitInv
    /\ RegistryType /\ SendersType /\ SignalsType /\ PathType /\ StageType
    /\ RunnerType /\ BoundsType

\* Paths of names.
LEMMA PathTypes ==
    /\ \A n \in Names : <<n>> \in Paths
    /\ \A p \in Paths, n \in Names : Len(p) + 1 < MaxDepth => Append(p, n) \in Paths
    /\ <<>> \notin Paths
<1>d. MaxDepth \in Nat /\ MaxDepth >= 2
  BY SystemAssumption
<1>1. ASSUME NEW n \in Names PROVE <<n>> \in Paths
  <2>1. <<n>> \in [1..1 -> Names] /\ 1 \in 1..(MaxDepth - 1)
    BY <1>d
  <2> QED
    BY <2>1 DEF Paths
<1>2. ASSUME NEW p \in Paths, NEW n \in Names, Len(p) + 1 < MaxDepth
      PROVE  Append(p, n) \in Paths
  <2>1. PICK d \in 1..(MaxDepth - 1) : p \in [1..d -> Names]
    BY DEF Paths
  <2>2. d \in Nat /\ p \in Seq(Names) /\ Len(p) = d
    BY <1>d, <2>1
  <2>3. Append(p, n) \in [1..(d + 1) -> Names]
    <3>1. Append(p, n) \in Seq(Names) /\ Len(Append(p, n)) = d + 1
      BY <2>2
    <3>2. \A q \in Seq(Names) : q \in [1..Len(q) -> Names]
      OBVIOUS
    <3> QED
      BY <3>1, <3>2
  <2>4. d + 1 \in 1..(MaxDepth - 1)
    BY <1>d, <1>2, <2>2
  <2> QED
    BY <2>3, <2>4 DEF Paths
<1>3. <<>> \notin Paths
  <2> SUFFICES ASSUME <<>> \in Paths PROVE FALSE
    OBVIOUS
  <2>1. PICK d \in 1..(MaxDepth - 1) : <<>> \in [1..d -> Names]
    BY DEF Paths
  <2>2. 1 \in DOMAIN <<>>
    BY <1>d, <2>1
  <2> QED
    BY <2>2
<1> QED
  BY <1>1, <1>2, <1>3

\* Maps of actors stay such maps.
LEMMA StoreTypes ==
    ASSUME NEW m, IsStore(m, Paths, Ids)
    PROVE  /\ \A P : IsStore(Without(m, P), Paths, Ids)
           /\ \A p \in Paths, a \in Ids : IsStore(StorePut(m, p, a), Paths, Ids)
BY DEF IsStore, Without, StorePut

\* Channels of signals stay such channels.
LEMMA SignalTypes ==
    ASSUME NEW sigs \in [Supervisors -> Seq(Kinds \X Paths)], Types, PathType,
           NEW a \in Ids, reply[a] # "unused", NEW kind \in Kinds
    PROVE  WithSignal(sigs, a, kind) \in [Supervisors -> Seq(Kinds \X Paths)]
<1>1. parent[a] \in Supervisors /\ <<kind, path[a]>> \in Kinds \X Paths
  BY DEF Types, PathType
<1>2. Append(sigs[parent[a]], <<kind, path[a]>>) \in Seq(Kinds \X Paths)
  BY <1>1
<1> QED
  BY <1>1, <1>2 DEF WithSignal

\* The first signal of a channel, and the channels without it.
LEMMA SignalTaken ==
    ASSUME SignalsType, NEW s \in Supervisors, signals[s] # <<>>
    PROVE  /\ [signals EXCEPT ![s] = Tail(@)] \in [Supervisors -> Seq(Kinds \X Paths)]
           /\ Head(signals[s])[1] \in Kinds /\ Head(signals[s])[2] \in Paths
<1>1. signals[s] \in Seq(Kinds \X Paths)
  BY DEF SignalsType
<1>2. Tail(signals[s]) \in Seq(Kinds \X Paths) /\ Head(signals[s]) \in Kinds \X Paths
  BY <1>1
<1> QED
  BY <1>2 DEF SignalsType

\* Who runs a hook or a loop was created.
LEMMA UsedActor ==
    ASSUME IndInv, NEW a \in Ids
    PROVE  stage[a] # "unused" => reply[a] # "unused"
BY DEF IndInv, Core, CallInv

\* The registry.
LEMMA RegistryTypeStep ==
    ASSUME TypeInv, [Next]_vars
    PROVE  RegistryType'
<1>t. RegistryType /\ PathType
  BY DEF TypeInv
<1>w. ASSUME NEW P, registry' = Without(registry, P) PROVE RegistryType'
  BY <1>t, <1>w, StoreTypes DEF RegistryType
<1>s. ASSUME registry' = registry PROVE RegistryType'
  BY <1>t, <1>s DEF RegistryType
<1>1. CASE UNCHANGED vars
  BY <1>1, <1>s DEF vars
<1>2. ASSUME NEW n \in Names, CreateActor(n) PROVE RegistryType'
  BY <1>2, <1>s DEF CreateActor, SpawnActor
<1>3. ASSUME NEW n \in Names,
             StopActor(n) \/ StopReturns(n) \/ RemoveActor(n) \/ RemoveReturns(n)
      PROVE  RegistryType'
  BY <1>3, <1>s, <1>w DEF StopActor, StopReturns, RemoveActor, RemoveReturns, CallSystem
<1>4. ASSUME NEW a \in Ids, Handler(a) PROVE RegistryType'
  BY <1>4, <1>s, <1>w DEF Handler, CreateChild, SpawnActor, StopChild, Forget, StopAll, Panics,
     Emit, RestartChildren, StopPaths, RemoveChild
<1>5. ASSUME NEW a \in Ids, Loop(a) PROVE RegistryType'
  BY <1>5, <1>s, <1>w DEF Loop, RecvStopped, RecvSignal, RecvStop, RecvRestart, PreStop,
     StopChildren, Emitted, StopPaths, RemoveChild
<1>6. ASSUME NEW a \in Ids, PreStart(a) \/ PreStartPanics(a) \/ EmitStopped(a) \/ CreateReturns(a)
      PROVE  RegistryType'
  BY <1>6, <1>s DEF PreStart, PreStartPanics, EmitStopped, CreateReturns
<1>7. ASSUME NEW a \in Ids, CreateInserts(a) PROVE RegistryType'
  <2>1. \/ registry' = Without(registry, {path[a]})
        \/ reply[a] = "ok" /\ registry' = StorePut(registry, path[a], a)
    BY <1>7 DEF CreateInserts
  <2> QED
    BY <1>t, <1>w, <2>1, StoreTypes DEF PathType, RegistryType
<1>8. ASSUME Cancel \/ SysCancelled \/ SysSignal \/ SysUnregister \/ SysStopChild
               \/ SysStopped \/ SysRemoved
      PROVE  RegistryType'
  BY <1>8, <1>s, <1>w DEF Cancel, SysCancelled, SysSignal, SysUnregister, SysStopChild,
     SysStopped, SysRemoved
<1> QED
  BY <1>1, <1>2, <1>3, <1>4, <1>5, <1>6, <1>7, <1>8 DEF Next

\* The senders.
LEMMA SendersTypeStep ==
    ASSUME TypeInv, [Next]_vars
    PROVE  SendersType'
<1>t. SendersType /\ PathType /\ Types
  BY DEF TypeInv, IndInv, Core
<1>w. ASSUME NEW s \in Supervisors, NEW P, senders' = [senders EXCEPT ![s] = Without(senders[s], P)]
      PROVE  SendersType'
  <2>1. IsStore(Without(senders[s], P), Paths, Ids)
    BY <1>t, StoreTypes DEF SendersType
  <2>2. \A u \in Supervisors : senders'[u] = IF u = s THEN Without(senders[s], P) ELSE senders[u]
    BY <1>t, <1>w DEF Types
  <2> QED
    BY <1>t, <2>1, <2>2 DEF SendersType
<1>s. ASSUME senders' = senders PROVE SendersType'
  BY <1>t, <1>s DEF SendersType
<1>0. System \in Supervisors /\ Ids \subseteq Supervisors
  BY DEF Supervisors
<1>1. CASE UNCHANGED vars
  BY <1>1, <1>s DEF vars
<1>2. ASSUME NEW n \in Names, CreateActor(n) PROVE SendersType'
  BY <1>2, <1>s DEF CreateActor, SpawnActor
<1>3. ASSUME NEW n \in Names,
             StopActor(n) \/ StopReturns(n) \/ RemoveActor(n) \/ RemoveReturns(n)
      PROVE  SendersType'
  BY <1>0, <1>3, <1>s, <1>w DEF StopActor, StopReturns, RemoveActor, RemoveReturns, CallSystem,
     StopTaken
<1>4. ASSUME NEW a \in Ids, Handler(a) PROVE SendersType'
  BY <1>0, <1>4, <1>s, <1>w DEF Handler, CreateChild, SpawnActor, StopChild, Forget, StopAll,
     Panics, Emit, RestartChildren, StopPaths, StopTaken, RemoveChild
<1>5. ASSUME NEW a \in Ids, Loop(a) PROVE SendersType'
  BY <1>0, <1>5, <1>s, <1>w DEF Loop, RecvStopped, RecvSignal, RecvStop, RecvRestart, PreStop,
     StopChildren, Emitted, StopPaths, StopTaken, RemoveChild
<1>6. ASSUME NEW a \in Ids, PreStart(a) \/ PreStartPanics(a) \/ EmitStopped(a) \/ CreateInserts(a)
      PROVE  SendersType'
  BY <1>6, <1>s DEF PreStart, PreStartPanics, EmitStopped, CreateInserts
<1>7. ASSUME NEW a \in Ids, CreateReturns(a) PROVE SendersType'
  <2> DEFINE s == parent[a]
             m == StorePut(senders[s], path[a], a)
  <2>0. s \in Supervisors
    BY <1>t DEF Types
  <2>1. CASE senders' = [senders EXCEPT ![s] = Without(senders[s], {path[a]})]
    BY <1>w, <2>0, <2>1
  <2>2. CASE reply[a] = "inserting" /\ senders' = [senders EXCEPT ![s] = m]
    <3>1. IsStore(m, Paths, Ids)
      BY <1>t, <2>0, <2>2, StoreTypes DEF SendersType, PathType
    <3> HIDE DEF s, m
    <3>2. \A u \in Supervisors : senders'[u] = m \/ senders'[u] = senders[u]
      BY <1>t, <2>2 DEF Types
    <3> QED
      BY <1>t, <3>1, <3>2 DEF SendersType
  <2> QED
    BY <1>7, <2>1, <2>2 DEF CreateReturns
<1>8. ASSUME Cancel \/ SysCancelled \/ SysSignal \/ SysUnregister \/ SysStopChild
               \/ SysStopped \/ SysRemoved
      PROVE  SendersType'
  BY <1>0, <1>8, <1>s, <1>w DEF Cancel, SysCancelled, SysSignal, SysUnregister, SysStopChild,
     SysStopped, SysRemoved, StopTaken
<1> QED
  BY <1>1, <1>2, <1>3, <1>4, <1>5, <1>6, <1>7, <1>8 DEF Next

\* The signal channels.
LEMMA SignalsTypeStep ==
    ASSUME TypeInv, [Next]_vars
    PROVE  SignalsType'
<1>t. SignalsType /\ PathType /\ Types /\ IndInv
  BY DEF TypeInv, IndInv, Core
<1>s. ASSUME signals' = signals PROVE SignalsType'
  BY <1>t, <1>s DEF SignalsType
<1>k. "Fault" \in Kinds /\ "Error" \in Kinds /\ "Stopped" \in Kinds
  BY DEF Kinds
<1>w. ASSUME NEW a \in Ids, stage[a] # "unused", NEW kind \in Kinds,
             signals' = WithSignal(signals, a, kind)
      PROVE  SignalsType'
  BY <1>t, <1>w, SignalTypes, UsedActor DEF SignalsType
<1>r. ASSUME NEW s \in Supervisors, signals[s] # <<>>, signals' = [signals EXCEPT ![s] = Tail(@)]
      PROVE  SignalsType'
  BY <1>t, <1>r, SignalTaken DEF SignalsType
<1>0. System \in Supervisors /\ Ids \subseteq Supervisors
  BY DEF Supervisors
<1>1. CASE UNCHANGED vars
  BY <1>1, <1>s DEF vars
<1>2. ASSUME NEW n \in Names, CreateActor(n) PROVE SignalsType'
  BY <1>2, <1>s DEF CreateActor, SpawnActor
<1>3. ASSUME NEW n \in Names,
             StopActor(n) \/ StopReturns(n) \/ RemoveActor(n) \/ RemoveReturns(n)
      PROVE  SignalsType'
  BY <1>3, <1>s DEF StopActor, StopReturns, RemoveActor, RemoveReturns, CallSystem
<1>4. ASSUME NEW a \in Ids, Handler(a) PROVE SignalsType'
  BY <1>4, <1>s DEF Handler, CreateChild, SpawnActor, StopChild, Forget, StopAll, Panics, Emit,
     RestartChildren
<1>5. ASSUME NEW a \in Ids, Loop(a) PROVE SignalsType'
  <2>1. CASE RecvStopped(a) \/ RecvSignal(a)
    BY <1>0, <1>r, <2>1 DEF RecvStopped, RecvSignal
  <2>2. CASE RecvStop(a) \/ RecvRestart(a) \/ PreStop(a) \/ StopChildren(a)
    BY <1>s, <2>2 DEF RecvStop, RecvRestart, PreStop, StopChildren
  <2>3. CASE Emitted(a)
    <3>1. stage[a] # "unused" /\ SignalOf(emitting[a]) \in Kinds
      BY <1>k, <2>3 DEF Emitted, TypeInv, EmitInv, Emissions, SignalOf
    <3> QED
      BY <1>w, <2>3, <3>1 DEF Emitted
  <2> QED
    BY <1>5, <2>1, <2>2, <2>3 DEF Loop
<1>6. ASSUME NEW a \in Ids,
             PreStart(a) \/ PreStartPanics(a) \/ EmitStopped(a)
               \/ CreateInserts(a) \/ CreateReturns(a)
      PROVE  SignalsType'
  <2>1. CASE EmitStopped(a)
    BY <1>k, <1>w, <2>1 DEF EmitStopped
  <2> QED
    BY <1>6, <1>s, <2>1 DEF PreStart, PreStartPanics, CreateInserts, CreateReturns
<1>7. ASSUME Cancel \/ SysCancelled \/ SysSignal \/ SysUnregister \/ SysStopChild
               \/ SysStopped \/ SysRemoved
      PROVE  SignalsType'
  BY <1>0, <1>7, <1>r, <1>s DEF Cancel, SysCancelled, SysSignal, SysUnregister, SysStopChild,
     SysStopped, SysRemoved
<1> QED
  BY <1>1, <1>2, <1>3, <1>4, <1>5, <1>6, <1>7 DEF Next

\* A new actor gets a path and starts.
LEMMA SpawnTypes ==
    ASSUME TypeInv, NEW s, NEW p \in Paths, SpawnActor(s, p)
    PROVE  PathType' /\ StageType'
<1>t. PathType /\ StageType /\ Types
  BY DEF TypeInv, IndInv, Core
<1>1. PICK a \in Ids :
        /\ path' = [path EXCEPT ![a] = p]
        /\ stage' = [stage EXCEPT ![a] = "starting"]
        /\ reply' = [reply EXCEPT ![a] = "waiting"]
  <2>1. spawned + 1 \in Ids
    BY <1>t, SystemAssumption DEF Types, Ids, SpawnActor
  <2> QED
    BY <2>1 DEF SpawnActor
<1>2. StageType'
  BY <1>t, <1>1 DEF StageType
<1>3. ASSUME NEW b \in Ids
      PROVE  /\ path'[b] \in Paths \cup {<<>>}
             /\ reply'[b] # "unused" => path'[b] \in Paths
  BY <1>t, <1>1, <1>3 DEF PathType, StageType
<1>4. path' \in [Ids -> Paths \cup {<<>>}]
  BY <1>t, <1>1 DEF PathType
<1> QED
  BY <1>2, <1>3, <1>4 DEF PathType

\* Steps that spawn no actor keep its path.
LEMMA PathKept ==
    ASSUME TypeInv, path' = path, \A b \in Ids : reply'[b] # "unused" => reply[b] # "unused"
    PROVE  PathType'
BY DEF TypeInv, PathType

\* The runners and their paths.
LEMMA StageTypeStep ==
    ASSUME TypeInv, [Next]_vars
    PROVE  PathType' /\ StageType'
<1>t. PathType /\ StageType /\ Types /\ IndInv
  BY DEF TypeInv, IndInv, Core
<1>s. ASSUME UNCHANGED <<stage, reply, path>> PROVE PathType' /\ StageType'
  BY <1>t, <1>s DEF PathType, StageType
<1>w. ASSUME UNCHANGED <<reply, path>>, NEW a \in Ids,
             NEW g \in {"restarting", "running", "pre_stop", "closing", "finishing", "ended"},
             stage' = [stage EXCEPT ![a] = g]
      PROVE  PathType' /\ StageType'
  BY <1>t, <1>w DEF PathType, StageType
<1>r. ASSUME UNCHANGED path, NEW a \in Ids, reply[a] # "unused",
             NEW e \in {"ok", "err", "inserting", "registered", "removing", "refused"},
             reply' = [reply EXCEPT ![a] = e], stage' \in [Ids -> {"unused", "starting",
                "restarting", "running", "pre_stop", "closing", "finishing", "ended"}]
      PROVE  PathType' /\ StageType'
  <2>1. StageType'
    BY <1>t, <1>r DEF StageType
  <2>2. \A b \in Ids : reply'[b] # "unused" => reply[b] # "unused"
    BY <1>t, <1>r DEF StageType
  <2> QED
    BY <1>r, <2>1, <2>2, PathKept
<1>1. CASE UNCHANGED vars
  BY <1>1, <1>s DEF vars, tree
<1>2. ASSUME NEW n \in Names, CreateActor(n) PROVE PathType' /\ StageType'
  BY <1>2, PathTypes, SpawnTypes DEF CreateActor
<1>3. ASSUME NEW n \in Names,
             StopActor(n) \/ StopReturns(n) \/ RemoveActor(n) \/ RemoveReturns(n)
      PROVE  PathType' /\ StageType'
  BY <1>3, <1>s DEF StopActor, StopReturns, RemoveActor, RemoveReturns, CallSystem, tree
<1>4. ASSUME NEW a \in Ids, Handler(a) PROVE PathType' /\ StageType'
  <2>1. ASSUME NEW n \in Names, CreateChild(a, n) PROVE PathType' /\ StageType'
    <3>1. reply[a] # "unused"
      BY <1>t, <2>1, UsedActor DEF CreateChild, InHook
    <3>2. path[a] \in Paths /\ Len(path[a]) + 1 < MaxDepth
      BY <1>t, <2>1, <3>1 DEF PathType, CreateChild
    <3>3. Append(path[a], n) \in Paths
      BY <3>2, PathTypes
    <3> QED
      BY <2>1, <3>3, SpawnTypes DEF CreateChild
  <2>2. CASE Panics(a)
    BY <1>w, <2>2 DEF Panics, tree
  <2> QED
    BY <1>4, <1>s, <2>1, <2>2 DEF Handler, StopChild, Forget, StopAll, Emit, RestartChildren, tree
<1>5. ASSUME NEW a \in Ids, Loop(a) PROVE PathType' /\ StageType'
  <2>1. UNCHANGED <<reply, path>>
    BY <1>5 DEF Loop, RecvStopped, RecvSignal, RecvStop, RecvRestart, PreStop, StopChildren,
       Emitted, tree
  <2>2. stage' = stage \/ \E g \in {"restarting", "running", "pre_stop", "closing", "finishing"} :
            stage' = [stage EXCEPT ![a] = g]
    BY <1>5 DEF Loop, RecvStopped, RecvSignal, RecvStop, RecvRestart, PreStop, StopChildren,
       Emitted
  <2> QED
    BY <1>s, <1>w, <2>1, <2>2
<1>6. ASSUME NEW a \in Ids, PreStart(a) \/ PreStartPanics(a) PROVE PathType' /\ StageType'
  <2>1. stage[a] # "unused" /\ reply[a] # "unused"
    BY <1>6, <1>t, UsedActor DEF PreStart, PreStartPanics
  <2>2. UNCHANGED path
    BY <1>6 DEF PreStart, PreStartPanics, tree
  <2>3. PICK g \in {"running", "finishing", "ended"} : stage' = [stage EXCEPT ![a] = g]
    BY <1>6 DEF PreStart, PreStartPanics
  <2>4. reply' = reply \/ \E e \in {"ok", "err"} : reply' = [reply EXCEPT ![a] = e]
    BY <1>6 DEF PreStart, PreStartPanics
  <2>5. stage' \in [Ids -> {"unused", "starting", "restarting", "running", "pre_stop",
                            "closing", "finishing", "ended"}]
    BY <1>t, <2>3 DEF StageType
  <2> QED
    BY <1>r, <1>w, <2>1, <2>2, <2>3, <2>4, <2>5
<1>7. ASSUME NEW a \in Ids, CreateInserts(a) \/ CreateReturns(a) PROVE PathType' /\ StageType'
  <2>1. reply[a] # "unused" /\ UNCHANGED <<path, stage>>
    BY <1>7 DEF CreateInserts, CreateReturns, tree
  <2>2. \E e \in {"inserting", "registered", "removing", "refused"} :
            reply' = [reply EXCEPT ![a] = e]
    BY <1>7 DEF CreateInserts, CreateReturns
  <2> QED
    BY <1>r, <1>t, <2>1, <2>2 DEF StageType
<1>8. ASSUME NEW a \in Ids, EmitStopped(a) PROVE PathType' /\ StageType'
  BY <1>8, <1>w DEF EmitStopped, tree
<1>9. ASSUME Cancel \/ SysCancelled \/ SysSignal \/ SysUnregister \/ SysStopChild
               \/ SysStopped \/ SysRemoved
      PROVE  PathType' /\ StageType'
  BY <1>9, <1>s DEF Cancel, SysCancelled, SysSignal, SysUnregister, SysStopChild, SysStopped,
     SysRemoved, tree
<1> QED
  BY <1>1, <1>2, <1>3, <1>4, <1>5, <1>6, <1>7, <1>8, <1>9 DEF Next

\* The SystemRunner and the System's calls.
LEMMA RunnerTypeStep ==
    ASSUME TypeInv, [Next]_vars
    PROVE  RunnerType'
<1>t. RunnerType /\ SignalsType /\ RegistryType
  BY DEF TypeInv
<1> DEFINE Tasks == [todo : SUBSET Paths, at : Paths \cup {<<>>}, gone : BOOLEAN]
<1>g. ASSUME NEW p PROVE GetChilds(p) \in SUBSET Paths
  BY <1>t DEF GetChilds, RegistryType, IsStore
<1>i. ASSUME NEW P \in SUBSET Paths PROVE [Idle EXCEPT !.todo = P] \in Tasks
  BY DEF Idle
<1>e. Idle \in Tasks
  BY DEF Idle
<1>s. ASSUME UNCHANGED <<active, cancelled, shutdown, task>>, calls' \subseteq {"stop", "remove"} \X Names
      PROVE  RunnerType'
  BY <1>t, <1>s DEF RunnerType
<1>c. calls \subseteq {"stop", "remove"} \X Names
  BY <1>t DEF RunnerType
<1>1. CASE UNCHANGED vars
  BY <1>1, <1>c, <1>s DEF vars, runner
<1>2. ASSUME NEW n \in Names, CreateActor(n) PROVE RunnerType'
  BY <1>2, <1>c, <1>s DEF CreateActor, SpawnActor, runner
<1>3. ASSUME NEW n \in Names,
             StopActor(n) \/ StopReturns(n) \/ RemoveActor(n) \/ RemoveReturns(n)
      PROVE  RunnerType'
  <2>1. UNCHANGED <<active, cancelled, shutdown, task>>
    BY <1>3 DEF StopActor, StopReturns, RemoveActor, RemoveReturns, CallSystem, runner
  <2>2. calls' \subseteq {"stop", "remove"} \X Names
    BY <1>3, <1>c DEF StopActor, StopReturns, RemoveActor, RemoveReturns, CallSystem
  <2> QED
    BY <1>s, <2>1, <2>2
<1>4. ASSUME NEW a \in Ids, Handler(a) PROVE RunnerType'
  BY <1>4, <1>c, <1>s DEF Handler, CreateChild, SpawnActor, StopChild, Forget, StopAll, Panics,
     Emit, RestartChildren, runner
<1>5. ASSUME NEW a \in Ids, Loop(a) PROVE RunnerType'
  BY <1>5, <1>c, <1>s DEF Loop, RecvStopped, RecvSignal, RecvStop, RecvRestart, PreStop,
     StopChildren, Emitted, runner
<1>6. ASSUME NEW a \in Ids,
             PreStart(a) \/ PreStartPanics(a) \/ EmitStopped(a)
               \/ CreateInserts(a) \/ CreateReturns(a)
      PROVE  RunnerType'
  BY <1>6, <1>c, <1>s DEF PreStart, PreStartPanics, EmitStopped, CreateInserts, CreateReturns,
     runner
<1>7. ASSUME Cancel \/ SysCancelled \/ SysSignal \/ SysUnregister \/ SysStopChild
               \/ SysStopped \/ SysRemoved
      PROVE  RunnerType'
  <2>1. calls' = calls
    BY <1>7 DEF Cancel, SysCancelled, SysSignal, SysUnregister, SysStopChild, SysStopped,
       SysRemoved
  <2>2. active' \in BOOLEAN /\ cancelled' \in BOOLEAN /\ shutdown' \in BOOLEAN
    <3>1. active \in BOOLEAN /\ cancelled \in BOOLEAN /\ shutdown \in BOOLEAN
      BY <1>t DEF RunnerType
    <3>2. HasChilds(<<>>) \in BOOLEAN
      BY DEF HasChilds
    <3>3. CASE SysSignal \/ SysUnregister \/ SysStopChild \/ SysStopped
      BY <3>1, <3>3 DEF SysSignal, SysUnregister, SysStopChild, SysStopped
    <3>4. CASE Cancel \/ SysCancelled
      BY <3>1, <3>2, <3>4 DEF Cancel, SysCancelled
    <3>5. CASE SysRemoved
      BY <3>1, <3>2, <3>5 DEF SysRemoved
    <3> QED
      BY <1>7, <3>3, <3>4, <3>5
  <2>3. task' \in Tasks
    <3>t. task \in Tasks
      BY <1>t DEF RunnerType
    <3>1. CASE Cancel
      BY <3>1, <3>t DEF Cancel
    <3>2. CASE SysCancelled \/ SysSignal
      <4>1. PICK p : task' = [Idle EXCEPT !.todo = GetChilds(p)]
        BY <3>2 DEF SysCancelled, SysSignal, Sweep
      <4> QED
        BY <1>g, <1>i, <4>1
    <3>3. CASE SysUnregister
      <4>1. PICK p \in task.todo : task' = [task EXCEPT !.at = p]
        BY <3>3 DEF SysUnregister
      <4>2. p \in Paths
        BY <3>t, <4>1
      <4> QED
        BY <3>t, <4>1, <4>2
    <3>4. CASE SysStopChild
      <4>1. PICK P \in SUBSET task.todo : task' = [Idle EXCEPT !.todo = P]
        BY <3>4 DEF SysStopChild
      <4>2. P \in SUBSET Paths
        BY <3>t, <4>1
      <4> QED
        BY <1>i, <4>1, <4>2
    <3>5. CASE SysStopped
      <4>1. signals[System] # <<>> /\ System \in Supervisors
        BY <3>5 DEF SysStopped, Supervisors
      <4>2. Head(signals[System])[2] \in Paths
        BY <1>t, <4>1, SignalTaken
      <4>3. task' = [todo |-> {}, at |-> Head(signals[System])[2], gone |-> TRUE]
        BY <3>5 DEF SysStopped
      <4> QED
        BY <4>2, <4>3
    <3>6. CASE SysRemoved
      BY <1>e, <3>6 DEF SysRemoved
    <3> QED
      BY <1>7, <3>1, <3>2, <3>3, <3>4, <3>5, <3>6
  <2> QED
    BY <1>c, <2>1, <2>2, <2>3 DEF RunnerType
<1> QED
  BY <1>1, <1>2, <1>3, <1>4, <1>5, <1>6, <1>7 DEF Next

\* The counters and what clients have removed.
LEMMA BoundsTypeStep ==
    ASSUME TypeInv, [Next]_vars
    PROVE  BoundsType'
<1>t. BoundsType /\ Core
  BY DEF TypeInv, IndInv
<1>n. MaxSignals \in Nat /\ MaxRestarts \in Nat
  BY SystemAssumption
<1>s. ASSUME UNCHANGED <<emitted, restarts, forgotten>> PROVE BoundsType'
  BY <1>t, <1>s DEF BoundsType
<1>w. ASSUME emitted < MaxSignals, emitted' = emitted + 1, UNCHANGED <<restarts, forgotten>>
      PROVE  BoundsType'
  BY <1>n, <1>t, <1>w DEF BoundsType
<1>1. CASE UNCHANGED vars
  BY <1>1, <1>s DEF vars, bounds, history
<1>2. ASSUME NEW n \in Names, CreateActor(n) PROVE BoundsType'
  BY <1>2, <1>s DEF CreateActor, SpawnActor, bounds, history
<1>3. ASSUME NEW n \in Names,
             StopActor(n) \/ StopReturns(n) \/ RemoveActor(n) \/ RemoveReturns(n)
      PROVE  BoundsType'
  <2>1. CASE StopActor(n) \/ StopReturns(n)
    BY <1>s, <2>1 DEF StopActor, StopReturns, CallSystem, bounds, history
  <2>2. CASE RemoveActor(n)
    BY <1>w, <2>2 DEF RemoveActor, CallSystem, history
  <2>3. CASE RemoveReturns(n)
    <3>1. \A p \in DOMAIN senders[System] : senders[System][p] \in Ids
      BY <1>t DEF Core, SenderInv, Supervisors
    <3>2. forgotten' \subseteq Ids
      BY <1>t, <2>3, <3>1 DEF RemoveReturns, BoundsType
    <3> QED
      BY <1>t, <2>3, <3>2 DEF RemoveReturns, BoundsType, bounds
  <2> QED
    BY <1>3, <2>1, <2>2, <2>3
<1>4. ASSUME NEW a \in Ids, Handler(a) PROVE BoundsType'
  <2>1. ASSUME NEW kind \in {"Error", "Fault"}, Emit(a, kind) PROVE BoundsType'
    BY <1>w, <2>1 DEF Emit, history
  <2>2. CASE RestartChildren(a)
    BY <1>n, <1>t, <2>2 DEF RestartChildren, BoundsType, history
  <2> QED
    BY <1>4, <1>s, <2>1, <2>2 DEF Handler, CreateChild, SpawnActor, StopChild, Forget, StopAll,
       Panics, bounds, history
<1>5. ASSUME NEW a \in Ids, Loop(a) PROVE BoundsType'
  BY <1>5, <1>s DEF Loop, RecvStopped, RecvSignal, RecvStop, RecvRestart, PreStop, StopChildren,
     Emitted, bounds, history
<1>6. ASSUME NEW a \in Ids,
             PreStart(a) \/ PreStartPanics(a) \/ EmitStopped(a)
               \/ CreateInserts(a) \/ CreateReturns(a)
      PROVE  BoundsType'
  BY <1>6, <1>s DEF PreStart, PreStartPanics, EmitStopped, CreateInserts, CreateReturns, bounds,
     history
<1>7. ASSUME Cancel \/ SysCancelled \/ SysSignal \/ SysUnregister \/ SysStopChild
               \/ SysStopped \/ SysRemoved
      PROVE  BoundsType'
  BY <1>7, <1>s DEF Cancel, SysCancelled, SysSignal, SysUnregister, SysStopChild, SysStopped,
     SysRemoved, bounds, history
<1> QED
  BY <1>1, <1>2, <1>3, <1>4, <1>5, <1>6, <1>7 DEF Next

LEMMA TypeInit == Init => TypeInv
<1> SUFFICES ASSUME Init PROVE TypeInv
  OBVIOUS
<1>1. IndInv /\ EmitInv
  BY InitInd DEF Init, EmitInv, Emissions
<1>2. IsStore(EmptyStore, Paths, Ids)
  BY DEF IsStore, EmptyStore
<1>3. RegistryType /\ SendersType
  BY <1>2 DEF Init, RegistryType, SendersType
<1>4. <<>> \in Seq(Kinds \X Paths)
  OBVIOUS
<1>5. SignalsType
  BY <1>4 DEF Init, SignalsType
<1>6. PathType /\ StageType
  BY DEF Init, PathType, StageType
<1>7. RunnerType
  BY DEF Init, RunnerType, Idle
<1>8. BoundsType
  BY SystemAssumption DEF Init, BoundsType
<1> QED
  BY <1>1, <1>3, <1>5, <1>6, <1>7, <1>8 DEF TypeInv

\* TypeInv is inductive.
THEOREM TypeInductive == Spec => []TypeInv
<1>1. TypeInv /\ [Next]_vars => TypeInv'
  BY NextInd, EmitStep, RegistryTypeStep, SendersTypeStep, SignalsTypeStep, StageTypeStep,
     RunnerTypeStep, BoundsTypeStep DEF TypeInv
<1> QED
  BY <1>1, TypeInit, PTL DEF Spec

\* Whatever races, the registry and the maps of senders lead from paths to
\* actors, no path is deeper than the tree may grow, and a signal that waits
\* or a stop that is under way is about such a path
\* (actor/src/system.rs, actor/src/actor.rs:283).
THEOREM TypeCorrect == Spec => []TypeOK
<1>1. TypeInv => TypeOK
  BY DEF TypeInv, IndInv, EmitInv, Core, Types, RegistryType, SendersType, SignalsType, PathType,
     StageType, RunnerType, BoundsType, TypeOK
<1> QED
  BY <1>1, TypeInductive, PTL

-----------------------------------------------------------------------------
(* Waiting. *)

\* A creation waits for a startup, and actors are older than their children.
WaitInv ==
    \A a \in Ids :
        /\ reply[a] = "waiting" => stage[a] = "starting"
        /\ stage[a] = "unused" => reply[a] = "unused"
        /\ parent[a] < a
        /\ reply[a] # "unused" /\ parent[a] # System => reply[parent[a]] # "unused"

\* A set of actors has a youngest.
LEMMA Youngest ==
    ASSUME NEW T \in SUBSET Ids, T # {}
    PROVE  \E a \in T : \A b \in T : b <= a
<1>n. MaxActors \in Nat
  BY SystemAssumption
<1> DEFINE D == {MaxActors - a : a \in T}
<1>1. D \in SUBSET Nat /\ D # {}
  <2>1. \A a \in T : MaxActors - a \in Nat
    BY <1>n DEF Ids
  <2> QED
    BY <2>1
<1>2. PICK d \in D : \A e \in D : d <= e
  BY <1>1, LeastNat
<1>3. PICK a \in T : d = MaxActors - a
  BY <1>2
<1>4. ASSUME NEW b \in T PROVE b <= a
  <2>1. d <= MaxActors - b
    BY <1>2
  <2> QED
    BY <1>3, <1>n, <2>1 DEF Ids
<1> QED
  BY <1>4

\* A supervisor whose channel is full goes on, unless it waits itself.
LEMMA FullSupervisor ==
    ASSUME IndInv, TypeInv, WaitInv, NEW a \in Ids, WaitsForRoom(a), parent[a] # System
    PROVE  LET s == parent[a]
           IN  s \in Ids /\ s < a /\ (GoesOn(s) \/ WaitsForRoom(s) \/ Waiting(s))
<1> DEFINE s == parent[a]
<1>1. s \in Ids /\ s < a /\ s # System
  BY DEF IndInv, Core, Types, Supervisors, WaitInv
<1>2. Open(s) /\ ~(Len(signals[s]) < SignalBuffer)
  BY DEF WaitsForRoom, Room
<1>3. signals[s] # <<>>
  <2>1. signals[s] \in Seq(Kinds \X Paths)
    BY <1>1 DEF TypeInv, SignalsType, Supervisors
  <2> QED
    BY <1>2, <2>1, SystemAssumption
<1>4. stage[s] # "ended"
  BY <1>1, <1>2 DEF Open
<1>5. stage[s] # "unused"
  <2>1. stage[a] # "unused"
    BY DEF WaitsForRoom, TypeInv, EmitInv
  <2>2. reply[a] # "unused"
    BY <2>1 DEF IndInv, Core, CallInv
  <2> QED
    BY <1>1, <2>2 DEF WaitInv
<1>6. stage[s] \in {"starting", "restarting", "running", "pre_stop", "closing", "finishing"}
  BY <1>1, <1>4, <1>5 DEF TypeInv, StageType
<1> HIDE DEF s
<1>7. ASSUME stage[s] = "finishing" \/ emitting[s] # "nothing"
      PROVE  GoesOn(s) \/ WaitsForRoom(s)
  BY <1>7 DEF GoesOn, WaitsForRoom
<1>8. ASSUME stage[s] # "finishing", emitting[s] = "nothing", ~Waiting(s)
      PROVE  GoesOn(s)
  BY <1>3, <1>6, <1>8 DEF GoesOn, Ready, Busy
<1> QED
  BY <1>1, <1>7, <1>8 DEF s

\* Of the actors that a waiting one leads to, the youngest creation is stuck
\* or goes on.
LEMMA WaitsEnd ==
    ASSUME IndInv, TypeInv, WaitInv
    PROVE  NoStall
<1> SUFFICES ASSUME NEW W \in SUBSET Ids,
                    \E a \in W : WaitsForRoom(a) \/ Waiting(a),
                    \A a \in W, c \in Ids : WaitsOn(a, c) => c \in W,
                    \A a \in W : ~GoesOn(a) /\ ~Stuck(a)
                                 /\ ~(WaitsForRoom(a) /\ parent[a] = System)
             PROVE  FALSE
  BY DEF NoStall, Still
<1>1. \A a \in W : WaitsForRoom(a) => \E b \in W : b < a /\ (WaitsForRoom(b) \/ Waiting(b))
  <2> SUFFICES ASSUME NEW a \in W, WaitsForRoom(a)
               PROVE  \E b \in W : b < a /\ (WaitsForRoom(b) \/ Waiting(b))
    OBVIOUS
  <2>1. parent[a] # System
    OBVIOUS
  <2>2. /\ parent[a] \in Ids /\ parent[a] < a
        /\ GoesOn(parent[a]) \/ WaitsForRoom(parent[a]) \/ Waiting(parent[a])
    BY <2>1, FullSupervisor
  <2>3. parent[a] \in W
    BY <2>2 DEF WaitsOn
  <2> QED
    BY <2>2, <2>3
<1>2. \E a \in W : Waiting(a)
  <2> DEFINE T == {a \in W : WaitsForRoom(a) \/ Waiting(a)}
  <2>1. T \in SUBSET Nat /\ T # {}
    <3>1. Ids \subseteq Nat
      BY DEF Ids
    <3> QED
      BY <3>1
  <2>2. PICK a \in T : \A b \in T : a <= b
    BY <2>1, LeastNat
  <2>3. ASSUME WaitsForRoom(a) PROVE FALSE
    <3>1. PICK b \in T : b < a
      BY <1>1, <2>2, <2>3
    <3>2. a <= b /\ a \in Nat /\ b \in Nat
      BY <2>1, <2>2
    <3> QED
      BY <3>1, <3>2
  <2> QED
    BY <2>2, <2>3
<1>3. \A a \in W : Waiting(a) => \E b \in W : reply[b] = "waiting" /\ parent[b] = a
  <2> SUFFICES ASSUME NEW a \in W, Waiting(a)
               PROVE  \E b \in W : reply[b] = "waiting" /\ parent[b] = a
    OBVIOUS
  <2>1. PICK b \in Ids : parent[b] = a /\ IsPending(b)
    BY DEF Waiting
  <2>2. b \in W
    BY <2>1 DEF WaitsOn
  <2> QED
    BY <2>1, <2>2 DEF GoesOn
<1> DEFINE C == {b \in W : reply[b] = "waiting"}
<1>4. C \in SUBSET Ids /\ C # {}
  BY <1>2, <1>3
<1>5. PICK b \in C : \A c \in C : c <= b
  BY <1>4, Youngest
<1>6. b \in W /\ b \in Ids /\ stage[b] = "starting"
  BY <1>4, <1>5 DEF WaitInv
<1>7. ~Waiting(b)
  <2> SUFFICES ASSUME Waiting(b) PROVE FALSE
    OBVIOUS
  <2>1. PICK c \in W : reply[c] = "waiting" /\ parent[c] = b
    BY <1>3, <1>6
  <2>2. c <= b /\ b < c /\ b \in Nat /\ c \in Nat
    BY <1>5, <1>6, <2>1 DEF WaitInv, Ids
  <2> QED
    BY <2>2
<1>8. emitting[b] # "nothing"
  BY <1>6, <1>7 DEF GoesOn, Busy
<1>9. WaitsForRoom(b)
  BY <1>6, <1>8 DEF WaitsForRoom, GoesOn
<1> QED
  BY <1>5, <1>6, <1>9 DEF Stuck

\* A new actor is younger than its supervisor.
LEMMA WaitSpawn ==
    ASSUME IndInv, TypeInv, WaitInv, NEW s \in Supervisors, NEW p, SpawnActor(s, p),
           s # System => reply[s] # "unused"
    PROVE  WaitInv'
<1>t. /\ spawned \in 0..MaxActors /\ MaxActors \in Nat
      /\ parent \in [Ids -> Supervisors] /\ DOMAIN stage = Ids /\ reply = [b \in Ids |-> reply[b]]
  BY SystemAssumption DEF IndInv, Core, Types
<1>1. PICK a \in Ids :
        /\ a = spawned + 1 /\ parent' = [parent EXCEPT ![a] = s]
        /\ stage' = [stage EXCEPT ![a] = "starting"]
        /\ reply' = [reply EXCEPT ![a] = "waiting"]
  <2>1. spawned + 1 \in Ids
    BY <1>t DEF SpawnActor, Ids
  <2> QED
    BY <2>1 DEF SpawnActor, tree
<1>2. s < a
  <2>1. CASE s = System
    BY <1>1, <1>t, <2>1 DEF System
  <2>2. CASE s # System
    <3>1. s \in Ids /\ s <= spawned
      BY <2>2 DEF Supervisors, IndInv, Core, CallInv
    <3> QED
      BY <1>1, <1>t, <3>1 DEF Ids
  <2> QED
    BY <2>1, <2>2
<1>3. ASSUME NEW b \in Ids, b # a
      PROVE  stage'[b] = stage[b] /\ reply'[b] = reply[b] /\ parent'[b] = parent[b]
  BY <1>1, <1>3, <1>t
<1>4. stage'[a] = "starting" /\ reply'[a] = "waiting" /\ parent'[a] = s
  BY <1>1, <1>t
<1>5. \A b \in Ids : reply[b] # "unused" => reply'[b] # "unused"
  BY <1>3, <1>4
<1>6. s # System => s \in Ids
  BY DEF Supervisors
<1>7. ASSUME NEW b \in Ids
      PROVE  /\ reply'[b] = "waiting" => stage'[b] = "starting"
             /\ stage'[b] = "unused" => reply'[b] = "unused"
             /\ parent'[b] < b
             /\ reply'[b] # "unused" /\ parent'[b] # System => reply'[parent'[b]] # "unused"
  <2>1. CASE b = a
    BY <1>2, <1>4, <1>5, <1>6, <2>1
  <2>2. CASE b # a
    <3>1. parent[b] # System => parent[b] \in Ids
      BY <1>t DEF Supervisors
    <3> QED
      BY <1>3, <1>5, <2>2, <3>1 DEF WaitInv
  <2> QED
    BY <2>1, <2>2
<1> QED
  BY <1>7 DEF WaitInv

\* Every step keeps that.
LEMMA WaitStep ==
    ASSUME IndInv, TypeInv, WaitInv, [Next]_vars
    PROVE  WaitInv'
<1>t. /\ parent \in [Ids -> Supervisors] /\ DOMAIN stage = Ids /\ reply = [b \in Ids |-> reply[b]]
      /\ \A a \in Ids : parent[a] # System => parent[a] \in Ids
      /\ \A a \in Ids : stage[a] # "unused" => reply[a] # "unused"
  BY DEF IndInv, Core, Types, Supervisors, CallInv
<1>k. ASSUME UNCHANGED <<stage, reply, parent>> PROVE WaitInv'
  BY <1>k DEF WaitInv
<1>w. ASSUME UNCHANGED <<reply, parent>>, NEW a \in Ids, stage[a] \notin {"unused", "starting"},
             NEW g, g # "unused", stage' = [stage EXCEPT ![a] = g]
      PROVE  WaitInv'
  BY <1>t, <1>w DEF WaitInv
<1>r. ASSUME UNCHANGED parent, NEW a \in Ids, stage[a] # "unused", stage'[a] # "unused",
             NEW e, e \notin {"unused", "waiting"}, reply' = [reply EXCEPT ![a] = e],
             \A b \in Ids \ {a} : stage'[b] = stage[b]
      PROVE  WaitInv'
  BY <1>r, <1>t DEF WaitInv
<1>1. CASE UNCHANGED vars
  BY <1>1, <1>k DEF vars, tree
<1>2. ASSUME NEW n \in Names, CreateActor(n) PROVE WaitInv'
  BY <1>2, WaitSpawn DEF CreateActor, Supervisors
<1>3. ASSUME NEW n \in Names,
             StopActor(n) \/ StopReturns(n) \/ RemoveActor(n) \/ RemoveReturns(n)
      PROVE  WaitInv'
  BY <1>3, <1>k DEF StopActor, StopReturns, RemoveActor, RemoveReturns, CallSystem, tree
<1>4. ASSUME NEW a \in Ids, Handler(a) PROVE WaitInv'
  <2>1. ASSUME NEW n \in Names, CreateChild(a, n) PROVE WaitInv'
    <3>1. a \in Supervisors /\ reply[a] # "unused"
      BY <1>t, <2>1 DEF CreateChild, InHook, Supervisors
    <3> QED
      BY <2>1, <3>1, WaitSpawn DEF CreateChild
  <2>2. CASE Panics(a)
    BY <1>w, <2>2 DEF Panics, InHook, tree
  <2> QED
    BY <1>4, <1>k, <2>1, <2>2 DEF Handler, StopChild, Forget, StopAll, Emit, RestartChildren, tree
<1>5. ASSUME NEW a \in Ids, Loop(a) PROVE WaitInv'
  <2>1. UNCHANGED <<reply, parent>>
    BY <1>5 DEF Loop, RecvStopped, RecvSignal, RecvStop, RecvRestart, PreStop, StopChildren,
       Emitted, tree
  <2>2. CASE RecvStopped(a) \/ RecvSignal(a) \/ RecvStop(a) \/ RecvRestart(a)
    <3>1. /\ stage[a] = "running"
          /\ stage' = stage \/ \E g \in {"running", "finishing", "pre_stop", "restarting"} :
                                    stage' = [stage EXCEPT ![a] = g]
      BY <2>2 DEF RecvStopped, RecvSignal, RecvStop, RecvRestart, Ready
    <3> QED
      BY <1>k, <1>w, <2>1, <3>1
  <2>3. CASE PreStop(a) \/ StopChildren(a)
    <3>1. /\ stage[a] \in {"pre_stop", "closing"}
          /\ \E g \in {"running", "finishing", "closing"} : stage' = [stage EXCEPT ![a] = g]
      BY <2>3 DEF PreStop, StopChildren
    <3> QED
      BY <1>w, <2>1, <3>1
  <2>4. CASE Emitted(a)
    <3>1. \/ stage' = stage
          \/ emitting[a] = "LoopFault" /\ stage' = [stage EXCEPT ![a] = "finishing"]
      BY <2>4 DEF Emitted
    <3>2. emitting[a] = "LoopFault" => stage[a] \notin {"unused", "starting"}
      BY DEF TypeInv, EmitInv
    <3> QED
      BY <1>k, <1>w, <2>1, <3>1, <3>2
  <2> QED
    BY <1>5, <2>2, <2>3, <2>4 DEF Loop
<1>6. ASSUME NEW a \in Ids, PreStart(a) \/ PreStartPanics(a) PROVE WaitInv'
  <2>1. stage[a] \in {"starting", "restarting"} /\ UNCHANGED parent
    BY <1>6 DEF PreStart, PreStartPanics, tree
  <2>2. PICK g \in {"running", "finishing", "ended"} : stage' = [stage EXCEPT ![a] = g]
    BY <1>6 DEF PreStart, PreStartPanics
  <2>3. CASE stage[a] = "starting"
    <3>1. \E e \in {"ok", "err"} : reply' = [reply EXCEPT ![a] = e]
      BY <1>6, <2>3 DEF PreStart, PreStartPanics
    <3>2. stage'[a] # "unused" /\ \A b \in Ids \ {a} : stage'[b] = stage[b]
      BY <1>t, <2>2
    <3> QED
      BY <1>r, <2>1, <2>3, <3>1, <3>2
  <2>4. CASE stage[a] = "restarting"
    <3>1. reply' = reply
      BY <1>6, <2>4 DEF PreStart, PreStartPanics
    <3> QED
      BY <1>w, <2>1, <2>2, <2>4, <3>1
  <2> QED
    BY <2>1, <2>3, <2>4
<1>7. ASSUME NEW a \in Ids, CreateInserts(a) \/ CreateReturns(a) PROVE WaitInv'
  <2>1. UNCHANGED <<parent, stage>> /\ reply[a] # "unused"
    BY <1>7 DEF CreateInserts, CreateReturns, tree
  <2>2. \E e \in {"inserting", "registered", "removing", "refused"} :
            reply' = [reply EXCEPT ![a] = e]
    BY <1>7 DEF CreateInserts, CreateReturns
  <2>3. stage[a] # "unused"
    BY <2>1 DEF WaitInv
  <2> QED
    BY <1>r, <2>1, <2>2, <2>3
<1>8. ASSUME NEW a \in Ids, EmitStopped(a) PROVE WaitInv'
  BY <1>8, <1>w DEF EmitStopped, tree
<1>9. ASSUME Cancel \/ SysCancelled \/ SysSignal \/ SysUnregister \/ SysStopChild
               \/ SysStopped \/ SysRemoved
      PROVE  WaitInv'
  BY <1>9, <1>k DEF Cancel, SysCancelled, SysSignal, SysUnregister, SysStopChild, SysStopped,
     SysRemoved, tree
<1> QED
  BY <1>1, <1>2, <1>3, <1>4, <1>5, <1>6, <1>7, <1>8, <1>9 DEF Next

\* Whatever the bounds of the channels and however deep the tree, the only
\* waits that never end are creations whose startup waits for their creator
\* (actor/src/actor.rs:458-520).
THEOREM NoStallHolds == Spec => []NoStall
<1>1. Init => WaitInv
  BY DEF Init, WaitInv, System, Ids
<1>2. IndInv /\ TypeInv /\ WaitInv /\ [Next]_vars => WaitInv'
  BY WaitStep
<1>3. IndInv /\ TypeInv /\ WaitInv => NoStall
  BY WaitsEnd
<1>4. TypeInv => IndInv
  BY DEF TypeInv
<1> QED
  BY <1>1, <1>2, <1>3, <1>4, TypeInductive, PTL DEF Spec

-----------------------------------------------------------------------------
\* The predicates on paths agree, whatever the names of one part are
\* (actor/src/path.rs:79, 111, 197).
THEOREM PathsAgreeHolds == Spec => []PathsAgree
<1>1. PathsAgree
  BY SystemAssumption, PathsAgreeOverNames DEF PathsAgree
<1> QED
  BY <1>1, PTL
=============================================================================
