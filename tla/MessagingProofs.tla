-------------------------- MODULE MessagingProofs --------------------------
(***************************************************************************)
(* Proofs about Messaging, for any actors, clients, event handlers, calls  *)
(* and buffers: a caller that waits is owed its answer, and no event is    *)
(* lost without notice.                                                    *)
(***************************************************************************)
EXTENDS Messaging, WellFoundedInduction, TLAPS

-----------------------------------------------------------------------------
(* Types. *)

\* A message is not the absence of one, and neither is a call.
LEMMA NotNone ==
    /\ \A m \in Messages : m # None
    /\ \A c \in CallsMade : c # None
<1>1. ASSUME NEW m \in Messages PROVE m # None
  <2>1. m.from \in Parties /\ DOMAIN m = {"from", "ask"}
    BY DEF Messages
  <2>2. DOMAIN None = {}
    BY DEF None
  <2> QED
    BY <2>1, <2>2
<1>2. ASSUME NEW c \in CallsMade PROVE c # None
  <2>1. DOMAIN c = {"to", "ask"}
    BY DEF CallsMade
  <2>2. DOMAIN None = {}
    BY DEF None
  <2> QED
    BY <2>1, <2>2
<1> QED
  BY <1>1, <1>2

\* The types of the calls, and those of the events.
CallTypes ==
    /\ at \in [Parties -> {"free", "busy", "ended"} \cup Blocked]
    /\ \A p \in Clients : at[p] \in {"free"} \cup Blocked
    /\ call \in [Parties -> CallsMade \cup {None}]
    /\ \A p \in Parties : call[p] # None <=> at[p] \in Blocked
    /\ mailbox \in [Actors -> Seq(Messages)]
    /\ \A a \in Actors : Len(mailbox[a]) <= MailboxSize
    /\ current \in [Actors -> Messages \cup {None}]
    /\ \A a \in Actors : current[a] # None <=> at[a] \in {"busy"} \cup Blocked
    /\ made \in 0..MaxCalls

EventTypes ==
    /\ emitted \in [Actors -> 0..MaxEvents]
    /\ start \in [Sinks -> 0..(MaxEvents + 1)]
    /\ next \in [Sinks -> 0..(MaxEvents + 1)]
    /\ seen \in [Sinks -> SUBSET (1..MaxEvents)]
    /\ lagged \in [Sinks -> SUBSET (1..MaxEvents)]

\* A party is of one kind.
LEMMA Kinds ==
    /\ Actors \subseteq Parties /\ Clients \subseteq Parties /\ Sinks \subseteq Parties
    /\ \A x \in Actors : x \notin Clients /\ x \notin Sinks
    /\ \A x \in Sinks : x \notin Clients
    /\ \A s \in Sinks : Source[s] \in Actors
    /\ \A p \in Parties : Resumed(p) \in {"free", "busy"}
    /\ \A p \in Clients : Resumed(p) = "free"
    /\ \A p \in Parties \ Clients : Resumed(p) = "busy"
BY MessagingAssumption DEF Parties, Resumed

\* Where the messages that wait for a or that it handles come from.
Owes(a) == UNION {Asker(m) : m \in {current[a]} \cup Range(mailbox[a])}

\* Who is owed an answer is waiting for it.
LEMMA OwedWait ==
    ASSUME CallTypes, WaitersAreOwed, NEW a \in Actors, NEW p, p \in Owes(a)
    PROVE  /\ p \in Parties /\ at[p] = "waiting" /\ call[p].to = a
           /\ Owed(a, p) # {}
<1>1. PICK m \in {current[a]} \cup Range(mailbox[a]) : p \in Asker(m)
  BY DEF Owes
<1>2. m # None /\ m.ask /\ Asker(m) = {p}
  BY <1>1 DEF Asker
<1>3. m \in Messages \cup {None}
  BY <1>1 DEF CallTypes, Range
<1>4. p \in Parties
  BY <1>2, <1>3 DEF Asker, Messages
<1>5. mailbox[a] \in Seq(Messages) /\ Len(mailbox[a]) \in Nat
  BY DEF CallTypes
<1>6. \E i \in 0..Len(mailbox[a]) : m = IF i = 0 THEN current[a] ELSE mailbox[a][i]
  <2>1. CASE m = current[a]
    BY <2>1, <1>5
  <2>2. CASE m \in Range(mailbox[a])
    <3>1. PICK i \in 1..Len(mailbox[a]) : m = mailbox[a][i]
      BY <2>2, <1>5 DEF Range
    <3> QED
      BY <3>1, <1>5
  <2> QED
    BY <1>1, <2>1, <2>2
<1>7. Owed(a, p) # {}
  BY <1>2, <1>6 DEF Owed
<1> QED
  BY <1>4, <1>7 DEF WaitersAreOwed

-----------------------------------------------------------------------------
(* Calls. *)

CallInv == CallTypes /\ WaitersAreOwed

\* Whoever owes nobody else than before, with the same callers waiting for
\* actors that are still up, is as it should be.
LEMMA WaitersKept ==
    ASSUME CallInv, UNCHANGED <<mailbox, current>>,
           \A p \in Parties : at'[p] = "waiting" <=> at[p] = "waiting",
           \A p \in Parties : at[p] = "waiting" => call'[p].to = call[p].to,
           \A a \in Actors : at'[a] = "ended" => at[a] = "ended"
    PROVE  WaitersAreOwed'
<1>1. ASSUME NEW p \in Parties, NEW a \in Actors PROVE Owed(a, p)' = Owed(a, p)
  BY DEF Owed
<1> QED
  BY <1>1 DEF CallInv, WaitersAreOwed

LEMMA CallInit == Init => CallInv
<1> SUFFICES ASSUME Init PROVE CallInv
  OBVIOUS
<1>1. CallTypes
  <2>1. /\ at \in [Parties -> {"free", "busy", "ended"} \cup Blocked]
        /\ \A p \in Clients : at[p] \in {"free"} \cup Blocked
        /\ call \in [Parties -> CallsMade \cup {None}]
        /\ \A p \in Parties : call[p] # None <=> at[p] \in Blocked
    BY Kinds DEF Init, Blocked
  <2>2. <<>> \in Seq(Messages) /\ Len(<<>>) = 0
    OBVIOUS
  <2>3. /\ mailbox \in [Actors -> Seq(Messages)]
        /\ \A a \in Actors : Len(mailbox[a]) <= MailboxSize
    BY <2>2, MessagingAssumption DEF Init
  <2>4. /\ current \in [Actors -> Messages \cup {None}]
        /\ \A a \in Actors : current[a] # None <=> at[a] \in {"busy"} \cup Blocked
        /\ made \in 0..MaxCalls
    BY Kinds, MessagingAssumption DEF Init, Blocked
  <2> QED
    BY <2>1, <2>3, <2>4 DEF CallTypes
<1>2. WaitersAreOwed
  BY DEF Init, WaitersAreOwed, Owed, Asker, Parties
<1> QED
  BY <1>1, <1>2 DEF CallInv

\* A call is made.
LEMMA CallKeeps ==
    ASSUME CallInv, NEW p \in Parties, NEW a \in Actors, NEW ask \in BOOLEAN, Call(p, a, ask)
    PROVE  CallInv'
<1> DEFINE new == [to |-> a, ask |-> ask]
<1>1. new \in CallsMade /\ new # None
  BY NotNone DEF CallsMade
<1> HIDE DEF new
<1>2. /\ at[p] \in {"free", "busy"} /\ (p \in Actors => at[p] = "busy")
      /\ made < MaxCalls /\ made' = made + 1
      /\ at' = [at EXCEPT ![p] = "sending"]
      /\ call' = [call EXCEPT ![p] = new]
      /\ UNCHANGED <<mailbox, current>>
  BY Kinds DEF Call, new
<1>3. CallTypes'
  BY <1>1, <1>2, MessagingAssumption DEF CallInv, CallTypes, Blocked
<1>4. WaitersAreOwed'
  BY <1>2, WaitersKept DEF CallInv, CallTypes
<1> QED
  BY <1>3, <1>4 DEF CallInv

\* A message is sent.
LEMMA SendKeeps ==
    ASSUME CallInv, NEW p \in Parties, Send(p)
    PROVE  CallInv'
<1> DEFINE a == call[p].to
           m == [from |-> p, ask |-> call[p].ask]
<1>1. call[p] \in CallsMade
  BY DEF Send, CallInv, CallTypes, Blocked
<1>2. a \in Actors /\ call[p].ask \in BOOLEAN /\ m \in Messages /\ m # None
  BY <1>1, NotNone DEF CallsMade, Messages
<1>3. /\ mailbox[a] \in Seq(Messages) /\ Len(mailbox[a]) \in Nat
      /\ Len(mailbox[a]) < MailboxSize
      /\ mailbox' = [mailbox EXCEPT ![a] = Append(mailbox[a], m)]
      /\ UNCHANGED <<current, made>>
      /\ at[a] # "ended" /\ at[p] = "sending"
  BY <1>2 DEF Send, CallInv, CallTypes
<1>4. /\ Append(mailbox[a], m) \in Seq(Messages)
      /\ Len(Append(mailbox[a], m)) = Len(mailbox[a]) + 1
      /\ \A i \in 1..Len(mailbox[a]) : Append(mailbox[a], m)[i] = mailbox[a][i]
      /\ Append(mailbox[a], m)[Len(mailbox[a]) + 1] = m
  BY <1>2, <1>3
<1>5. /\ call[p].ask => at' = [at EXCEPT ![p] = "waiting"] /\ UNCHANGED call
      /\ ~call[p].ask => /\ at' = [at EXCEPT ![p] = Resumed(p)]
                         /\ call' = [call EXCEPT ![p] = None]
  BY DEF Send
<1>6. Asker(m) = IF call[p].ask THEN {p} ELSE {}
  BY <1>2 DEF Asker
<1> HIDE DEF a, m
<1>7. /\ at' \in [Parties -> {"free", "busy", "ended"} \cup Blocked]
      /\ \A q \in Clients : at'[q] \in {"free"} \cup Blocked
      /\ call' \in [Parties -> CallsMade \cup {None}]
      /\ \A q \in Parties : call'[q] # None <=> at'[q] \in Blocked
      /\ \A x \in Actors : at'[x] \in {"busy"} \cup Blocked <=> at[x] \in {"busy"} \cup Blocked
  <2>1. CASE call[p].ask
    BY <2>1, <1>3, <1>5, Kinds DEF CallInv, CallTypes, Blocked
  <2>2. CASE ~call[p].ask
    <3>1. /\ at' = [at EXCEPT ![p] = Resumed(p)]
          /\ call' = [call EXCEPT ![p] = None]
          /\ Resumed(p) \in {"free", "busy"}
          /\ p \in Clients => Resumed(p) = "free"
          /\ p \in Actors => Resumed(p) = "busy"
      BY <2>2, <1>5, Kinds
    <3> QED
      BY <3>1, <1>3, Kinds DEF CallInv, CallTypes, Blocked
  <2> QED
    BY <2>1, <2>2, <1>2
<1>8. /\ mailbox' \in [Actors -> Seq(Messages)]
      /\ \A x \in Actors : Len(mailbox'[x]) <= MailboxSize
  BY <1>2, <1>3, <1>4, MessagingAssumption DEF CallInv, CallTypes
<1>9. CallTypes'
  BY <1>3, <1>7, <1>8 DEF CallInv, CallTypes
<1>10. ASSUME NEW x \in Actors, NEW q \in Parties
       PROVE  Owed(x, q)' = IF x = a /\ q = p /\ call[p].ask
                            THEN {Len(mailbox[a]) + 1} ELSE Owed(x, q)
  <2>1. CASE x # a
    <3>1. mailbox'[x] = mailbox[x]
      BY <2>1, <1>2, <1>3 DEF CallInv, CallTypes
    <3> QED
      BY <2>1, <3>1, <1>3 DEF Owed
  <2>2. CASE x = a
    <3>1. mailbox'[a] = Append(mailbox[a], m)
      BY <1>2, <1>3 DEF CallInv, CallTypes
    <3>2. 0..(Len(mailbox[a]) + 1) = 0..Len(mailbox[a]) \cup {Len(mailbox[a]) + 1}
      BY <1>3
    <3> DEFINE n == Len(mailbox[a])
    <3>3. \A i \in 0..n : (IF i = 0 THEN current'[a] ELSE mailbox'[a][i])
                            = (IF i = 0 THEN current[a] ELSE mailbox[a][i])
      BY <3>1, <1>3, <1>4
    <3>4. Len(mailbox'[a]) = n + 1 /\ mailbox'[a][n + 1] = m /\ n + 1 # 0
      BY <3>1, <1>3, <1>4
    <3>5. Asker(m) = {q} <=> call[p].ask /\ q = p
      BY <1>6
    <3>6. Owed(x, q) = {i \in 0..n :
              Asker(IF i = 0 THEN current[a] ELSE mailbox[a][i]) = {q}}
      BY <2>2 DEF Owed
    <3>7. Owed(x, q)' = {i \in 0..(n + 1) :
              Asker(IF i = 0 THEN current'[a] ELSE mailbox'[a][i]) = {q}}
      BY <2>2, <3>4 DEF Owed
    <3>8. n + 1 \in Owed(x, q)' <=> call[p].ask /\ q = p
      BY <3>2, <3>4, <3>5, <3>7
    <3>9. \A i \in 0..n : i \in Owed(x, q)' <=> i \in Owed(x, q)
      BY <3>2, <3>3, <3>6, <3>7
    <3>10. Owed(x, q)' = Owed(x, q) \cup IF call[p].ask /\ q = p THEN {n + 1} ELSE {}
      BY <3>2, <3>6, <3>7, <3>8, <3>9
    <3>11. q = p => Owed(x, q) = {}
      BY <2>2, <1>2, <1>3 DEF CallInv, WaitersAreOwed
    <3> QED
      BY <2>2, <3>10, <3>11
  <2> QED
    BY <2>1, <2>2
<1>11. ASSUME NEW q \in Parties, NEW x \in Actors
       PROVE  IF at'[q] = "waiting" /\ call'[q].to = x
              THEN at'[x] # "ended" /\ \E i \in Owed(x, q)' : Owed(x, q)' = {i}
              ELSE Owed(x, q)' = {}
  <2>1. at'[x] = "ended" => at[x] = "ended"
    BY <1>3, <1>5, Kinds DEF CallInv, CallTypes
  <2>2. CASE q = p
    <3>1. Owed(x, p) = {}
      BY <1>3 DEF CallInv, WaitersAreOwed
    <3>2. call[p].ask => at'[p] = "waiting" /\ call'[p].to = a
      BY <1>5 DEF CallInv, CallTypes, a
    <3>3. ~call[p].ask => at'[p] # "waiting"
      BY <1>5, Kinds DEF CallInv, CallTypes
    <3> QED
      BY <2>1, <2>2, <3>1, <3>2, <3>3, <1>3, <1>10
  <2>3. CASE q # p
    <3>1. at'[q] = at[q] /\ call'[q] = call[q] /\ Owed(x, q)' = Owed(x, q)
      BY <2>3, <1>5, <1>10 DEF CallInv, CallTypes
    <3> QED
      BY <2>1, <3>1 DEF CallInv, WaitersAreOwed
  <2> QED
    BY <2>2, <2>3
<1>12. WaitersAreOwed'
  BY <1>11 DEF WaitersAreOwed
<1> QED
  BY <1>9, <1>12 DEF CallInv

\* A send fails.
LEMMA SendFailsKeeps ==
    ASSUME CallInv, NEW p \in Parties, SendFails(p)
    PROVE  CallInv'
<1>1. /\ at[p] = "sending" /\ Resumed(p) \in {"free", "busy"}
      /\ at' = [at EXCEPT ![p] = Resumed(p)]
      /\ call' = [call EXCEPT ![p] = None]
      /\ UNCHANGED <<mailbox, current, made>>
  BY Kinds DEF SendFails
<1>2. CallTypes'
  BY <1>1, Kinds DEF CallInv, CallTypes, Blocked
<1>3. WaitersAreOwed'
  BY <1>1, WaitersKept DEF CallInv, CallTypes
<1> QED
  BY <1>2, <1>3 DEF CallInv

\* A message is taken: what was the i-th of the mailbox is the (i - 1)-th.
LEMMA TakeKeeps ==
    ASSUME CallInv, NEW a \in Actors, Take(a)
    PROVE  CallInv'
<1>1. /\ at[a] = "free" /\ mailbox[a] # <<>> /\ mailbox[a] \in Seq(Messages)
      /\ at' = [at EXCEPT ![a] = "busy"]
      /\ current[a] = None
      /\ current' = [current EXCEPT ![a] = Head(mailbox[a])]
      /\ mailbox' = [mailbox EXCEPT ![a] = Tail(mailbox[a])]
      /\ UNCHANGED <<call, made>>
  BY DEF Take, CallInv, CallTypes, Blocked
<1>2. /\ Head(mailbox[a]) \in Messages /\ Head(mailbox[a]) = mailbox[a][1]
      /\ Tail(mailbox[a]) \in Seq(Messages)
      /\ Len(mailbox[a]) \in Nat \ {0} /\ Len(Tail(mailbox[a])) = Len(mailbox[a]) - 1
      /\ \A i \in 1..(Len(mailbox[a]) - 1) : Tail(mailbox[a])[i] = mailbox[a][i + 1]
  BY <1>1
<1>3. Head(mailbox[a]) # None
  BY <1>2, NotNone
<1>4. CallTypes'
  <2>1. /\ at' \in [Parties -> {"free", "busy", "ended"} \cup Blocked]
        /\ \A q \in Clients : at'[q] \in {"free"} \cup Blocked
        /\ \A q \in Parties : call'[q] # None <=> at'[q] \in Blocked
    BY <1>1, Kinds DEF CallInv, CallTypes, Blocked
  <2>2. /\ mailbox' \in [Actors -> Seq(Messages)]
        /\ \A x \in Actors : Len(mailbox'[x]) <= MailboxSize
    BY <1>1, <1>2, MessagingAssumption DEF CallInv, CallTypes
  <2>3. /\ current' \in [Actors -> Messages \cup {None}]
        /\ \A x \in Actors : current'[x] # None <=> at'[x] \in {"busy"} \cup Blocked
    BY <1>1, <1>2, <1>3, Kinds DEF CallInv, CallTypes, Blocked
  <2> QED
    BY <1>1, <2>1, <2>2, <2>3 DEF CallInv, CallTypes
<1>5. ASSUME NEW q \in Parties
      PROVE  /\ Owed(a, q)' = {i - 1 : i \in Owed(a, q)}
             /\ Owed(a, q) \subseteq 1..Len(mailbox[a])
  <2>1. mailbox'[a] = Tail(mailbox[a]) /\ current'[a] = mailbox[a][1]
    BY <1>1, <1>2 DEF CallInv, CallTypes
  <2>2. Asker(current[a]) = {}
    BY <1>1 DEF Asker
  <2>3. ASSUME NEW i \in 0..Len(mailbox[a]), i \in Owed(a, q)
        PROVE  i \in 1..Len(mailbox[a]) /\ Asker(mailbox[a][i]) = {q}
    BY <2>2, <2>3, <1>2 DEF Owed
  <2>4. Owed(a, q) \subseteq 1..Len(mailbox[a])
    BY <2>3 DEF Owed
  <2>5. ASSUME NEW j \in 0..(Len(mailbox[a]) - 1)
        PROVE  (IF j = 0 THEN current'[a] ELSE mailbox'[a][j]) = mailbox[a][j + 1]
    BY <2>1, <1>2
  <2>6. Owed(a, q)' = {j \in 0..(Len(mailbox[a]) - 1) : Asker(mailbox[a][j + 1]) = {q}}
    BY <2>1, <2>5, <1>2 DEF Owed
  <2>7. ASSUME NEW j \in 0..(Len(mailbox[a]) - 1), Asker(mailbox[a][j + 1]) = {q}
        PROVE  j + 1 \in Owed(a, q)
    BY <2>7, <1>2 DEF Owed
  <2>8. ASSUME NEW i \in Owed(a, q)
        PROVE  i - 1 \in 0..(Len(mailbox[a]) - 1) /\ Asker(mailbox[a][(i - 1) + 1]) = {q}
    <3>0. i \in 0..Len(mailbox[a])
      BY DEF Owed
    <3>1. i \in 1..Len(mailbox[a]) /\ Asker(mailbox[a][i]) = {q}
      BY <3>0, <2>3
    <3>2. (i - 1) + 1 = i
      BY <3>1, <1>2
    <3> QED
      BY <3>1, <3>2, <1>2
  <2>9. \A j \in 0..(Len(mailbox[a]) - 1) : j = (j + 1) - 1
    BY <1>2
  <2>10. ASSUME NEW j \in Owed(a, q)' PROVE j \in {i - 1 : i \in Owed(a, q)}
    BY <2>6, <2>7, <2>9, <2>10
  <2>11. ASSUME NEW i \in Owed(a, q) PROVE i - 1 \in Owed(a, q)'
    BY <2>6, <2>8
  <2> QED
    BY <2>4, <2>10, <2>11
<1>6. ASSUME NEW q \in Parties, NEW x \in Actors
      PROVE  IF at'[q] = "waiting" /\ call'[q].to = x
             THEN at'[x] # "ended" /\ \E i \in Owed(x, q)' : Owed(x, q)' = {i}
             ELSE Owed(x, q)' = {}
  <2>1. /\ at'[q] = "waiting" <=> at[q] = "waiting"
        /\ call'[q] = call[q]
        /\ at'[x] = "ended" => at[x] = "ended"
    BY <1>1, Kinds DEF CallInv, CallTypes
  <2>2. CASE x = a
    <3>1. CASE at[q] = "waiting" /\ call[q].to = a
      <4>1. PICK i \in Owed(a, q) : Owed(a, q) = {i}
        BY <3>1 DEF CallInv, WaitersAreOwed
      <4>2. Owed(a, q)' = {i - 1}
        BY <4>1, <1>5
      <4> QED
        BY <2>1, <2>2, <3>1, <4>2, <1>1
    <3>2. CASE ~(at[q] = "waiting" /\ call[q].to = a)
      <4>1. Owed(a, q) = {}
        BY <3>2 DEF CallInv, WaitersAreOwed
      <4> QED
        BY <2>1, <2>2, <3>2, <4>1, <1>5
    <3> QED
      BY <3>1, <3>2
  <2>3. CASE x # a
    <3>1. mailbox'[x] = mailbox[x] /\ current'[x] = current[x]
      BY <2>3, <1>1 DEF CallInv, CallTypes
    <3>2. Owed(x, q)' = Owed(x, q)
      BY <3>1 DEF Owed
    <3> QED
      BY <2>1, <3>2 DEF CallInv, WaitersAreOwed
  <2> QED
    BY <2>2, <2>3
<1>7. WaitersAreOwed'
  BY <1>6 DEF WaitersAreOwed
<1> QED
  BY <1>4, <1>7 DEF CallInv

\* The calls of some waiting callers return and a goes on; what they were
\* owed, and nothing else, is no longer owed.
LEMMA ReturnKeeps ==
    ASSUME CallInv, NEW a \in Actors, NEW callers, NEW here \in {"free", "ended"},
           at[a] \in {"free", "busy"},
           Return(callers, a, here),
           callers \subseteq {p \in Parties : at[p] = "waiting" /\ call[p].to = a},
           current' = [current EXCEPT ![a] = None],
           \A x \in Actors \ {a} : mailbox'[x] = mailbox[x],
           mailbox'[a] \in {mailbox[a], <<>>}, mailbox' \in [Actors -> Seq(Messages)],
           \A q \in Parties : Owed(a, q)' = IF q \in callers THEN {} ELSE Owed(a, q),
           here = "ended" => \A q \in Parties : Owed(a, q)' = {},
           UNCHANGED made
    PROVE  CallInv'
<1>1. /\ a \in Parties /\ a \notin callers
      /\ \A p \in Parties : at'[p] = IF p = a THEN here
                                     ELSE IF p \in callers THEN Resumed(p) ELSE at[p]
      /\ \A p \in Parties : call'[p] = IF p \in callers THEN None ELSE call[p]
      /\ DOMAIN at' = Parties /\ DOMAIN call' = Parties
  BY Kinds DEF Return
<1>2. /\ at' \in [Parties -> {"free", "busy", "ended"} \cup Blocked]
      /\ \A p \in Clients : at'[p] \in {"free"} \cup Blocked
  <2>1. at' = [p \in Parties |-> at'[p]]
    BY DEF Return
  <2>2. \A p \in Parties : at'[p] \in {"free", "busy", "ended"} \cup Blocked
    BY <1>1, Kinds DEF CallInv, CallTypes
  <2> QED
    BY <2>1, <2>2, <1>1, Kinds DEF CallInv, CallTypes
<1>3. /\ call' \in [Parties -> CallsMade \cup {None}]
      /\ \A p \in Parties : call'[p] # None <=> at'[p] \in Blocked
  <2>1. call' = [p \in Parties |-> call'[p]]
    BY DEF Return
  <2>2. \A p \in Parties : call'[p] \in CallsMade \cup {None}
    BY <1>1 DEF CallInv, CallTypes
  <2>3. \A p \in Parties : call'[p] # None <=> at'[p] \in Blocked
    BY <1>1, Kinds DEF CallInv, CallTypes, Blocked
  <2> QED
    BY <2>1, <2>2, <2>3
<1>4. ASSUME NEW x \in Actors PROVE Len(mailbox'[x]) <= MailboxSize
  <2>1. Len(<<>>) = 0 /\ 0 <= MailboxSize
    BY MessagingAssumption
  <2>2. mailbox'[x] = mailbox[x] \/ mailbox'[x] = <<>>
    OBVIOUS
  <2> QED
    BY <2>1, <2>2 DEF CallInv, CallTypes
<1>5. /\ current' \in [Actors -> Messages \cup {None}]
      /\ \A x \in Actors : current'[x] # None <=> at'[x] \in {"busy"} \cup Blocked
  BY <1>1, Kinds DEF CallInv, CallTypes, Blocked
<1>6. CallTypes'
  BY <1>2, <1>3, <1>4, <1>5 DEF CallInv, CallTypes
<1>7. ASSUME NEW q \in Parties, NEW x \in Actors
      PROVE  IF at'[q] = "waiting" /\ call'[q].to = x
             THEN at'[x] # "ended" /\ \E i \in Owed(x, q)' : Owed(x, q)' = {i}
             ELSE Owed(x, q)' = {}
  <2>1. at'[q] = "waiting" <=> at[q] = "waiting" /\ q \notin callers
    BY <1>1, Kinds
  <2>2. q \notin callers => call'[q] = call[q]
    BY <1>1
  <2>3. CASE x = a
    <3>1. CASE q \in callers
      BY <2>1, <2>3, <3>1
    <3>2. CASE q \notin callers /\ here = "free"
      <4>1. Owed(a, q)' = Owed(a, q) /\ at'[a] # "ended"
        BY <3>2, <1>1
      <4> QED
        BY <2>1, <2>2, <2>3, <3>2, <4>1 DEF CallInv, WaitersAreOwed
    <3>3. CASE q \notin callers /\ here = "ended"
      <4>1. Owed(a, q)' = {} /\ Owed(a, q)' = Owed(a, q)
        BY <3>3
      <4>2. ~(at[q] = "waiting" /\ call[q].to = a)
        BY <4>1 DEF CallInv, WaitersAreOwed
      <4> QED
        BY <2>1, <2>2, <2>3, <3>3, <4>1, <4>2
    <3> QED
      BY <3>1, <3>2, <3>3
  <2>4. CASE x # a
    <3>1. mailbox'[x] = mailbox[x] /\ current'[x] = current[x]
      BY <2>4 DEF CallInv, CallTypes
    <3>2. Owed(x, q)' = Owed(x, q)
      BY <3>1 DEF Owed
    <3>3. at'[x] = "ended" => at[x] = "ended"
      BY <1>1, <2>4, Kinds
    <3>4. q \in callers => Owed(x, q) = {}
      BY <2>4 DEF CallInv, WaitersAreOwed
    <3> QED
      BY <2>1, <2>2, <3>2, <3>3, <3>4 DEF CallInv, WaitersAreOwed
  <2> QED
    BY <2>3, <2>4
<1>8. WaitersAreOwed'
  BY <1>7 DEF WaitersAreOwed
<1> QED
  BY <1>6, <1>8 DEF CallInv

\* A handler returns.
LEMMA FinishKeeps ==
    ASSUME CallInv, NEW a \in Actors, Finish(a)
    PROVE  CallInv'
<1> DEFINE C == Asker(current[a])
<1>1. /\ at[a] = "busy" /\ Return(C, a, "free")
      /\ current' = [current EXCEPT ![a] = None]
      /\ UNCHANGED <<mailbox, made>>
  BY DEF Finish
<1>2. C \subseteq Owes(a)
  BY DEF Owes
<1>3. ASSUME NEW p \in C
      PROVE  p \in Parties /\ at[p] = "waiting" /\ call[p].to = a /\ Owed(a, p) # {}
  BY <1>2, <1>3, OwedWait DEF CallInv
<1>4. mailbox[a] \in Seq(Messages) /\ Len(mailbox[a]) \in Nat
  BY DEF CallInv, CallTypes
<1>5. \A q : q \in C => C = {q}
  BY DEF Asker
<1>6. ASSUME NEW q \in Parties
      PROVE  Owed(a, q)' = IF q \in C THEN {} ELSE Owed(a, q)
  <2>1. current'[a] = None /\ Asker(None) = {}
    BY <1>1 DEF CallInv, CallTypes, Asker
  <2>2. Owed(a, q)' = Owed(a, q) \ {0}
    BY <2>1, <1>1, <1>4 DEF Owed
  <2>3. 0 \in Owed(a, q) <=> q \in C
    BY <1>4, <1>5 DEF Owed
  <2>4. q \in C => Owed(a, q) = {0}
    BY <1>3, <2>3 DEF CallInv, WaitersAreOwed
  <2> QED
    BY <2>2, <2>3, <2>4
<1> HIDE DEF C
<1>7. mailbox' \in [Actors -> Seq(Messages)]
  BY <1>1 DEF CallInv, CallTypes
<1>8. C \subseteq {p \in Parties : at[p] = "waiting" /\ call[p].to = a}
  BY <1>3
<1> QED
  BY <1>1, <1>6, <1>7, <1>8, ReturnKeeps

\* A runner ends: all who are owed something by it get an error.
LEMMA RunnerEndsKeeps ==
    ASSUME CallInv, NEW a \in Actors, RunnerEnds(a)
    PROVE  CallInv'
<1> DEFINE C == Owes(a)
<1>1. /\ at[a] \in {"free", "busy"} /\ Return(C, a, "ended")
      /\ current' = [current EXCEPT ![a] = None]
      /\ mailbox' = [mailbox EXCEPT ![a] = <<>>]
      /\ UNCHANGED made
  BY DEF RunnerEnds, Owes
<1>2. C \subseteq {p \in Parties : at[p] = "waiting" /\ call[p].to = a}
  BY OwedWait DEF CallInv
<1>3. mailbox[a] \in Seq(Messages) /\ <<>> \in Seq(Messages) /\ Len(<<>>) = 0
  BY DEF CallInv, CallTypes
<1>4. /\ mailbox' \in [Actors -> Seq(Messages)] /\ mailbox'[a] = <<>>
      /\ \A x \in Actors \ {a} : mailbox'[x] = mailbox[x]
      /\ current'[a] = None
  BY <1>1, <1>3 DEF CallInv, CallTypes
<1>5. ASSUME NEW q \in Parties
      PROVE  Owed(a, q)' = {} /\ (q \notin C => Owed(a, q) = {})
  <2>1. Asker(None) = {}
    BY DEF Asker
  <2>2. Owed(a, q)' = {}
    <3>1. \A i \in 0..Len(mailbox'[a]) : i = 0
      BY <1>3, <1>4
    <3>2. {} # {q}
      OBVIOUS
    <3> QED
      BY <2>1, <3>1, <3>2, <1>4 DEF Owed
  <2>3. ASSUME NEW i \in Owed(a, q)
        PROVE  q \in C
    <3>1. i \in 0..Len(mailbox[a])
      BY DEF Owed
    <3>2. PICK m : m = IF i = 0 THEN current[a] ELSE mailbox[a][i]
      OBVIOUS
    <3>3. Asker(m) = {q}
      BY <3>2 DEF Owed
    <3>4. m \in {current[a]} \cup Range(mailbox[a])
      <4>1. CASE i = 0
        BY <3>2, <4>1
      <4>2. CASE i # 0
        <5>1. i \in DOMAIN mailbox[a] /\ m = mailbox[a][i]
          BY <4>2, <3>1, <3>2, <1>3
        <5> QED
          BY <5>1 DEF Range
      <4> QED
        BY <4>1, <4>2
    <3> QED
      BY <3>3, <3>4 DEF Owes
  <2> QED
    BY <2>2, <2>3
<1> HIDE DEF C
<1>6. \A q \in Parties : Owed(a, q)' = IF q \in C THEN {} ELSE Owed(a, q)
  BY <1>5
<1>7. \A q \in Parties : Owed(a, q)' = {}
  BY <1>5
<1>8. mailbox'[a] \in {mailbox[a], <<>>} /\ "ended" \in {"free", "ended"}
  BY <1>4
<1> QED
  BY <1>1, <1>2, <1>4, <1>6, <1>7, <1>8, ReturnKeeps

\* A step of an EventManager between two waits.
LEMMA SinkKeeps ==
    ASSUME CallInv, NEW s \in Sinks, NEW v \in {"free", "busy", "ended"},
           at[s] \in {"free", "busy"}, at' = [at EXCEPT ![s] = v],
           UNCHANGED <<call, mailbox, current, made>>
    PROVE  CallInv'
<1>1. CallTypes'
  BY Kinds DEF CallInv, CallTypes, Blocked
<1>2. WaitersAreOwed'
  BY Kinds, WaitersKept DEF CallInv, CallTypes
<1> QED
  BY <1>1, <1>2 DEF CallInv

\* The steps of the calls.
CallSteps ==
    \/ \E p \in Parties :
        \/ \E a \in Actors, ask \in BOOLEAN : Call(p, a, ask)
        \/ Send(p) \/ SendFails(p)
    \/ \E a \in Actors : Take(a) \/ Finish(a) \/ RunnerEnds(a)

\* Every step keeps the callers and their messages in order.
LEMMA CallNext ==
    ASSUME CallInv, [Next]_vars
    PROVE  CallInv'
<1>1. CASE CallSteps
  BY <1>1, CallKeeps, SendKeeps, SendFailsKeeps, TakeKeeps, FinishKeeps, RunnerEndsKeeps
  DEF CallSteps
<1>2. CASE UNCHANGED calling
  <2>1. UNCHANGED <<at, call, mailbox, current, made>>
    BY <1>2 DEF calling
  <2>2. CallTypes'
    BY <2>1 DEF CallInv, CallTypes
  <2> QED
    BY <2>1, <2>2, WaitersKept DEF CallInv
<1>3. ASSUME NEW s \in Sinks, Receive(s) \/ Notified(s) \/ Close(s)
      PROVE  CallInv'
  <2>1. PICK v \in {"free", "busy", "ended"} :
          /\ at[s] \in {"free", "busy"} /\ at' = [at EXCEPT ![s] = v]
          /\ UNCHANGED <<call, mailbox, current, made>>
    BY <1>3 DEF Receive, Notified, Close, Listening
  <2> QED
    BY <2>1, SinkKeeps
<1>4. ASSUME NEW a \in Actors, Emit(a) PROVE UNCHANGED calling
  BY <1>4 DEF Emit
<1>5. ASSUME NEW s \in Sinks, Subscribe(s) \/ Lag(s) PROVE UNCHANGED calling
  BY <1>5 DEF Subscribe, Lag
<1>6. UNCHANGED vars => UNCHANGED calling
  BY DEF vars
<1> QED
  BY <1>1, <1>2, <1>3, <1>4, <1>5, <1>6 DEF Next, CallSteps

\* The steps of the calls publish nothing, revive nobody and end no sink.
LEMMA CallsEnd ==
    ASSUME CallInv, CallSteps
    PROVE  /\ UNCHANGED events
           /\ \A p \in Parties : at[p] = "ended" => at'[p] = "ended"
           /\ \A s \in Sinks : /\ at'[s] = "ended" => at[s] = "ended"
                               /\ at'[s] = "free" <=> at[s] = "free"
<1>1. ASSUME NEW p \in Parties,
             (\E a \in Actors, ask \in BOOLEAN : Call(p, a, ask)) \/ Send(p) \/ SendFails(p)
      PROVE  /\ UNCHANGED events
             /\ \A q \in Parties : at[q] = "ended" => at'[q] = "ended"
             /\ \A s \in Sinks : /\ at'[s] = "ended" => at[s] = "ended"
                                 /\ at'[s] = "free" <=> at[s] = "free"
  <2>1. /\ UNCHANGED events
        /\ at[p] \in {"free", "busy", "sending"}
        /\ p \in Sinks => at[p] # "free"
        /\ \E v \in {"free", "busy", "sending", "waiting"} :
              at' = [at EXCEPT ![p] = v] /\ (p \in Sinks => v # "free")
    BY <1>1, Kinds DEF Call, Send, SendFails
  <2> QED
    BY <2>1, Kinds DEF CallInv, CallTypes
<1>2. ASSUME NEW a \in Actors, Take(a)
      PROVE  /\ UNCHANGED events
             /\ \A q \in Parties : at[q] = "ended" => at'[q] = "ended"
             /\ \A s \in Sinks : /\ at'[s] = "ended" => at[s] = "ended"
                                 /\ at'[s] = "free" <=> at[s] = "free"
  BY <1>2, Kinds DEF Take, CallInv, CallTypes
<1>3. ASSUME NEW a \in Actors, Finish(a) \/ RunnerEnds(a)
      PROVE  /\ UNCHANGED events
             /\ \A q \in Parties : at[q] = "ended" => at'[q] = "ended"
             /\ \A s \in Sinks : /\ at'[s] = "ended" => at[s] = "ended"
                                 /\ at'[s] = "free" <=> at[s] = "free"
  <2>1. PICK here, C : /\ C \subseteq Owes(a) /\ Return(C, a, here)
                       /\ at[a] # "ended" /\ UNCHANGED events
    BY <1>3 DEF Finish, RunnerEnds, Owes
  <2>2. \A q \in C : at[q] = "waiting"
    BY <2>1, OwedWait DEF CallInv
  <2> QED
    BY <2>1, <2>2, Kinds DEF Return
<1> QED
  BY <1>1, <1>2, <1>3 DEF CallSteps

\* A caller that waits for an answer is owed exactly one, by an actor that is
\* up, and nobody else is owed one (actor/src/handler.rs:165, 54).
THEOREM WaitersAreOwedHolds == Spec => []WaitersAreOwed
<1>1. CallInv => WaitersAreOwed
  BY DEF CallInv
<1>2. CallInv /\ [Next]_vars => CallInv'
  BY CallNext
<1> QED
  BY <1>1, <1>2, CallInit, PTL DEF Spec

-----------------------------------------------------------------------------
(* Waits. *)

\* Actors call each other in one direction only: along each call a rank
\* descends.
CallsDescend ==
    \E rank \in [Actors -> Nat] :
        \A p, a \in Actors : <<p, a>> \in Calls => rank[a] < rank[p]

\* A party is in no call but one it may make.
CallsAllowed == \A p \in Parties : at[p] \in Blocked => <<p, call[p].to>> \in Calls

\* A step leaves the call of a party that stays in one, or the party makes
\* one that it may make.
LEMMA AllowedNext ==
    ASSUME CallInv, CallsAllowed, [Next]_vars
    PROVE  CallsAllowed'
<1> SUFFICES ASSUME NEW q \in Parties, at'[q] \in Blocked
             PROVE  <<q, call'[q].to>> \in Calls
  BY DEF CallsAllowed
<1>k. (at[q] \in Blocked /\ call'[q] = call[q]) => <<q, call'[q].to>> \in Calls
  BY DEF CallsAllowed
<1>1. ASSUME NEW p \in Parties, NEW a \in Actors, NEW ask \in BOOLEAN, Call(p, a, ask)
      PROVE  <<q, call'[q].to>> \in Calls
  <2>1. /\ <<p, a>> \in Calls
        /\ at' = [at EXCEPT ![p] = "sending"]
        /\ call' = [call EXCEPT ![p] = [to |-> a, ask |-> ask]]
    BY <1>1 DEF Call
  <2>2. CASE q = p
    BY <2>1, <2>2 DEF CallInv, CallTypes
  <2>3. CASE q # p
    BY <2>1, <2>3, <1>k DEF CallInv, CallTypes
  <2> QED
    BY <2>2, <2>3
<1>2. ASSUME NEW p \in Parties, Send(p) \/ SendFails(p)
      PROVE  <<q, call'[q].to>> \in Calls
  <2>1. /\ at[p] \in Blocked
        /\ \/ UNCHANGED call /\ at' = [at EXCEPT ![p] = "waiting"]
           \/ /\ at' = [at EXCEPT ![p] = Resumed(p)]
              /\ call' = [call EXCEPT ![p] = None]
    BY <1>2 DEF Send, SendFails, Blocked
  <2>2. Resumed(p) \notin Blocked
    BY Kinds DEF Blocked
  <2> QED
    BY <2>1, <2>2, <1>k DEF CallInv, CallTypes
<1>3. ASSUME NEW a \in Actors, Take(a)
      PROVE  <<q, call'[q].to>> \in Calls
  BY <1>3, <1>k DEF Take, CallInv, CallTypes, Blocked
<1>4. ASSUME NEW a \in Actors, Finish(a) \/ RunnerEnds(a)
      PROVE  <<q, call'[q].to>> \in Calls
  <2>0. (\E C : Return(C, a, "free")) \/ (\E C : Return(C, a, "ended"))
    BY <1>4 DEF Finish, RunnerEnds
  <2>1. PICK C : Return(C, a, "free") \/ Return(C, a, "ended")
    BY <2>0
  <2>2. q \notin C /\ q # a
    BY <2>1, Kinds DEF Return, Blocked
  <2> QED
    BY <2>1, <2>2, <1>k DEF Return
<1>5. ASSUME NEW s \in Sinks, Receive(s) \/ Notified(s) \/ Close(s)
      PROVE  <<q, call'[q].to>> \in Calls
  BY <1>5, <1>k DEF Receive, Notified, Close, CallInv, CallTypes, Blocked
<1>6. ASSUME UNCHANGED calling
      PROVE  <<q, call'[q].to>> \in Calls
  BY <1>6, <1>k DEF calling
<1>7. ASSUME NEW a \in Actors, Emit(a) PROVE UNCHANGED calling
  BY <1>7 DEF Emit
<1>8. ASSUME NEW s \in Sinks, Subscribe(s) \/ Lag(s) PROVE UNCHANGED calling
  BY <1>8 DEF Subscribe, Lag
<1>9. UNCHANGED vars => UNCHANGED calling
  BY DEF vars
<1> QED
  BY <1>1, <1>2, <1>3, <1>4, <1>5, <1>6, <1>7, <1>8, <1>9 DEF Next

\* Where nobody moves, a party that is blocked waits for an actor that is
\* blocked as well.
LEMMA BlockedByBlocked ==
    ASSUME CallInv, CallsAllowed, NEW p \in Parties, at[p] \in Blocked,
           \A q \in Parties : ~Moves(q)
    PROVE  call[p].to \in Actors /\ at[call[p].to] \in Blocked
<1> DEFINE a == call[p].to
<1>1. a \in Actors /\ a \in Parties /\ a \notin Clients
  BY Kinds DEF CallInv, CallTypes, CallsMade
<1>2. mailbox[a] \in Seq(Messages) /\ Len(mailbox[a]) \in Nat
  BY <1>1 DEF CallInv, CallTypes
<1>3. at[a] # "ended"
  <2>1. at[p] = "waiting" => at[a] # "ended"
    BY <1>1 DEF CallInv, WaitersAreOwed
  <2> QED
    BY <2>1 DEF Moves, Blocked
<1>4. at[a] # "busy"
  BY <1>1 DEF Moves
<1>5. at[a] # "free"
  <2>1. SUFFICES ASSUME at[a] = "free" PROVE FALSE
    OBVIOUS
  <2>2. mailbox[a] = <<>> /\ current[a] = None
    BY <2>1, <1>1 DEF Moves, CallInv, CallTypes, Blocked
  <2>3. CASE at[p] = "sending"
    <3>1. Len(mailbox[a]) < MailboxSize
      BY <2>2, MessagingAssumption
    <3> QED
      BY <2>3, <3>1 DEF Moves
  <2>4. CASE at[p] = "waiting"
    <3>1. PICK i \in Owed(a, p) : TRUE
      BY <2>4, <1>1 DEF CallInv, WaitersAreOwed
    <3>2. i = 0
      BY <2>2 DEF Owed
    <3>3. Asker(current[a]) = {p}
      BY <3>1, <3>2 DEF Owed
    <3> QED
      BY <2>2, <3>3 DEF Asker
  <2> QED
    BY <2>3, <2>4 DEF Blocked
<1> QED
  BY <1>1, <1>3, <1>4, <1>5 DEF CallInv, CallTypes

\* As long as actors call each other in one direction only, whenever somebody
\* waits for room or for an answer somebody can go on without waiting
\* (actor/src/actor.rs:613, 599).
THEOREM NoDeadlockHolds == ASSUME CallsDescend PROVE Spec => []NoDeadlock
<1>1. CallInv /\ CallsAllowed => NoDeadlock
  <2> SUFFICES ASSUME CallInv, CallsAllowed, NEW p \in Parties, at[p] \in Blocked,
                      \A q \in Parties : ~Moves(q)
               PROVE  FALSE
    BY DEF NoDeadlock
  <2>1. PICK rank \in [Actors -> Nat] :
          \A x, a \in Actors : <<x, a>> \in Calls => rank[a] < rank[x]
    BY DEF CallsDescend
  <2> DEFINE Stuck == {x \in Actors : at[x] \in Blocked}
             Ranks == {rank[x] : x \in Stuck}
             R == OpToRel(<, Nat)
  <2>2. call[p].to \in Stuck
    BY BlockedByBlocked
  <2>3. Ranks \subseteq Nat /\ Ranks # {}
    BY <2>1, <2>2
  <2>4. \A x, y \in Nat : x < y => <<x, y>> \in R
    BY DEF OpToRel
  <2>5. IsWellFoundedOn(R, Nat)
    BY NatLessThanWellFounded
  <2>6. ASSUME NEW r \in Ranks PROVE \E s \in Ranks : s < r
    <3>1. PICK x \in Stuck : r = rank[x]
      OBVIOUS
    <3>2. x \in Parties /\ <<x, call[x].to>> \in Calls /\ call[x].to \in Stuck
      BY <3>1, Kinds, BlockedByBlocked DEF CallsAllowed
    <3> QED
      BY <2>1, <3>1, <3>2
  <2> HIDE DEF Ranks, R
  <2>7. \E r \in Ranks : \A s \in Ranks : ~(<<s, r>> \in R)
    BY <2>3, <2>5, WFMin, Zenon
  <2> QED
    BY <2>3, <2>4, <2>6, <2>7
<1>2. Init => CallsAllowed
  BY DEF Init, CallsAllowed, Blocked
<1>3. CallInv /\ CallsAllowed /\ [Next]_vars => (CallInv /\ CallsAllowed)'
  BY CallNext, AllowedNext
<1> QED
  BY <1>1, <1>2, <1>3, CallInit, PTL DEF Spec

-----------------------------------------------------------------------------
(* Events. *)

\* Where a subscription is: an event that was missed has left the buffer, and
\* an EventManager that ended has read all that will ever be published.
SinkInv(s) ==
    /\ start[s] <= next[s]
    /\ start[s] = 0 => next[s] = 0 /\ at[s] = "free"
    /\ next[s] <= Newest(s)
    /\ seen[s] \cup lagged[s] = start[s]..(next[s] - 1)
    /\ seen[s] \cap lagged[s] = {}
    /\ \A e \in lagged[s] : e < Oldest(s)
    /\ at[s] = "ended" => at[Source[s]] = "ended" /\ next[s] > emitted[Source[s]]

EventInv == EventTypes /\ \A s \in Sinks : SinkInv(s)

\* A sink none of whose fields change keeps its place while its source
\* publishes, or while calls are made.
LEMMA SinkUntouched ==
    ASSUME EventInv, EventTypes', NEW s \in Sinks,
           start'[s] = start[s], next'[s] = next[s], seen'[s] = seen[s],
           lagged'[s] = lagged[s],
           at'[s] = "free" <=> at[s] = "free",
           at'[s] = "ended" => at[s] = "ended",
           at[Source[s]] = "ended" => at'[Source[s]] = "ended",
           emitted'[Source[s]] >= emitted[Source[s]],
           at[Source[s]] = "ended" => emitted'[Source[s]] = emitted[Source[s]]
    PROVE  SinkInv(s)'
<1>1. /\ start[s] \in Nat /\ next[s] \in Nat
      /\ emitted[Source[s]] \in Nat /\ emitted'[Source[s]] \in Nat
      /\ lagged[s] \subseteq Nat /\ EventBuffer \in Nat
  BY Kinds, MessagingAssumption DEF EventInv, EventTypes
<1> QED
  BY <1>1 DEF EventInv, SinkInv, Newest, Oldest

\* The events start with nothing published and nobody subscribed.
LEMMA EventsInit == Init => EventInv
<1> SUFFICES ASSUME Init PROVE EventInv
  OBVIOUS
<1>1. EventTypes
  BY MessagingAssumption DEF Init, EventTypes
<1>2. ASSUME NEW s \in Sinks PROVE SinkInv(s)
  <2>1. 0..(0 - 1) = {}
    OBVIOUS
  <2> QED
    BY <2>1, Kinds DEF Init, SinkInv, Newest
<1> QED
  BY <1>1, <1>2 DEF EventInv

\* What the bounds of a subscription are.
LEMMA SinkBounds ==
    ASSUME EventInv, NEW s \in Sinks
    PROVE  /\ start[s] \in Nat /\ next[s] \in Nat /\ emitted[Source[s]] \in 0..MaxEvents
           /\ seen[s] \subseteq Nat /\ lagged[s] \subseteq Nat /\ SinkInv(s)
           /\ Oldest(s) \in Int /\ Oldest(s) <= Newest(s)
           /\ Newest(s) \in 1..(MaxEvents + 1)
           /\ Source[s] \in Parties /\ Source[s] \in Actors
BY Kinds, MessagingAssumption DEF EventInv, EventTypes, Oldest, Newest

\* One sink moves: the types hold of its new fields.
LEMMA SinkTypes ==
    ASSUME EventInv, NEW s \in Sinks, UNCHANGED emitted,
           NEW x \in 0..(MaxEvents + 1), NEW n \in 0..(MaxEvents + 1),
           NEW S \in SUBSET (1..MaxEvents), NEW L \in SUBSET (1..MaxEvents),
           start' = [start EXCEPT ![s] = x], next' = [next EXCEPT ![s] = n],
           seen' = [seen EXCEPT ![s] = S], lagged' = [lagged EXCEPT ![s] = L],
           \A q \in Sinks \ {s} : at'[q] = at[q],
           \A a \in Actors : at'[a] = at[a],
           SinkInv(s)'
    PROVE  EventInv'
<1>1. EventTypes'
  BY DEF EventInv, EventTypes
<1>2. ASSUME NEW q \in Sinks \ {s} PROVE SinkInv(q)'
  <2>1. /\ start'[q] = start[q] /\ next'[q] = next[q] /\ seen'[q] = seen[q]
        /\ lagged'[q] = lagged[q] /\ at'[q] = at[q] /\ at'[Source[q]] = at[Source[q]]
    BY Kinds DEF EventInv, EventTypes
  <2> QED
    BY <2>1 DEF EventInv, SinkInv, Newest, Oldest
<1> QED
  BY <1>1, <1>2 DEF EventInv

\* A step of a sink keeps all subscriptions in order.
LEMMA SinkSteps ==
    ASSUME CallInv, EventInv, NEW s \in Sinks,
           Subscribe(s) \/ Receive(s) \/ Lag(s) \/ Notified(s) \/ Close(s)
    PROVE  EventInv'
<1>b. /\ start[s] \in Nat /\ next[s] \in Nat /\ emitted[Source[s]] \in 0..MaxEvents
      /\ seen[s] \subseteq Nat /\ lagged[s] \subseteq Nat /\ SinkInv(s)
      /\ Oldest(s) \in Int /\ Oldest(s) <= Newest(s)
      /\ Newest(s) \in 1..(MaxEvents + 1)
      /\ Source[s] \in Parties /\ Source[s] \in Actors
  BY SinkBounds
<1>c. /\ start = [start EXCEPT ![s] = start[s]] /\ next = [next EXCEPT ![s] = next[s]]
      /\ seen = [seen EXCEPT ![s] = seen[s]] /\ lagged = [lagged EXCEPT ![s] = lagged[s]]
      /\ start[s] \in 0..(MaxEvents + 1) /\ next[s] \in 0..(MaxEvents + 1)
      /\ seen[s] \in SUBSET (1..MaxEvents) /\ lagged[s] \in SUBSET (1..MaxEvents)
      /\ MaxEvents \in Nat
  BY MessagingAssumption DEF EventInv, EventTypes
<1>d. s \in Parties /\ s \notin Actors /\ DOMAIN at = Parties
  BY Kinds DEF CallInv, CallTypes
<1>1. CASE Subscribe(s)
  <2>1. /\ start[s] = 0 /\ next[s] = 0 /\ at[s] = "free"
        /\ start' = [start EXCEPT ![s] = Newest(s)]
        /\ next' = [next EXCEPT ![s] = Newest(s)]
        /\ UNCHANGED <<at, emitted, seen, lagged>>
    BY <1>1, <1>b DEF Subscribe, SinkInv, calling
  <2>2. seen[s] = {} /\ lagged[s] = {}
    BY <2>1, <1>b DEF SinkInv
  <2>3. /\ start'[s] = Newest(s) /\ next'[s] = Newest(s)
        /\ seen'[s] = {} /\ lagged'[s] = {} /\ at'[s] = "free"
        /\ Newest(s)' = Newest(s)
    BY <2>1, <2>2 DEF EventInv, EventTypes, Newest
  <2>4. SinkInv(s)'
    <3>1. PICK n : n = Newest(s) /\ n \in Nat /\ n >= 1
      BY <1>b
    <3>2. n..(n - 1) = {}
      BY <3>1
    <3> QED
      BY <2>3, <3>1, <3>2 DEF SinkInv
  <2>5. PICK n : n = Newest(s) /\ n \in 0..(MaxEvents + 1)
    BY <1>b, <1>c
  <2>6. /\ start' = [start EXCEPT ![s] = n]
        /\ next' = [next EXCEPT ![s] = n]
        /\ seen' = [seen EXCEPT ![s] = seen[s]]
        /\ lagged' = [lagged EXCEPT ![s] = lagged[s]]
        /\ at' = at /\ emitted' = emitted
    BY <2>1, <2>5, <1>c
  <2> QED
    BY <2>4, <2>5, <2>6, <1>c, SinkTypes
<1>2. CASE Receive(s)
  <2>1. /\ start[s] > 0 /\ next[s] >= Oldest(s) /\ next[s] <= emitted[Source[s]]
        /\ at' = [at EXCEPT ![s] = "busy"]
        /\ seen' = [seen EXCEPT ![s] = seen[s] \cup {next[s]}]
        /\ next' = [next EXCEPT ![s] = next[s] + 1]
        /\ UNCHANGED <<emitted, start, lagged>>
    BY <1>2 DEF Receive, Listening
  <2>2. next[s] >= 1 /\ next[s] \in 1..MaxEvents /\ next[s] + 1 \in 0..(MaxEvents + 1)
    BY <2>1, <1>b, <1>c DEF SinkInv
  <2>3. /\ start'[s] = start[s] /\ next'[s] = next[s] + 1
        /\ seen'[s] = seen[s] \cup {next[s]} /\ lagged'[s] = lagged[s]
        /\ at'[s] = "busy" /\ at'[Source[s]] = at[Source[s]]
        /\ Oldest(s)' = Oldest(s) /\ Newest(s)' = Newest(s)
    BY <2>1, <1>b, <1>d DEF EventInv, EventTypes, Oldest, Newest
  <2>4. SinkInv(s)'
    <3>1. start[s]..next[s] = start[s]..(next[s] - 1) \cup {next[s]}
      BY <1>b DEF SinkInv
    <3>2. next[s] \notin lagged[s]
      BY <1>b DEF SinkInv
    <3>3. next[s] + 1 <= Newest(s)
      BY <2>1, <1>b DEF Newest
    <3> QED
      BY <2>1, <2>3, <3>1, <3>2, <3>3, <1>b DEF SinkInv
  <2>5. seen[s] \cup {next[s]} \in SUBSET (1..MaxEvents)
    BY <2>2, <1>c
  <2>6. (\A q \in Sinks \ {s} : at'[q] = at[q]) /\ \A a \in Actors : at'[a] = at[a]
    BY <2>1, <1>d, Kinds
  <2> QED
    BY <2>1, <2>2, <2>4, <2>5, <2>6, <1>c, SinkTypes
<1>3. CASE Lag(s)
  <2> DEFINE missed == next[s]..(Oldest(s) - 1)
  <2>1. /\ start[s] > 0 /\ next[s] < Oldest(s)
        /\ next' = [next EXCEPT ![s] = Oldest(s)]
        /\ lagged' = [lagged EXCEPT ![s] = lagged[s] \cup missed]
        /\ UNCHANGED <<at, emitted, start, seen>>
    BY <1>3 DEF Lag, Listening, calling
  <2>2. /\ missed \subseteq 1..MaxEvents
        /\ Oldest(s) \in 0..(MaxEvents + 1)
        /\ lagged[s] \cup missed \in SUBSET (1..MaxEvents)
    <3>1. next[s] >= 1 /\ Oldest(s) <= MaxEvents + 1
      BY <2>1, <1>b, <1>c DEF SinkInv
    <3> QED
      BY <3>1, <2>1, <1>b, <1>c
  <2>3. /\ start'[s] = start[s] /\ next'[s] = Oldest(s)
        /\ seen'[s] = seen[s] /\ lagged'[s] = lagged[s] \cup missed
        /\ at'[s] = at[s] /\ at'[Source[s]] = at[Source[s]]
        /\ Oldest(s)' = Oldest(s) /\ Newest(s)' = Newest(s)
        /\ at[s] = "free"
    BY <2>1, <1>b, <1>3 DEF EventInv, EventTypes, Oldest, Newest, Lag, Listening
  <2>4. SinkInv(s)'
    <3>1. start[s]..(Oldest(s) - 1) = start[s]..(next[s] - 1) \cup missed
      BY <2>1, <1>b DEF SinkInv
    <3>2. seen[s] \cap missed = {}
      BY <1>b DEF SinkInv
    <3>3. \A e \in lagged[s] \cup missed : e < Oldest(s)
      BY <1>b DEF SinkInv
    <3> HIDE DEF missed
    <3> QED
      BY <2>1, <2>3, <3>1, <3>2, <3>3, <1>b DEF SinkInv
  <2> HIDE DEF missed
  <2>5. PICK S, L, n : S = seen[s] /\ L = lagged[s] \cup missed /\ n = Oldest(s)
    OBVIOUS
  <2> QED
    BY <2>1, <2>2, <2>4, <2>5, <1>c, SinkTypes
<1>4. CASE Notified(s) \/ Close(s)
  <2>1. PICK v \in {"free", "ended"} :
          /\ at' = [at EXCEPT ![s] = v]
          /\ UNCHANGED events
          /\ v = "free" => at[s] = "busy"
          /\ v = "ended" => /\ at[Source[s]] = "ended" /\ next[s] > emitted[Source[s]]
                            /\ start[s] > 0
    BY <1>4 DEF Notified, Close, Listening, events
  <2>2. /\ UNCHANGED <<emitted, start, next, seen, lagged>>
        /\ at'[s] = v /\ at'[Source[s]] = at[Source[s]]
        /\ Oldest(s)' = Oldest(s) /\ Newest(s)' = Newest(s)
    BY <2>1, <1>b, <1>d DEF events, Oldest, Newest
  <2>3. SinkInv(s)'
    BY <2>1, <2>2, <1>b DEF SinkInv
  <2>4. (\A q \in Sinks \ {s} : at'[q] = at[q]) /\ \A a \in Actors : at'[a] = at[a]
    BY <2>1, <1>d, Kinds
  <2>5. /\ start' = [start EXCEPT ![s] = start[s]]
        /\ next' = [next EXCEPT ![s] = next[s]]
        /\ seen' = [seen EXCEPT ![s] = seen[s]]
        /\ lagged' = [lagged EXCEPT ![s] = lagged[s]]
        /\ emitted' = emitted
    BY <2>2, <1>c
  <2> QED
    BY <2>3, <2>4, <2>5, <1>c, SinkTypes
<1> QED
  BY <1>1, <1>2, <1>3, <1>4

\* Every step keeps the subscriptions in order.
LEMMA EventsNext ==
    ASSUME CallInv, EventInv, [Next]_vars
    PROVE  EventInv'
<1>1. CASE CallSteps
  <2>1. UNCHANGED events
    BY <1>1, CallsEnd
  <2>2. \A p \in Parties : at[p] = "ended" => at'[p] = "ended"
    BY <1>1, CallsEnd
  <2>3. \A s \in Sinks : /\ at'[s] = "ended" => at[s] = "ended"
                         /\ at'[s] = "free" <=> at[s] = "free"
    BY <1>1, CallsEnd
  <2>4. UNCHANGED <<emitted, start, next, seen, lagged>>
    BY <2>1 DEF events
  <2>5. EventTypes'
    BY <2>4 DEF EventInv, EventTypes
  <2>6. ASSUME NEW s \in Sinks PROVE SinkInv(s)'
    <3>1. emitted[Source[s]] \in Nat /\ Source[s] \in Parties
      BY SinkBounds
    <3>2. at[Source[s]] = "ended" => at'[Source[s]] = "ended"
      BY <2>2, <3>1
    <3>3. at'[s] = "ended" => at[s] = "ended"
      BY <2>3
    <3>4. at'[s] = "free" <=> at[s] = "free"
      BY <2>3
    <3>5. emitted'[Source[s]] >= emitted[Source[s]]
      BY <2>4, <3>1
    <3> QED
      BY <2>4, <2>5, <3>2, <3>3, <3>4, <3>5, SinkUntouched
  <2> QED
    BY <2>5, <2>6 DEF EventInv
<1>2. ASSUME NEW a \in Actors, Emit(a) PROVE EventInv'
  <2>1. /\ UNCHANGED <<at, start, next, seen, lagged>>
        /\ at[a] = "busy" /\ emitted[a] < MaxEvents
        /\ emitted' = [emitted EXCEPT ![a] = emitted[a] + 1]
        /\ emitted[a] \in 0..MaxEvents
    BY <1>2 DEF Emit, calling, EventInv, EventTypes
  <2>2. EventTypes'
    BY <2>1, MessagingAssumption DEF EventInv, EventTypes
  <2>3. ASSUME NEW s \in Sinks PROVE SinkInv(s)'
    <3>1. /\ emitted'[Source[s]] >= emitted[Source[s]]
          /\ at[Source[s]] = "ended" => emitted'[Source[s]] = emitted[Source[s]]
      BY <2>1, SinkBounds DEF EventInv, EventTypes
    <3> QED
      BY <2>1, <2>2, <3>1, SinkUntouched
  <2> QED
    BY <2>2, <2>3 DEF EventInv
<1>3. ASSUME NEW s \in Sinks,
             Subscribe(s) \/ Receive(s) \/ Lag(s) \/ Notified(s) \/ Close(s)
      PROVE  EventInv'
  BY <1>3, SinkSteps
<1>4. CASE UNCHANGED vars
  <2>1. UNCHANGED <<at, emitted, start, next, seen, lagged>>
    BY <1>4 DEF vars, calling, events
  <2> QED
    BY <2>1 DEF EventInv, EventTypes, SinkInv, Newest, Oldest
<1> QED
  BY <1>1, <1>2, <1>3, <1>4 DEF Next, CallSteps

\* Callers, messages and subscriptions are in order in every state.
THEOREM Inductive == Spec => [](CallInv /\ EventInv)
<1>1. Init => CallInv /\ EventInv
  BY CallInit, EventsInit
<1>2. CallInv /\ EventInv /\ [Next]_vars => (CallInv /\ EventInv)'
  BY CallNext, EventsNext
<1> QED
  BY <1>1, <1>2, PTL DEF Spec

\* The channels, the calls and the subscriptions keep their types
\* (actor/src/handler.rs, actor/src/event.rs).
THEOREM TypeCorrect == Spec => []TypeOK
<1>1. CallInv /\ EventInv => TypeOK
  BY DEF CallInv, CallTypes, EventInv, EventTypes, TypeOK
<1> QED
  BY <1>1, Inductive, PTL

\* An event handler was notified of each event since its subscription, or its
\* EventManager was told that it missed it (actor/src/event.rs:36).
THEOREM EventsAccountedHolds == Spec => []EventsAccounted
<1>1. EventInv => EventsAccounted
  BY DEF EventInv, SinkInv, EventsAccounted
<1> QED
  BY <1>1, Inductive, PTL

\* An EventManager that ends has notified its handler of as many of the last
\* events as the buffer holds (actor/src/event.rs:42).
THEOREM EndsWithTheLastHolds == Spec => []EndsWithTheLast
<1>1. ASSUME EventInv, NEW s \in Sinks, at[s] = "ended",
             NEW e \in Max({start[s], Oldest(s)})..emitted[Source[s]]
      PROVE  e \in seen[s]
  <2>1. /\ start[s] \in Nat /\ next[s] \in Nat /\ Oldest(s) \in Int
        /\ emitted[Source[s]] \in Nat
        /\ SinkInv(s)
    BY <1>1, SinkBounds
  <2>2. Max({start[s], Oldest(s)}) \in Int /\ Max({start[s], Oldest(s)}) >= start[s]
        /\ Max({start[s], Oldest(s)}) >= Oldest(s)
    <3> DEFINE S == {start[s], Oldest(s)}
    <3>1. \E x \in S : \A y \in S : x >= y
      BY <2>1
    <3>2. Max(S) \in S /\ \A y \in S : Max(S) >= y
      BY <3>1 DEF Max
    <3> QED
      BY <3>2, <2>1
  <2>3. e \in Int /\ e >= start[s] /\ e >= Oldest(s) /\ e <= emitted[Source[s]]
    BY <2>1, <2>2, <1>1
  <2>4. e \in start[s]..(next[s] - 1) /\ e \notin lagged[s]
    BY <1>1, <2>1, <2>3 DEF SinkInv
  <2> QED
    BY <2>1, <2>4 DEF SinkInv
<1>2. EventInv => EndsWithTheLast
  BY <1>1 DEF EndsWithTheLast
<1> QED
  BY <1>2, Inductive, PTL
=============================================================================
