------------------------ MODULE SnapshotActorProofs ------------------------
(***************************************************************************)
(* Proofs about SnapshotActor and the keyspace it uses, for any ids, keys, *)
(* versions and mailboxes: its invariants, that the keyspace implements    *)
(* Stores, and what the iterators yield.                                   *)
(***************************************************************************)
EXTENDS SnapshotActor, StoreProofs, FiniteSetTheorems, SequenceTheorems

-----------------------------------------------------------------------------
(* The keyspace. *)

\* A purge removes what its scan met.
LeftMet == \A p \in Ids : left[p] \subseteq Met(p) \X Keys

\* Operations on a map keep it one.
LEMMA StoreOps ==
    ASSUME NEW m, IsStore(m, Keys, Values), NEW k
    PROVE  /\ IsStore(StoreDel(m, k), Keys, Values)
           /\ DOMAIN StoreDel(m, k) = DOMAIN m \ {k}
           /\ \A v \in Values : k \in Keys =>
                /\ IsStore(StorePut(m, k, v), Keys, Values)
                /\ DOMAIN StorePut(m, k, v) = DOMAIN m \cup {k}
                /\ StorePut(m, k, v)[k] = v
<1>1. /\ IsStore(StoreDel(m, k), Keys, Values)
      /\ DOMAIN StoreDel(m, k) = DOMAIN m \ {k}
  BY DEF IsStore, StoreDel
<1>2. ASSUME NEW v \in Values, k \in Keys
      PROVE  /\ IsStore(StorePut(m, k, v), Keys, Values)
             /\ DOMAIN StorePut(m, k, v) = DOMAIN m \cup {k}
             /\ StorePut(m, k, v)[k] = v
  BY <1>2 DEF IsStore, StorePut
<1> QED
  BY <1>1, <1>2

\* What a write does to the keyspace.
LEMMA WriteKeeps ==
    ASSUME StoreTypeOK, LeftMet, NEW p \in Ids, NEW m, IsStore(m, Keys, Values), Write(p, m)
    PROVE  /\ StoreTypeOK' /\ LeftMet'
           /\ \A q \in Ids \ {p} : space'[q] = space[q]
<1>1. /\ \A q \in Ids : space'[q] = IF q = p THEN m ELSE space[q]
      /\ DOMAIN space' = Ids /\ purge' = [purge EXCEPT ![p] = "none"] /\ left' = left
  BY DEF Write, StoreTypeOK
<1>2. \A q \in Ids : IsStore(space'[q], Keys, Values)
  BY <1>1 DEF StoreTypeOK
<1>3. purge' \in [Ids -> Promise!Purges]
  BY <1>1 DEF StoreTypeOK, Promise!Purges
<1> QED
  BY <1>1, <1>2, <1>3 DEF StoreTypeOK, LeftMet

\* What the owner of a store does keeps the types, and touches no id that its
\* scans do not meet.
LEMMA UseKeeps ==
    ASSUME StoreTypeOK, LeftMet, NEW p \in Ids, StoreUse(p)
    PROVE  /\ StoreTypeOK' /\ LeftMet'
           /\ \A q \in Ids \ Met(p) : space'[q] = space[q]
<1>1. p \in Met(p) /\ Met(p) \subseteq Ids
  BY DEF Met
<1>2. ASSUME NEW k \in Keys, Del(p, k) \/ \E v \in Values : Put(p, k, v)
      PROVE  /\ StoreTypeOK' /\ LeftMet'
             /\ \A q \in Ids \ {p} : space'[q] = space[q]
  <2>1. PICK m : Write(p, m) /\ IsStore(m, Keys, Values)
    BY <1>2, StoreOps DEF Del, Put, StoreTypeOK
  <2> QED
    BY <2>1, WriteKeeps
<1>3. CASE PurgeStart(p)
  <2>1. /\ space' = space /\ purge' = [purge EXCEPT ![p] = "busy"]
        /\ left' = [left EXCEPT ![p] = Entries(p)]
    BY <1>3 DEF PurgeStart
  <2>2. Entries(p) \subseteq Met(p) \X Keys
    BY <1>1 DEF Entries, StoreTypeOK, IsStore
  <2>3. LeftMet'
    BY <2>1, <2>2 DEF LeftMet, Met, StoreTypeOK
  <2>4. Entries(p) \subseteq Ids \X Keys
    BY <2>2, <1>1
  <2> QED
    BY <2>1, <2>3, <2>4 DEF StoreTypeOK, Promise!Purges
<1>4. CASE PurgeRemove(p)
  <2>1. PICK e \in left[p] :
          /\ space' = [space EXCEPT ![e[1]] = StoreDel(space[e[1]], e[2])]
          /\ left' = [left EXCEPT ![p] = left[p] \ {e}]
          /\ purge' = purge
    BY <1>4 DEF PurgeRemove
  <2>2. e[1] \in Met(p) /\ e[1] \in Ids
    BY <1>1 DEF LeftMet
  <2>3. \A q \in Ids : space'[q] = IF q = e[1] THEN StoreDel(space[q], e[2]) ELSE space[q]
    BY <2>1, <2>2 DEF StoreTypeOK
  <2>4. ASSUME NEW q \in Ids PROVE IsStore(space'[q], Keys, Values)
    <3>1. IsStore(space[q], Keys, Values)
      BY DEF StoreTypeOK
    <3>2. IsStore(StoreDel(space[q], e[2]), Keys, Values)
      BY <3>1, StoreOps
    <3>3. space'[q] = StoreDel(space[q], e[2]) \/ space'[q] = space[q]
      BY <2>3
    <3> QED
      BY <3>1, <3>2, <3>3
  <2> QED
    BY <2>1, <2>2, <2>3, <2>4 DEF StoreTypeOK, LeftMet, Met
<1>5. CASE PurgeDone(p) \/ PurgeFails(p)
  <2>1. /\ space' = space
        /\ \/ purge' = [purge EXCEPT ![p] = "ok"] /\ left' = left
           \/ purge' = [purge EXCEPT ![p] = "err"] /\ left' = [left EXCEPT ![p] = {}]
    BY <1>5 DEF PurgeDone, PurgeFails
  <2> QED
    BY <2>1 DEF StoreTypeOK, LeftMet, Met, Promise!Purges
<1> QED
  BY <1>1, <1>2, <1>3, <1>4, <1>5 DEF StoreUse

-----------------------------------------------------------------------------
(* The actors and their snapshotters. *)

\* The actor's fields and those of its snapshotter.
ActorTypes ==
    /\ phase \in [Actors -> {"down", "loading", "running", "stopping"}]
    /\ state \in [Actors -> Versions]
    /\ registered \subseteq Actors /\ alive \subseteq Actors
    /\ box \in [Actors -> Seq(Messages)]
    /\ faults \in 0..MaxFaults
    /\ told \in [Actors -> Versions \cup {Untold}]
    /\ failed \in [Actors -> BOOLEAN] /\ misled \in [Actors -> BOOLEAN]

\* There is a snapshotter while the actor is up.  One that outlives it has its
\* Stop or Restart still to take; only after a Restart is it registered.
LifeInv(a) ==
    /\ a \in ending => a \in alive
    /\ phase[a] \in {"loading", "running"} =>
        a \in alive /\ a \in registered /\ a \notin ending
    /\ phase[a] = "stopping" => a \in alive /\ a \in ending
    /\ phase[a] = "down" /\ a \in alive => a \in registered /\ a \in ending

\* An actor that loads waits, so that its request is the last message.
BoxInv(a) ==
    /\ phase[a] = "loading" => box[a] # <<>>
    /\ \A i \in DOMAIN box[a] :
        box[a][i].save <=> ~(phase[a] = "loading" /\ i = Len(box[a]))

TypeInv ==
    /\ StoreTypeOK /\ LeftMet
    /\ ActorTypes /\ ending \subseteq Actors
    /\ \A a \in Actors : LifeInv(a) /\ BoxInv(a)

\* The messages to a snapshotter.
LEMMA MessageTypes ==
    /\ LoadMessage \in Messages /\ ~LoadMessage.save
    /\ \A v \in Versions :
        SaveMessage(v) \in Messages /\ SaveMessage(v).save /\ SaveMessage(v).version = v
    /\ \A m \in Messages : m.save \in BOOLEAN /\ m.version \in Versions
    /\ 0 \in Versions /\ Versions \subseteq Int /\ Untold \notin Versions
<1>1. 0 \in Versions /\ Versions \subseteq Nat /\ Untold \notin Versions
  BY SnapshotAssumption DEF Versions, Untold
<1>2. LoadMessage \in Messages /\ ~LoadMessage.save /\ LoadMessage.version = 0
  BY DEF Messages, LoadMessage
<1>3. \A v \in Versions :
        SaveMessage(v) \in Messages /\ SaveMessage(v).save /\ SaveMessage(v).version = v
  BY DEF Messages, SaveMessage
<1>4. ASSUME NEW m \in Messages PROVE m.save \in BOOLEAN /\ m.version \in Versions
  <2>1. m = LoadMessage \/ \E v \in Versions : m = SaveMessage(v)
    BY DEF Messages
  <2>2. CASE m = LoadMessage
    BY <2>2, <1>1 DEF LoadMessage
  <2>3. ASSUME NEW v \in Versions, m = SaveMessage(v)
        PROVE  m.save \in BOOLEAN /\ m.version \in Versions
    BY <2>3 DEF SaveMessage
  <2> QED
    BY <2>1, <2>2, <2>3
<1> QED
  BY <1>1, <1>2, <1>3, <1>4

\* A mailbox without its first message.
LEMMA BoxTail ==
    ASSUME NEW b \in Seq(Messages), b # <<>>
    PROVE  /\ Tail(b) \in Seq(Messages) /\ Head(b) \in Messages /\ Head(b) = b[1]
           /\ 1 \in DOMAIN b /\ Len(b) \in Nat /\ Len(Tail(b)) = Len(b) - 1
           /\ DOMAIN b = 1..Len(b) /\ DOMAIN Tail(b) = 1..(Len(b) - 1)
           /\ \A i \in DOMAIN Tail(b) :
                i \in Nat /\ i + 1 \in DOMAIN b /\ Tail(b)[i] = b[i + 1]
OBVIOUS

\* A mailbox with one message more.
LEMMA BoxAppend ==
    ASSUME NEW b \in Seq(Messages), NEW m \in Messages
    PROVE  /\ Append(b, m) \in Seq(Messages) /\ Append(b, m) # <<>>
           /\ Len(b) \in Nat /\ Len(Append(b, m)) = Len(b) + 1
           /\ DOMAIN b = 1..Len(b) /\ DOMAIN Append(b, m) = 1..(Len(b) + 1)
           /\ \A i \in DOMAIN b : Append(b, m)[i] = b[i]
           /\ Append(b, m)[Len(b) + 1] = m
OBVIOUS

LEMMA TypeInit == Init => TypeInv
<1> SUFFICES ASSUME Init PROVE TypeInv
  OBVIOUS
<1>1. StoreTypeOK /\ LeftMet
  BY DEF Init, StoreInit, StoreTypeOK, LeftMet, IsStore, EmptyStore, Promise!Purges
<1>2. <<>> \in Seq(Messages)
  OBVIOUS
<1>3. ActorTypes
  BY <1>2, MessageTypes, SnapshotAssumption DEF Init, ActorTypes
<1>4. ASSUME NEW a \in Actors PROVE LifeInv(a) /\ BoxInv(a)
  BY DEF Init, LifeInv, BoxInv
<1> QED
  BY <1>1, <1>3, <1>4 DEF Init, TypeInv

\* Nothing of the actor b, its snapshotter and its store changes.
Untouched(b) ==
    /\ phase'[b] = phase[b] /\ state'[b] = state[b] /\ box'[b] = box[b]
    /\ told'[b] = told[b] /\ failed'[b] = failed[b] /\ misled'[b] = misled[b]
    /\ b \in registered' <=> b \in registered
    /\ b \in alive' <=> b \in alive
    /\ b \in ending' <=> b \in ending
    /\ space'[b] = space[b]

\* A step of one actor or of its snapshotter touches no other.
LEMMA Frame ==
    ASSUME TypeInv, NEW a \in Actors, Snapshotting(a)
    PROVE  /\ StoreTypeOK' /\ LeftMet'
           /\ \A b \in Actors \ {a} : Untouched(b)
<1>1. CASE SaveSnapshot(a)
  <2>1. /\ StoreTypeOK' /\ LeftMet'
        /\ \A q \in Ids \ {a} : space'[q] = space[q]
    <3>1. Head(box[a]) \in Messages
      BY <1>1, BoxTail DEF SaveSnapshot, TypeInv, ActorTypes
    <3>2. Head(box[a]).version \in Values /\ 0 \in Keys /\ a \in Ids
      BY <3>1, MessageTypes, SnapshotAssumption
    <3>3. IsStore(StorePut(space[a], 0, Head(box[a]).version), Keys, Values)
      BY <3>2, StoreOps DEF TypeInv, StoreTypeOK
    <3> QED
      BY <1>1, <3>2, <3>3, WriteKeeps DEF SaveSnapshot, Put, TypeInv
  <2>2. /\ UNCHANGED <<phase, state, registered, alive, ending, told, failed, misled>>
        /\ box' = [box EXCEPT ![a] = Tail(@)]
    BY <1>1 DEF SaveSnapshot
  <2> QED
    BY <2>1, <2>2, SnapshotAssumption DEF TypeInv, ActorTypes, Untouched
<1>2. CASE ~SaveSnapshot(a)
  <2>1. UNCHANGED store
    BY <1>2 DEF Snapshotting, Start, Update, Save, Load, Stop, Restart, SaveFails,
       AnswerLoad, LoadMisread, SnapshotterStop
  <2>2. UNCHANGED <<space, purge, left>>
    BY <2>1 DEF store
  <2>3. StoreTypeOK' /\ LeftMet'
    BY <2>2 DEF TypeInv, StoreTypeOK, LeftMet
  <2>4. ASSUME NEW b \in Actors \ {a} PROVE Untouched(b)
    <3>1. CASE Start(a) \/ Update(a) \/ Save(a) \/ Load(a) \/ Stop(a) \/ Restart(a)
      BY <3>1, <2>2 DEF Start, Update, Save, Load, Send, Stop, Restart, Untouched, TypeInv,
         ActorTypes
    <3>2. CASE SaveFails(a) \/ AnswerLoad(a) \/ LoadMisread(a)
      BY <3>2, <2>2 DEF SaveFails, AnswerLoad, LoadMisread, Untouched, TypeInv, ActorTypes
    <3>3. CASE SnapshotterStop(a)
      BY <3>3, <2>2 DEF SnapshotterStop, Untouched, TypeInv, ActorTypes
    <3> QED
      BY <1>2, <3>1, <3>2, <3>3 DEF Snapshotting
  <2> QED
    BY <2>3, <2>4
<1> QED
  BY <1>1, <1>2

\* The steps of one actor keep its types.
LEMMA ActorKeeps ==
    ASSUME TypeInv, NEW a \in Actors, Snapshotting(a)
    PROVE  ActorTypes' /\ ending' \subseteq Actors /\ LifeInv(a)' /\ BoxInv(a)'
<1>t. /\ ActorTypes /\ ending \subseteq Actors /\ LifeInv(a) /\ BoxInv(a)
      /\ box[a] \in Seq(Messages) /\ state[a] \in Versions
      /\ MaxVersion \in Nat /\ MaxFaults \in Nat
  BY SnapshotAssumption DEF TypeInv, ActorTypes
<1>1. CASE Start(a)
  <2>1. /\ <<LoadMessage>> \in Seq(Messages) /\ <<LoadMessage>> # <<>>
        /\ DOMAIN <<LoadMessage>> = {1} /\ Len(<<LoadMessage>>) = 1
        /\ <<LoadMessage>>[1] = LoadMessage /\ ~LoadMessage.save
    BY MessageTypes
  <2>2. /\ registered' = registered \cup {a} /\ alive' = alive \cup {a}
        /\ box' = [box EXCEPT ![a] = <<LoadMessage>>]
        /\ phase' = [phase EXCEPT ![a] = "loading"]
        /\ state' = [state EXCEPT ![a] = 0]
        /\ told' = [told EXCEPT ![a] = Untold]
        /\ failed' = [failed EXCEPT ![a] = FALSE]
        /\ UNCHANGED <<ending, faults, misled>>
        /\ phase[a] = "down" /\ a \notin registered
    BY <1>1 DEF Start
  <2>3. ActorTypes' /\ ending' \subseteq Actors
    BY <2>1, <2>2, <1>t, MessageTypes DEF ActorTypes
  <2>4. LifeInv(a)'
    BY <2>2, <1>t DEF ActorTypes, LifeInv
  <2>5. phase'[a] = "loading" /\ box'[a] = <<LoadMessage>>
    BY <2>2, <1>t DEF ActorTypes
  <2>6. BoxInv(a)'
    BY <2>1, <2>5 DEF BoxInv
  <2> QED
    BY <2>3, <2>4, <2>6
<1>2. CASE Update(a)
  <2>1. state[a] + 1 \in Versions
    BY <1>2, <1>t DEF Update, Versions
  <2> QED
    BY <1>2, <2>1, <1>t DEF Update, ActorTypes, LifeInv, BoxInv
<1>3. CASE Save(a) \/ Load(a)
  <2>1. PICK m \in Messages :
          /\ box' = [box EXCEPT ![a] = Append(box[a], m)]
          /\ phase[a] = "running"
          /\ \/ m.save /\ phase' = phase /\ told' = [told EXCEPT ![a] = state[a]]
             \/ ~m.save /\ phase' = [phase EXCEPT ![a] = "loading"] /\ told' = told
          /\ UNCHANGED <<state, registered, alive, ending, faults, failed, misled>>
    <3>1. SaveMessage(state[a]) \in Messages /\ SaveMessage(state[a]).save
      BY <1>t, MessageTypes
    <3>2. LoadMessage \in Messages /\ ~LoadMessage.save
      BY MessageTypes
    <3> QED
      BY <1>3, <3>1, <3>2 DEF Save, Load, Send
  <2> DEFINE b == box[a]
  <2>2. /\ Append(b, m) \in Seq(Messages) /\ Append(b, m) # <<>>
        /\ Len(b) \in Nat /\ Len(Append(b, m)) = Len(b) + 1
        /\ DOMAIN b = 1..Len(b) /\ DOMAIN Append(b, m) = 1..(Len(b) + 1)
        /\ \A i \in DOMAIN b : Append(b, m)[i] = b[i]
        /\ Append(b, m)[Len(b) + 1] = m
    BY <1>t, BoxAppend
  <2>3. box'[a] = Append(b, m) /\ phase'[a] = IF m.save THEN "running" ELSE "loading"
    BY <2>1, <1>t DEF ActorTypes
  <2>4. ActorTypes' /\ ending' \subseteq Actors
    BY <2>1, <2>2, <1>t DEF ActorTypes
  <2>5. LifeInv(a)'
    BY <2>1, <2>3, <1>t DEF LifeInv
  <2>6. \A i \in DOMAIN b : b[i].save
    BY <2>1, <1>t DEF BoxInv
  <2> HIDE DEF b
  <2>7. BoxInv(a)'
    BY <2>2, <2>3, <2>6 DEF BoxInv
  <2> QED
    BY <2>4, <2>5, <2>7
<1>4. CASE Stop(a) \/ Restart(a)
  <2>1. PICK v \in {"stopping", "down"} :
          /\ phase[a] = "running" /\ phase' = [phase EXCEPT ![a] = v]
          /\ ending' = ending \cup {a}
          /\ registered' = IF v = "stopping" THEN registered \ {a} ELSE registered
          /\ UNCHANGED <<state, alive, box, faults, told, failed, misled>>
    BY <1>4 DEF Stop, Restart
  <2> QED
    BY <2>1, <1>t DEF ActorTypes, LifeInv, BoxInv
<1>5. CASE SaveSnapshot(a) \/ SaveFails(a) \/ AnswerLoad(a) \/ LoadMisread(a)
  <2>1. /\ box[a] # <<>> /\ box' = [box EXCEPT ![a] = Tail(box[a])] /\ a \in alive
        /\ UNCHANGED <<registered, alive, ending, told>>
        /\ faults' \in 0..MaxFaults
        /\ failed' \in [Actors -> BOOLEAN] /\ misled' \in [Actors -> BOOLEAN]
    <3>1. /\ box[a] # <<>> /\ box' = [box EXCEPT ![a] = Tail(box[a])] /\ a \in alive
          /\ UNCHANGED <<registered, alive, ending, told>>
      BY <1>5 DEF SaveSnapshot, SaveFails, AnswerLoad, LoadMisread
    <3>2. \/ UNCHANGED <<faults, failed>>
          \/ /\ faults < MaxFaults /\ faults' = faults + 1
             /\ failed' = [failed EXCEPT ![a] = TRUE]
      BY <1>5 DEF SaveSnapshot, SaveFails, AnswerLoad, LoadMisread
    <3>3. \/ misled' = misled
          \/ misled' = [misled EXCEPT ![a] = FALSE]
          \/ misled' = [misled EXCEPT ![a] = TRUE]
      BY <1>5 DEF SaveSnapshot, SaveFails, AnswerLoad, LoadMisread
    <3>4. faults' \in 0..MaxFaults
      BY <3>2, <1>t DEF ActorTypes
    <3>5. failed' \in [Actors -> BOOLEAN] /\ misled' \in [Actors -> BOOLEAN]
      BY <3>2, <3>3, <1>t DEF ActorTypes
    <3> QED
      BY <3>1, <3>4, <3>5
  <2>2. \/ Head(box[a]).save /\ phase' = phase
        \/ /\ ~Head(box[a]).save /\ phase[a] = "loading"
           /\ phase' = [phase EXCEPT ![a] = "running"]
    BY <1>5 DEF SaveSnapshot, SaveFails, AnswerLoad, LoadMisread
  <2>3. state' \in [Actors -> Versions]
    <3>1. CASE AnswerLoad(a)
      <4> DEFINE v == IF Get(a, 0) # <<>> THEN Get(a, 0)[1] ELSE state[a]
      <4>1. state' = [state EXCEPT ![a] = v]
        BY <3>1 DEF AnswerLoad
      <4>2. v \in Versions
        <5>1. Has(space[a], 0) => space[a][0] \in Versions
          BY SnapshotAssumption DEF TypeInv, StoreTypeOK, IsStore, Has
        <5> QED
          BY <5>1, <1>t DEF Get
      <4> QED
        BY <4>1, <4>2, <1>t DEF ActorTypes
    <3>2. CASE ~AnswerLoad(a)
      BY <1>5, <3>2, <1>t DEF SaveSnapshot, SaveFails, LoadMisread, ActorTypes
    <3> QED
      BY <3>1, <3>2
  <2> DEFINE b == box[a]
  <2>4. /\ Tail(b) \in Seq(Messages) /\ Head(b) = b[1]
        /\ 1 \in DOMAIN b /\ Len(b) \in Nat /\ Len(Tail(b)) = Len(b) - 1
        /\ DOMAIN b = 1..Len(b) /\ DOMAIN Tail(b) = 1..(Len(b) - 1)
        /\ \A i \in DOMAIN Tail(b) : i \in Nat /\ i + 1 \in DOMAIN b /\ Tail(b)[i] = b[i + 1]
    BY <2>1, <1>t, BoxTail
  <2>5. ActorTypes' /\ ending' \subseteq Actors
    BY <2>1, <2>2, <2>3, <2>4, <1>t DEF ActorTypes
  <2>6. LifeInv(a)'
    BY <2>1, <2>2, <1>t DEF LifeInv, ActorTypes
  <2>7. box'[a] = Tail(b)
    BY <2>1, <1>t DEF ActorTypes
  <2>8. BoxInv(a)'
    <3>1. CASE b[1].save
      <4>1. phase'[a] = phase[a]
        BY <2>2, <2>4, <3>1
      <4>2. phase[a] = "loading" => Len(b) # 1
        BY <1>t, <2>4, <3>1 DEF BoxInv
      <4>3. phase[a] = "loading" => Tail(b) # <<>>
        <5>1. Len(<<>>) = 0
          OBVIOUS
        <5>2. Len(b) # 1 => Len(Tail(b)) # 0
          <6> HIDE DEF b
          <6> QED
            BY <2>4
        <5> QED
          BY <4>2, <5>1, <5>2
      <4>4. ASSUME NEW i \in DOMAIN Tail(b)
            PROVE  Tail(b)[i].save <=> ~(phase[a] = "loading" /\ i = Len(Tail(b)))
        <5>1. Tail(b)[i] = b[i + 1] /\ i + 1 \in DOMAIN b /\ i \in Nat
          BY <2>4
        <5>2. i + 1 = Len(b) <=> i = Len(Tail(b))
          BY <5>1, <2>4
        <5>3. b[i + 1].save <=> ~(phase[a] = "loading" /\ i + 1 = Len(b))
          BY <5>1, <1>t DEF BoxInv
        <5> QED
          BY <5>1, <5>2, <5>3
      <4> QED
        BY <2>7, <4>1, <4>3, <4>4 DEF BoxInv
    <3>2. CASE ~b[1].save
      <4>1. Len(b) = 1 /\ phase'[a] = "running"
        BY <1>t, <2>2, <2>4, <3>2 DEF BoxInv, ActorTypes
      <4>2. DOMAIN Tail(b) = {}
        BY <2>4, <4>1
      <4> QED
        BY <2>7, <4>1, <4>2 DEF BoxInv
    <3> QED
      BY <3>1, <3>2
  <2> QED
    BY <2>5, <2>6, <2>8
<1>6. CASE SnapshotterStop(a)
  <2>1. /\ alive' = alive \ {a} /\ ending' = ending \ {a} /\ a \in ending
        /\ box' = [box EXCEPT ![a] = <<>>]
        /\ phase' = [phase EXCEPT ![a] = "down"]
        /\ UNCHANGED <<state, registered, faults, told, failed, misled>>
    <3>1. phase[a] \in {"stopping", "down"}
      BY <1>6, <1>t DEF SnapshotterStop, LifeInv, ActorTypes
    <3> QED
      BY <1>6, <3>1, <1>t DEF SnapshotterStop, ActorTypes
  <2>2. <<>> \in Seq(Messages) /\ DOMAIN <<>> = {}
    OBVIOUS
  <2>3. ActorTypes' /\ ending' \subseteq Actors
    BY <2>1, <2>2, <1>t DEF ActorTypes
  <2>4. phase'[a] = "down" /\ box'[a] = <<>> /\ a \notin alive' /\ a \notin ending'
    BY <2>1, <1>t DEF ActorTypes
  <2> QED
    BY <2>2, <2>3, <2>4 DEF LifeInv, BoxInv
<1> QED
  BY <1>1, <1>2, <1>3, <1>4, <1>5, <1>6 DEF Snapshotting

\* A step of the other stores, a crash and a stutter.
LEMMA CrashKeeps ==
    ASSUME TypeInv, Crash
    PROVE  TypeInv'
<1>1. StoreTypeOK' /\ LeftMet'
  BY DEF TypeInv, Crash, StoreCrash, StoreTypeOK, LeftMet, Promise!Purges
<1>2. <<>> \in Seq(Messages)
  OBVIOUS
<1>3. ActorTypes' /\ ending' \subseteq Actors
  BY <1>2 DEF TypeInv, Crash, ActorTypes
<1>4. ASSUME NEW a \in Actors PROVE LifeInv(a)' /\ BoxInv(a)'
  BY DEF Crash, LifeInv, BoxInv
<1> QED
  BY <1>1, <1>3, <1>4 DEF TypeInv

\* What is not of the keyspace does not change.
ActorFields == <<phase, state, registered, alive, ending, box, faults, told, failed, misled>>

LEMMA FieldsKept ==
    ASSUME TypeInv, UNCHANGED ActorFields, StoreTypeOK', LeftMet'
    PROVE  TypeInv'
BY DEF TypeInv, ActorFields, ActorTypes, LifeInv, BoxInv

\* Every step keeps the types.
LEMMA TypeNext ==
    ASSUME TypeInv, [Next]_vars
    PROVE  TypeInv'
<1>1. ASSUME NEW a \in Actors, Snapshotting(a) PROVE TypeInv'
  <2>1. ASSUME NEW b \in Actors \ {a} PROVE LifeInv(b)' /\ BoxInv(b)'
    <3>1. Untouched(b) /\ LifeInv(b) /\ BoxInv(b)
      BY <1>1, Frame DEF TypeInv
    <3> QED
      BY <3>1 DEF Untouched, LifeInv, BoxInv
  <2> QED
    BY <1>1, <2>1, Frame, ActorKeeps DEF TypeInv
<1>2. ASSUME NEW p \in Ids \ Actors, StoreUse(p) PROVE TypeInv'
  <2>1. StoreTypeOK' /\ LeftMet'
    BY <1>2, UseKeeps DEF TypeInv
  <2>2. UNCHANGED ActorFields
    BY <1>2 DEF StoreUse, ActorFields
  <2> QED
    BY <2>1, <2>2, FieldsKept
<1>3. CASE UNCHANGED vars
  <2>1. UNCHANGED ActorFields /\ UNCHANGED <<space, purge, left>>
    BY <1>3 DEF vars, ActorFields, store
  <2>2. StoreTypeOK' /\ LeftMet'
    BY <2>1 DEF TypeInv, StoreTypeOK, LeftMet
  <2> QED
    BY <2>1, <2>2, FieldsKept
<1> QED
  BY <1>1, <1>2, <1>3, CrashKeeps DEF Next

\* The database, the actors and their snapshotters keep their types, and a
\* snapshotter takes its Stop before it ends, whatever the ids are
\* (store/src/snapshot.rs, store/src/stores/fjall.rs).
THEOREM TypeCorrect == Spec => []TypeOK
<1>1. TypeInv => TypeOK
  BY DEF TypeInv, ActorTypes, LifeInv, TypeOK
<1>2. TypeInv /\ [Next]_vars => TypeInv'
  BY TypeNext
<1> QED
  BY <1>1, <1>2, TypeInit, PTL DEF Spec

-----------------------------------------------------------------------------
(* What one actor sees of a step. *)

\* Its snapshot is not written.
Kept(a) == Stored(a)' = Stored(a)

\* It starts.
Started(a) ==
    /\ phase'[a] = "loading" /\ box'[a] = <<LoadMessage>>
    /\ told'[a] = Untold /\ misled'[a] = misled[a] /\ Kept(a)

\* It changes its state.
Updated(a) ==
    /\ phase[a] = "running" /\ phase'[a] = "running" /\ state'[a] = state[a] + 1
    /\ box'[a] = box[a] /\ told'[a] = told[a]
    /\ failed'[a] = failed[a] /\ misled'[a] = misled[a] /\ Kept(a)

\* It saves or loads.
Sent(a, m) ==
    /\ phase[a] = "running" /\ box'[a] = Append(box[a], m) /\ state'[a] = state[a]
    /\ \/ m.save /\ m.version = state[a] /\ phase'[a] = "running" /\ told'[a] = state[a]
       \/ ~m.save /\ phase'[a] = "loading" /\ told'[a] = told[a]
    /\ failed'[a] = failed[a] /\ misled'[a] = misled[a] /\ Kept(a)

\* It ends, or its snapshotter does, or the process.
Ended(a) ==
    /\ phase'[a] \in {"down", "stopping"} /\ box'[a] \in {box[a], <<>>}
    /\ misled'[a] = misled[a] /\ Kept(a)

\* Its snapshotter comes to a save, with success or not.
Written(a) ==
    /\ box[a] # <<>> /\ Head(box[a]).save /\ box'[a] = Tail(box[a])
    /\ phase'[a] = phase[a] /\ state'[a] = state[a] /\ misled'[a] = misled[a]
    /\ \/ /\ Stored(a)' = Head(box[a]).version
          /\ told'[a] = told[a] /\ failed'[a] = failed[a]
       \/ Kept(a) /\ failed'[a] = TRUE

\* Its load is answered, with success or not.
Answered(a) ==
    /\ phase[a] = "loading" /\ phase'[a] = "running"
    /\ DOMAIN box[a] = {1} /\ ~box[a][1].save /\ DOMAIN box'[a] = {} /\ Kept(a)
    /\ \/ /\ state'[a] = IF Stored(a) # Untold THEN Stored(a) ELSE state[a]
          /\ told'[a] = told[a] /\ failed'[a] = failed[a]
       \/ failed'[a] = TRUE /\ misled'[a] = TRUE

\* What is stored is a version, or nothing is.
LEMMA StoredType ==
    ASSUME TypeInv, NEW a \in Actors
    PROVE  /\ Stored(a) \in Versions \cup {Untold}
           /\ Stored(a) # Untold <=> Has(space[a], 0)
           /\ Get(a, 0) # <<>> <=> Has(space[a], 0)
           /\ Has(space[a], 0) => Get(a, 0)[1] = Stored(a)
<1>1. Has(space[a], 0) => space[a][0] \in Versions
  BY SnapshotAssumption DEF TypeInv, StoreTypeOK, IsStore, Has
<1>2. Untold \notin Versions
  BY MessageTypes
<1>3. CASE Has(space[a], 0)
  <2>1. Stored(a) = space[a][0] /\ Get(a, 0) = <<space[a][0]>>
    BY <1>3 DEF Stored, Get
  <2> QED
    BY <2>1, <1>1, <1>2, <1>3
<1>4. CASE ~Has(space[a], 0)
  BY <1>4 DEF Stored, Get
<1> QED
  BY <1>3, <1>4

\* The steps of an actor and of its snapshotter.
LEMMA OwnSteps ==
    ASSUME TypeInv, NEW a \in Actors, Snapshotting(a)
    PROVE  \/ Started(a) \/ Updated(a) \/ (\E m \in Messages : Sent(a, m))
           \/ Ended(a) \/ Written(a) \/ Answered(a)
<1>t. ActorTypes /\ box[a] \in Seq(Messages) /\ LifeInv(a) /\ BoxInv(a)
  BY DEF TypeInv, ActorTypes
<1>k. ~SaveSnapshot(a) => Kept(a)
  <2>1. ~SaveSnapshot(a) => UNCHANGED store
    BY DEF Snapshotting, Start, Update, Save, Load, Stop, Restart, SaveFails,
       AnswerLoad, LoadMisread, SnapshotterStop
  <2> QED
    BY <2>1 DEF store, Kept, Stored
<1>1. CASE SaveSnapshot(a)
  <2>1. Head(box[a]) \in Messages
    BY <1>1, <1>t, BoxTail DEF SaveSnapshot
  <2>2. a \in Ids /\ 0 \in Keys /\ Head(box[a]).version \in Values
    BY <2>1, MessageTypes, SnapshotAssumption
  <2>3. space'[a] = StorePut(space[a], 0, Head(box[a]).version)
    BY <1>1, <2>2 DEF SaveSnapshot, Put, Write, TypeInv, StoreTypeOK
  <2>4. Stored(a)' = Head(box[a]).version
    BY <2>3 DEF Stored, Has, StorePut
  <2>5. Written(a)
    BY <1>1, <1>t, <2>4 DEF SaveSnapshot, Written, ActorTypes
  <2> QED
    BY <2>5
<1>2. CASE SaveFails(a)
  <2>1. box[a] # <<>> /\ Head(box[a]).save /\ box'[a] = Tail(box[a]) /\ failed'[a] = TRUE
    BY <1>2, <1>t DEF SaveFails, ActorTypes
  <2>2. UNCHANGED <<phase, state, misled>> /\ Kept(a)
    BY <1>2 DEF SaveFails, Kept, Stored, store
  <2>3. Written(a)
    BY <2>1, <2>2 DEF Written
  <2> QED
    BY <2>3
<1>3. CASE AnswerLoad(a) \/ LoadMisread(a)
  <2>1. /\ box[a] # <<>> /\ ~Head(box[a]).save /\ phase[a] = "loading"
        /\ box'[a] = Tail(box[a]) /\ phase'[a] = "running" /\ Kept(a)
    <3>1. /\ box[a] # <<>> /\ ~Head(box[a]).save /\ phase[a] = "loading"
          /\ box' = [box EXCEPT ![a] = Tail(@)] /\ phase' = [phase EXCEPT ![a] = "running"]
      BY <1>3 DEF AnswerLoad, LoadMisread
    <3>2. UNCHANGED store
      BY <1>3 DEF AnswerLoad, LoadMisread
    <3> QED
      BY <3>1, <3>2, <1>t DEF ActorTypes, Kept, Stored, store
  <2>2. DOMAIN box[a] = {1} /\ ~box[a][1].save /\ DOMAIN Tail(box[a]) = {}
    <3> DEFINE b == box[a]
    <3>1. /\ Head(b) = b[1] /\ 1 \in DOMAIN b /\ Len(b) \in Nat
          /\ DOMAIN b = 1..Len(b) /\ DOMAIN Tail(b) = 1..(Len(b) - 1)
      BY <2>1, <1>t, BoxTail
    <3>2. Len(b) = 1
      BY <3>1, <2>1, <1>t DEF BoxInv
    <3> QED
      BY <3>1, <3>2, <2>1
  <2>3. CASE AnswerLoad(a)
    <3>1. told'[a] = told[a] /\ failed'[a] = failed[a]
      BY <2>3 DEF AnswerLoad
    <3>2. state'[a] = IF Get(a, 0) # <<>> THEN Get(a, 0)[1] ELSE state[a]
      BY <2>3, <1>t DEF AnswerLoad, ActorTypes
    <3>3. state'[a] = IF Stored(a) # Untold THEN Stored(a) ELSE state[a]
      BY <3>2, StoredType
    <3>4. Answered(a)
      BY <2>1, <2>2, <3>1, <3>3 DEF Answered
    <3> QED
      BY <3>4
  <2>4. CASE LoadMisread(a)
    <3>1. failed'[a] = TRUE /\ misled'[a] = TRUE
      BY <2>4, <1>t DEF LoadMisread, ActorTypes
    <3>2. Answered(a)
      BY <2>1, <2>2, <3>1 DEF Answered
    <3> QED
      BY <3>2
  <2> QED
    BY <1>3, <2>3, <2>4
<1>4. CASE Start(a)
  <2>1. /\ phase'[a] = "loading" /\ box'[a] = <<LoadMessage>> /\ told'[a] = Untold
        /\ misled' = misled
    BY <1>4, <1>t DEF Start, ActorTypes
  <2>2. Kept(a)
    BY <1>4 DEF Start, Kept, Stored, store
  <2>3. Started(a)
    BY <2>1, <2>2 DEF Started
  <2> QED
    BY <2>3
<1>5. CASE Update(a)
  <2>1. /\ phase[a] = "running" /\ state'[a] = state[a] + 1
        /\ UNCHANGED <<phase, box, told, failed, misled>>
    BY <1>5, <1>t DEF Update, ActorTypes
  <2>2. Kept(a)
    BY <1>5 DEF Update, Kept, Stored, store
  <2>3. Updated(a)
    BY <2>1, <2>2 DEF Updated
  <2> QED
    BY <2>3
<1>6. CASE Save(a)
  <2> DEFINE m == SaveMessage(state[a])
  <2>1. m \in Messages /\ m.save /\ m.version = state[a]
    BY <1>t, MessageTypes DEF ActorTypes
  <2>2. /\ phase[a] = "running" /\ box'[a] = Append(box[a], m) /\ told'[a] = state[a]
        /\ UNCHANGED <<phase, state, failed, misled>>
    BY <1>6, <1>t DEF Save, Send, ActorTypes
  <2>3. Kept(a)
    BY <1>6 DEF Save, Kept, Stored, store
  <2> HIDE DEF m
  <2>4. Sent(a, m)
    BY <2>1, <2>2, <2>3 DEF Sent
  <2> QED
    BY <2>1, <2>4
<1>7. CASE Load(a)
  <2>1. LoadMessage \in Messages /\ ~LoadMessage.save
    BY MessageTypes
  <2>2. /\ phase[a] = "running" /\ box'[a] = Append(box[a], LoadMessage)
        /\ phase'[a] = "loading" /\ UNCHANGED <<told, state, failed, misled>>
    BY <1>7, <1>t DEF Load, Send, ActorTypes
  <2>3. Kept(a)
    BY <1>7 DEF Load, Kept, Stored, store
  <2>4. Sent(a, LoadMessage)
    BY <2>1, <2>2, <2>3 DEF Sent
  <2> QED
    BY <2>1, <2>4
<1>8. CASE Stop(a) \/ Restart(a) \/ SnapshotterStop(a)
  <2>1. Kept(a)
    BY <1>8 DEF Stop, Restart, SnapshotterStop, Kept, Stored, store
  <2>2. misled' = misled /\ box'[a] \in {box[a], <<>>}
    BY <1>8, <1>t DEF Stop, Restart, SnapshotterStop, ActorTypes
  <2>3. phase'[a] \in {"down", "stopping"}
    <3>1. CASE Stop(a) \/ Restart(a)
      BY <3>1, <1>t DEF Stop, Restart, ActorTypes
    <3>2. CASE SnapshotterStop(a)
      BY <3>2, <1>t DEF SnapshotterStop, LifeInv, ActorTypes
    <3> QED
      BY <1>8, <3>1, <3>2
  <2>4. Ended(a)
    BY <2>1, <2>2, <2>3 DEF Ended
  <2> QED
    BY <2>4
<1> QED
  BY <1>1, <1>2, <1>3, <1>4, <1>5, <1>6, <1>7, <1>8 DEF Snapshotting

\* Every step, when no foreign scan meets the snapshot.
LEMMA Steps ==
    ASSUME ActorsApart, TypeInv, [Next]_vars, NEW a \in Actors
    PROVE  \/ Untouched(a)
           \/ Started(a) \/ Updated(a) \/ (\E m \in Messages : Sent(a, m))
           \/ Ended(a) \/ Written(a) \/ Answered(a)
<1>a. a \in Ids
  BY SnapshotAssumption
<1>1. ASSUME NEW b \in Actors, Snapshotting(b), b # a PROVE Untouched(a)
  BY <1>1, Frame
<1>2. ASSUME NEW p \in Ids \ Actors, StoreUse(p) PROVE Untouched(a)
  <2>1. a \notin Met(p)
    BY DEF ActorsApart, Met
  <2>2. space'[a] = space[a]
    BY <1>2, <1>a, <2>1, UseKeeps DEF TypeInv
  <2> QED
    BY <1>2, <2>2 DEF StoreUse, Untouched
<1>3. CASE Crash
  <2>1. phase'[a] = "down" /\ box'[a] = <<>> /\ misled' = misled /\ space' = space
    BY <1>3 DEF Crash, StoreCrash
  <2>2. Ended(a)
    BY <2>1 DEF Ended, Kept, Stored
  <2> QED
    BY <2>2
<1>4. CASE UNCHANGED vars
  <2>1. Untouched(a)
    BY <1>4 DEF vars, store, Untouched
  <2> QED
    BY <2>1
<1>5. Snapshotting(a) => \/ Started(a) \/ Updated(a) \/ (\E m \in Messages : Sent(a, m))
                         \/ Ended(a) \/ Written(a) \/ Answered(a)
  BY OwnSteps
<1> QED
  BY <1>1, <1>2, <1>3, <1>4, <1>5 DEF Next

-----------------------------------------------------------------------------
(* Snapshots in order. *)

\* SnapshotsInOrder, of one actor.
InOrder(a) ==
    ~misled[a] =>
        /\ phase[a] = "running" => Stored(a) <= state[a]
        /\ \A i \in DOMAIN box[a] : box[a][i].save =>
            /\ Stored(a) <= box[a][i].version
            /\ phase[a] \in {"running", "loading"} =>
                box[a][i].version <= state[a]
            /\ \A j \in 1..i : box[a][j].version <= box[a][i].version

\* The parts of a state that the proofs speak of.
LEMMA Parts ==
    ASSUME TypeInv, NEW a \in Actors
    PROVE  /\ box[a] \in Seq(Messages) /\ DOMAIN box[a] = 1..Len(box[a]) /\ Len(box[a]) \in Nat
           /\ state[a] \in Int /\ told[a] \in Int /\ Stored(a) \in Int
           /\ \A i \in DOMAIN box[a] : box[a][i].version \in Int
<1>1. /\ box[a] \in Seq(Messages)
      /\ state[a] \in Versions /\ told[a] \in Versions \cup {Untold}
  BY DEF TypeInv, ActorTypes
<1>2. DOMAIN box[a] = 1..Len(box[a]) /\ Len(box[a]) \in Nat
  BY <1>1
<1>3. \A i \in DOMAIN box[a] : box[a][i] \in Messages
  BY <1>1, <1>2
<1>4. Untold \in Int
  BY DEF Untold
<1> QED
  BY <1>1, <1>2, <1>3, <1>4, MessageTypes, StoredType

\* Whoever runs or waits for nothing has only saves on their way.
LEMMA OnlySaves ==
    ASSUME TypeInv, NEW a \in Actors, phase[a] # "loading"
    PROVE  \A i \in DOMAIN box[a] : box[a][i].save
BY DEF TypeInv, BoxInv

LEMMA InOrderNext ==
    ASSUME ActorsApart, TypeInv, [Next]_vars, NEW a \in Actors, InOrder(a)
    PROVE  InOrder(a)' /\ (~misled[a] => Stored(a) <= Stored(a)')
<1>p. /\ box[a] \in Seq(Messages) /\ DOMAIN box[a] = 1..Len(box[a]) /\ Len(box[a]) \in Nat
      /\ state[a] \in Int /\ Stored(a) \in Int
      /\ \A i \in DOMAIN box[a] : box[a][i].version \in Int
  BY Parts
<1>q. Stored(a)' \in Int /\ state'[a] \in Int
  <2>1. TypeInv'
    BY TypeNext
  <2>2. (TypeInv => Stored(a) \in Int /\ state[a] \in Int)'
    BY Parts, PTL
  <2> QED
    BY <2>1, <2>2
<1>k. Kept(a) => Stored(a) <= Stored(a)'
  BY <1>p DEF Kept
<1>1. CASE Untouched(a)
  <2>1. Stored(a)' = Stored(a)
    BY <1>1 DEF Untouched, Stored
  <2> QED
    BY <1>1, <1>p, <2>1 DEF Untouched, InOrder
<1>2. CASE Started(a)
  <2>1. ~LoadMessage.save /\ \A i \in DOMAIN <<LoadMessage>> : <<LoadMessage>>[i] = LoadMessage
    BY MessageTypes
  <2> QED
    BY <1>2, <1>k, <2>1 DEF Started, InOrder
<1>3. CASE Updated(a)
  BY <1>3, <1>k, <1>p DEF Updated, Kept, InOrder
<1>4. ASSUME NEW m \in Messages, Sent(a, m) PROVE InOrder(a)' /\ Stored(a) <= Stored(a)'
  <2> DEFINE b == box[a]
             c == Append(b, m)
  <2>1. /\ DOMAIN b = 1..Len(b) /\ DOMAIN c = 1..(Len(b) + 1) /\ Len(b) \in Nat
        /\ \A i \in DOMAIN b : c[i] = b[i]
        /\ c[Len(b) + 1] = m
    BY <1>p, BoxAppend
  <2>2. box'[a] = c /\ phase[a] = "running" /\ state'[a] = state[a] /\ misled'[a] = misled[a]
        /\ Stored(a)' = Stored(a) /\ (m.save => m.version = state[a])
    BY <1>4 DEF Sent, Kept
  <2>3. \A i \in DOMAIN b : b[i].save /\ b[i].version \in Int
    BY <1>p, <2>2, OnlySaves
  <2>4. ~misled[a] =>
          /\ Stored(a) <= state[a]
          /\ \A i \in DOMAIN b :
                /\ Stored(a) <= b[i].version /\ b[i].version <= state[a]
                /\ \A j \in 1..i : b[j].version <= b[i].version
    BY <2>2, <2>3 DEF InOrder
  <2> HIDE DEF b, c
  <2>5. ASSUME ~misled[a], NEW i \in DOMAIN c, c[i].save
        PROVE  /\ Stored(a) <= c[i].version /\ c[i].version <= state[a]
               /\ \A j \in 1..i : c[j].version <= c[i].version
    <3>1. CASE i \in DOMAIN b
      BY <2>1, <2>4, <2>5, <3>1
    <3>2. CASE i = Len(b) + 1
      <4>1. c[i].version = state[a]
        BY <2>1, <2>2, <2>5, <3>2
      <4>2. \A j \in 1..i : j \in DOMAIN b \/ j = i
        BY <2>1, <3>2
      <4>3. \A j \in DOMAIN b : c[j].version <= c[i].version
        BY <2>1, <2>4, <2>5, <4>1
      <4> QED
        BY <1>p, <2>4, <2>5, <4>1, <4>2, <4>3
    <3> QED
      BY <2>1, <3>1, <3>2
  <2> QED
    BY <1>k, <1>4, <2>2, <2>4, <2>5 DEF InOrder, Sent
<1>5. CASE Ended(a)
  <2>1. CASE box'[a] = box[a]
    BY <1>5, <1>k, <2>1 DEF Ended, Kept, InOrder
  <2>2. CASE box'[a] = <<>>
    <3>1. DOMAIN <<>> = {}
      OBVIOUS
    <3> QED
      BY <1>5, <1>k, <2>2, <3>1 DEF Ended, InOrder
  <2> QED
    BY <1>5, <2>1, <2>2 DEF Ended
<1>6. CASE Written(a)
  <2> DEFINE b == box[a]
             c == Tail(b)
  <2>1. /\ b[1] = Head(b) /\ 1 \in DOMAIN b /\ DOMAIN b = 1..Len(b) /\ Len(b) \in Nat
        /\ DOMAIN c = 1..(Len(b) - 1)
        /\ \A i \in DOMAIN c : i \in Nat /\ i + 1 \in DOMAIN b /\ c[i] = b[i + 1]
    BY <1>p, <1>6, BoxTail DEF Written
  <2>2. /\ b[1].save /\ box'[a] = c /\ phase'[a] = phase[a] /\ state'[a] = state[a]
        /\ misled'[a] = misled[a]
        /\ Stored(a)' = b[1].version \/ Stored(a)' = Stored(a)
    BY <1>6, <2>1 DEF Written, Kept
  <2>3. \A i \in DOMAIN b : b[i].version \in Int
    BY <1>p
  <2>4. ~misled[a] =>
          /\ phase[a] = "running" => Stored(a) <= state[a]
          /\ \A i \in DOMAIN b : b[i].save =>
                /\ Stored(a) <= b[i].version
                /\ phase[a] \in {"running", "loading"} => b[i].version <= state[a]
                /\ \A j \in 1..i : b[j].version <= b[i].version
    BY DEF InOrder
  <2> HIDE DEF b, c
  <2>5. ~misled[a] => Stored(a) <= Stored(a)'
    BY <1>p, <2>1, <2>2, <2>4
  <2>6. ~misled[a] /\ phase[a] = "running" => Stored(a)' <= state[a]
    BY <2>1, <2>2, <2>4
  <2>7. ASSUME ~misled[a], NEW i \in DOMAIN c, c[i].save
        PROVE  /\ Stored(a)' <= c[i].version
               /\ phase[a] \in {"running", "loading"} => c[i].version <= state[a]
               /\ \A j \in 1..i : c[j].version <= c[i].version
    <3>1. i + 1 \in DOMAIN b /\ c[i] = b[i + 1] /\ i \in Nat
      BY <2>1
    <3>2. /\ Stored(a) <= b[i + 1].version
          /\ phase[a] \in {"running", "loading"} => b[i + 1].version <= state[a]
          /\ \A j \in 1..(i + 1) : b[j].version <= b[i + 1].version
      BY <2>4, <2>7, <3>1
    <3>3. b[1].version <= b[i + 1].version
      BY <3>1, <3>2
    <3>4. ASSUME NEW j \in 1..i PROVE c[j].version <= c[i].version
      <4>1. j \in DOMAIN c /\ j + 1 \in 1..(i + 1)
        BY <2>1, <3>1
      <4> QED
        BY <2>1, <3>1, <3>2, <4>1
    <3> QED
      BY <2>2, <3>1, <3>2, <3>3, <3>4
  <2> QED
    BY <2>2, <2>5, <2>6, <2>7 DEF InOrder
<1>7. CASE Answered(a)
  <2>1. DOMAIN box'[a] = {} /\ Stored(a)' = Stored(a)
    BY <1>7 DEF Answered, Kept
  <2>2. misled'[a] \/ state'[a] = IF Stored(a) # Untold THEN Stored(a) ELSE state[a]
    BY <1>7 DEF Answered
  <2>3. state[a] >= Untold
    BY MessageTypes, SnapshotAssumption DEF TypeInv, ActorTypes, Versions, Untold
  <2>4. misled'[a] \/ Stored(a)' <= state'[a]
    BY <1>p, <2>1, <2>2, <2>3 DEF Untold
  <2> QED
    BY <1>7, <1>k, <2>1, <2>4 DEF Answered, InOrder
<1> QED
  BY <1>1, <1>2, <1>3, <1>4, <1>5, <1>6, <1>7, Steps

OrderInv == TypeInv /\ SnapshotsInOrder

LEMMA OrderInit == Init => OrderInv
<1>1. Init => SnapshotsInOrder
  BY DEF Init, SnapshotsInOrder
<1> QED
  BY <1>1, TypeInit DEF OrderInv

LEMMA OrderNext ==
    ASSUME ActorsApart, OrderInv, [Next]_vars
    PROVE  /\ OrderInv'
           /\ \A a \in Actors : ~misled[a] => Stored(a) <= Stored(a)'
<1>1. TypeInv /\ \A a \in Actors : InOrder(a)
  BY DEF OrderInv, SnapshotsInOrder, InOrder
<1>2. \A a \in Actors : InOrder(a)' /\ (~misled[a] => Stored(a) <= Stored(a)')
  BY <1>1, InOrderNext
<1>3. SnapshotsInOrder'
  BY <1>2 DEF SnapshotsInOrder, InOrder
<1>4. TypeInv'
  BY <1>1, TypeNext
<1> QED
  BY <1>2, <1>3, <1>4 DEF OrderInv

\* What is stored, what is on its way and the state of an actor are in order,
\* for any number of actors, versions and messages, when no foreign scan meets
\* a snapshot (store/src/snapshotter.rs:79, store/src/snapshot.rs:165).
THEOREM SnapshotsInOrderHolds ==
    ASSUME ActorsApart
    PROVE  Spec => []SnapshotsInOrder
<1>1. OrderInv /\ [Next]_vars => OrderInv'
  BY OrderNext
<1>2. OrderInv => SnapshotsInOrder
  BY DEF OrderInv
<1> QED
  BY <1>1, <1>2, OrderInit, PTL DEF Spec

\* A snapshot is replaced by none that is older, through stops, restarts and
\* crashes (store/src/snapshotter.rs:59).
THEOREM SavedNeverGoesBackHolds ==
    ASSUME ActorsApart
    PROVE  Spec => SavedNeverGoesBack
<1>1. OrderInv /\ [Next]_vars => OrderInv'
  BY OrderNext
<1>2. OrderInv /\ [Next]_vars
        => [\A a \in Actors : ~misled[a] => Stored(a) <= Stored(a)']_vars
  BY OrderNext
<1> QED
  BY <1>1, <1>2, OrderInit, PTL DEF Spec, SavedNeverGoesBack

-----------------------------------------------------------------------------
(* What a load yields. *)

\* While nothing failed, the last save of an actor that is up is the last on
\* its way, and is what is stored when none is.
ToldInv(a) ==
    phase[a] \in {"running", "loading"} /\ told[a] # Untold /\ ~failed[a] =>
        /\ (\A i \in DOMAIN box[a] : ~box[a][i].save) => Stored(a) = told[a]
        /\ \A n \in DOMAIN box[a] :
            box[a][n].save /\ (\A i \in DOMAIN box[a] : i > n => ~box[a][i].save)
                => box[a][n].version = told[a]

LEMMA ToldNext ==
    ASSUME ActorsApart, TypeInv, [Next]_vars, NEW a \in Actors, ToldInv(a)
    PROVE  /\ ToldInv(a)'
           /\ phase[a] = "loading" /\ phase'[a] = "running" /\ told[a] # Untold /\ ~failed'[a]
                => state'[a] = told[a]
<1>p. /\ box[a] \in Seq(Messages) /\ DOMAIN box[a] = 1..Len(box[a]) /\ Len(box[a]) \in Nat
  BY Parts
<1>1. CASE Untouched(a)
  <2>1. Stored(a)' = Stored(a)
    BY <1>1 DEF Untouched, Stored
  <2> QED
    BY <1>1, <2>1 DEF Untouched, ToldInv
<1>2. CASE Started(a) \/ Ended(a)
  BY <1>2 DEF Started, Ended, ToldInv
<1>3. CASE Updated(a)
  BY <1>3 DEF Updated, Kept, ToldInv
<1>4. ASSUME NEW m \in Messages, Sent(a, m)
      PROVE  ToldInv(a)' /\ phase[a] = "running"
  <2> DEFINE b == box[a]
             c == Append(b, m)
  <2>1. /\ DOMAIN b = 1..Len(b) /\ DOMAIN c = 1..(Len(b) + 1) /\ Len(b) \in Nat
        /\ \A i \in DOMAIN b : c[i] = b[i]
        /\ c[Len(b) + 1] = m
    BY <1>p, BoxAppend
  <2>2. /\ box'[a] = c /\ phase[a] = "running" /\ failed'[a] = failed[a]
        /\ Stored(a)' = Stored(a)
        /\ \/ m.save /\ m.version = state[a] /\ told'[a] = state[a]
           \/ ~m.save /\ told'[a] = told[a]
    BY <1>4 DEF Sent, Kept
  <2>3. told[a] # Untold /\ ~failed[a] =>
        /\ (\A i \in DOMAIN b : ~b[i].save) => Stored(a) = told[a]
        /\ \A n \in DOMAIN b :
            b[n].save /\ (\A i \in DOMAIN b : i > n => ~b[i].save)
                => b[n].version = told[a]
    BY <2>2 DEF ToldInv
  <2> HIDE DEF b, c
  <2>4. ASSUME told'[a] # Untold, ~failed'[a], \A i \in DOMAIN c : ~c[i].save
        PROVE  Stored(a) = told'[a]
    <3>1. ~m.save /\ \A i \in DOMAIN b : ~b[i].save
      <4>1. Len(b) + 1 \in DOMAIN c /\ DOMAIN b \subseteq DOMAIN c
        BY <2>1
      <4> QED
        BY <2>1, <2>4, <4>1
    <3> QED
      BY <2>2, <2>3, <2>4, <3>1
  <2>5. ASSUME told'[a] # Untold, ~failed'[a], NEW n \in DOMAIN c, c[n].save,
               \A i \in DOMAIN c : i > n => ~c[i].save
        PROVE  c[n].version = told'[a]
    <3>1. CASE n = Len(b) + 1
      BY <2>1, <2>2, <2>5, <3>1
    <3>2. CASE n \in DOMAIN b
      <4>1. Len(b) + 1 \in DOMAIN c /\ Len(b) + 1 > n /\ DOMAIN b \subseteq DOMAIN c
        BY <2>1, <3>2
      <4>2. ~m.save
        BY <2>1, <2>5, <4>1
      <4>3. b[n].save /\ \A i \in DOMAIN b : i > n => ~b[i].save
        BY <2>1, <2>5, <3>2, <4>1
      <4> QED
        BY <2>1, <2>2, <2>3, <2>5, <3>2, <4>2, <4>3
    <3> QED
      BY <2>1, <3>1, <3>2
  <2> QED
    BY <2>2, <2>4, <2>5 DEF ToldInv
<1>5. CASE Written(a)
  <2>1. CASE failed'[a] = TRUE
    BY <1>5, <2>1 DEF Written, ToldInv
  <2>2. CASE /\ Stored(a)' = Head(box[a]).version
             /\ told'[a] = told[a] /\ failed'[a] = failed[a]
    <3> DEFINE b == box[a]
               c == Tail(b)
    <3>1. /\ b[1] = Head(b) /\ 1 \in DOMAIN b /\ DOMAIN b = 1..Len(b) /\ Len(b) \in Nat
          /\ DOMAIN c = 1..(Len(b) - 1)
          /\ \A i \in DOMAIN c : i \in Nat /\ i + 1 \in DOMAIN b /\ c[i] = b[i + 1]
      BY <1>p, <1>5, BoxTail DEF Written
    <3>2. b[1].save /\ box'[a] = c /\ phase'[a] = phase[a] /\ Stored(a)' = b[1].version
      BY <1>5, <2>2, <3>1 DEF Written
    <3>3. phase[a] \in {"running", "loading"} /\ told[a] # Untold /\ ~failed[a] =>
            \A n \in DOMAIN b :
                b[n].save /\ (\A i \in DOMAIN b : i > n => ~b[i].save)
                    => b[n].version = told[a]
      BY DEF ToldInv
    <3> HIDE DEF b, c
    <3>4. \A i \in DOMAIN b : i # 1 => i - 1 \in DOMAIN c /\ b[i] = c[i - 1]
      BY <3>1
    <3>5. ASSUME phase[a] \in {"running", "loading"}, told[a] # Untold, ~failed[a],
                 \A i \in DOMAIN c : ~c[i].save
          PROVE  b[1].version = told[a]
      <4>1. \A i \in DOMAIN b : i > 1 => ~b[i].save
        BY <3>1, <3>4, <3>5
      <4> QED
        BY <3>1, <3>2, <3>3, <3>5, <4>1
    <3>6. ASSUME phase[a] \in {"running", "loading"}, told[a] # Untold, ~failed[a],
                 NEW n \in DOMAIN c, c[n].save, \A i \in DOMAIN c : i > n => ~c[i].save
          PROVE  c[n].version = told[a]
      <4>1. n + 1 \in DOMAIN b /\ c[n] = b[n + 1] /\ n \in Nat
        BY <3>1
      <4>2. ASSUME NEW i \in DOMAIN b, i > n + 1 PROVE ~b[i].save
        <5>1. i - 1 \in DOMAIN c /\ b[i] = c[i - 1] /\ i - 1 > n
          BY <3>1, <3>4, <4>1, <4>2
        <5> QED
          BY <3>6, <5>1
      <4> QED
        BY <3>3, <3>6, <4>1, <4>2
    <3> QED
      BY <2>2, <3>2, <3>5, <3>6 DEF ToldInv
  <2> QED
    BY <1>5, <2>1, <2>2 DEF Written
<1>6. CASE Answered(a)
  <2>1. CASE failed'[a] = TRUE
    BY <2>1 DEF ToldInv
  <2>2. CASE /\ state'[a] = IF Stored(a) # Untold THEN Stored(a) ELSE state[a]
             /\ told'[a] = told[a] /\ failed'[a] = failed[a]
    <3>1. /\ phase[a] = "loading" /\ DOMAIN box[a] = {1} /\ ~box[a][1].save
          /\ DOMAIN box'[a] = {} /\ Stored(a)' = Stored(a)
      BY <1>6 DEF Answered, Kept
    <3>2. told[a] # Untold /\ ~failed[a] => Stored(a) = told[a]
      BY <3>1 DEF ToldInv
    <3> QED
      BY <2>2, <3>1, <3>2 DEF ToldInv
  <2> QED
    BY <1>6, <2>1, <2>2 DEF Answered
<1>n. phase[a] = "loading" /\ phase'[a] = "running" =>
        ~Untouched(a) /\ ~Started(a) /\ ~Ended(a) /\ ~Updated(a) /\ ~Written(a)
  BY DEF Untouched, Started, Ended, Updated, Written
<1> QED
  BY <1>1, <1>2, <1>3, <1>4, <1>5, <1>6, <1>n, Steps

SavedInv == TypeInv /\ \A a \in Actors : ToldInv(a)

\* A load that no failure precedes yields what the life saved last, for any
\* mailbox size and number of saves still on their way
\* (store/src/snapshot.rs:59, 85).
THEOREM ReadYourSavesHolds ==
    ASSUME ActorsApart
    PROVE  Spec => ReadYourSaves
<1>1. Init => SavedInv
  <2>1. Init => \A a \in Actors : ToldInv(a)
    BY DEF Init, ToldInv
  <2> QED
    BY <2>1, TypeInit DEF SavedInv
<1>2. SavedInv /\ [Next]_vars => SavedInv'
  BY TypeNext, ToldNext DEF SavedInv
<1>3. SavedInv /\ [Next]_vars
        => [\A a \in Actors :
                phase[a] = "loading" /\ phase'[a] = "running"
                /\ told[a] # Untold /\ ~failed'[a] => state'[a] = told[a]]_vars
  BY ToldNext DEF SavedInv
<1> QED
  BY <1>1, <1>2, <1>3, PTL DEF Spec, ReadYourSaves

-----------------------------------------------------------------------------
(* The keyspace implements the stores. *)

\* Behind a purge that goes on are all the entries its store still has.
LeftInv(p) == left[p] = IF purge[p] = "busy" THEN {p} \X DOMAIN space[p] ELSE {}

KeyspaceInv == TypeInv /\ \A p \in Ids : LeftInv(p)

\* A step on the keyspace is one on the stores, or none.
KeyspaceStep == Promise!Next \/ UNCHANGED <<space, purge>>

\* A store without keys is empty.
LEMMA NoKeys ==
    ASSUME NEW m, IsStore(m, Keys, Values), DOMAIN m = {}
    PROVE  m = EmptyStore
BY DEF IsStore, EmptyStore

LEMMA StepWrite ==
    ASSUME KeyspaceInv, NEW p \in Ids, NEW k \in Keys,
           Del(p, k) \/ \E v \in Values : Put(p, k, v)
    PROVE  KeyspaceStep /\ \A q \in Ids : LeftInv(q)'
<1>1. PICK m : Write(p, m)
  BY DEF Del, Put
<1>2. ASSUME NEW q \in Ids PROVE LeftInv(q)'
  <2>1. /\ purge'[q] = IF q = p THEN "none" ELSE purge[q]
        /\ q # p => space'[q] = space[q]
        /\ left'[q] = left[q] /\ purge[p] # "busy"
    BY <1>1 DEF Write, KeyspaceInv, TypeInv, StoreTypeOK
  <2>2. LeftInv(q)
    BY DEF KeyspaceInv
  <2> QED
    BY <2>1, <2>2 DEF LeftInv
<1>3. CASE Del(p, k)
  <2>1. Promise!Del(p, k)
    BY <1>3 DEF Del, Write, StoreDel, Promise!Del, Promise!Write, Promise!StoreDel
  <2>2. Promise!Next
    BY <2>1 DEF Promise!Next
  <2> QED
    BY <1>2, <2>2 DEF KeyspaceStep
<1>4. ASSUME NEW v \in Values, Put(p, k, v) PROVE KeyspaceStep
  <2>1. Promise!Put(p, k, v)
    BY <1>4 DEF Put, Write, StorePut, Promise!Put, Promise!Write, Promise!StorePut
  <2>2. Promise!Next
    BY <2>1 DEF Promise!Next
  <2> QED
    BY <2>2 DEF KeyspaceStep
<1> QED
  BY <1>2, <1>3, <1>4

LEMMA StepPurge ==
    ASSUME PurgesApart, KeyspaceInv, NEW p \in Ids \ Actors,
           PurgeStart(p) \/ PurgeRemove(p) \/ PurgeDone(p) \/ PurgeFails(p)
    PROVE  KeyspaceStep /\ \A q \in Ids : LeftInv(q)'
<1>t. /\ DOMAIN space = Ids /\ DOMAIN left = Ids /\ DOMAIN purge = Ids
      /\ \A q \in Ids : LeftInv(q) /\ IsStore(space[q], Keys, Values)
  BY DEF KeyspaceInv, TypeInv, StoreTypeOK
<1>1. CASE PurgeStart(p)
  <2>1. Met(p) = {p}
    BY DEF Met, PurgesApart
  <2>2. Entries(p) = {p} \X DOMAIN space[p]
    BY <2>1 DEF Entries
  <2>3. \A q \in Ids : LeftInv(q)'
    BY <1>1, <1>t, <2>2 DEF PurgeStart, LeftInv, KeyspaceInv, TypeInv, StoreTypeOK
  <2>4. Promise!PurgeStart(p)
    BY <1>1 DEF PurgeStart, Promise!PurgeStart
  <2>5. Promise!Next
    BY <2>4 DEF Promise!Next
  <2> QED
    BY <2>3, <2>5 DEF KeyspaceStep
<1>2. CASE PurgeRemove(p)
  <2>1. PICK e \in left[p] :
          /\ space' = [space EXCEPT ![e[1]] = StoreDel(space[e[1]], e[2])]
          /\ left' = [left EXCEPT ![p] = left[p] \ {e}]
          /\ purge' = purge /\ purge[p] = "busy"
    BY <1>2 DEF PurgeRemove
  <2>2. left[p] = {p} \X DOMAIN space[p]
    BY <1>t, <2>1 DEF LeftInv
  <2>3. PICK k \in DOMAIN space[p] : e = <<p, k>>
    BY <2>1, <2>2
  <2>4. /\ space' = [space EXCEPT ![p] = StoreDel(space[p], k)]
        /\ left' = [left EXCEPT ![p] = left[p] \ {<<p, k>>}]
    BY <2>1, <2>3
  <2>5. {p} \X DOMAIN StoreDel(space[p], k) = left[p] \ {<<p, k>>}
    BY <2>2 DEF StoreDel
  <2>6. \A q \in Ids : LeftInv(q)'
    BY <1>t, <2>1, <2>4, <2>5 DEF LeftInv
  <2>7. Promise!PurgeKey(p)
    BY <2>1, <2>4 DEF StoreDel, Promise!PurgeKey, Promise!StoreDel
  <2>8. Promise!Next
    BY <2>7 DEF Promise!Next
  <2> QED
    BY <2>6, <2>8 DEF KeyspaceStep
<1>3. CASE PurgeDone(p)
  <2>1. left[p] = {} /\ purge[p] = "busy" /\ purge' = [purge EXCEPT ![p] = "ok"]
        /\ space' = space /\ left' = left
    BY <1>3 DEF PurgeDone
  <2>2. DOMAIN space[p] = {}
    <3>1. {p} \X DOMAIN space[p] = {}
      BY <1>t, <2>1 DEF LeftInv
    <3>2. ASSUME NEW k \in DOMAIN space[p] PROVE <<p, k>> \in {p} \X DOMAIN space[p]
      OBVIOUS
    <3> QED
      BY <3>1, <3>2
  <2>3. space[p] = EmptyStore
    BY <1>t, <2>2, NoKeys
  <2>4. \A q \in Ids : LeftInv(q)'
    BY <1>t, <2>1 DEF LeftInv
  <2>5. Promise!PurgeOk(p)
    BY <2>1, <2>3 DEF EmptyStore, Promise!PurgeOk, Promise!EmptyStore
  <2>6. Promise!Next
    BY <2>5 DEF Promise!Next
  <2> QED
    BY <2>4, <2>6 DEF KeyspaceStep
<1>4. CASE PurgeFails(p)
  <2>1. purge[p] = "busy" /\ purge' = [purge EXCEPT ![p] = "err"]
        /\ left' = [left EXCEPT ![p] = {}] /\ space' = space
    BY <1>4 DEF PurgeFails
  <2>2. \A q \in Ids : LeftInv(q)'
    BY <1>t, <2>1 DEF LeftInv
  <2>3. Promise!PurgeErr(p)
    BY <2>1 DEF Promise!PurgeErr
  <2>4. Promise!Next
    BY <2>3 DEF Promise!Next
  <2> QED
    BY <2>2, <2>4 DEF KeyspaceStep
<1> QED
  BY <1>1, <1>2, <1>3, <1>4

LEMMA KeyspaceNext ==
    ASSUME PurgesApart, KeyspaceInv, [Next]_vars
    PROVE  KeyspaceInv' /\ KeyspaceStep
<1>k. UNCHANGED store => KeyspaceStep /\ \A q \in Ids : LeftInv(q)'
  BY DEF store, KeyspaceStep, KeyspaceInv, LeftInv
<1>1. ASSUME NEW a \in Actors, SaveSnapshot(a)
      PROVE  KeyspaceStep /\ \A q \in Ids : LeftInv(q)'
  <2>1. Head(box[a]) \in Messages
    BY <1>1, BoxTail DEF SaveSnapshot, KeyspaceInv, TypeInv, ActorTypes
  <2>2. a \in Ids /\ 0 \in Keys /\ Head(box[a]).version \in Values
    BY <2>1, MessageTypes, SnapshotAssumption
  <2> QED
    BY <1>1, <2>2, StepWrite DEF SaveSnapshot
<1>2. ASSUME NEW a \in Actors, Snapshotting(a), ~SaveSnapshot(a) PROVE UNCHANGED store
  BY <1>2 DEF Snapshotting, Start, Update, Save, Load, Stop, Restart, SaveFails,
     AnswerLoad, LoadMisread, SnapshotterStop
<1>3. ASSUME NEW p \in Ids \ Actors, StoreUse(p)
      PROVE  KeyspaceStep /\ \A q \in Ids : LeftInv(q)'
  BY <1>3, StepWrite, StepPurge DEF StoreUse
<1>4. ASSUME Crash PROVE KeyspaceStep /\ \A q \in Ids : LeftInv(q)'
  <2>1. /\ space' = space /\ purge' = [p \in Ids |-> "none"] /\ left' = [p \in Ids |-> {}]
    BY <1>4 DEF Crash, StoreCrash
  <2>2. Promise!Next
    BY <2>1 DEF Promise!Next, Promise!Crash
  <2> QED
    BY <2>1, <2>2 DEF KeyspaceStep, LeftInv
<1>5. UNCHANGED vars => UNCHANGED store
  BY DEF vars
<1> QED
  BY <1>k, <1>1, <1>2, <1>3, <1>4, <1>5, TypeNext DEF Next, KeyspaceInv

\* Whatever purges, writes, failures and crashes are interleaved, each store
\* is the map of what was done to it, and a purge that answers Ok has emptied
\* its store, when the scans of purges meet no other store
\* (store/src/stores/fjall.rs:175).
THEOREM ImplementsStoresHolds ==
    ASSUME PurgesApart
    PROVE  Spec => ImplementsStores
<1>1. Init => Promise!Init /\ KeyspaceInv
  <2>1. Init => \A p \in Ids : LeftInv(p)
    BY DEF Init, StoreInit, LeftInv
  <2> QED
    BY <2>1, TypeInit DEF Init, StoreInit, EmptyStore, Promise!Init, Promise!EmptyStore,
       KeyspaceInv
<1>2. KeyspaceInv /\ [Next]_vars => KeyspaceInv' /\ [Promise!Next]_<<space, purge>>
  BY KeyspaceNext DEF KeyspaceStep
<1> QED
  BY <1>1, <1>2, PTL DEF Spec, ImplementsStores, Promise!Spec

-----------------------------------------------------------------------------
(* The iterators of the back ends. *)

\* s lists the naturals of K upwards.
Lists(s, K) ==
    /\ s \in [1..Cardinality(K) -> K]
    /\ \A i, j \in 1..Cardinality(K) : i < j => s[i] < s[j]

LEMMA ListExists ==
    ASSUME NEW K \in SUBSET Nat, IsFiniteSet(K)
    PROVE  \E s : Lists(s, K)
<1> DEFINE N == Cardinality(K)
           T == {n \in 0..N : \A L \in SUBSET K : Cardinality(L) = n => \E s : Lists(s, L)}
<1>1. N \in Nat
  BY FS_CardinalityType
<1>f. ASSUME NEW L \in SUBSET K PROVE IsFiniteSet(L) /\ Cardinality(L) \in Nat
  BY FS_Subset, FS_CardinalityType
<1>2. 0 \in T
  <2>1. ASSUME NEW L \in SUBSET K, Cardinality(L) = 0 PROVE \E s : Lists(s, L)
    <3>1. Lists([i \in 1..0 |-> 0], L)
      BY <2>1 DEF Lists
    <3> QED
      BY <3>1
  <2> QED
    BY <1>1, <2>1
<1>3. ASSUME NEW n \in 1..N, n - 1 \in T PROVE n \in T
  <2>1. ASSUME NEW L \in SUBSET K, Cardinality(L) = n PROVE \E s : Lists(s, L)
    <3>1. L # {} /\ L \in SUBSET Nat
      BY <2>1, FS_EmptySet
    <3>2. PICK m \in L : \A x \in L : m <= x
      BY <3>1, LeastNat
    <3>3. Cardinality(L \ {m}) = n - 1 /\ L \ {m} \in SUBSET K
      BY <1>f, <2>1, <3>2, FS_RemoveElement
    <3>4. PICK s : Lists(s, L \ {m})
      BY <1>3, <3>3
    <3> DEFINE t == [i \in 1..n |-> IF i = 1 THEN m ELSE s[i - 1]]
    <3>5. /\ \A i \in 1..(n - 1) : s[i] \in L /\ s[i] > m
          /\ \A i, j \in 1..(n - 1) : i < j => s[i] < s[j]
      <4>1. ASSUME NEW i \in 1..(n - 1) PROVE s[i] \in L /\ s[i] > m
        <5>1. s[i] \in L \ {m}
          BY <3>3, <3>4 DEF Lists
        <5>2. s[i] \in Nat /\ m \in Nat /\ m <= s[i] /\ m # s[i]
          BY <3>1, <3>2, <5>1
        <5> QED
          BY <5>1, <5>2
      <4> QED
        BY <3>3, <3>4, <4>1 DEF Lists
    <3>6. \A i \in 1..n : t[i] \in L
      BY <3>5
    <3>7. ASSUME NEW i \in 1..n, NEW j \in 1..n, i < j PROVE t[i] < t[j]
      <4>1. j # 1 /\ j - 1 \in 1..(n - 1) /\ t[j] = s[j - 1]
        BY <3>7
      <4>2. CASE i = 1
        BY <3>5, <4>1, <4>2
      <4>3. CASE i # 1
        <5>1. i - 1 \in 1..(n - 1) /\ t[i] = s[i - 1] /\ i - 1 < j - 1
          BY <3>7, <4>3
        <5> QED
          BY <3>5, <4>1, <5>1
      <4> QED
        BY <4>2, <4>3
    <3>8. Lists(t, L)
      <4> HIDE DEF t
      <4>1. t \in [1..n -> L]
        BY <3>6 DEF t
      <4> QED
        BY <2>1, <3>7, <4>1 DEF Lists
    <3> QED
      BY <3>8
  <2> QED
    BY <1>1, <2>1
<1>4. \A n \in 0..N : n \in T
  <2>1. \A i \in 1..N : i - 1 \in T => i \in T
    BY <1>3
  <2> HIDE DEF T, N
  <2> QED
    BY <1>1, <1>2, <2>1, Induction
<1>5. N \in T
  <2> HIDE DEF T
  <2> QED
    BY <1>1, <1>4
<1> QED
  BY <1>5

LEMMA ListIsOnto ==
    ASSUME NEW K \in SUBSET Nat, IsFiniteSet(K), NEW s, Lists(s, K)
    PROVE  \A k \in K : \E i \in 1..Cardinality(K) : s[i] = k
<1> DEFINE N == Cardinality(K)
<1>1. N \in Nat /\ IsFiniteSet(1..N) /\ Cardinality(1..N) = N
  BY FS_CardinalityType, FS_Interval
<1>2. s \in Injection(1..N, K)
  <2>1. ASSUME NEW i \in 1..N, NEW j \in 1..N, i # j PROVE s[i] # s[j]
    <3>1. s[i] \in Nat /\ s[j] \in Nat /\ (i < j => s[i] < s[j]) /\ (j < i => s[j] < s[i])
      BY DEF Lists
    <3>2. i < j \/ j < i
      BY <1>1, <2>1
    <3> QED
      BY <3>1, <3>2
  <2> QED
    BY <2>1 DEF Lists, Injection, IsInjective
<1>3. s \in Surjection(1..N, K)
  BY <1>1, <1>2, FS_Injection
<1> QED
  BY <1>3 DEF Surjection

LEMMA ListIsUnique ==
    ASSUME NEW K \in SUBSET Nat, IsFiniteSet(K), NEW s, NEW t, Lists(s, K), Lists(t, K)
    PROVE  s = t
<1> DEFINE N == Cardinality(K)
           C == {i \in 1..N : s[i] # t[i]}
<1>1. N \in Nat
  BY FS_CardinalityType
<1>2. ASSUME NEW u, NEW v, Lists(u, K), Lists(v, K), NEW i \in 1..N,
             \A j \in 1..N : j < i => u[j] = v[j], u[i] < v[i]
      PROVE  FALSE
  <2>1. u[i] \in K
    BY <1>2 DEF Lists
  <2>2. PICK j \in 1..N : v[j] = u[i]
    <3>1. Lists(v, K)
      BY <1>2
    <3>2. \A k \in K : \E j \in 1..N : v[j] = k
      BY <3>1, ListIsOnto
    <3> QED
      BY <2>1, <3>2
  <2>3. \A a \in 1..N : u[a] \in Nat /\ v[a] \in Nat
    BY <1>2 DEF Lists
  <2>4. CASE j < i
    <3>1. u[j] = u[i] /\ u[j] < u[i]
      BY <1>2, <2>2, <2>4 DEF Lists
    <3> QED
      BY <2>3, <3>1
  <2>5. CASE j > i
    <3>1. v[i] < v[j]
      BY <1>2, <2>5 DEF Lists
    <3> QED
      BY <1>2, <2>2, <2>3, <3>1
  <2>6. CASE j = i
    BY <1>2, <2>2, <2>3, <2>6
  <2> QED
    BY <1>1, <2>4, <2>5, <2>6
<1>3. C = {}
  <2> SUFFICES ASSUME C # {} PROVE FALSE
    OBVIOUS
  <2>1. PICK i \in C : \A j \in C : i <= j
    <3>1. C \in SUBSET Nat
      OBVIOUS
    <3> HIDE DEF C
    <3> QED
      BY <3>1, LeastNat
  <2>2. i \in 1..N /\ s[i] # t[i] /\ \A j \in 1..N : j < i => s[j] = t[j]
    BY <1>1, <2>1
  <2>3. s[i] \in Nat /\ t[i] \in Nat
    BY <2>2 DEF Lists
  <2>4. s[i] < t[i] \/ t[i] < s[i]
    BY <2>2, <2>3
  <2> HIDE DEF C
  <2> QED
    BY <1>2, <2>2, <2>4
<1>4. \A i \in 1..N : s[i] = t[i]
  BY <1>3
<1>5. s \in [1..N -> K] /\ t \in [1..N -> K]
  BY DEF Lists
<1>6. ASSUME NEW D, NEW f \in [D -> K], NEW g \in [D -> K], \A i \in D : f[i] = g[i]
      PROVE  f = g
  BY <1>6
<1> HIDE DEF N
<1> QED
  BY <1>4, <1>5, <1>6, Zenon

\* The entries of m, whose keys s lists.
Listed(s, m) == [i \in 1..Cardinality(DOMAIN m) |-> <<s[i], m[s[i]]>>]

LEMMA ScanIs ==
    ASSUME NEW m, DOMAIN m \in SUBSET Nat, IsFiniteSet(DOMAIN m), NEW s, Lists(s, DOMAIN m)
    PROVE  Scan(m) = Listed(s, m)
<1> DEFINE K == DOMAIN m
           N == Cardinality(K)
           t == CHOOSE seq \in [1..N -> K] : \A i, j \in 1..N : i < j => seq[i] < seq[j]
<1>1. Lists(t, K)
  BY DEF Lists
<1>2. t = s
  <2> HIDE DEF t
  <2> QED
    BY <1>1, ListIsUnique
<1>3. Scan(m) = [i \in DOMAIN t |-> <<t[i], m[t[i]]>>]
  BY DEF Scan, Sorted
<1>4. DOMAIN t = 1..N
  <2> HIDE DEF t
  <2> QED
    BY <1>1 DEF Lists
<1> HIDE DEF t
<1> QED
  BY <1>2, <1>3, <1>4 DEF Listed

LEMMA PrefixIteratorIs ==
    ASSUME NEW p \in Ids, Met(p) = {p}, DOMAIN space[p] \in SUBSET Nat,
           IsFiniteSet(DOMAIN space[p])
    PROVE  PrefixIterator(p) = Scan(space[p])
<1> DEFINE K == DOMAIN space[p]
           E == Entries(p)
           N == Cardinality(K)
<1>1. E = {p} \X K
  BY DEF Entries
<1>2. IsFiniteSet(E) /\ Cardinality(E) = N /\ N \in Nat
  <2>1. IsFiniteSet({p}) /\ Cardinality({p}) = 1 /\ N \in Nat
    BY FS_Singleton, FS_CardinalityType
  <2>2. IsFiniteSet(E) /\ Cardinality(E) = 1 * N
    BY <1>1, <2>1, FS_Product
  <2> QED
    BY <2>1, <2>2
<1> DEFINE Ordered(seq) == \A i, j \in 1..N : i < j => Precedes(seq[i], seq[j])
           f == CHOOSE seq \in [1..N -> E] : Ordered(seq)
<1>3. \A k, l \in K : Precedes(<<p, k>>, <<p, l>>) <=> k < l
  BY DEF Precedes
<1>4. PICK s : Lists(s, K)
  BY ListExists
<1>5. \E seq \in [1..N -> E] : Ordered(seq)
  <2> DEFINE g == [i \in 1..N |-> <<p, s[i]>>]
  <2>1. \A i \in 1..N : s[i] \in K /\ g[i] = <<p, s[i]>> /\ g[i] \in E
    BY <1>1, <1>4 DEF Lists
  <2>2. Ordered(g)
    BY <1>3, <1>4, <2>1 DEF Lists
  <2>3. g \in [1..N -> E]
    BY <2>1
  <2> HIDE DEF g
  <2> QED
    BY <2>2, <2>3
<1>6. f \in [1..N -> E] /\ Ordered(f)
  BY <1>5
<1>7. Sorted(E, Precedes) = f
  BY <1>2 DEF Sorted
<1> HIDE DEF f
<1> DEFINE t == [i \in 1..N |-> f[i][2]]
<1>8. \A i \in 1..N : f[i] = <<p, t[i]>> /\ t[i] \in K
  BY <1>1, <1>6
<1>9. Lists(t, K)
  <2>1. ASSUME NEW i \in 1..N, NEW j \in 1..N, i < j PROVE t[i] < t[j]
    <3>1. Precedes(f[i], f[j])
      BY <1>6, <2>1
    <3>2. f[i] = <<p, t[i]>> /\ f[j] = <<p, t[j]>> /\ t[i] \in K /\ t[j] \in K
      BY <1>8
    <3> HIDE DEF t, K
    <3> QED
      BY <1>3, <3>1, <3>2, Zenon
  <2> HIDE DEF t
  <2>2. t \in [1..N -> K]
    BY <1>8 DEF t
  <2> QED
    BY <2>1, <2>2 DEF Lists
<1>10. PrefixIterator(p) = [i \in 1..N |-> <<f[i][2], space[f[i][1]][f[i][2]]>>]
  <2>1. DOMAIN f = 1..N
    BY <1>6
  <2> QED
    BY <1>7, <2>1 DEF PrefixIterator
<1>11. PrefixIterator(p) = Listed(t, space[p])
  <2>1. \A i \in 1..N : f[i][1] = p /\ f[i][2] = t[i]
    BY <1>8
  <2> HIDE DEF t
  <2> QED
    BY <1>10, <2>1 DEF Listed
<1> QED
  BY <1>9, <1>11, ScanIs

\* One more entry of a stretch.
LEMMA StretchGrows ==
    ASSUME NEW E, NEW scan \in Seq(E), NEW j \in 1..(Len(scan) + 1), NEW i \in 1..Len(scan)
    PROVE  SubSeq(scan, j, i) =
               IF i >= j THEN Append(SubSeq(scan, j, i - 1), scan[i]) ELSE SubSeq(scan, j, i - 1)
<1>0. Len(scan) \in Nat /\ i \in Int /\ j \in Int /\ i - 1 \in Int
  OBVIOUS
<1>1. CASE i >= j
  <2>1. j \in 1..Len(scan) /\ i \in j..Len(scan)
    BY <1>0, <1>1
  <2>2. SubSeq(scan, j, i) = SubSeq(scan, j, i - 1) \o <<scan[i]>>
    BY <2>1, SubSeqRecursiveSecond
  <2>3. SubSeq(scan, j, i - 1) \in Seq(E)
    BY <2>1, SubSeqProperties
  <2>4. SubSeq(scan, j, i - 1) \o <<scan[i]>> = Append(SubSeq(scan, j, i - 1), scan[i])
    BY <2>3, AppendIsConcat
  <2> QED
    BY <1>1, <2>2, <2>4
<1>2. CASE i < j
  BY <1>0, <1>2, SubSeqEmpty
<1> QED
  BY <1>0, <1>1, <1>2

\* A filter that the entries from j on pass yields these.
LEMMA FilterIs ==
    ASSUME NEW E, NEW scan \in Seq(E), NEW keys, NEW j \in 1..(Len(scan) + 1),
           \A i \in 1..Len(scan) : scan[i][1] \in keys <=> i >= j
    PROVE  Filter(scan, keys) = SubSeq(scan, j, Len(scan))
<1> DEFINE N == Len(scan)
           Def(g) == [i \in 0..N |-> IF i = 0 THEN <<>>
                                     ELSE IF scan[i][1] \in keys THEN Append(g[i - 1], scan[i])
                                     ELSE g[i - 1]]
           h == [i \in 0..N |-> SubSeq(scan, j, i)]
           G == CHOOSE g : g = Def(g)
<1>0. N \in Nat
  OBVIOUS
<1>1. SubSeq(scan, j, 0) = <<>>
  BY SubSeqEmpty
<1>2. ASSUME NEW i \in 1..N
      PROVE  SubSeq(scan, j, i) =
                 IF scan[i][1] \in keys THEN Append(SubSeq(scan, j, i - 1), scan[i])
                 ELSE SubSeq(scan, j, i - 1)
  BY StretchGrows
<1>3. h = Def(h)
  <2>1. ASSUME NEW i \in 0..N PROVE SubSeq(scan, j, i) = Def(h)[i]
    <3>1. CASE i = 0
      BY <1>1, <3>1
    <3>2. CASE i # 0
      <4>1. i \in 1..N /\ i - 1 \in 0..N
        BY <1>0, <3>2
      <4>2. h[i - 1] = SubSeq(scan, j, i - 1)
        BY <4>1
      <4> HIDE DEF h
      <4> QED
        BY <1>2, <3>2, <4>1, <4>2
    <3> QED
      BY <3>1, <3>2
  <2> QED
    BY <2>1
<1>4. G = Def(G)
  <2> HIDE DEF h
  <2> QED
    BY <1>3
<1>5. Filter(scan, keys) = G[N]
  BY DEF Filter
<1> HIDE DEF G
<1> DEFINE T == {i \in 0..N : G[i] = SubSeq(scan, j, i)}
<1>6. 0 \in T
  BY <1>0, <1>1, <1>4
<1>7. ASSUME NEW i \in 1..N, i - 1 \in T PROVE i \in T
  <2>1. i \in 0..N /\ i # 0 /\ G[i - 1] = SubSeq(scan, j, i - 1)
    BY <1>0, <1>7
  <2>2. G[i] = IF scan[i][1] \in keys THEN Append(G[i - 1], scan[i]) ELSE G[i - 1]
    BY <1>4, <2>1
  <2> QED
    BY <1>2, <2>1, <2>2
<1>8. \A i \in 1..N : i - 1 \in T => i \in T
  BY <1>7
<1>9. N \in T
  <2> HIDE DEF N, T
  <2>1. \A i \in 0..N : i \in T
    BY <1>0, <1>6, <1>8, Induction
  <2> QED
    BY <1>0, <2>1
<1> QED
  BY <1>5, <1>9

\* The keys of a scan go up.
Ascends(scan) ==
    /\ \A i \in 1..Len(scan) : scan[i][1] \in Nat
    /\ \A i, j \in 1..Len(scan) : i < j => scan[i][1] < scan[j][1]

\* The entries with keys not below `from` are those from an index j on.
Starts(scan, from, j) ==
    /\ j \in 1..(Len(scan) + 1)
    /\ \A i \in 1..Len(scan) : scan[i][1] >= from <=> i >= j

LEMMA StartExists ==
    ASSUME NEW E, NEW scan \in Seq(E), Ascends(scan), NEW from \in Nat
    PROVE  \E j : Starts(scan, from, j)
<1> DEFINE N == Len(scan)
           C == {i \in 1..N : scan[i][1] >= from}
<1>0. N \in Nat
  OBVIOUS
<1>1. CASE C = {}
  <2>1. N + 1 \in 1..(N + 1) /\ \A i \in 1..N : ~(scan[i][1] >= from) /\ ~(i >= N + 1)
    BY <1>0, <1>1
  <2>2. Starts(scan, from, N + 1)
    BY <2>1 DEF Starts
  <2> QED
    BY <2>2
<1>2. CASE C # {}
  <2>1. C \in SUBSET Nat
    OBVIOUS
  <2>2. PICK j \in C : \A i \in C : j <= i
    <3> HIDE DEF C
    <3> QED
      BY <1>2, <2>1, LeastNat
  <2>3. ASSUME NEW i \in 1..N PROVE scan[i][1] >= from <=> i >= j
    <3>1. scan[i][1] \in Nat /\ scan[j][1] \in Nat /\ scan[j][1] >= from
      BY <2>2 DEF Ascends
    <3>2. CASE i >= j
      <4>1. i = j \/ scan[j][1] < scan[i][1]
        BY <2>2, <3>2 DEF Ascends
      <4> QED
        BY <3>1, <3>2, <4>1
    <3>3. CASE ~(i >= j)
      <4>1. i \notin C
        BY <2>1, <2>2, <3>3
      <4> QED
        BY <3>3, <4>1
    <3> QED
      BY <3>2, <3>3
  <2>4. j \in 1..(N + 1)
    BY <1>0, <2>2
  <2>5. Starts(scan, from, j)
    BY <2>3, <2>4 DEF Starts
  <2> QED
    BY <2>5
<1> QED
  BY <1>1, <1>2

\* ... and there is one such index.
LEMMA StartIsUnique ==
    ASSUME NEW E, NEW scan \in Seq(E), NEW from \in Nat, NEW i, NEW j,
           Starts(scan, from, i), Starts(scan, from, j)
    PROVE  i = j
<1>0. Len(scan) \in Nat /\ i \in 1..(Len(scan) + 1) /\ j \in 1..(Len(scan) + 1)
  BY DEF Starts
<1>1. ASSUME i < j PROVE FALSE
  <2>1. i \in 1..Len(scan) /\ i >= i /\ ~(i >= j)
    BY <1>0, <1>1
  <2> QED
    BY <2>1 DEF Starts
<1>2. ASSUME j < i PROVE FALSE
  <2>1. j \in 1..Len(scan) /\ j >= j /\ ~(j >= i)
    BY <1>0, <1>2
  <2> QED
    BY <2>1 DEF Starts
<1> QED
  BY <1>0, <1>1, <1>2

\* What Forward yields from `from` on.
LEMMA FilteredIs ==
    ASSUME NEW E, NEW scan \in Seq(E), Ascends(scan), NEW from \in Nat, NEW j,
           Starts(scan, from, j)
    PROVE  Filter(scan, {k \in Nat : from <= k}) = SubSeq(scan, j, Len(scan))
<1>1. \A i \in 1..Len(scan) : scan[i][1] \in {k \in Nat : from <= k} <=> i >= j
  <2>1. ASSUME NEW i \in 1..Len(scan)
        PROVE  scan[i][1] \in {k \in Nat : from <= k} <=> scan[i][1] >= from
    BY DEF Ascends
  <2> QED
    BY <2>1 DEF Starts
<1>2. j \in 1..(Len(scan) + 1)
  BY DEF Starts
<1> QED
  BY <1>1, <1>2, FilterIs

\* A page is the stretch from the first key not below `from` to its own last.
LEMMA PageIs ==
    ASSUME NEW E, NEW scan \in Seq(E), Ascends(scan), NEW from \in Nat, NEW n \in Nat \ {0},
           NEW j, Starts(scan, from, j)
    PROVE  \/ j = Len(scan) + 1 /\ ForwardOf(scan, from, n) = <<>>
           \/ \E l \in j..Len(scan) :
                /\ ForwardOf(scan, from, n) = SubSeq(scan, j, l)
                /\ ForwardOf(scan, from, n) # <<>>
                /\ LastKeyOf(ForwardOf(scan, from, n)) = scan[l][1]
<1> DEFINE N == Len(scan)
           rest == SubSeq(scan, j, N)
           c == Min({n, Len(rest)})
           page == ForwardOf(scan, from, n)
<1>0. N \in Nat /\ j \in 1..(N + 1)
  BY DEF Starts
<1>1. n # NoBound
  BY DEF NoBound
<1>2. page = SubSeq(rest, 1, c)
  BY <1>1, FilteredIs DEF ForwardOf, Take
<1>3. CASE j = N + 1
  <2>1. rest = <<>>
    BY <1>0, <1>3, SubSeqEmpty
  <2>2. c = 0
    BY <2>1 DEF Min
  <2>3. SubSeq(rest, 1, 0) = <<>>
    BY SubSeqEmpty
  <2> QED
    BY <1>2, <1>3, <2>2, <2>3
<1>4. CASE j # N + 1
  <2>1. j \in 1..N /\ N \in 1..N
    BY <1>0, <1>4
  <2>2. Len(rest) = N - j + 1
    <3>1. j \in Int /\ N \in Int /\ j <= N /\ \A i \in j..N : scan[i] \in E
      BY <2>1
    <3> QED
      BY <3>1, SubSeqProperties
  <2>3. c \in 1..(N - j + 1)
    <3>1. \A x, y \in Nat \ {0} : Min({x, y}) \in Nat \ {0} /\ Min({x, y}) <= y
      <4>1. ASSUME NEW x \in Nat \ {0}, NEW y \in Nat \ {0}
            PROVE  Min({x, y}) \in Nat \ {0} /\ Min({x, y}) <= y
        <5>1. \E a \in {x, y} : \A b \in {x, y} : a <= b
          OBVIOUS
        <5>2. Min({x, y}) \in {x, y} /\ \A b \in {x, y} : Min({x, y}) <= b
          BY <5>1 DEF Min
        <5> QED
          BY <5>2
      <4> QED
        BY <4>1
    <3>2. N - j + 1 \in Nat \ {0}
      BY <2>1
    <3> QED
      BY <2>2, <3>1, <3>2
  <2> DEFINE l == j + c - 1
  <2> HIDE DEF c
  <2>4. l \in j..N /\ 1 \in 1..(N - j + 1) /\ j + 1 - 1 = j
    BY <2>1, <2>3
  <2>5. page = SubSeq(scan, j, l)
    <3>1. SubSeq(SubSeq(scan, j, N), 1, c) = SubSeq(scan, j + 1 - 1, j + c - 1)
      BY <2>1, <2>3, <2>4, SubSeqOfSubSeq
    <3> QED
      BY <1>2, <2>4, <3>1
  <2>6. /\ Len(page) = l - j + 1 /\ l - j + 1 \in Nat \ {0}
        /\ page[l - j + 1] = scan[l]
    <3>1. j \in Int /\ l \in Int /\ j <= l /\ \A i \in j..l : scan[i] \in E
      BY <2>1, <2>4
    <3> HIDE DEF page, l
    <3>2. /\ Len(SubSeq(scan, j, l)) = l - j + 1
          /\ \A i \in 1..(l - j + 1) : SubSeq(scan, j, l)[i] = scan[j + i - 1]
      BY <3>1, SubSeqProperties
    <3>3. l - j + 1 \in 1..(l - j + 1) /\ j + (l - j + 1) - 1 = l /\ l - j + 1 \in Nat \ {0}
      BY <3>1
    <3> QED
      BY <2>5, <3>2, <3>3
  <2> HIDE DEF page, l
  <2>7. page # <<>>
    BY <2>6
  <2>8. LastKeyOf(page) = scan[l][1]
    BY <2>6, <2>7 DEF LastKeyOf
  <2> QED
    BY <2>4, <2>5, <2>7, <2>8 DEF page
<1> QED
  BY <1>3, <1>4

\* The equation of the pages of a scan.
PagesOf(scan, bound, n, pages) ==
    pages = [from \in 0..bound |->
                LET page == ForwardOf(scan, from, n)
                IN  IF page = <<>> THEN <<>> ELSE page \o pages[LastKeyOf(page) + 1]]

\* What its solution has at `from` when it is right behind.
LEMMA PageJoins ==
    ASSUME NEW E, NEW scan \in Seq(E), Ascends(scan), NEW from \in Nat, NEW n \in Nat \ {0},
           NEW bound \in Nat, \A i \in 1..Len(scan) : scan[i][1] < bound,
           NEW j, Starts(scan, from, j)
    PROVE  LET page == ForwardOf(scan, from, n)
               key == LastKeyOf(page)
           IN  \/ page = <<>> /\ SubSeq(scan, j, Len(scan)) = <<>>
               \/ /\ page # <<>>
                  /\ key + 1 \in 0..bound /\ from < key + 1
                  /\ \A i : Starts(scan, key + 1, i) =>
                        page \o SubSeq(scan, i, Len(scan)) = SubSeq(scan, j, Len(scan))
<1> DEFINE N == Len(scan)
           page == ForwardOf(scan, from, n)
           key == LastKeyOf(page)
<1>0. N \in Nat /\ j \in 1..(N + 1)
  BY DEF Starts
<1>1. CASE j = N + 1 /\ page = <<>>
  BY <1>0, <1>1, SubSeqEmpty
<1>2. CASE \E l \in j..N : page = SubSeq(scan, j, l) /\ page # <<>> /\ key = scan[l][1]
  <2>1. PICK l \in j..N : page = SubSeq(scan, j, l) /\ page # <<>> /\ key = scan[l][1]
    BY <1>2
  <2> HIDE DEF page, key
  <2>2. l \in 1..N /\ l >= j /\ key \in Nat /\ key < bound /\ key >= from
    BY <1>0, <2>1 DEF Ascends, Starts
  <2>3. Starts(scan, key + 1, l + 1)
    <3>1. ASSUME NEW i \in 1..N PROVE scan[i][1] >= key + 1 <=> i >= l + 1
      <4>1. scan[i][1] \in Nat
        BY DEF Ascends
      <4>2. CASE i >= l + 1
        BY <2>1, <2>2, <4>1, <4>2 DEF Ascends
      <4>3. CASE ~(i >= l + 1)
        <5>1. i = l \/ scan[i][1] < scan[l][1]
          BY <1>0, <2>2, <4>3 DEF Ascends
        <5> QED
          BY <2>1, <2>2, <4>1, <4>3, <5>1
      <4> QED
        BY <4>2, <4>3
    <3>2. l + 1 \in 1..(N + 1)
      BY <1>0, <2>2
    <3> QED
      BY <3>1, <3>2 DEF Starts
  <2>4. page \o SubSeq(scan, l + 1, N) = SubSeq(scan, j, N)
    <3>1. l \in (j - 1)..N /\ N \in l..N
      BY <1>0, <2>2
    <3> QED
      BY <1>0, <2>1, <3>1, ConcatAdjacentSubSeq
  <2>5. \A i : Starts(scan, key + 1, i) => i = l + 1
    BY <2>2, <2>3, StartIsUnique
  <2>6. key + 1 \in 0..bound /\ from < key + 1
    BY <2>2
  <2>7. \A i : Starts(scan, key + 1, i) => page \o SubSeq(scan, i, N) = SubSeq(scan, j, N)
    <3> HIDE DEF N
    <3> QED
      BY <2>4, <2>5, Zenon
  <2> QED
    BY <2>1, <2>6, <2>7, ZenonT(60) DEF page, key
<1>3. \/ j = N + 1 /\ page = <<>>
      \/ \E l \in j..N : page = SubSeq(scan, j, l) /\ page # <<>> /\ key = scan[l][1]
  BY PageIs, ZenonT(60)
<1> QED
  BY <1>1, <1>2, <1>3, ZenonT(60)

\* Read in pages of any size, a scan is read whole.
LEMMA PagesAreAll ==
    ASSUME NEW E, NEW scan \in Seq(E), Ascends(scan), NEW n \in Nat \ {0},
           NEW bound \in Nat, \A i \in 1..Len(scan) : scan[i][1] < bound
    PROVE  (CHOOSE pages : PagesOf(scan, bound, n, pages))[0] = scan
<1> DEFINE N == Len(scan)
           J(from) == CHOOSE j : Starts(scan, from, j)
           h == [from \in 0..bound |-> SubSeq(scan, J(from), N)]
           Page(from) == ForwardOf(scan, from, n)
           Next_(from) == LastKeyOf(Page(from)) + 1
           G == CHOOSE pages : PagesOf(scan, bound, n, pages)
<1>0. N \in Nat
  OBVIOUS
<1>1. \A from \in 0..bound : Starts(scan, from, J(from))
  <2>1. ASSUME NEW from \in 0..bound PROVE \E j : Starts(scan, from, j)
    BY StartExists
  <2> QED
    BY <2>1
<1>2. ASSUME NEW from \in 0..bound
      PROVE  \/ Page(from) = <<>> /\ h[from] = <<>>
             \/ /\ Page(from) # <<>>
                /\ Next_(from) \in 0..bound /\ from < Next_(from)
                /\ Page(from) \o h[Next_(from)] = h[from]
  <2>1. Starts(scan, from, J(from))
    BY <1>1
  <2>2. h[from] = SubSeq(scan, J(from), N)
    OBVIOUS
  <2>3. \/ Page(from) = <<>> /\ SubSeq(scan, J(from), N) = <<>>
        \/ /\ Page(from) # <<>>
           /\ Next_(from) \in 0..bound /\ from < Next_(from)
           /\ \A i : Starts(scan, Next_(from), i) =>
                 Page(from) \o SubSeq(scan, i, N) = SubSeq(scan, J(from), N)
    <3>1. from \in Nat
      OBVIOUS
    <3>2. \A j : Starts(scan, from, j) =>
            \/ Page(from) = <<>> /\ SubSeq(scan, j, N) = <<>>
            \/ /\ Page(from) # <<>>
               /\ Next_(from) \in 0..bound /\ from < Next_(from)
               /\ \A i : Starts(scan, Next_(from), i) =>
                     Page(from) \o SubSeq(scan, i, N) = SubSeq(scan, j, N)
      BY <3>1, PageJoins, ZenonT(60)
    <3> HIDE DEF J, Page, Next_, N
    <3> QED
      BY <2>1, <3>2, Zenon
  <2>4. Next_(from) \in 0..bound => /\ h[Next_(from)] = SubSeq(scan, J(Next_(from)), N)
                                    /\ Starts(scan, Next_(from), J(Next_(from)))
    BY <1>1
  <2> HIDE DEF Page, h, J, Next_
  <2> QED
    BY <2>2, <2>3, <2>4
<1>3. PagesOf(scan, bound, n, h)
  <2> DEFINE Def(g) == [from \in 0..bound |->
                          LET page == ForwardOf(scan, from, n)
                          IN  IF page = <<>> THEN <<>> ELSE page \o g[LastKeyOf(page) + 1]]
  <2>1. ASSUME NEW from \in 0..bound PROVE Def(h)[from] = h[from]
    <3>1. Def(h)[from] = IF Page(from) = <<>> THEN <<>> ELSE Page(from) \o h[Next_(from)]
      OBVIOUS
    <3> HIDE DEF Page, h, Next_, Def
    <3> QED
      BY <1>2, <3>1, Zenon
  <2>2. DOMAIN h = 0..bound /\ h = [from \in 0..bound |-> h[from]]
    <3> HIDE DEF J
    <3> QED
      OBVIOUS
  <2>3. Def(h) = [from \in 0..bound |-> Def(h)[from]]
    OBVIOUS
  <2>4. h = Def(h)
    <3> HIDE DEF h, Def
    <3> QED
      BY <2>1, <2>2, <2>3
  <2> QED
    BY <2>4 DEF PagesOf
<1>4. PagesOf(scan, bound, n, G)
  <2> HIDE DEF h
  <2> QED
    BY <1>3
<1>5. ASSUME NEW from \in 0..bound
      PROVE  G[from] = IF Page(from) = <<>> THEN <<>> ELSE Page(from) \o G[Next_(from)]
  <2> HIDE DEF G
  <2> QED
    BY <1>4 DEF PagesOf
<1> DEFINE C == {from \in 0..bound : G[from] # h[from]}
<1>6. C = {}
  <2> SUFFICES ASSUME C # {} PROVE FALSE
    OBVIOUS
  <2>1. Max(C) \in C /\ \A y \in C : y <= Max(C)
    <3>1. C \subseteq 0..bound
      OBVIOUS
    <3> HIDE DEF C
    <3> QED
      BY <3>1, BoundedMax
  <2>2. PICK from \in 0..bound : from = Max(C) /\ G[from] # h[from]
    <3> HIDE DEF G, h
    <3> QED
      BY <2>1
  <2>3. Next_(from) \in 0..bound /\ from < Next_(from) => G[Next_(from)] = h[Next_(from)]
    <3> DEFINE x == Next_(from)
    <3>1. x \in 0..bound /\ from < x => x \notin C
      <4> HIDE DEF C, x
      <4> QED
        BY <2>1, <2>2
    <3> QED
      BY <3>1
  <2> HIDE DEF G, h, Page, Next_, C
  <2> QED
    BY <1>2, <1>5, <2>2, <2>3, Zenon
<1>7. G[0] = h[0] /\ h[0] = SubSeq(scan, J(0), N)
  <2>1. 0 \in 0..bound /\ 0 \notin C
    <3> HIDE DEF C
    <3> QED
      BY <1>6
  <2> QED
    BY <2>1
<1>8. J(0) = 1
  <2>1. Starts(scan, 0, 1)
    BY <1>0 DEF Starts, Ascends
  <2>2. 0 \in 0..bound
    OBVIOUS
  <2> HIDE DEF J
  <2> QED
    BY <1>1, <2>1, <2>2, StartIsUnique
<1>9. SubSeq(scan, 1, N) = scan
  BY SubSeqFull
<1> HIDE DEF G, h, J
<1> QED
  BY <1>7, <1>8, <1>9 DEF G

\* A finite set of naturals has a maximum.
LEMMA FiniteMax ==
    ASSUME NEW K \in SUBSET Nat, IsFiniteSet(K), K # {}
    PROVE  Max(K) \in Nat /\ \A k \in K : k <= Max(K)
<1> DEFINE N == Cardinality(K)
<1>1. N \in Nat \ {0}
  BY FS_CardinalityType, FS_EmptySet
<1>2. PICK s : Lists(s, K)
  BY ListExists
<1>3. s[N] \in Nat /\ \A k \in K : k <= s[N]
  <2>1. ASSUME NEW k \in K PROVE k <= s[N]
    <3>1. PICK i \in 1..N : s[i] = k
      BY <1>2, ListIsOnto
    <3>2. i = N \/ i < N
      BY <1>1
    <3>3. N \in 1..N /\ k \in Nat
      BY <1>1
    <3>4. s[N] \in Nat
      BY <1>2, <3>3 DEF Lists
    <3>5. i < N => s[i] < s[N]
      BY <1>2, <3>3 DEF Lists
    <3> HIDE DEF N
    <3> QED
      BY <3>1, <3>2, <3>3, <3>4, <3>5
  <2>2. N \in 1..N
    BY <1>1
  <2> QED
    BY <1>2, <2>1, <2>2 DEF Lists
<1>4. K \subseteq 0..s[N]
  BY <1>3
<1>5. Max(K) \in K /\ \A y \in K : y <= Max(K)
  <2> DEFINE b == s[N]
  <2>1. b \in Nat /\ K \subseteq 0..b
    BY <1>3, <1>4
  <2> HIDE DEF b
  <2> QED
    BY <2>1, BoundedMax
<1> QED
  BY <1>5

\* The scan of a map goes up, through keys of the map.
LEMMA ScanAscends ==
    ASSUME NEW m, DOMAIN m \in SUBSET Nat, IsFiniteSet(DOMAIN m)
    PROVE  /\ Ascends(Scan(m))
           /\ \A i \in 1..Len(Scan(m)) : Scan(m)[i][1] \in DOMAIN m
           /\ \E E : Scan(m) \in Seq(E)
<1> DEFINE K == DOMAIN m
           N == Cardinality(K)
<1>1. PICK s : Lists(s, K)
  BY ListExists
<1>2. Scan(m) = Listed(s, m)
  BY <1>1, ScanIs
<1> DEFINE E == {<<s[i], m[s[i]]>> : i \in 1..N}
           all == Listed(s, m)
<1>3. N \in Nat
  BY FS_CardinalityType
<1>4. all \in [1..N -> E] /\ \A i \in 1..N : all[i][1] = s[i] /\ s[i] \in K
  BY <1>1 DEF Listed, Lists
<1>5. all \in Seq(E) /\ Len(all) = N
  <2> HIDE DEF all, E, N
  <2> QED
    BY <1>3, <1>4
<1>6. \A i, j \in 1..N : i < j => s[i] < s[j]
  BY <1>1 DEF Lists
<1> HIDE DEF N, all, E
<1>7. Ascends(all)
  BY <1>4, <1>5, <1>6 DEF Ascends
<1>8. \A i \in 1..Len(all) : all[i][1] \in K
  BY <1>4, <1>5
<1> QED
  BY <1>2, <1>5, <1>7, <1>8 DEF all

\* The keys of a scan are not above its last.
LEMMA LastIsGreatest ==
    ASSUME NEW E, NEW scan \in Seq(E), Ascends(scan)
    PROVE  \A i \in 1..Len(scan) : scan[i][1] \in 0..LastKeyOf(scan)
<1>1. ASSUME NEW i \in 1..Len(scan) PROVE scan[i][1] \in 0..LastKeyOf(scan)
  <2>1. scan # <<>> /\ Len(scan) \in 1..Len(scan) /\ (i = Len(scan) \/ i < Len(scan))
    OBVIOUS
  <2>2. LastKeyOf(scan) = scan[Len(scan)][1]
    BY <2>1 DEF LastKeyOf
  <2>3. scan[i][1] \in Nat /\ LastKeyOf(scan) \in Nat
    BY <2>1, <2>2 DEF Ascends
  <2>4. i < Len(scan) => scan[i][1] < LastKeyOf(scan)
    BY <2>1, <2>2 DEF Ascends
  <2> QED
    BY <2>1, <2>2, <2>3, <2>4
<1> QED
  BY <1>1

\* A filter that every entry passes.
LEMMA FilterAll ==
    ASSUME NEW E, NEW scan \in Seq(E), NEW keys,
           \A i \in 1..Len(scan) : scan[i][1] \in keys
    PROVE  Filter(scan, keys) = scan
<1>1. 1 \in 1..(Len(scan) + 1) /\ \A i \in 1..Len(scan) : scan[i][1] \in keys <=> i >= 1
  OBVIOUS
<1>2. Filter(scan, keys) = SubSeq(scan, 1, Len(scan))
  BY <1>1, FilterIs
<1> QED
  BY <1>2, SubSeqFull

\* A range without an end, and backwards without a start.
LEMMA RangeIsAll ==
    ASSUME NEW E, NEW scan \in Seq(E), Ascends(scan)
    PROVE  /\ RangeOf(scan, 0, NoBound) = scan
           /\ ReverseOf(scan, NoBound, NoBound) = Seqs!Reverse(scan)
<1>1. RangeOf(scan, 0, NoBound) = scan
  BY LastIsGreatest, FilterAll DEF RangeOf
<1> DEFINE back == Seqs!Reverse(scan)
<1>2. /\ back \in Seq(E) /\ Len(back) = Len(scan)
      /\ \A i \in 1..Len(scan) : /\ back[i] = scan[Len(scan) - i + 1]
                                 /\ Len(scan) - i + 1 \in 1..Len(scan)
  BY DEF Seqs!Reverse
<1>3. \A i \in 1..Len(back) : back[i][1] \in 0..LastKeyOf(scan)
  BY <1>2, LastIsGreatest
<1>4. Filter(back, 0..LastKeyOf(scan)) = back
  <2> HIDE DEF back
  <2> QED
    BY <1>2, <1>3, FilterAll
<1> QED
  BY <1>1, <1>4 DEF ReverseOf, Take

\* What the iterator options of a store select, when its scan meets no other.
LEMMA IterationOf ==
    ASSUME FjallAssumption, NEW p \in Ids, Met(p) = {p}, IsStore(space[p], Keys, Values)
    PROVE  LET all == Scan(space[p])
               back == Backward(p, NoBound, NoBound)
           IN  /\ \A n \in 1..Cardinality(Keys) : Pages(p, n) = all
               /\ Range_(p, 0, NoBound) = all
               /\ DOMAIN back = DOMAIN all
               /\ \A i \in DOMAIN all : back[i] = all[Len(all) + 1 - i]
<1> DEFINE all == Scan(space[p])
           back == Backward(p, NoBound, NoBound)
           bound == Max(Keys) + 2
<1>1. DOMAIN space[p] \subseteq Keys
  BY DEF IsStore
<1>2. Keys \in SUBSET Nat /\ IsFiniteSet(Keys) /\ Keys # {}
  BY DEF FjallAssumption
<1>3. DOMAIN space[p] \in SUBSET Nat /\ IsFiniteSet(DOMAIN space[p])
  BY <1>1, <1>2, FS_Subset
<1>4. PrefixIterator(p) = all
  BY <1>3, PrefixIteratorIs
<1>5. PICK E : all \in Seq(E)
  BY <1>3, ScanAscends
<1>6. Ascends(all) /\ \A i \in 1..Len(all) : all[i][1] \in DOMAIN space[p]
  BY <1>3, ScanAscends
<1>7. Max(Keys) \in Nat /\ \A k \in Keys : k <= Max(Keys)
  BY <1>2, FiniteMax
<1>8. bound \in Nat /\ \A i \in 1..Len(all) : all[i][1] < bound
  <2> DEFINE M == Max(Keys)
  <2> HIDE DEF all
  <2>1. \A i \in 1..Len(all) : all[i][1] \in Keys
    BY <1>1, <1>6
  <2>2. M \in Nat /\ \A k \in Keys : k \in Nat /\ k <= M
    BY <1>2, <1>7
  <2>3. bound = M + 2
    OBVIOUS
  <2> HIDE DEF bound, M
  <2>4. bound \in Nat /\ \A k \in Nat : k <= M => k < bound
    BY <2>2, <2>3
  <2> QED
    BY <2>1, <2>2, <2>4, Zenon
<1> HIDE DEF all
<1>9. ASSUME NEW n \in 1..Cardinality(Keys) PROVE Pages(p, n) = all
  <2>1. Pages(p, n) = (CHOOSE pages : PagesOf(all, bound, n, pages))[0]
    BY <1>4 DEF Pages, PagesOf, Forward
  <2>2. n \in Nat \ {0}
    OBVIOUS
  <2> HIDE DEF bound
  <2> QED
    BY <1>5, <1>6, <1>8, <2>1, <2>2, PagesAreAll
<1>10. Range_(p, 0, NoBound) = all
  BY <1>4, <1>5, <1>6, RangeIsAll DEF Range_
<1>11. back = Seqs!Reverse(all)
  BY <1>4, <1>5, <1>6, RangeIsAll DEF Backward
<1> HIDE DEF back
<1>12. DOMAIN back = DOMAIN all /\ \A i \in DOMAIN all : back[i] = all[Len(all) + 1 - i]
  <2>1. Len(all) \in Nat /\ DOMAIN all = 1..Len(all)
    BY <1>5
  <2>2. back = [i \in 1..Len(all) |-> all[(Len(all) - i) + 1]]
    BY <1>11 DEF Seqs!Reverse
  <2>3. \A i \in 1..Len(all) : (Len(all) - i) + 1 = Len(all) + 1 - i
    BY <2>1
  <2> QED
    BY <2>1, <2>2, <2>3
<1> QED
  BY <1>9, <1>10, <1>12 DEF all, back

\* Reading in pages of any size, or in a range without an end, yields each
\* entry once, and backwards is the reverse of forwards, when the scan of the
\* store meets no other (store/src/stores/fjall.rs:184).
THEOREM IterationCompleteHolds ==
    Spec => []IterationComplete
<1>1. TypeInv => IterationComplete
  <2> SUFFICES ASSUME TypeInv, NEW p \in Ids, Met(p) = {p}
               PROVE  LET all == Scan(space[p])
                          back == Backward(p, NoBound, NoBound)
                      IN  /\ \A n \in 1..Cardinality(Keys) : Pages(p, n) = all
                          /\ Range_(p, 0, NoBound) = all
                          /\ DOMAIN back = DOMAIN all
                          /\ \A i \in DOMAIN all : back[i] = all[Len(all) + 1 - i]
    BY Zenon DEF IterationComplete
  <2>1. IsStore(space[p], Keys, Values)
    BY DEF TypeInv, StoreTypeOK
  <2> QED
    BY <2>1, FjallAssumption, IterationOf, Zenon
<1> QED
  BY <1>1, TypeInit, TypeNext, PTL DEF Spec

\* Of a store with whose id no other begins, last and iter yield the store's
\* own entries, so that the disagreement about ScansSeeOwn is about ids that
\* begin with others only (store/src/stores/fjall.rs:165, 184).
THEOREM ScansSeeOwnHolds ==
    ASSUME Begins = {}
    PROVE  Spec => []ScansSeeOwn
<1>1. TypeInv => ScansSeeOwn
  <2> SUFFICES ASSUME TypeInv, NEW p \in Ids
               PROVE  /\ Last(p) = Promise!Last(p)
                      /\ Forward(p, NoBound, NoBound) = Promise!Forward(p, NoBound, NoBound)
    BY Zenon DEF ScansSeeOwn
  <2>1. Met(p) = {p}
    BY DEF Met
  <2>2. DOMAIN space[p] \subseteq Keys /\ Keys \in SUBSET Nat /\ IsFiniteSet(Keys)
    BY FjallAssumption DEF TypeInv, StoreTypeOK, IsStore
  <2>3. PrefixIterator(p) = Scan(space[p])
    BY <2>1, <2>2, FS_Subset, PrefixIteratorIs
  <2>4. Promise!Scan(space[p]) = Scan(space[p])
    <3>1. \A S : Promise!Cardinality(S) = Cardinality(S)
      BY Zenon DEF Cardinality, Promise!Cardinality
    <3> DEFINE K == DOMAIN space[p]
               Keys_(N) == CHOOSE seq \in [1..N -> K] : \A i, j \in 1..N : i < j => seq[i] < seq[j]
               Of(N) == [i \in DOMAIN Keys_(N) |-> <<Keys_(N)[i], space[p][Keys_(N)[i]]>>]
    <3>2. Promise!Scan(space[p]) = Of(Promise!Cardinality(K))
      BY Zenon DEF Promise!Scan, Promise!Sorted
    <3>3. Scan(space[p]) = Of(Cardinality(K))
      BY Zenon DEF Scan, Sorted
    <3> HIDE DEF Of
    <3> QED
      BY <3>1, <3>2, <3>3, Zenon
  <2>5. ASSUME NEW scan
        PROVE  /\ Promise!LastOf(scan) = LastOf(scan)
               /\ Promise!ForwardOf(scan, NoBound, NoBound) = ForwardOf(scan, NoBound, NoBound)
    <3>1. Promise!LastOf(scan) = LastOf(scan)
      BY Zenon DEF LastOf, Promise!LastOf
    <3>2. Promise!NoBound = NoBound
      BY Zenon DEF NoBound, Promise!NoBound
    <3>3. \A keys : Promise!Filter(scan, keys) = Filter(scan, keys)
      BY Zenon DEF Filter, Promise!Filter
    <3> QED
      BY <3>1, <3>2, <3>3, Zenon DEF ForwardOf, Take, Promise!ForwardOf, Promise!Take
  <2> QED
    BY <2>3, <2>4, <2>5, Zenon DEF Last, Forward, Promise!Last, Promise!Forward
<1> QED
  BY <1>1, TypeInit, TypeNext, PTL DEF Spec
=============================================================================
