------------------------------ MODULE ActorLife ------------------------------
(***************************************************************************)
(* What an actor promises to its creator and to the clients that ask it,   *)
(* whatever its hooks and handlers do: its creation is decided once, asks  *)
(* are answered Ok only between its start and its end, and every ask       *)
(* returns.  Runner implements it.                                         *)
(***************************************************************************)
CONSTANT Clients

VARIABLES
    life,   \* being created, up, over, or refused
    calls   \* what became of each client's latest ask

vars == <<life, calls>>

Init ==
    /\ life = "new"
    /\ calls = [c \in Clients |-> "none"]

\* create_actor returns a reference,
Begin ==
    /\ life = "new"
    /\ life' = "up"
    /\ UNCHANGED calls

\* or an error, and nobody ever gets a reference.
Refuse ==
    /\ life = "new"
    /\ life' = "refused"
    /\ UNCHANGED calls

\* The actor ends, whatever the reason.
End ==
    /\ life = "up"
    /\ life' = "over"
    /\ UNCHANGED calls

\* A reference stays usable after the end of its actor.
Call(c) ==
    /\ life \in {"up", "over"}
    /\ calls[c] # "open"
    /\ calls' = [calls EXCEPT ![c] = "open"]
    /\ UNCHANGED life

ReturnOk(c) ==
    /\ life = "up"
    /\ calls[c] = "open"
    /\ calls' = [calls EXCEPT ![c] = "Ok"]
    /\ UNCHANGED life

ReturnErr(c) ==
    /\ calls[c] = "open"
    /\ calls' = [calls EXCEPT ![c] = "Err"]
    /\ UNCHANGED life

Next ==
    \/ Begin \/ Refuse \/ End
    \/ \E c \in Clients : Call(c) \/ ReturnOk(c) \/ ReturnErr(c)

Spec ==
    /\ Init /\ [][Next]_vars
    /\ WF_vars(Begin \/ Refuse)
    /\ \A c \in Clients : WF_vars(ReturnOk(c) \/ ReturnErr(c))
=============================================================================
