--------------------------- MODULE MCActorSystem ---------------------------
(* Model-checking instance of ActorSystem. *)
EXTENDS ActorSystem
=============================================================================
