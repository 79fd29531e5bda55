---------------------------- MODULE MCPersistent ----------------------------
(* Model-checking instance of Persistent. *)
EXTENDS Persistent
=============================================================================
