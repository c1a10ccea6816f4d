---------------------------- MODULE MCInmemStore ----------------------------
(***************************************************************************)
(* Instances of InmemStore: three clients, so that two of them can         *)
(* interleave with a commit, one document path, one policy, one trigger.   *)
(***************************************************************************)
EXTENDS InmemStore
=============================================================================
