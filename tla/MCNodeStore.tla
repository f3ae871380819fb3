---------------------------- MODULE MCNodeStore ----------------------------
(* Two shells; a queue of one request, so that a second caller may give up. *)
EXTENDS NodeStore
=============================================================================
