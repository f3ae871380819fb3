---------------------------- MODULE MCPanelLink ----------------------------
(* One panel with a queue of two commands and a fuse of two boots. *)
EXTENDS PanelLink
=============================================================================
