------------------------------ MODULE MCWhLink ------------------------------
(* A panel and a watch; the watch starts the pairing. *)
EXTENDS WhLink

Ends == {"panel", "watch"}
Watch == {"watch"}
Panel == {"panel"}
=============================================================================
