---------------------------- MODULE MC_ToolLink ----------------------------
(* Small instances of ToolLink: one emitting thread, one drain worker.      *)
EXTENDS ToolLink
CONSTANTS emitter, drainer
=============================================================================
