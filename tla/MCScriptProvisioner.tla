------------------------- MODULE MCScriptProvisioner -------------------------
(* Every template of at most three scripts, over a guest that restarts at will. *)
EXTENDS ScriptProvisioner

=============================================================================
