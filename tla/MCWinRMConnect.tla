--------------------------- MODULE MCWinRMConnect ---------------------------
(* The step has no parameters: its state space is finite as it stands.      *)
EXTENDS WinRMConnect

=============================================================================
