------------------------ MODULE MCRestartProvisioner ------------------------
(* Two calls of Cancel are enough to close p.cancel twice, and to call it    *)
(* both before and after each operation of Provision and of the waiter.     *)
EXTENDS RestartProvisioner

=============================================================================
