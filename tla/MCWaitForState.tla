--------------------------- MODULE MCWaitForState ---------------------------
(* The wait of StepRunSourceInstance for "running".  An odd timeout of five  *)
(* seconds makes the division round, and leaves four polls that find        *)
(* nothing: enough for a sighting before, between and after two misses.     *)
EXTENDS WaitForState

InstanceStates == {"pending", "running", "terminated"}

InstanceSuccessors ==
  [s \in InstanceStates |->
     CASE s = "pending" -> {"running", "terminated"}
       [] s = "running" -> {"terminated"}
       [] OTHER         -> {}]

=============================================================================
