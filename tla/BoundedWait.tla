----------------------------- MODULE BoundedWait -----------------------------
(***************************************************************************)
(* What every "wait for the machine" loop of the plugins promises to its   *)
(* caller, whatever goroutines and channels it is built from: the wait     *)
(* begins once and ends once, it ends as "ready" only if the machine did   *)
(* answer an attempt, as "interrupted" only if somebody asked for that,    *)
(* and otherwise as "timeout"; and it always ends.                         *)
(*                                                                         *)
(* This is a specification of the interface, not of any one function: the  *)
(* modules WinRMConnect (common/step_connect_winrm.go) and                 *)
(* RestartProvisioner (provisioner/restart/provisioner.go) implement it.   *)
(***************************************************************************)

VARIABLES phase,     \* where the wait is
          answered,  \* the machine has answered an attempt
          asked,     \* an interrupt has been asked for
          outcome    \* how the wait ended

wvars == <<phase, answered, asked, outcome>>

Outcomes == {"ready", "timeout", "interrupted"}

Init ==
  /\ phase = "idle"
  /\ answered = FALSE
  /\ asked \in BOOLEAN   \* the interrupt may come before the wait
  /\ outcome = "none"

Begin ==
  /\ phase = "idle"
  /\ phase' = "waiting"
  /\ UNCHANGED <<answered, asked, outcome>>

\* An attempt may succeed after the wait has given up: nobody sees it.
Answer ==
  /\ phase # "idle"
  /\ ~answered
  /\ answered' = TRUE
  /\ UNCHANGED <<phase, asked, outcome>>

Ask ==
  /\ ~asked
  /\ asked' = TRUE
  /\ UNCHANGED <<phase, answered, outcome>>

End(o) ==
  /\ phase = "waiting"
  /\ o = "ready" => answered
  /\ o = "interrupted" => asked
  /\ phase' = "ended"
  /\ outcome' = o
  /\ UNCHANGED <<answered, asked>>

Next ==
  \/ Begin
  \/ Answer
  \/ Ask
  \/ \E o \in Outcomes : End(o)

SafeSpec == Init /\ [][Next]_wvars

\* The wait is bounded: once begun it ends.
Ends == (phase = "waiting") ~> (phase = "ended")

=============================================================================
