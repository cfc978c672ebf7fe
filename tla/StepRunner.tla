----------------------------- MODULE StepRunner -----------------------------
(***************************************************************************)
(* The runner every builder of the repository hands its list of steps to   *)
(* (multistep.BasicRunner, a library), as far as the builders rely on it:  *)
(* steps run in order; a step that halts, or the entry "cancelled" in the  *)
(* state bag, ends the sequence; the Cleanup of every step that ran, the   *)
(* last one included, is called in reverse order.                          *)
(*                                                                         *)
(* Builder.Cancel calls the runner's Cancel from another goroutine, which  *)
(* does nothing before the runner has started.  It marks the runner at     *)
(* once; "cancelled" reaches the bag a little later, from a goroutine of   *)
(* its own, or when the runner next looks.                                 *)
(***************************************************************************)
EXTENDS Naturals

VARIABLES
  last,    \* the runner's Steps, numbered 1..last
  mode,    \* "idle", "next", "run" (step `at`), "clean" (up to step `at`), "ended"
  at,      \* the step that is about to run, runs, or is to be cleaned up
  asked,   \* the runner has been asked to cancel
  bag      \* the entries of the state bag that somebody tests for

runnerVars == <<last, mode, at, asked, bag>>

Modes == {"idle", "next", "run", "clean", "ended"}

RunnerTypeOK(entries) ==
  /\ last \in Nat
  /\ mode \in Modes
  /\ at \in 0..(last + 1)
  /\ asked \in BOOLEAN
  /\ bag \in SUBSET entries

RunnerInit(n) ==
  /\ last = n
  /\ mode = "idle"
  /\ at = 1
  /\ asked = FALSE
  /\ bag = {}

StartRunner ==
  /\ mode = "idle"
  /\ mode' = "next"
  /\ UNCHANGED <<last, at, asked, bag>>

\* The loop over the steps: on to the next one, or out of the loop.
EnterStep ==
  /\ mode = "next"
  /\ at <= last
  /\ ~asked
  /\ mode' = "run"
  /\ UNCHANGED <<last, at, asked, bag>>

LeaveLoop ==
  /\ mode = "next"
  /\ at > last \/ asked
  /\ mode' = "clean"
  /\ at' = at - 1
  /\ bag' = IF at <= last THEN bag \cup {"cancelled"} ELSE bag
  /\ UNCHANGED <<last, asked>>

\* Run of the current step returns, having put `entries` in the bag.
StepReturns(ret, entries) ==
  /\ mode = "run"
  /\ LET b == bag \cup entries
     IN  IF "cancelled" \in b
           THEN mode' = "clean" /\ bag' = b /\ UNCHANGED at
         ELSE IF ret = "halt"
           THEN mode' = "clean" /\ bag' = b \cup {"halted"} /\ UNCHANGED at
         ELSE mode' = "next" /\ bag' = b /\ at' = at + 1
  /\ UNCHANGED <<last, asked>>

Continue == StepReturns("continue", {})
Fail     == StepReturns("halt", {"error"})

\* Cleanup of the step `at` returns.
Cleaned ==
  /\ mode = "clean"
  /\ at > 0
  /\ at' = at - 1
  /\ UNCHANGED <<last, mode, asked, bag>>

\* The last deferred call of the runner: it is idle again.
EndRunner ==
  /\ mode = "clean"
  /\ at = 0
  /\ mode' = "ended"
  /\ UNCHANGED <<last, at, asked, bag>>

AskCancel ==
  /\ mode \in {"next", "run", "clean"}
  /\ ~asked
  /\ asked' = TRUE
  /\ UNCHANGED <<last, mode, at, bag>>

FlagCancelled ==
  /\ asked
  /\ "cancelled" \notin bag
  /\ bag' = bag \cup {"cancelled"}
  /\ UNCHANGED <<last, mode, at, asked>>

Loop == StartRunner \/ EnterStep \/ LeaveLoop \/ EndRunner

-----------------------------------------------------------------------------
(* The runner as AbstractBuild sees it                                     *)

buildPhase ==
  IF mode \in {"idle", "next", "run"} THEN "ahead"
  ELSE IF mode = "clean" THEN "back" ELSE "over"

openSteps == IF mode \in {"idle", "next"} THEN at - 1 ELSE at

=============================================================================
