---------------------------- MODULE WinRMConnect ----------------------------
(***************************************************************************)
(* common/step_connect_winrm.go: the multistep step every builder of the   *)
(* repository uses to obtain a WinRM communicator.                         *)
(*                                                                         *)
(* Run starts a goroutine (the waiter) that polls the machine, and then    *)
(* selects between the waiter's answer, a timer and, once a second, the    *)
(* "cancelled" entry of the state bag.  When Run gives up it closes the    *)
(* channel `cancel` and returns; the waiter is told, not awaited, so it    *)
(* may still be running beside the Cleanup of the other steps.             *)
(*                                                                         *)
(* Abstractions: addresses, credentials and the communicator itself are    *)
(* not modelled, only whether each call succeeds; one action is one        *)
(* blocking call or one channel operation of a goroutine.                  *)
(***************************************************************************)
EXTENDS Naturals

VARIABLES
  pc,          \* Run: "idle", "waiting" in its select, "returned"
  action,      \* what Run returned: "none" yet, "continue", "halt"
  waiter,      \* the goroutine: where it is in waitForWinRM
  comm,        \* Run's variable comm, written by the waiter
  err,         \* Run's variable err, written by the waiter
  waitDone,    \* number of values buffered in the channel waitDone
  cancelOpen,  \* the channel cancel has not been closed
  expired,     \* the timer of WinRMWaitTimeout has fired
  bag,         \* the entries of the state bag this step reads or writes
  late         \* address queries that ended after Run had returned

vars == <<pc, action, waiter, comm, err, waitDone, cancelOpen, expired, bag,
          late>>
runVars    == <<pc, action>>
waiterVars == <<waiter, comm, err, late>>

Entries == {"cancelled", "error", "communicator", "address"}

TypeOK ==
  /\ pc \in {"idle", "waiting", "returned"}
  /\ action \in {"none", "continue", "halt"}
  /\ waiter \in {"none", "select", "sleeping", "addressing", "connecting",
                 "sending", "ended"}
  /\ comm \in BOOLEAN
  /\ err \in {"nil", "cancelled"}
  /\ waitDone \in 0..1
  /\ cancelOpen \in BOOLEAN
  /\ expired \in BOOLEAN
  /\ bag \in SUBSET Entries
  /\ late \in Nat

Init ==
  /\ pc = "idle"
  /\ action = "none"
  /\ waiter = "none"
  /\ comm = FALSE
  /\ err = "nil"
  /\ waitDone = 0
  /\ cancelOpen = TRUE
  /\ expired = FALSE
  /\ bag \in SUBSET {"cancelled"}
  /\ late = 0

-----------------------------------------------------------------------------
(* Run                                                                     *)

\* Run starts the waiter and the timer and enters its select loop.
Begin ==
  /\ pc = "idle"
  /\ pc' = "waiting"
  /\ waiter' = "select"
  /\ UNCHANGED <<action, comm, err, waitDone, cancelOpen, expired, bag,
                 late>>

Return(a) ==
  /\ pc' = "returned"
  /\ action' = a

\* Slip: the channel is read whether or not a value is there.
SlipReadsEmpty ==
  /\ pc = "waiting"
  /\ waitDone' = waitDone - 1
  /\ Return("continue")
  /\ bag' = bag \cup {"communicator"}
  /\ UNCHANGED <<waiterVars, cancelOpen, expired>>

\* case <-waitDone: an error halts without an "error" entry in the bag.
ReceiveDone ==
  /\ pc = "waiting"
  /\ waitDone > 0
  /\ waitDone' = waitDone - 1
  /\ IF err # "nil"
       THEN Return("halt") /\ UNCHANGED bag
       ELSE Return("continue") /\ bag' = bag \cup {"communicator"}
  /\ UNCHANGED <<waiterVars, cancelOpen, expired>>

\* case <-timeout
TimedOut ==
  /\ pc = "waiting"
  /\ expired
  /\ Return("halt")
  /\ bag' = bag \cup {"error"}
  /\ cancelOpen' = FALSE
  /\ UNCHANGED <<waiterVars, waitDone, expired>>

\* Slip: Run gives up at the first tick, without looking in the bag.
SlipPollsBlindly ==
  /\ pc = "waiting"
  /\ Return("halt")
  /\ cancelOpen' = FALSE
  /\ UNCHANGED <<waiterVars, waitDone, expired, bag>>

\* Slip: the interrupt is noticed, but the waiter is not told.
SlipKeepsCancelOpen ==
  /\ pc = "waiting"
  /\ "cancelled" \in bag
  /\ Return("halt")
  /\ UNCHANGED <<waiterVars, cancelOpen, waitDone, expired, bag>>

\* case <-time.After(1 * time.Second): the loop goes round again, changing
\* nothing, unless the runner has put "cancelled" in the bag.
PollCancelled ==
  /\ pc = "waiting"
  /\ "cancelled" \in bag
  /\ Return("halt")
  /\ cancelOpen' = FALSE
  /\ UNCHANGED <<waiterVars, waitDone, expired, bag>>

Run == Begin \/ ReceiveDone \/ TimedOut \/ PollCancelled

-----------------------------------------------------------------------------
(* The waiter: the goroutine of Run and waitForWinRM, which it calls       *)

waiterFrame == <<runVars, cancelOpen, expired>>

\* waitForWinRM returns (nil, "WinRM wait cancelled"): the select of its loop
\* sees `cancel` closed, on entry or while it sleeps.
WaiterCancelled ==
  /\ waiter \in {"select", "sleeping"}
  /\ ~cancelOpen
  /\ waiter' = "sending"
  /\ err' = "cancelled"
  /\ UNCHANGED <<waiterFrame, bag, comm, waitDone, late>>

\* The select finds `cancel` open and sleeps for 5 seconds.
Sleep ==
  /\ waiter = "select"
  /\ cancelOpen
  /\ waiter' = "sleeping"
  /\ UNCHANGED <<waiterFrame, bag, comm, err, waitDone, late>>

\* The 5 seconds are over, perhaps just as `cancel` is closed.
Wake ==
  /\ waiter = "sleeping"
  /\ waiter' = "addressing"
  /\ UNCHANGED <<waiterFrame, bag, comm, err, waitDone, late>>

\* What a WinRMAddress function leaves in the bag, whether it fails or not: the
\* Amazon one puts a freshly described "instance", the ESX driver "vm_ipaddress"
\* (both are "address" here), the others nothing.
AddressPuts(b) == {b, b \cup {"address"}}

\* WinRMAddress and newEndpoint.  A failure of either is logged and the loop goes on.
QueryAddress ==
  /\ waiter = "addressing"
  /\ waiter' \in {"select", "connecting"}
  /\ bag' \in AddressPuts(bag)
  /\ late' = IF pc = "returned" THEN late + 1 ELSE late
  /\ UNCHANGED <<waiterFrame, comm, err, waitDone>>

\* Slip: a failed connection is returned to Run.
SlipReturnsError ==
  /\ waiter = "connecting"
  /\ waiter' = "sending"
  /\ \/ comm' = TRUE /\ UNCHANGED err
     \/ err' = "connection" /\ UNCHANGED comm
  /\ UNCHANGED <<waiterFrame, bag, waitDone, late>>

\* plugin.New opens a shell on the machine and closes it again.
Connect ==
  /\ waiter = "connecting"
  /\ \/ /\ waiter' = "select"
        /\ UNCHANGED comm
     \/ /\ waiter' = "sending"
        /\ comm' = TRUE
  /\ UNCHANGED <<waiterFrame, bag, err, waitDone, late>>

\* Slip: waitDone has no buffer, so that the waiter needs Run to receive.
SlipUnbuffered ==
  /\ waiter = "sending"
  /\ pc = "waiting"
  /\ waitDone < 1
  /\ waitDone' = waitDone + 1
  /\ waiter' = "ended"
  /\ UNCHANGED <<waiterFrame, bag, comm, err, late>>

\* waitDone <- true on a channel with one free slot: never blocks.
Send ==
  /\ waiter = "sending"
  /\ waitDone < 1
  /\ waitDone' = waitDone + 1
  /\ waiter' = "ended"
  /\ UNCHANGED <<waiterFrame, bag, comm, err, late>>

Waiter == WaiterCancelled \/ Sleep \/ Wake \/ QueryAddress \/ Connect \/ Send

-----------------------------------------------------------------------------
(* The environment: the timer, and the runner's cancel goroutine           *)

\* Slip: the timer is made anew in every turn of Run's loop, and never fires.
SlipRearms ==
  /\ pc = "returned"
  /\ ~expired
  /\ expired' = TRUE
  /\ UNCHANGED <<runVars, waiterVars, waitDone, cancelOpen, bag>>

Expire ==
  /\ pc # "idle"
  /\ ~expired
  /\ expired' = TRUE
  /\ UNCHANGED <<runVars, waiterVars, waitDone, cancelOpen, bag>>

Interrupt ==
  /\ "cancelled" \notin bag
  /\ bag' = bag \cup {"cancelled"}
  /\ UNCHANGED <<runVars, waiterVars, waitDone, cancelOpen, expired>>

Next == Run \/ Waiter \/ Expire \/ Interrupt

\* The scheduler runs Run's goroutine and timers fire.  Nothing makes the machine
\* answer or the user interrupt, and a call the waiter makes may hang.
Spec == Init /\ [][Next]_vars /\ WF_vars(Run) /\ WF_vars(Expire)

-----------------------------------------------------------------------------
(* Properties                                                              *)

\* Whenever Run halts, the bag says why: "error" or "cancelled".  ReceiveDone
\* returns ActionHalt without putting "error"; it is harmless only because the
\* waiter cannot deliver an error before Run itself has closed `cancel`.
HaltExplained == action = "halt" => bag \cap {"error", "cancelled"} # {}

\* Run continues exactly when the steps behind it find a communicator in the
\* bag, one the waiter really connected, and no "error" that would turn the
\* finished build into a failed one.
ContinueConnected ==
  /\ action = "continue" <=> "communicator" \in bag
  /\ action = "continue" => comm /\ err = "nil" /\ "error" \notin bag

\* A waiter left behind by Run queries the machine at most once more.  Only this query,
\* which may put "instance" twice, can write to the bag under the Cleanup of other steps.
OneLateQuery == late <= 1

\* Run returns within its timeout even if a call the waiter makes never ends.
RunReturns == (pc = "waiting") ~> (pc = "returned")

\* If the calls of the waiter end, with an answer or an error, so does its goroutine
\* once Run has returned.
WaiterEnds == WF_vars(Waiter) => ((pc = "returned") ~> (waiter = "ended"))

-----------------------------------------------------------------------------
(* Run and its waiter implement the abstract wait.                         *)

waitPhase == CASE pc = "idle"    -> "idle"
               [] pc = "waiting" -> "waiting"
               [] OTHER          -> "ended"

\* The bag tells how the wait ended: "communicator" and "error" are put only by Run.
waitOutcome == CASE pc # "returned"        -> "none"
                 [] action = "continue"    -> "ready"
                 [] "error" \in bag        -> "timeout"
                 [] OTHER                  -> "interrupted"

Wait == INSTANCE BoundedWait
          WITH phase    <- waitPhase,
               answered <- comm,
               asked    <- ("cancelled" \in bag),
               outcome  <- waitOutcome

\* Every behaviour of the step is a behaviour of the abstract wait: the machine
\* answered if the step continues, somebody asked if it was interrupted.
ImplementsWait == Wait!SafeSpec

=============================================================================
