------------------------- MODULE RestartProvisioner -------------------------
(***************************************************************************)
(* provisioner/restart/provisioner.go: restart the guest, wait until it    *)
(* answers again, and give up on a timeout or when Packer calls Cancel.    *)
(*                                                                         *)
(* Three goroutines share two channels: Provision (with waitForRestart),   *)
(* the waiter it starts (waitForCommunicator) and the caller of Cancel.    *)
(* p.cancel is closed by Cancel and by Provision, waitDone is written by   *)
(* the waiter and closed by Provision.  Closing a nil or a closed channel, *)
(* and sending on a closed one, panics and takes the process down.         *)
(*                                                                         *)
(* Abstractions: commands are not text, only what they have done in the    *)
(* guest so far and what is reported of them; the guest is what the        *)
(* commands do to it.                                                      *)
(***************************************************************************)
EXTENDS Naturals

CONSTANT MaxCancels    \* bound on the calls of Cancel by Packer's hook

ASSUME MaxCancelsAssumption == MaxCancels \in Nat

VARIABLES
  pc,           \* Provision: "idle", "starting", "retrying", "commanding" (the restart
                \* command runs), "waiting" (for the guest), "returned"
  result,       \* what Provision returned
  waiter,       \* the goroutine that runs waitForCommunicator
  err,          \* waitForRestart's variable err, written by the waiter
  cancel,       \* the channel p.cancel: "nil", "open" or "closed"
  waitDone,     \* number of values buffered in the channel waitDone
  doneClosed,   \* waitDone has been closed
  startExpired, \* retryable's timer has fired
  expired,      \* waitForRestart's timer has fired
  crash,        \* the panic that ended the process, or "none"
  cancels,      \* calls of Cancel so far
  cancelledIn,  \* the value of pc when Cancel was first called, or "never"
  guest,        \* the Windows guest: "up", "stopping" (restart accepted), "deaf" (its
                \* WinRM stopped as well), "down", "rebooted" (up again)
  stopsWinRM,   \* the restart command also stops the WinRM service
  command,      \* the restart command in the guest: "none", "running", "accepted"
                \* (its shutdown part), "done"
  cutOff        \* status 0 was reported of a command that was not done

provVars   == <<pc, result>>
waiterVars == <<waiter, err>>
chanVars   == <<cancel, waitDone, doneClosed>>
timerVars  == <<startExpired, expired>>
askVars    == <<cancels, cancelledIn>>
guestVars  == <<guest, stopsWinRM, command, cutOff>>
vars == <<provVars, waiterVars, chanVars, timerVars, crash, askVars, guestVars>>

PCs == {"idle", "starting", "retrying", "commanding", "waiting", "returned"}

TypeOK ==
  /\ pc \in PCs
  /\ result \in {"none", "ok", "startError", "exitStatus", "waitError",
                 "timeout", "interrupted"}
  /\ waiter \in {"none", "select", "sleeping", "checking", "sending", "ended"}
  /\ err \in {"nil", "cancelled"}
  /\ cancel \in {"nil", "open", "closed"}
  /\ waitDone \in 0..1
  /\ doneClosed \in BOOLEAN
  /\ startExpired \in BOOLEAN
  /\ expired \in BOOLEAN
  /\ crash \in {"none", "closeOfNil", "closeOfClosed", "sendOnClosed"}
  /\ cancels \in 0..MaxCancels
  /\ cancelledIn \in {"never"} \cup PCs
  /\ guest \in {"up", "stopping", "deaf", "down", "rebooted"}
  /\ stopsWinRM \in BOOLEAN
  /\ command \in {"none", "running", "accepted", "done"}
  /\ cutOff \in BOOLEAN

\* The default command is `shutdown /r ... && net stop winrm`; a template may
\* configure one that leaves WinRM running until the guest goes down.
Init ==
  /\ pc = "idle"
  /\ result = "none"
  /\ waiter = "none"
  /\ err = "nil"
  /\ cancel = "nil"
  /\ waitDone = 0
  /\ doneClosed = FALSE
  /\ startExpired = FALSE
  /\ expired = FALSE
  /\ crash = "none"
  /\ cancels = 0
  /\ cancelledIn = "never"
  /\ guest = "up"
  /\ stopsWinRM \in BOOLEAN
  /\ command = "none"
  /\ cutOff = FALSE

alive == crash = "none"

Answers == guest \in {"up", "stopping", "rebooted"}

-----------------------------------------------------------------------------
(* Provision                                                               *)

\* p.cancel is made anew and retryable is entered.
Begin ==
  /\ pc = "idle"
  /\ pc' = "starting"
  /\ cancel' = "open"
  /\ UNCHANGED <<result, waiterVars, waitDone, doneClosed, timerVars, crash,
                 askVars, guestVars>>

Return(r) ==
  /\ pc' = "returned"
  /\ result' = r

\* cmd.Start fails inside retryable: the timer is polled, not awaited, and p.cancel is
\* not looked at.  If it is the reply that was lost, the guest runs the command.
StartFails ==
  /\ pc = "starting"
  /\ command' \in {command} \cup (IF Answers THEN {"running"} ELSE {})
  /\ IF startExpired THEN Return("startError") ELSE pc' = "retrying" /\ UNCHANGED result
  /\ UNCHANGED <<waiterVars, chanVars, timerVars, crash, askVars, guest, stopsWinRM,
                 cutOff>>

\* The restart command has started; StartWithUi waits for its end, without a timeout.
StartRestart ==
  /\ pc = "starting"
  /\ Answers
  /\ pc' = "commanding"
  /\ command' = "running"
  /\ UNCHANGED <<result, waiterVars, chanVars, timerVars, crash, askVars, guest,
                 stopsWinRM, cutOff>>

\* Its exit status arrives.  Of a command that was cut off, by its own `net stop winrm`,
\* by the guest going down or by the network, the communicator reports status 0.
CommandReturns ==
  /\ pc = "commanding"
  /\ \/ /\ pc' = "waiting"
        /\ waiter' = "select"
        /\ cutOff' = (command # "done")
        /\ UNCHANGED <<result, command>>
     \/ /\ command # "none"
        /\ command' = "none"
        /\ Return("exitStatus")
        /\ UNCHANGED <<waiter, cutOff>>
  /\ UNCHANGED <<err, chanVars, timerVars, crash, askVars, guest, stopsWinRM>>

\* time.Sleep(retryableSleep)
RetrySleep ==
  /\ pc = "retrying"
  /\ pc' = "starting"
  /\ UNCHANGED <<result, waiterVars, chanVars, timerVars, crash, askVars, guestVars>>

\* Slip: the channel is not closed on the way out.
SlipLeavesCancelOpen(r) == Return(r) /\ UNCHANGED <<cancel, crash>>

\* close(p.cancel) by Provision, on its way out with the result r.
CloseCancelAndReturn(r) ==
  IF cancel = "open"
    THEN cancel' = "closed" /\ Return(r) /\ UNCHANGED crash
    ELSE crash' = "closeOfClosed" /\ UNCHANGED <<cancel, provVars>>

\* Slip: waitDone is read whether or not a value is there.
SlipReadsEmpty ==
  /\ pc = "waiting"
  /\ waitDone' = waitDone - 1
  /\ CloseCancelAndReturn("ok")
  /\ UNCHANGED <<waiterVars, doneClosed, timerVars, askVars, guestVars>>

\* case <-waitDone of waitForRestart; only the success closes p.cancel.
ReceiveDone ==
  /\ pc = "waiting"
  /\ waitDone > 0
  /\ waitDone' = waitDone - 1
  /\ IF err # "nil"
       THEN Return("waitError") /\ UNCHANGED <<cancel, crash>>
       ELSE CloseCancelAndReturn("ok")
  /\ UNCHANGED <<waiterVars, doneClosed, timerVars, askVars, guestVars>>

\* Slip: a timeout closes waitDone too, as an interrupt does.
SlipClosesDone ==
  /\ pc = "waiting"
  /\ expired
  /\ CloseCancelAndReturn("timeout")
  /\ doneClosed' = TRUE
  /\ UNCHANGED <<waiterVars, waitDone, timerVars, askVars, guestVars>>

\* case <-timeout
TimedOut ==
  /\ pc = "waiting"
  /\ expired
  /\ CloseCancelAndReturn("timeout")
  /\ UNCHANGED <<waiterVars, waitDone, doneClosed, timerVars, askVars, guestVars>>

\* case <-p.cancel: waitDone is closed under the waiter's feet.
Interrupted ==
  /\ pc = "waiting"
  /\ cancel = "closed"
  /\ doneClosed' = TRUE
  /\ Return("interrupted")
  /\ UNCHANGED <<waiterVars, cancel, waitDone, timerVars, crash, askVars, guestVars>>

Provision == alive /\ (Begin \/ RetrySleep \/ ReceiveDone \/ TimedOut \/ Interrupted)

\* The calls of Provision that wait for the guest, none of them with a timeout.
Calls == alive /\ (StartFails \/ StartRestart \/ CommandReturns)

-----------------------------------------------------------------------------
(* The waiter                                                              *)

\* waitForCommunicator returns "Communicator wait cancelled".
WaiterCancelled ==
  /\ waiter \in {"select", "sleeping"}
  /\ cancel = "closed"
  /\ waiter' = "sending"
  /\ err' = "cancelled"
  /\ UNCHANGED <<provVars, chanVars, timerVars, crash, askVars, guestVars>>

Sleep ==
  /\ waiter = "select"
  /\ cancel = "open"
  /\ waiter' = "sleeping"
  /\ UNCHANGED <<provVars, err, chanVars, timerVars, crash, askVars, guestVars>>

\* time.After(retryableSleep), perhaps just as p.cancel is closed.
Wake ==
  /\ waiter = "sleeping"
  /\ waiter' = "checking"
  /\ UNCHANGED <<provVars, err, chanVars, timerVars, crash, askVars, guestVars>>

\* Slip: a check that fails to start ends the wait with its error.
SlipReturnsError ==
  /\ waiter = "checking"
  /\ waiter' = "sending"
  /\ IF Answers THEN UNCHANGED err ELSE err' = "cancelled"
  /\ UNCHANGED <<provVars, chanVars, timerVars, crash, askVars, guestVars>>

\* Slip: a check that fails to start counts as an answer.
SlipIgnoresError ==
  /\ waiter = "checking"
  /\ waiter' = "sending"
  /\ UNCHANGED <<provVars, err, chanVars, timerVars, crash, askVars, guestVars>>

\* The check command: once it has started its exit status does not matter.
Check ==
  /\ waiter = "checking"
  /\ \/ waiter' = "select"
     \/ Answers /\ waiter' = "sending"
  /\ UNCHANGED <<provVars, err, chanVars, timerVars, crash, askVars, guestVars>>

\* waitDone <- true
Send ==
  /\ waiter = "sending"
  /\ IF doneClosed
       THEN crash' = "sendOnClosed" /\ UNCHANGED <<waiter, waitDone>>
       ELSE /\ waitDone' = waitDone + 1
            /\ waiter' = "ended"
            /\ UNCHANGED crash
  /\ UNCHANGED <<provVars, err, cancel, doneClosed, timerVars, askVars, guestVars>>

Waiter == alive /\ (WaiterCancelled \/ Sleep \/ Wake \/ Check \/ Send)

-----------------------------------------------------------------------------
(* The environment: Packer's provision hook, the timers, the guest          *)

\* The hook calls Cancel from another goroutine, at any moment around Provision.
Cancel ==
  /\ cancels < MaxCancels
  /\ cancels' = cancels + 1
  /\ cancelledIn' = IF cancelledIn = "never" THEN pc ELSE cancelledIn
  /\ CASE cancel = "open" -> cancel' = "closed" /\ UNCHANGED crash
       [] cancel = "nil"  -> crash' = "closeOfNil" /\ UNCHANGED cancel
       [] OTHER           -> crash' = "closeOfClosed" /\ UNCHANGED cancel
  /\ UNCHANGED <<provVars, waiterVars, waitDone, doneClosed, timerVars, guestVars>>

\* Slip: retryable makes its timer anew in every turn, and it never fires.
SlipRearms ==
  /\ pc = "returned"
  /\ ~startExpired
  /\ startExpired' = TRUE
  /\ UNCHANGED <<provVars, waiterVars, chanVars, expired, crash, askVars, guestVars>>

StartExpire ==
  /\ pc \in {"starting", "retrying"}
  /\ ~startExpired
  /\ startExpired' = TRUE
  /\ UNCHANGED <<provVars, waiterVars, chanVars, expired, crash, askVars, guestVars>>

Expire ==
  /\ pc = "waiting"
  /\ ~expired
  /\ expired' = TRUE
  /\ UNCHANGED <<provVars, waiterVars, chanVars, startExpired, crash, askVars, guestVars>>

\* The guest runs the command: `shutdown /r` is accepted, and the guest goes down some
\* seconds later.
GuestAccepts ==
  /\ command = "running"
  /\ Answers
  /\ guest' = "stopping"
  /\ command' = IF stopsWinRM THEN "accepted" ELSE "done"
  /\ UNCHANGED <<provVars, waiterVars, chanVars, timerVars, crash, askVars, stopsWinRM,
                 cutOff>>

\* ... && net stop winrm
GuestStopsWinRM ==
  /\ command = "accepted"
  /\ guest = "stopping"
  /\ guest' = "deaf"
  /\ command' = "done"
  /\ UNCHANGED <<provVars, waiterVars, chanVars, timerVars, crash, askVars, stopsWinRM,
                 cutOff>>

\* What still runs in the guest goes down with it.
GuestGoesDown ==
  /\ guest \in {"stopping", "deaf"}
  /\ guest' = "down"
  /\ command' = "none"
  /\ UNCHANGED <<provVars, waiterVars, chanVars, timerVars, crash, askVars, stopsWinRM,
                 cutOff>>

GuestBoots ==
  /\ guest = "down"
  /\ guest' = "rebooted"
  /\ UNCHANGED <<provVars, waiterVars, chanVars, timerVars, crash, askVars, stopsWinRM,
                 command, cutOff>>

Timers == alive /\ (StartExpire \/ Expire)
Guest  == alive /\ (GuestAccepts \/ GuestStopsWinRM \/ GuestGoesDown \/ GuestBoots)

Next == Provision \/ Calls \/ Waiter \/ (alive /\ Cancel) \/ Timers \/ Guest

\* Provision's goroutine runs and timers fire.  No call to the guest need return, the
\* guest need not come back and nobody need call Cancel.
Spec == Init /\ [][Next]_vars /\ WF_vars(Provision) /\ WF_vars(Timers)

-----------------------------------------------------------------------------
(* Properties                                                              *)

\* Left alone, the provisioner does not panic whatever the guest and the timers
\* do: the two channels are closed twice or too early only if Cancel is called.
NoCrashUnasked == crash # "none" => cancels > 0

\* An interrupt is never reported, nor the waiter's error, unless Cancel was called
\* first: a slow guest is a timeout, not an interrupt.
NoSpuriousInterrupt ==
  result \in {"interrupted", "waitError"} => cancelledIn \notin {"never", "returned"}

\* A provision interrupted before its end never reports that the machine restarted,
\* even if the answer of the guest and the interrupt arrive together.
InterruptNeverSucceeds ==
  result \in {"ok", "timeout"} => cancelledIn \in {"never", "returned"}

\* If the restart command stops WinRM, as the default one does, success means that the
\* guest is back from the restart, whichever tries were lost before: the next provisioner
\* does not lose its machine.  Not so if the command was cut off before it was done, which
\* is reported as status 0 all the same: it may restart the guest later, or never.
SuccessMeansRestarted ==
  result = "ok" /\ stopsWinRM /\ ~cutOff => guest = "rebooted"

\* If the calls that start the restart command and await its end do return, Provision ends
\* even if the check command hangs and the guest never comes back: it returns, or the
\* process panics.
ProvisionEnds ==
  WF_vars(Calls) => ((pc # "idle" /\ alive) ~> (pc = "returned" \/ ~alive))

\* The wait for the guest implements the abstract wait.  It begins once the restart
\* command has succeeded; an error of the waiter is an interrupt.
waitPhase == IF pc = "waiting" THEN "waiting"
             ELSE IF result \in {"none", "startError", "exitStatus"} THEN "idle"
             ELSE "ended"

waitOutcome == IF waitPhase # "ended" THEN "none"
               ELSE IF result = "ok" THEN "ready"
               ELSE IF result = "timeout" THEN "timeout"
               ELSE "interrupted"

Wait == INSTANCE BoundedWait
          WITH phase    <- waitPhase,
               answered <- (waiter \in {"sending", "ended"} /\ err = "nil"),
               asked    <- (cancels > 0),
               outcome  <- waitOutcome

\* Whatever Cancel, the timer and the guest do, the wait ends once, as "ready" only if
\* the guest answered the check, and as interrupted only if Cancel was called.
ImplementsWait == Wait!SafeSpec

\* TestProvision_Cancel: a Cancel while Provision waits, well before the
\* timeout, gives an error and not a panic.
CancelGivesError == cancelledIn = "waiting" /\ ~expired => crash = "none"

=============================================================================
