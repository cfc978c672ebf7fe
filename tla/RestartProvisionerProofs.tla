---------------------- MODULE RestartProvisionerProofs ----------------------
(***************************************************************************)
(* Proofs about RestartProvisioner, for any number of calls of Cancel: its *)
(* type invariant, the four safety invariants of the run of the same name, *)
(* and that its wait for the guest implements BoundedWait.                 *)
(*                                                                         *)
(* What ties them together is the channel p.cancel: while Provision runs   *)
(* it is open exactly as long as nobody has called Cancel, and the waiter  *)
(* has an error to deliver only once it is closed.                         *)
(***************************************************************************)
EXTENDS RestartProvisioner, TLAPS

\* Where Provision is, and whether its waiter has been started.
Stages ==
  /\ (pc = "returned") <=> (result # "none")
  /\ (pc = "idle") <=> (cancel = "nil")
  /\ pc \in {"idle", "starting", "retrying", "commanding"} => waiter = "none"
  /\ pc = "waiting" => waiter # "none"
  /\ result \in {"startError", "exitStatus"} => waiter = "none"

\* p.cancel tells whether Cancel has been called.
Channels ==
  /\ cancels = 0 <=> cancelledIn = "never"
  /\ pc # "returned" => cancelledIn # "returned"
  /\ cancel = "open" => cancelledIn = "never"
  /\ cancel = "nil" /\ alive => cancelledIn = "never"
  /\ cancel = "closed" /\ pc # "returned" => cancelledIn # "never"
  /\ doneClosed => result = "interrupted"
  /\ crash # "none" => cancelledIn # "never"

\* A command that stops WinRM and was done before the wait began leaves the guest on its
\* way down or back from it, and nothing in it that would restart it once more.
Confirmed ==
  /\ command = "accepted" => stopsWinRM
  /\ command = "done" /\ stopsWinRM => guest = "deaf"
  /\ stopsWinRM /\ ~cutOff /\ waiter # "none" =>
       /\ command \in {"none", "done"}
       /\ guest \in {"deaf", "down", "rebooted"}

\* The waiter delivers once; an error only when p.cancel is closed, an answer only
\* when the guest did answer: if WinRM was stopped, that is after the restart.
Deliveries ==
  /\ waitDone = 1 => waiter = "ended"
  /\ err = "cancelled" => cancel = "closed"
  /\ result = "ok" => waiter = "ended" /\ err = "nil"
  /\ stopsWinRM /\ ~cutOff /\ waiter \in {"sending", "ended"} /\ err = "nil" =>
       guest = "rebooted"

\* What has been returned agrees with when Cancel was called.
Results ==
  /\ NoSpuriousInterrupt
  /\ InterruptNeverSucceeds

Inv == TypeOK /\ Stages /\ Channels /\ Confirmed /\ Deliveries /\ Results

-----------------------------------------------------------------------------
(* Inv is inductive                                                        *)

LEMMA InitInv == Init => Inv
<1> SUFFICES ASSUME Init PROVE Inv
  OBVIOUS
<1>1. TypeOK
  <2>1. /\ doneClosed \in BOOLEAN /\ startExpired \in BOOLEAN /\ expired \in BOOLEAN
        /\ stopsWinRM \in BOOLEAN /\ cutOff \in BOOLEAN
    BY DEF Init
  <2>2. waitDone \in 0..1 /\ cancels \in 0..MaxCancels
    BY MaxCancelsAssumption DEF Init
  <2>3. QED
    BY <2>1, <2>2 DEF Init, TypeOK, PCs
<1>2. Stages /\ Channels /\ Confirmed /\ Deliveries
  BY DEF Init, Stages, Channels, Confirmed, Deliveries
<1>3. Results
  BY DEF Init, Results, NoSpuriousInterrupt, InterruptNeverSucceeds
<1>4. QED
  BY <1>1, <1>2, <1>3 DEF Inv

\* The calls for the restart command keep Inv: only a return with status 0 starts the
\* waiter, and unless the command was cut off the guest does not answer then.
LEMMA CallsInv == Inv /\ Calls => Inv'
<1> SUFFICES ASSUME Inv, Calls PROVE Inv'
  OBVIOUS
<1> USE DEF Inv, TypeOK, PCs, Stages, Channels, Confirmed, Deliveries, Results,
            NoSpuriousInterrupt, InterruptNeverSucceeds, alive, provVars, waiterVars,
            chanVars, timerVars, askVars, Return
<1>1. CASE StartFails
  <2>1. command' \in {command, "running"}
    BY <1>1 DEF StartFails
  <2>2. CASE startExpired
    BY <1>1, <2>1, <2>2 DEF StartFails
  <2>3. CASE ~startExpired
    BY <1>1, <2>1, <2>3 DEF StartFails
  <2>4. QED
    BY <2>2, <2>3
<1>2. CASE StartRestart
  BY <1>2 DEF StartRestart
<1>3. CASE CommandReturns
  <2>1. CASE pc' = "waiting"
    <3>1. /\ waiter' = "select"
          /\ (cutOff' = (command # "done"))
          /\ UNCHANGED <<result, command, err, cancel, waitDone, doneClosed, startExpired,
                         expired, crash, cancels, cancelledIn, guest, stopsWinRM>>
      BY <1>3, <2>1 DEF CommandReturns
    <3>2. cutOff' \in BOOLEAN /\ (~cutOff' => command = "done")
      BY <3>1
    <3>3. QED
      BY <1>3, <2>1, <3>1, <3>2 DEF CommandReturns
  <2>2. CASE pc' # "waiting"
    BY <1>3, <2>2 DEF CommandReturns
  <2>3. QED
    BY <2>1, <2>2
<1>4. QED
  BY <1>1, <1>2, <1>3 DEF Calls

\* What Provision does keeps Inv.
LEMMA ProvisionInv == Inv /\ Provision => Inv'
<1> SUFFICES ASSUME Inv, Provision PROVE Inv'
  OBVIOUS
<1> USE DEF Inv, TypeOK, PCs, Stages, Channels, Confirmed, Deliveries, Results,
            NoSpuriousInterrupt, InterruptNeverSucceeds, alive, provVars, waiterVars,
            chanVars, timerVars, askVars, guestVars, Return, CloseCancelAndReturn
<1>1. CASE Begin
  BY <1>1 DEF Begin, Provision
<1>2. CASE RetrySleep
  BY <1>2 DEF RetrySleep
<1>3. CASE ReceiveDone
  <2>1. waitDone = 1 /\ waitDone' = 0 /\ waiter = "ended" /\ pc = "waiting"
    BY <1>3 DEF ReceiveDone
  <2>2. CASE err # "nil"
    BY <1>3, <2>1, <2>2 DEF ReceiveDone
  <2>3. CASE err = "nil" /\ cancel = "open"
    BY <1>3, <2>1, <2>3 DEF ReceiveDone
  <2>4. CASE err = "nil" /\ cancel # "open"
    BY <1>3, <2>1, <2>4 DEF ReceiveDone
  <2>5. QED
    BY <2>2, <2>3, <2>4
<1>4. CASE TimedOut
  BY <1>4 DEF TimedOut
<1>5. CASE Interrupted
  BY <1>5 DEF Interrupted
<1>6. QED
  BY <1>1, <1>2, <1>3, <1>4, <1>5 DEF Provision

\* What the waiter does keeps Inv.
LEMMA WaiterInv == Inv /\ Waiter => Inv'
<1> SUFFICES ASSUME Inv, Waiter PROVE Inv'
  OBVIOUS
<1> USE DEF Inv, TypeOK, PCs, Stages, Channels, Confirmed, Deliveries, Results,
            NoSpuriousInterrupt, InterruptNeverSucceeds, alive, provVars, waiterVars,
            chanVars, timerVars, askVars, guestVars
<1>1. CASE WaiterCancelled
  BY <1>1 DEF WaiterCancelled
<1>2. CASE Sleep
  BY <1>2 DEF Sleep
<1>3. CASE Wake
  BY <1>3 DEF Wake
<1>4. CASE Check
  BY <1>4 DEF Check, Answers
<1>5. CASE Send
  <2>1. waiter = "sending" /\ waitDone = 0
    BY <1>5 DEF Send
  <2>2. QED
    BY <1>5, <2>1 DEF Send
<1>6. QED
  BY <1>1, <1>2, <1>3, <1>4, <1>5 DEF Waiter

\* Packer's Cancel keeps Inv: it closes p.cancel or ends the process.
LEMMA CancelInv == Inv /\ alive /\ Cancel => Inv'
<1> SUFFICES ASSUME Inv, alive, Cancel PROVE Inv'
  OBVIOUS
<1> USE MaxCancelsAssumption
    DEF Inv, TypeOK, PCs, Stages, Channels, Confirmed, Deliveries, Results,
            NoSpuriousInterrupt, InterruptNeverSucceeds, alive, provVars, waiterVars,
            chanVars, timerVars, askVars, guestVars
<1>1. cancels' \in 0..MaxCancels /\ cancels' # 0
  BY DEF Cancel
<1>2. cancelledIn' = IF cancelledIn = "never" THEN pc ELSE cancelledIn
  BY DEF Cancel
<1>3. CASE cancel = "open"
  BY <1>1, <1>2, <1>3 DEF Cancel
<1>4. CASE cancel = "nil"
  BY <1>1, <1>2, <1>4 DEF Cancel
<1>5. CASE cancel = "closed"
  BY <1>1, <1>2, <1>5 DEF Cancel
<1>6. QED
  BY <1>3, <1>4, <1>5

\* Timers and the guest keep Inv: once the command is done the guest only goes down and
\* comes back.
LEMMA WorldInv == Inv /\ (Timers \/ Guest) => Inv'
<1> SUFFICES ASSUME Inv, Timers \/ Guest PROVE Inv'
  OBVIOUS
<1> USE DEF Inv, TypeOK, PCs, Stages, Channels, Confirmed, Deliveries, Results,
            NoSpuriousInterrupt, InterruptNeverSucceeds, alive, provVars, waiterVars,
            chanVars, timerVars, askVars, guestVars
<1>1. CASE StartExpire
  BY <1>1 DEF StartExpire
<1>2. CASE Expire
  BY <1>2 DEF Expire
<1>3. CASE GuestAccepts
  BY <1>3 DEF GuestAccepts
<1>4. CASE GuestStopsWinRM
  BY <1>4 DEF GuestStopsWinRM
<1>5. CASE GuestGoesDown
  BY <1>5 DEF GuestGoesDown
<1>6. CASE GuestBoots
  BY <1>6 DEF GuestBoots
<1>7. QED
  BY <1>1, <1>2, <1>3, <1>4, <1>5, <1>6 DEF Timers, Guest

LEMMA StutterInv == Inv /\ UNCHANGED vars => Inv'
  BY DEF Inv, TypeOK, PCs, Stages, Channels, Confirmed, Deliveries, Results,
         NoSpuriousInterrupt, InterruptNeverSucceeds, alive, provVars, waiterVars,
         chanVars, timerVars, askVars, guestVars, vars

\* Every reachable state of the provisioner satisfies Inv.
THEOREM Invariance == Spec => []Inv
<1>1. Inv /\ [Next]_vars => Inv'
  BY ProvisionInv, CallsInv, WaiterInv, CancelInv, WorldInv, StutterInv DEF Next
<1>2. QED
  BY InitInv, <1>1, PTL DEF Spec

-----------------------------------------------------------------------------
(* The invariants of RestartProvisioner                                    *)

\* The variables keep their types; waitDone never needs more than its one slot.
THEOREM TypeCorrect == Spec => []TypeOK
<1>1. Inv => TypeOK
  BY DEF Inv
<1>2. QED
  BY Invariance, <1>1, PTL

\* The process panics only if Cancel was called.
THEOREM CrashIsAskedFor == Spec => []NoCrashUnasked
<1>1. Inv => NoCrashUnasked
  BY MaxCancelsAssumption DEF Inv, TypeOK, Channels, NoCrashUnasked
<1>2. QED
  BY Invariance, <1>1, PTL

\* An interrupt or an error of the waiter is returned only after Cancel.
THEOREM InterruptIsAskedFor == Spec => []NoSpuriousInterrupt
<1>1. Inv => NoSpuriousInterrupt
  BY DEF Inv, Results
<1>2. QED
  BY Invariance, <1>1, PTL

\* A provision that is interrupted does not report success, nor a timeout.
THEOREM InterruptedIsNoSuccess == Spec => []InterruptNeverSucceeds
<1>1. Inv => InterruptNeverSucceeds
  BY DEF Inv, Results
<1>2. QED
  BY Invariance, <1>1, PTL

\* Success means that the guest is back from its restart, if the command stops WinRM and
\* was done when its status was reported.
THEOREM SuccessIsRestarted == Spec => []SuccessMeansRestarted
<1>1. Inv => SuccessMeansRestarted
  BY DEF Inv, Stages, Deliveries, SuccessMeansRestarted
<1>2. QED
  BY Invariance, <1>1, PTL


-----------------------------------------------------------------------------
(* The wait for the guest implements BoundedWait                           *)

\* Before Provision, nothing waits; the interrupt has not been asked for.
LEMMA InitImplements == Init => Wait!Init
  BY DEF Init, Wait!Init, waitPhase, waitOutcome

\* Every step is a step of the abstract wait, or one it does not see: a panic ends
\* the process in the middle of the wait.
LEMMA StepImplements == Inv /\ [Next]_vars => [Wait!Next]_(Wait!wvars)
<1> SUFFICES ASSUME Inv, [Next]_vars PROVE [Wait!Next]_(Wait!wvars)
  OBVIOUS
<1> USE DEF Inv, TypeOK, Stages, Channels, Deliveries, waitPhase, waitOutcome,
            provVars, waiterVars, chanVars, timerVars, askVars, guestVars
<1>1. CASE Begin \/ RetrySleep
  BY <1>1 DEF Begin, RetrySleep, Wait!wvars
<1>2. CASE StartFails \/ StartRestart
  BY <1>2 DEF StartFails, StartRestart, Return, Wait!wvars
<1>3. CASE ReceiveDone
  <2>1. pc = "waiting" /\ result = "none" /\ waiter = "ended" /\ waiter' = waiter
        /\ err' = err /\ cancels' = cancels
    BY <1>3 DEF ReceiveDone
  <2>2. CASE err # "nil"
    <3>1. cancels > 0
      BY <2>1, <2>2, MaxCancelsAssumption
    <3>2. pc' = "returned" /\ result' = "waitError"
      BY <1>3, <2>2 DEF ReceiveDone, Return
    <3>3. Wait!End("interrupted")
      BY <2>1, <3>1, <3>2 DEF Wait!End
    <3>4. QED
      BY <3>3 DEF Wait!Next, Wait!Outcomes
  <2>3. CASE err = "nil" /\ cancel = "open"
    <3>1. pc' = "returned" /\ result' = "ok"
      BY <1>3, <2>3 DEF ReceiveDone, CloseCancelAndReturn, Return
    <3>2. Wait!End("ready")
      BY <2>1, <2>3, <3>1 DEF Wait!End
    <3>3. QED
      BY <3>2 DEF Wait!Next, Wait!Outcomes
  <2>4. CASE err = "nil" /\ cancel # "open"
    BY <1>3, <2>1, <2>4 DEF ReceiveDone, CloseCancelAndReturn, Wait!wvars
  <2>5. QED
    BY <2>2, <2>3, <2>4
<1>4. CASE TimedOut
  <2>1. CASE cancel = "open"
    <3>1. Wait!End("timeout")
      BY <1>4, <2>1 DEF TimedOut, CloseCancelAndReturn, Return, Wait!End
    <3>2. QED
      BY <3>1 DEF Wait!Next, Wait!Outcomes
  <2>2. CASE cancel # "open"
    BY <1>4, <2>2 DEF TimedOut, CloseCancelAndReturn, Wait!wvars
  <2>3. QED
    BY <2>1, <2>2
<1>5. CASE Interrupted
  <2>1. cancels > 0
    BY <1>5, MaxCancelsAssumption DEF Interrupted
  <2>2. Wait!End("interrupted")
    BY <1>5, <2>1 DEF Interrupted, Return, Wait!End
  <2>3. QED
    BY <2>2 DEF Wait!Next, Wait!Outcomes
<1>6. CASE WaiterCancelled \/ Sleep \/ Wake \/ Send
  BY <1>6 DEF WaiterCancelled, Sleep, Wake, Send, Wait!wvars
<1>7. CASE Check
  <2>1. CASE waiter' = "sending" /\ err = "nil"
    <3>1. waiter = "checking" /\ UNCHANGED <<pc, result, err, cancels>>
      BY <1>7 DEF Check
    <3>2. waitPhase # "idle"
      BY <3>1 DEF PCs
    <3>3. UNCHANGED <<waitPhase, waitOutcome>>
      BY <3>1
    <3>4. Wait!Answer
      BY <2>1, <3>1, <3>2, <3>3 DEF Wait!Answer
    <3>5. QED
      BY <3>4 DEF Wait!Next
  <2>2. CASE ~(waiter' = "sending" /\ err = "nil")
    BY <1>7, <2>2 DEF Check, Wait!wvars
  <2>3. QED
    BY <2>1, <2>2
<1>8. CASE Cancel
  <2>1. /\ cancels' = cancels + 1
        /\ UNCHANGED <<pc, result, waiter, err>>
    BY <1>8 DEF Cancel
  <2>2. CASE cancels = 0
    <3>1. Wait!Ask
      BY <2>1, <2>2 DEF Wait!Ask
    <3>2. QED
      BY <3>1 DEF Wait!Next
  <2>3. CASE cancels # 0
    BY <2>1, <2>3, MaxCancelsAssumption DEF Wait!wvars
  <2>4. QED
    BY <2>2, <2>3
<1>9. CASE Timers \/ Guest
  BY <1>9 DEF Timers, Guest, StartExpire, Expire, GuestAccepts, GuestStopsWinRM,
              GuestGoesDown, GuestBoots, Wait!wvars
<1>10. CASE UNCHANGED vars
  BY <1>10 DEF vars, Wait!wvars
<1>11. CASE CommandReturns
  <2>1. CASE pc' = "waiting"
    <3>1. Wait!Begin
      BY <1>11, <2>1 DEF CommandReturns, Wait!Begin
    <3>2. QED
      BY <3>1 DEF Wait!Next
  <2>2. CASE pc' # "waiting"
    BY <1>11, <2>2 DEF CommandReturns, Return, Wait!wvars
  <2>3. QED
    BY <2>1, <2>2
<1>12. QED
  BY <1>1, <1>2, <1>3, <1>4, <1>5, <1>6, <1>7, <1>8, <1>9, <1>10,
     <1>11 DEF Next, Provision, Calls, Waiter

\* Every behaviour of the provisioner is a behaviour of the abstract wait.
THEOREM Implements == Spec => ImplementsWait
  BY Invariance, InitImplements, StepImplements, PTL
     DEF Spec, ImplementsWait, Wait!SafeSpec

=============================================================================
