------------------------- MODULE WinRMConnectProofs -------------------------
(***************************************************************************)
(* Proofs about WinRMConnect: its type invariant, the safety invariants    *)
(* that the run MCWinRMConnect checks, and that Run and its waiter         *)
(* implement BoundedWait.                                                  *)
(*                                                                         *)
(* The invariants are not inductive as they stand: that ReceiveDone never  *)
(* meets an error, and so never halts unexplained, depends on who has      *)
(* closed `cancel` and on where the waiter is.  Inv says how these hang    *)
(* together; the rest follows from it.                                     *)
(***************************************************************************)
EXTENDS WinRMConnect, TLAPS

\* Run's three stages, as the bag and the channel `cancel` show them.
RunStages ==
  /\ (pc = "idle") <=> (waiter = "none")
  /\ (pc = "returned") <=> (action # "none")
  /\ pc # "returned" =>
       cancelOpen /\ "error" \notin bag /\ "communicator" \notin bag

\* What the goroutine of the waiter has written, by where it is.
WaiterStages ==
  /\ err = "cancelled" => ~cancelOpen /\ ~comm
  /\ comm \/ err = "cancelled" <=> waiter \in {"sending", "ended"}
  /\ waitDone = 1 => waiter = "ended"

\* What Run has returned, and what that says of the waiter.
Outcomes ==
  /\ action = "continue" =>
       /\ comm /\ err = "nil" /\ waiter = "ended"
       /\ "communicator" \in bag /\ "error" \notin bag
  /\ action = "halt" =>
       /\ ~cancelOpen
       /\ "error" \in bag \/ "cancelled" \in bag
       /\ "communicator" \notin bag

\* A query that ends after Run has returned leads the waiter back to its select
\* or on to the connection, and past a closed `cancel` it does not query again.
LateQueries ==
  /\ late \in {0, 1}
  /\ action # "halt" => late = 0
  /\ late = 1 => waiter \notin {"sleeping", "addressing"}

\* The inductive invariant.
Inv == TypeOK /\ RunStages /\ WaiterStages /\ Outcomes /\ LateQueries

-----------------------------------------------------------------------------
(* Inv is inductive                                                        *)

\* The step starts with its channels made, nothing known and nobody running.
LEMMA InitInv == Init => Inv
<1> SUFFICES ASSUME Init PROVE Inv
  OBVIOUS
<1>1. TypeOK
  <2>1. bag \in SUBSET Entries
    BY DEF Init, Entries
  <2>2. comm \in BOOLEAN /\ cancelOpen \in BOOLEAN /\ expired \in BOOLEAN
    BY DEF Init
  <2>3. QED
    BY <2>1, <2>2 DEF Init, TypeOK
<1>2. RunStages
  <2>1. "error" \notin bag /\ "communicator" \notin bag
    BY DEF Init
  <2>2. QED
    BY <2>1 DEF Init, RunStages
<1>3. WaiterStages /\ Outcomes /\ LateQueries
  BY DEF Init, WaiterStages, Outcomes, LateQueries
<1>4. QED
  BY <1>1, <1>2, <1>3 DEF Inv

\* What Run does keeps Inv: each way to return leaves the bag and `cancel` as the
\* result says.
LEMMA RunInv == Inv /\ Run => Inv'
<1> SUFFICES ASSUME Inv, Run PROVE Inv'
  OBVIOUS
<1> USE DEF Inv, TypeOK, Entries, RunStages, WaiterStages, Outcomes, LateQueries,
            runVars, waiterVars, Return
<1>1. CASE Begin
  BY <1>1 DEF Begin
<1>2. CASE ReceiveDone
  <2>1. err = "nil" /\ comm /\ waiter = "ended"
    BY <1>2 DEF ReceiveDone
  <2>2. /\ waitDone' = 0 /\ pc' = "returned" /\ action' = "continue"
        /\ bag' = bag \cup {"communicator"}
    BY <1>2, <2>1 DEF ReceiveDone
  <2>3. UNCHANGED <<waiter, comm, err, late, cancelOpen, expired>>
    BY <1>2 DEF ReceiveDone
  <2>4. TypeOK'
    BY <2>2, <2>3
  <2>5. RunStages'
    BY <2>1, <2>2, <2>3
  <2>6. WaiterStages'
    BY <2>1, <2>2, <2>3
  <2>7. Outcomes'
    BY <1>2, <2>1, <2>2, <2>3 DEF ReceiveDone
  <2>8. LateQueries'
    BY <1>2, <2>1, <2>2, <2>3 DEF ReceiveDone
  <2>9. QED
    BY <2>4, <2>5, <2>6, <2>7, <2>8
<1>3. CASE TimedOut
  BY <1>3 DEF TimedOut
<1>4. CASE PollCancelled
  BY <1>4 DEF PollCancelled
<1>5. QED
  BY <1>1, <1>2, <1>3, <1>4 DEF Run

\* What the waiter does keeps Inv, before and after Run has returned.
LEMMA WaiterInv == Inv /\ Waiter => Inv'
<1> SUFFICES ASSUME Inv, Waiter PROVE Inv'
  OBVIOUS
<1> USE DEF Inv, TypeOK, Entries, RunStages, WaiterStages, Outcomes, LateQueries,
            runVars, waiterFrame
<1>1. CASE WaiterCancelled
  BY <1>1 DEF WaiterCancelled
<1>2. CASE Sleep
  BY <1>2 DEF Sleep
<1>3. CASE Wake
  BY <1>3 DEF Wake
<1>4. CASE QueryAddress
  <2>1. late' \in {0, 1} /\ (late' = 1 => pc = "returned" /\ action = "halt")
    BY <1>4 DEF QueryAddress
  <2>2. bag' \in SUBSET Entries
        /\ \A e \in {"error", "communicator", "cancelled"} : e \in bag' <=> e \in bag
    BY <1>4 DEF QueryAddress, AddressPuts
  <2>3. waiter' \in {"select", "connecting"}
        /\ UNCHANGED <<pc, action, cancelOpen, expired, comm, err, waitDone>>
    BY <1>4 DEF QueryAddress
  <2>4. TypeOK'
    BY <2>1, <2>2, <2>3
  <2>5. RunStages' /\ WaiterStages'
    BY <1>4, <2>2, <2>3 DEF QueryAddress
  <2>6. Outcomes'
    BY <1>4, <2>2, <2>3 DEF QueryAddress
  <2>7. LateQueries'
    BY <1>4, <2>1, <2>3 DEF QueryAddress
  <2>8. QED
    BY <2>4, <2>5, <2>6, <2>7
<1>5. CASE Connect
  <2>1. CASE comm' = comm /\ waiter' = "select"
    BY <1>5, <2>1 DEF Connect
  <2>2. CASE comm' = TRUE /\ waiter' = "sending"
    <3>1. err # "cancelled" /\ action # "continue" /\ waitDone # 1
      BY <1>5 DEF Connect
    <3>2. QED
      BY <1>5, <2>2, <3>1 DEF Connect
  <2>3. QED
    BY <1>5, <2>1, <2>2 DEF Connect
<1>6. CASE Send
  BY <1>6 DEF Send
<1>7. QED
  BY <1>1, <1>2, <1>3, <1>4, <1>5, <1>6 DEF Waiter

\* Neither the timer nor an interrupt breaks Inv at any moment.
LEMMA EnvironmentInv == Inv /\ (Expire \/ Interrupt) => Inv'
<1> SUFFICES ASSUME Inv, Expire \/ Interrupt PROVE Inv'
  OBVIOUS
<1> USE DEF Inv, TypeOK, Entries, RunStages, WaiterStages, Outcomes, LateQueries,
            runVars, waiterVars
<1>1. CASE Expire
  BY <1>1 DEF Expire
<1>2. CASE Interrupt
  BY <1>2 DEF Interrupt
<1>3. QED
  BY <1>1, <1>2

LEMMA StutterInv == Inv /\ UNCHANGED vars => Inv'
  BY DEF Inv, TypeOK, Entries, RunStages, WaiterStages, Outcomes, LateQueries, vars

\* Every reachable state of the step satisfies Inv.
THEOREM Invariance == Spec => []Inv
<1>1. Inv /\ [Next]_vars => Inv'
  BY RunInv, WaiterInv, EnvironmentInv, StutterInv DEF Next
<1>2. QED
  BY InitInv, <1>1, PTL DEF Spec

-----------------------------------------------------------------------------
(* The safety invariants of WinRMConnect                                   *)

\* The variables of the step keep their types: in particular waitDone never holds
\* more than the one value its channel has room for.
THEOREM TypeCorrect == Spec => []TypeOK
<1>1. Inv => TypeOK
  BY DEF Inv
<1>2. QED
  BY Invariance, <1>1, PTL

\* Whenever Run halts, "error" or "cancelled" is in the bag.
THEOREM HaltIsExplained == Spec => []HaltExplained
<1>1. Inv => HaltExplained
  BY DEF Inv, Outcomes, HaltExplained
<1>2. QED
  BY Invariance, <1>1, PTL

\* Run continues exactly when it has put a communicator the waiter connected.
THEOREM ContinueIsConnected == Spec => []ContinueConnected
<1>1. Inv => ContinueConnected
  BY DEF Inv, TypeOK, RunStages, Outcomes, ContinueConnected
<1>2. QED
  BY Invariance, <1>1, PTL

\* A waiter left behind writes to the bag at most once more.
THEOREM AtMostOneLateQuery == Spec => []OneLateQuery
<1>1. Inv => OneLateQuery
  BY DEF Inv, LateQueries, OneLateQuery
<1>2. QED
  BY Invariance, <1>1, PTL

-----------------------------------------------------------------------------
(* WinRMConnect implements BoundedWait                                     *)

\* The step starts as a wait that has not begun.
LEMMA InitImplements == Init => Wait!Init
  BY DEF Init, Wait!Init, waitPhase, waitOutcome

\* Every step of the goroutines and of the environment is a step of the abstract
\* wait, or one it does not see.
LEMMA StepImplements == Inv /\ [Next]_vars => [Wait!Next]_(Wait!wvars)
<1> SUFFICES ASSUME Inv, [Next]_vars PROVE [Wait!Next]_(Wait!wvars)
  OBVIOUS
<1> USE DEF Inv, TypeOK, RunStages, WaiterStages, Outcomes, waitPhase, waitOutcome
<1>1. CASE Begin
  <2>1. Wait!Begin
    BY <1>1 DEF Begin, Wait!Begin
  <2>2. QED
    BY <2>1 DEF Wait!Next
<1>2. CASE ReceiveDone
  <2>1. err = "nil" /\ comm
    BY <1>2 DEF ReceiveDone
  <2>2. Wait!End("ready")
    BY <1>2, <2>1 DEF ReceiveDone, Return, waiterVars, Wait!End
  <2>3. QED
    BY <2>2 DEF Wait!Next, Wait!Outcomes
<1>3. CASE TimedOut
  <2>1. Wait!End("timeout")
    BY <1>3 DEF TimedOut, Return, waiterVars, Wait!End
  <2>2. QED
    BY <2>1 DEF Wait!Next, Wait!Outcomes
<1>4. CASE PollCancelled
  <2>1. Wait!End("interrupted")
    BY <1>4 DEF PollCancelled, Return, waiterVars, Wait!End
  <2>2. QED
    BY <2>1 DEF Wait!Next, Wait!Outcomes
<1>5. CASE WaiterCancelled \/ Sleep \/ Wake \/ Send \/ Expire
  BY <1>5 DEF WaiterCancelled, Sleep, Wake, Send, Expire, waiterFrame, runVars,
              waiterVars, Wait!wvars
<1>6. CASE QueryAddress
  <2>1. \A e \in {"error", "cancelled"} : e \in bag' <=> e \in bag
    BY <1>6 DEF QueryAddress, AddressPuts
  <2>2. QED
    BY <1>6, <2>1 DEF QueryAddress, waiterFrame, runVars, Wait!wvars
<1>7. CASE Connect
  <2>1. CASE comm' = comm
    BY <1>7, <2>1 DEF Connect, waiterFrame, runVars, Wait!wvars
  <2>2. CASE comm' # comm
    <3>1. Wait!Answer
      BY <1>7, <2>2 DEF Connect, waiterFrame, runVars, Wait!Answer
    <3>2. QED
      BY <3>1 DEF Wait!Next
  <2>3. QED
    BY <2>1, <2>2
<1>8. CASE Interrupt
  <2>1. Wait!Ask
    BY <1>8 DEF Interrupt, runVars, waiterVars, Wait!Ask
  <2>2. QED
    BY <2>1 DEF Wait!Next
<1>9. CASE UNCHANGED vars
  BY <1>9 DEF vars, Wait!wvars
<1>10. QED
  BY <1>1, <1>2, <1>3, <1>4, <1>5, <1>6, <1>7, <1>8, <1>9 DEF Next, Run, Waiter

\* Every behaviour of the step is a behaviour of the abstract wait.
THEOREM Implements == Spec => ImplementsWait
  BY Invariance, InitImplements, StepImplements, PTL
     DEF Spec, ImplementsWait, Wait!SafeSpec

=============================================================================
