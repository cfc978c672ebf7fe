------------------------- MODULE WaitForStateProofs -------------------------
(***************************************************************************)
(* Proofs about WaitForState, for every set of states and every timeout:   *)
(* the resource is given up as missing neither before the timeout nor more *)
(* than four seconds after it, and an interrupt is seen by the next poll   *)
(* that finds the resource.                                                *)
(*                                                                         *)
(* The code counts polls and not seconds.  Inv ties the count to the time  *)
(* since the resource was last found: a poll before the first sleep makes  *)
(* the count one ahead, a sighting makes it one behind.                    *)
(***************************************************************************)
EXTENDS WaitForState, TLAPS

\* The division that turns the timeout into a number of polls rounds down.
LEMMA Rounding ==
  /\ maxTicks \in Nat \ {0}
  /\ TimeoutSeconds < 2 * maxTicks
  /\ 2 * maxTicks <= TimeoutSeconds + 2
<1>1. TimeoutSeconds \in Nat
  BY TimeoutAssumption
<1>2. /\ TimeoutSeconds \div 2 \in Nat
      /\ 2 * (TimeoutSeconds \div 2) <= TimeoutSeconds
      /\ TimeoutSeconds <= 2 * (TimeoutSeconds \div 2) + 1
  BY <1>1
<1>3. QED
  BY <1>1, <1>2 DEF maxTicks, sleepSeconds

-----------------------------------------------------------------------------
(* The inductive invariant                                                 *)

\* The types of the variables that count, with the bounds Missing gives them.
Types ==
  /\ pc \in {"refresh", "sleep", "returned"}
  /\ result \in {"none"} \cup Results
  /\ (pc = "returned") <=> (result # "none")
  /\ notfoundTick \in Nat
  /\ resource \in States
  /\ cancelled \in BOOLEAN
  /\ unseen \in Nat
  /\ waited \in 0..WaitCap
  /\ lateFinds \in 0..LateCap

\* The seconds the resource has not been seen, by the number of polls that missed it.
Missing ==
  /\ notfoundTick <= maxTicks + 1
  /\ unseen <= 2 * maxTicks + 2
  /\ pc = "refresh" => /\ notfoundTick <= maxTicks
                       /\ unseen = 2 * notfoundTick \/ unseen = 2 * notfoundTick + 2
  /\ pc = "sleep"   => /\ notfoundTick <= maxTicks
                       /\ unseen = 2 * notfoundTick \/ unseen = 2 * notfoundTick - 2
  /\ result = "couldntFind" => unseen = 2 * maxTicks \/ unseen = 2 * maxTicks + 2

\* A sighting after the interrupt is the last one.
LateSightings ==
  HasStepState => /\ pc # "returned" => lateFinds = 0
                  /\ lateFinds \in {0, 1}

Inv == Types /\ Missing /\ LateSightings

LEMMA Bounds == WaitCap \in Nat /\ LateCap = 2 /\ sleepSeconds = 2
  BY TimeoutAssumption DEF WaitCap, LateCap, sleepSeconds

LEMMA InitInv == Init => Inv
  BY Rounding, Bounds, StatesAssumption
     DEF Init, Inv, Types, Missing, LateSightings

\* A poll that finds nothing, or fails, moves the count and not the seconds.
LEMMA MissInv == Inv /\ (RefreshFails \/ NotFound) => Inv'
<1> SUFFICES ASSUME Inv, RefreshFails \/ NotFound PROVE Inv'
  OBVIOUS
<1> USE Rounding, Bounds DEF Inv, Types, Missing, LateSightings, Return, Results, world
<1>1. CASE RefreshFails
  BY <1>1 DEF RefreshFails
<1>2. CASE NotFound
  <2>1. CASE notfoundTick + 1 > maxTicks
    BY <1>2, <2>1 DEF NotFound
  <2>2. CASE ~(notfoundTick + 1 > maxTicks)
    BY <1>2, <2>2 DEF NotFound
  <2>3. QED
    BY <2>1, <2>2
<1>3. QED
  BY <1>1, <1>2

\* A poll that finds the resource clears both, and returns if it sees an interrupt.
LEMMA FoundInv == Inv /\ Found => Inv'
<1> SUFFICES ASSUME Inv, Found PROVE Inv'
  OBVIOUS
<1> USE Rounding, Bounds DEF Inv, Types, Missing, LateSightings, Return, Results, world
<1>1. \/ pc' = "returned" /\ result' \in {"target", "interrupted", "unexpected"}
      \/ pc' = "sleep" /\ result' = result /\ ~Interrupts
  BY DEF Found
<1>2. /\ pc = "refresh" /\ notfoundTick' = 0 /\ unseen' = 0
      /\ lateFinds' = IF cancelled /\ lateFinds < LateCap THEN lateFinds + 1 ELSE lateFinds
      /\ UNCHANGED <<resource, cancelled, waited>>
  BY DEF Found
<1>3. Types'
  BY <1>1, <1>2
<1>4. Missing'
  BY <1>1, <1>2
<1>5. LateSightings'
  BY <1>1, <1>2 DEF Interrupts
<1>6. QED
  BY <1>3, <1>4, <1>5

\* Two seconds pass, or the world moves.
LEMMA OtherInv == Inv /\ (Sleep \/ ResourceMoves \/ Interrupt) => Inv'
<1> SUFFICES ASSUME Inv, Sleep \/ ResourceMoves \/ Interrupt PROVE Inv'
  OBVIOUS
<1> USE Rounding, Bounds DEF Inv, Types, Missing, LateSightings, Results, world
<1>1. CASE Sleep
  <2>1. waited' \in 0..WaitCap
    BY <1>1 DEF Sleep
  <2>2. /\ pc = "sleep" /\ pc' = "refresh" /\ unseen' = unseen + 2
        /\ UNCHANGED <<result, notfoundTick, resource, cancelled, lateFinds>>
    BY <1>1 DEF Sleep
  <2>3. QED
    BY <2>1, <2>2
<1>2. CASE ResourceMoves
  <2>1. resource' \in States
    BY <1>2, StatesAssumption DEF ResourceMoves
  <2>2. QED
    BY <1>2, <2>1 DEF ResourceMoves
<1>3. CASE Interrupt
  BY <1>3 DEF Interrupt
<1>4. QED
  BY <1>1, <1>2, <1>3

LEMMA StutterInv == Inv /\ UNCHANGED vars => Inv'
  BY DEF Inv, Types, Missing, LateSightings, vars

\* Every reachable state of the wait satisfies Inv.
THEOREM Invariance == Spec => []Inv
<1>1. Inv /\ [Next]_vars => Inv'
  BY MissInv, FoundInv, OtherInv, StutterInv DEF Next, Poll
<1>2. QED
  BY InitInv, <1>1, PTL DEF Spec

-----------------------------------------------------------------------------
(* The invariants of WaitForState                                          *)

\* The counters stay within the bounds the timeout sets.
THEOREM TypeCorrect == Spec => []TypeOK
<1>1. Inv => TypeOK
  BY Rounding, Bounds DEF Inv, Types, Missing, TypeOK
<1>2. QED
  BY Invariance, <1>1, PTL

\* A missing resource is given up no earlier than the timeout and no later than four
\* seconds after it, for every timeout.
THEOREM MissingIsForTimeout == Spec => []MissingForTimeout
<1>1. Inv => MissingForTimeout
  BY Rounding, Bounds, TimeoutAssumption DEF Inv, Types, Missing, MissingForTimeout
<1>2. QED
  BY Invariance, <1>1, PTL

\* At most one poll finds the resource after an interrupt, whatever states it has.
THEOREM InterruptIsPrompt == Spec => []PromptInterrupt
<1>1. Inv => PromptInterrupt
  BY DEF Inv, LateSightings, PromptInterrupt
<1>2. QED
  BY Invariance, <1>1, PTL

=============================================================================
