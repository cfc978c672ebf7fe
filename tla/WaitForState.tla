---------------------------- MODULE WaitForState ----------------------------
(***************************************************************************)
(* builder/amazon-windows/common/state.go: poll an EC2 resource every two  *)
(* seconds until it is in the target state.                                *)
(*                                                                         *)
(* EC2 is eventually consistent: a resource that exists may not be found,  *)
(* and a transient network error is treated as not found too.  The code    *)
(* bounds how long a resource may stay missing; everything else is up to   *)
(* the resource and to the "cancelled" entry of the state bag.             *)
(***************************************************************************)
EXTENDS Naturals

CONSTANTS
  States,          \* the states of the resource
  Pending,         \* StateChangeConf.Pending
  Target,          \* StateChangeConf.Target
  Successors,      \* the state a resource may move to, for each state
  HasStepState,    \* StateChangeConf.StepState is set
  TimeoutSeconds   \* the value of AWS_TIMEOUT_SECONDS, or 300

ASSUME StatesAssumption ==
  /\ Pending \subseteq States
  /\ Target \in States
  /\ Successors \in [States -> SUBSET States]
  /\ HasStepState \in BOOLEAN
ASSUME TimeoutAssumption == TimeoutSeconds \in Nat

sleepSeconds == 2

\* maxTicks := int(TimeoutSeconds()/sleepSeconds) + 1
maxTicks == TimeoutSeconds \div sleepSeconds + 1

\* Where counting `waited` stops: a bound of the model, more than twice the timeout.
WaitCap == 2 * TimeoutSeconds + 2 * sleepSeconds

\* Where counting `lateFinds` stops: a bound of the model, beyond what is allowed.
LateCap == 2

VARIABLES
  pc,            \* "refresh", "sleep" or "returned"
  result,        \* what WaitForState returned
  notfoundTick,
  resource,      \* the state of the resource in EC2
  cancelled,     \* the bag has "cancelled"
  unseen,        \* seconds slept since the resource was last found, or since the start
  waited,        \* seconds slept in all, counted up to WaitCap
  lateFinds      \* polls after `cancelled` that found the resource, up to LateCap

vars == <<pc, result, notfoundTick, resource, cancelled, unseen, waited, lateFinds>>
world == <<resource, cancelled>>

Results == {"target", "refreshError", "couldntFind", "interrupted", "unexpected"}

TypeOK ==
  /\ pc \in {"refresh", "sleep", "returned"}
  /\ result \in {"none"} \cup Results
  /\ notfoundTick \in 0..(maxTicks + 1)
  /\ resource \in States
  /\ cancelled \in BOOLEAN
  /\ unseen \in 0..(sleepSeconds * (maxTicks + 1))
  /\ waited \in 0..WaitCap
  /\ lateFinds \in 0..LateCap

Init ==
  /\ pc = "refresh"
  /\ result = "none"
  /\ notfoundTick = 0
  /\ resource \in Pending
  /\ cancelled \in BOOLEAN
  /\ unseen = 0
  /\ waited = 0
  /\ lateFinds = 0

Return(r) == pc' = "returned" /\ result' = r

\* Refresh returns an error that is neither "not found" nor a transient one.
RefreshFails ==
  /\ pc = "refresh"
  /\ Return("refreshError")
  /\ UNCHANGED <<notfoundTick, world, unseen, waited, lateFinds>>

\* Slip: the count is compared before it is incremented.
SlipComparesFirst ==
  /\ pc = "refresh"
  /\ notfoundTick' = notfoundTick + 1
  /\ IF notfoundTick > maxTicks
       THEN Return("couldntFind")
       ELSE pc' = "sleep" /\ UNCHANGED result
  /\ UNCHANGED <<world, unseen, waited, lateFinds>>

\* Refresh returns nothing: the resource is missing, or the network was down.
NotFound ==
  /\ pc = "refresh"
  /\ notfoundTick' = notfoundTick + 1
  /\ IF notfoundTick' > maxTicks
       THEN Return("couldntFind")
       ELSE pc' = "sleep" /\ UNCHANGED result
  /\ UNCHANGED <<world, unseen, waited, lateFinds>>

Interrupts == HasStepState /\ cancelled

\* Slip: misses add up over the whole wait.
SlipKeepsCount ==
  /\ pc = "refresh"
  /\ unseen' = 0
  /\ lateFinds' = IF cancelled /\ lateFinds < LateCap THEN lateFinds + 1 ELSE lateFinds
  /\ CASE resource = Target -> Return("target")
       [] resource # Target /\ Interrupts -> Return("interrupted")
       [] OTHER -> pc' = "sleep" /\ UNCHANGED result
  /\ UNCHANGED <<notfoundTick, world, waited>>

\* Slip: the interrupt is looked for only in a state that is not pending.
SlipPendingFirst ==
  /\ pc = "refresh"
  /\ notfoundTick' = 0
  /\ unseen' = 0
  /\ lateFinds' = IF cancelled /\ lateFinds < LateCap THEN lateFinds + 1 ELSE lateFinds
  /\ CASE resource = Target -> Return("target")
       [] resource \in Pending -> pc' = "sleep" /\ UNCHANGED result
       [] OTHER -> Return("unexpected")
  /\ UNCHANGED <<world, waited>>

\* Refresh returns the resource: the target is looked for first, then the
\* interrupt, then a state nobody expected.
Found ==
  /\ pc = "refresh"
  /\ notfoundTick' = 0
  /\ unseen' = 0
  /\ lateFinds' = IF cancelled /\ lateFinds < LateCap THEN lateFinds + 1 ELSE lateFinds
  /\ CASE resource = Target -> Return("target")
       [] resource # Target /\ Interrupts -> Return("interrupted")
       [] resource # Target /\ ~Interrupts /\ resource \notin Pending ->
            Return("unexpected")
       [] OTHER -> pc' = "sleep" /\ UNCHANGED result
  /\ UNCHANGED <<world, waited>>

Sleep ==
  /\ pc = "sleep"
  /\ pc' = "refresh"
  /\ unseen' = unseen + sleepSeconds
  /\ waited' = IF waited + sleepSeconds > WaitCap THEN waited ELSE waited + sleepSeconds
  /\ UNCHANGED <<result, notfoundTick, world, lateFinds>>

ResourceMoves ==
  /\ resource' \in Successors[resource] \ {resource}
  /\ UNCHANGED <<pc, result, notfoundTick, cancelled, unseen, waited, lateFinds>>

Interrupt ==
  /\ ~cancelled
  /\ cancelled' = TRUE
  /\ UNCHANGED <<pc, result, notfoundTick, resource, unseen, waited, lateFinds>>

Poll == RefreshFails \/ NotFound \/ Found

Next == Poll \/ Sleep \/ ResourceMoves \/ Interrupt

\* The loop runs on; whether a poll finds the resource is up to EC2.
Spec == Init /\ [][Next]_vars /\ WF_vars(Poll) /\ WF_vars(Sleep)

-----------------------------------------------------------------------------
(* Properties                                                              *)

\* "couldn't find resource" is returned after the timeout, and within four seconds
\* of it, counted from the last time the resource was found: sightings in between reset
\* the count, however often EC2 loses the resource.
MissingForTimeout ==
  result = "couldntFind" =>
    /\ unseen >= TimeoutSeconds
    /\ unseen <= TimeoutSeconds + 2 * sleepSeconds

\* After an interrupt at most one more poll finds the resource: that poll returns.
PromptInterrupt == HasStepState => lateFinds <= 1

\* The wait ends if it is interrupted, however EC2 mixes sightings and misses and
\* even if the resource stays pending for ever.
InterruptEnds == cancelled /\ HasStepState ~> pc = "returned"

\* "Allowing %ds to complete", the log says, and the comment of TimeoutSeconds that
\* an operation is allowed 300 seconds by default: no wait is longer than the
\* timeout, give or take the two sleeps that rounding adds to it.
WithinTimeout == waited <= TimeoutSeconds + 2 * sleepSeconds

=============================================================================
