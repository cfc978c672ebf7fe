--------------------------- MODULE StepRunnerProofs ---------------------------
(***************************************************************************)
(* Lemmas about StepRunner for the proofs about the builders.              *)
(*                                                                         *)
(* A builder's step is one of the runner's, or leaves the runner alone.    *)
(* Acts says what they have in common: where the runner may go, and what   *)
(* may be put in the bag, whose entries are `entries`.  Sound is what that *)
(* keeps: the runner is in its list, and the bag says why it turned back.  *)
(***************************************************************************)
EXTENDS StepRunner, TLAPS

Placed ==
  /\ mode = "idle" => at = 1
  /\ mode = "next" => at >= 1
  /\ mode = "run" => at \in 1..last
  /\ mode = "clean" => at <= last
  /\ mode = "ended" => at = 0

Reasons ==
  /\ "cancelled" \in bag => asked
  /\ "halted" \in bag => "error" \in bag
  /\ mode \in {"idle", "next", "run"} => "halted" \notin bag

Sound(entries) == RunnerTypeOK(entries) /\ Placed /\ Reasons

Moves ==
  \/ UNCHANGED <<mode, at>>
  \/ mode = "idle" /\ mode' = "next" /\ at' = at
  \/ mode = "next" /\ mode' = "run" /\ at' = at /\ at <= last /\ ~asked
  \/ mode = "next" /\ mode' = "clean" /\ at' = at - 1
  \/ mode = "run" /\ mode' = "next" /\ at' = at + 1
  \/ mode = "run" /\ mode' = "clean" /\ at' = at
  \/ mode = "clean" /\ mode' = "clean" /\ at > 0 /\ at' = at - 1
  \/ mode = "clean" /\ mode' = "ended" /\ at = 0 /\ at' = 0

Notes(entries) ==
  /\ bag' \in SUBSET entries /\ bag \subseteq bag'
  /\ "cancelled" \in bag' => "cancelled" \in bag \/ asked
  /\ "halted" \in bag' /\ "halted" \notin bag
       => mode = "run" /\ mode' = "clean" /\ "error" \in bag'
  /\ mode \in {"next", "run"} /\ mode' = "clean"
       => at > last \/ bag' \cap {"cancelled", "halted"} # {}

Acts(entries) ==
  /\ last' = last /\ asked' \in BOOLEAN /\ (asked => asked')
  /\ asked' = asked \/ UNCHANGED <<mode, at, bag>>
  /\ Moves /\ Notes(entries)

\* The runner is past step n, which has returned, or has entered it; ...
Past(n)    == mode \in {"next", "run"} => at > n
Entered(n) == (mode = "next" => at > n) /\ (mode = "run" => at >= n) /\ mode # "idle"
\* ... it has passed step n on its way back; ...
Undone(n)  == mode \in {"clean", "ended"} /\ at < n
\* ... Cleanup of step n returns.
Passes(n)  == mode = "clean" /\ at = n /\ at' # at
\* Run of step n has continued, and the build has not been given up since; ...
Done(n)    == \/ mode \in {"next", "run"} /\ at > n
              \/ mode \in {"clean", "ended"} /\ bag \cap {"cancelled", "halted"} = {}
\* ... Run of step n continues.
Passing(n) == mode = "run" /\ mode' = "next" /\ at = n


LEMMA InitSound ==
  ASSUME NEW entries, NEW n \in Nat \ {0}, RunnerInit(n)
  PROVE  Sound(entries)
<1>1. RunnerTypeOK(entries)
  <2>1. asked \in BOOLEAN
    BY DEF RunnerInit
  <2>2. QED
    BY <2>1 DEF RunnerInit, RunnerTypeOK, Modes
<1>2. QED
  BY <1>1 DEF RunnerInit, Sound, Placed, Reasons

LEMMA ActsSound ==
  ASSUME NEW entries, Sound(entries), Acts(entries)
  PROVE  Sound(entries)'
<1>1. last \in Nat /\ at \in 0..(last + 1) /\ mode \in Modes /\ last' = last
  BY DEF Sound, RunnerTypeOK, Acts
<1>2. mode' \in Modes /\ at' \in 0..(last + 1) /\ Placed'
  BY <1>1 DEF Sound, Placed, Acts, Moves, Modes
<1>3. Reasons'
  BY DEF Sound, Reasons, Acts, Moves, Notes
<1>4. QED
  BY <1>1, <1>2, <1>3 DEF Sound, RunnerTypeOK, Acts, Notes

\* A Run that returns: if it halts, it says why.
LEMMA ReturnActs ==
  ASSUME NEW all, {"halted", "error"} \subseteq all, Sound(all),
         NEW ret, NEW entries \in SUBSET {"error"}, StepReturns(ret, entries),
         ret = "halt" => "error" \in entries \/ "cancelled" \in bag
  PROVE  /\ Acts(all) /\ asked' = asked
         /\ mode = "run" /\ mode' \in {"next", "clean"} /\ (ret = "halt" => mode' = "clean")
         /\ bag \cup entries \subseteq bag' /\ bag' \subseteq bag \cup entries \cup {"halted"}
<1>1. bag \subseteq all /\ asked \in BOOLEAN
  BY DEF Sound, RunnerTypeOK
<1>2. /\ Moves /\ last' = last /\ asked' = asked /\ mode = "run" /\ mode' \in {"next", "clean"}
      /\ ret = "halt" => mode' = "clean"
  BY DEF StepReturns, Moves
<1>3. bag' = bag \cup entries \/ bag' = bag \cup entries \cup {"halted"}
  BY DEF StepReturns
<1>4. "halted" \in bag' /\ "halted" \notin bag => mode' = "clean" /\ "error" \in bag'
  BY DEF StepReturns
<1>5. mode' = "clean" => "cancelled" \in bag' \/ "halted" \in bag'
  BY DEF StepReturns
<1>6. QED
  BY <1>1, <1>2, <1>3, <1>4, <1>5 DEF Acts, Notes

LEMMA ContinueActs ==
  ASSUME NEW all, {"halted", "error"} \subseteq all, Sound(all), Continue
  PROVE  /\ Acts(all) /\ asked' = asked /\ bag' \subseteq bag \cup {"halted"}
         /\ mode = "run" /\ mode' \in {"next", "clean"}
BY ReturnActs DEF Continue

LEMMA FailActs ==
  ASSUME NEW all, {"halted", "error"} \subseteq all, Sound(all), Fail
  PROVE  /\ Acts(all) /\ asked' = asked /\ bag' \subseteq bag \cup {"halted", "error"}
         /\ mode = "run" /\ mode' = "clean" /\ "error" \in bag'
BY ReturnActs DEF Fail

\* A Run that finds the build cancelled.
LEMMA HaltActs ==
  ASSUME NEW all, {"halted", "error"} \subseteq all, Sound(all), StepReturns("halt", {}),
         "cancelled" \in bag
  PROVE  /\ Acts(all) /\ asked' = asked /\ bag' \subseteq bag \cup {"halted"}
         /\ mode = "run" /\ mode' = "clean"
BY ReturnActs

LEMMA CleanedActs ==
  ASSUME NEW all, Sound(all), Cleaned
  PROVE  /\ Acts(all) /\ asked' = asked /\ bag' = bag
         /\ mode = "clean" /\ mode' = "clean" /\ at' = at - 1
<1>1. bag \subseteq all /\ asked \in BOOLEAN
  BY DEF Sound, RunnerTypeOK
<1>2. QED
  BY <1>1 DEF Cleaned, Acts, Moves, Notes

LEMMA StayActs ==
  ASSUME NEW all, Sound(all), UNCHANGED runnerVars
  PROVE  Acts(all) /\ asked' = asked /\ bag' = bag /\ mode' = mode /\ at' = at
<1>1. bag \subseteq all /\ asked \in BOOLEAN
  BY DEF Sound, RunnerTypeOK
<1>2. QED
  BY <1>1 DEF runnerVars, Acts, Moves, Notes

\* The runner's own steps, and the user's interrupt, come between Runs and Cleanups or
\* leave the runner where it is.
LEMMA LoopActs ==
  ASSUME NEW all, "cancelled" \in all, Sound(all), Loop \/ FlagCancelled \/ AskCancel
  PROVE  /\ Acts(all) /\ bag' \subseteq bag \cup {"cancelled"}
         /\ UNCHANGED <<mode, at>> \/ mode \in {"idle", "next"} \/ (mode = "clean" /\ at = 0)
         /\ ~(mode = "run" /\ mode' = "next") /\ ~(mode = "clean" /\ at > 0 /\ at' # at)
<1>1. bag \subseteq all /\ asked \in BOOLEAN /\ last \in Nat /\ at \in 0..(last + 1)
  BY DEF Sound, RunnerTypeOK
<1>2. /\ Moves /\ last' = last
      /\ UNCHANGED <<mode, at>> \/ mode \in {"idle", "next"} \/ (mode = "clean" /\ at = 0)
      /\ ~(mode = "run" /\ mode' = "next") /\ ~(mode = "clean" /\ at > 0 /\ at' # at)
  BY <1>1 DEF Loop, StartRunner, EnterStep, LeaveLoop, EndRunner, FlagCancelled, AskCancel, Moves
<1>3. bag' = bag \/ (bag' = bag \cup {"cancelled"} /\ asked)
  BY <1>1 DEF Loop, StartRunner, EnterStep, LeaveLoop, EndRunner, FlagCancelled, AskCancel
<1>4. /\ asked' \in BOOLEAN /\ (asked => asked')
      /\ asked' = asked \/ UNCHANGED <<mode, at, bag>>
  BY <1>1 DEF Loop, StartRunner, EnterStep, LeaveLoop, EndRunner, FlagCancelled, AskCancel
<1>5. mode = "next" /\ mode' = "clean" => at > last \/ "cancelled" \in bag'
  BY <1>1 DEF Loop, StartRunner, EnterStep, LeaveLoop, EndRunner, FlagCancelled, AskCancel
<1>6. mode = "run" => mode' # "clean"
  BY <1>1 DEF Loop, StartRunner, EnterStep, LeaveLoop, EndRunner, FlagCancelled, AskCancel
<1>7. QED
  BY <1>1, <1>2, <1>3, <1>4, <1>5, <1>6 DEF Acts, Notes

-----------------------------------------------------------------------------
(* What the runner has passed                                              *)

LEMMA EnteredKept ==
  ASSUME NEW all, Sound(all), Acts(all), NEW n \in Nat, Entered(n)
  PROVE  Entered(n)'
BY DEF Sound, RunnerTypeOK, Acts, Moves, Entered

\* The runner comes back before a step it has entered only through its Cleanup.
LEMMA UndoneFrom ==
  ASSUME NEW all, Sound(all), Acts(all), NEW n \in Nat, Entered(n), Undone(n)'
  PROVE  Undone(n) \/ Passes(n)
BY DEF Sound, RunnerTypeOK, Acts, Moves, Entered, Undone, Passes

\* It has done a step only if its Run has continued.
LEMMA DoneFrom ==
  ASSUME NEW all, Sound(all), Acts(all), NEW n \in 1..last, Done(n)'
  PROVE  Done(n) \/ Passing(n)
<1>1. last \in Nat /\ at \in Nat /\ bag \subseteq bag' /\ Moves
  BY DEF Sound, RunnerTypeOK, Acts, Notes
<1>2. mode = "idle" => at = 1
  BY DEF Sound, Placed
<1>3. CASE mode' \in {"next", "run"}
  BY <1>1, <1>2, <1>3 DEF Moves, Done, Passing
<1>4. CASE mode' \in {"clean", "ended"} /\ mode \in {"clean", "ended"}
  BY <1>1, <1>4 DEF Done
<1>5. CASE mode' \in {"clean", "ended"} /\ mode \notin {"clean", "ended"}
  <2>1. mode \in {"next", "run"} /\ mode' = "clean"
    BY <1>1, <1>5 DEF Moves
  <2>2. at > last
    BY <1>5, <2>1 DEF Acts, Notes, Done
  <2>3. QED
    BY <1>1, <2>1, <2>2 DEF Done
<1>6. QED
  BY <1>3, <1>4, <1>5 DEF Done

-----------------------------------------------------------------------------
(* The runner as AbstractBuild sees it                                     *)

Halted == "halted" \in bag

\* What a step of the runner is to AbstractBuild, were it not for what the steps make.
Still   == UNCHANGED <<mode, at, buildPhase, openSteps, Halted>>
Starts  == mode = "idle" /\ UNCHANGED <<asked, buildPhase, openSteps, Halted>>
Enters  == /\ mode = "next" /\ buildPhase = "ahead" /\ openSteps < last /\ ~asked
           /\ openSteps' = openSteps + 1
           /\ UNCHANGED <<asked, buildPhase, Halted>>
TurnsBack == /\ mode = "next" /\ buildPhase = "ahead" /\ (openSteps = last \/ asked)
             /\ buildPhase' = "back"
             /\ UNCHANGED <<asked, openSteps, Halted>>
Returns == /\ mode = "run" /\ buildPhase = "ahead"
           /\ \/ buildPhase' = "ahead" /\ ~Halted'
              \/ buildPhase' = "back" /\ (Halted' \/ asked)
           /\ UNCHANGED <<asked, openSteps>>
Undoes  == /\ mode = "clean" /\ at > 0 /\ at' # at /\ buildPhase = "back" /\ openSteps = at
           /\ openSteps' = openSteps - 1
           /\ UNCHANGED <<asked, buildPhase, Halted>>
Ends    == /\ mode = "clean" /\ at = 0 /\ buildPhase = "back" /\ openSteps = 0
           /\ buildPhase' = "over"
           /\ UNCHANGED <<asked, openSteps, Halted>>

\* Whatever a builder does to the runner is one of these.
LEMMA RunnerMoves ==
  ASSUME NEW all, Sound(all), Acts(all)
  PROVE  Still \/ Starts \/ Enters \/ TurnsBack \/ Returns \/ Undoes \/ Ends
<1>1. /\ last \in Nat /\ at \in Nat /\ mode \in Modes
      /\ mode = "idle" => at = 1
      /\ mode = "next" => at >= 1 /\ at \in 1..(last + 1)
      /\ mode = "run" => at \in 1..last
  BY DEF Sound, RunnerTypeOK, Placed
<1>2. /\ mode # "run" \/ mode' # "clean" => (Halted' <=> Halted)
      /\ mode \in {"idle", "next", "run"} => ~Halted
      /\ mode \in {"next", "run"} /\ mode' = "clean" => at > last \/ Halted' \/ asked
  BY DEF Sound, Reasons, Acts, Notes, Halted
<1>3. mode # "run" \/ mode' # "clean" => UNCHANGED Halted
  BY <1>2 DEF Halted
<1>4. CASE UNCHANGED <<mode, at>>
  BY <1>3, <1>4 DEF Still, buildPhase, openSteps
<1>5. CASE ~UNCHANGED <<mode, at>>
  <2>1. asked' = asked /\ Moves
    BY <1>5 DEF Acts
  <2>2. CASE mode = "idle" /\ mode' = "next" /\ at' = at
    BY <1>3, <2>1, <2>2 DEF Starts, buildPhase, openSteps
  <2>3. CASE mode = "next" /\ mode' = "run" /\ at' = at /\ at <= last /\ ~asked
    BY <1>1, <1>3, <2>1, <2>3 DEF Enters, buildPhase, openSteps
  <2>4. CASE mode = "next" /\ mode' = "clean" /\ at' = at - 1
    BY <1>1, <1>2, <1>3, <2>1, <2>4 DEF TurnsBack, buildPhase, openSteps
  <2>5. CASE mode = "run" /\ mode' = "next" /\ at' = at + 1
    BY <1>1, <1>2, <2>1, <2>5 DEF Returns, buildPhase, openSteps
  <2>6. CASE mode = "run" /\ mode' = "clean" /\ at' = at
    BY <1>1, <1>2, <2>1, <2>6 DEF Returns, buildPhase, openSteps
  <2>7. CASE mode = "clean" /\ mode' = "clean" /\ at > 0 /\ at' = at - 1
    BY <1>1, <1>3, <2>1, <2>7 DEF Undoes, buildPhase, openSteps
  <2>8. CASE mode = "clean" /\ mode' = "ended" /\ at = 0 /\ at' = 0
    BY <1>3, <2>1, <2>8 DEF Ends, buildPhase, openSteps
  <2>9. QED
    BY <1>5, <2>1, <2>2, <2>3, <2>4, <2>5, <2>6, <2>7, <2>8 DEF Moves
<1>6. QED
  BY <1>4, <1>5

-----------------------------------------------------------------------------
(* How far the runner is from its end                                      *)

\* More than the number of times that the runner can still move.
Distance ==
  IF mode = "idle" THEN 3 * last + 4
  ELSE IF mode = "next" THEN 3 * last + 5 - 2 * at
  ELSE IF mode = "run" THEN 3 * last + 4 - 2 * at
  ELSE IF mode = "clean" THEN at + 1
  ELSE 0

\* It moves to its end only: no step is run or cleaned up after a second time.
LEMMA Nearer ==
  ASSUME NEW all, Sound(all), Acts(all)
  PROVE  /\ Distance \in Nat /\ Distance' \in Nat
         /\ UNCHANGED <<mode, at>> => Distance' = Distance
         /\ ~UNCHANGED <<mode, at>> => Distance' + 1 <= Distance
<1>1. /\ last \in Nat /\ at \in Nat /\ at <= last + 1 /\ mode \in Modes /\ last' = last
      /\ mode = "idle" => at = 1
      /\ mode = "run" => at \in 1..last
      /\ mode = "clean" => at <= last
  BY DEF Sound, RunnerTypeOK, Placed, Acts
<1>2. Distance \in Nat
  BY <1>1 DEF Distance, Modes
<1>3. CASE UNCHANGED <<mode, at>>
  <2>1. Distance' = Distance
    BY <1>1, <1>3 DEF Distance
  <2>2. QED
    BY <1>2, <1>3, <2>1
<1>4. CASE ~UNCHANGED <<mode, at>>
  <2>1. Moves
    BY DEF Acts
  <2>2. Distance' \in Nat /\ Distance' + 1 <= Distance
    BY <1>1, <1>4, <2>1 DEF Moves, Distance
  <2>3. QED
    BY <1>2, <1>4, <2>2
<1>5. QED
  BY <1>3, <1>4

\* A rank of two digits, Distance and what there is to do before the runner moves: a lower
\* first digit is worth more than any second one.
LEMMA FirstDigit ==
  ASSUME NEW d \in Nat, NEW e \in Nat, NEW i \in 0..99, NEW j \in 0..99, e + 1 <= d
  PROVE  /\ 100 * e + j + 1 < 100 * d + i + 1
         /\ 100 * e + j + 1 <= 100 * d + i + 1
OBVIOUS

LEMMA SecondDigit ==
  ASSUME NEW d \in Nat, NEW i \in 0..99, NEW j \in 0..99, j < i
  PROVE  /\ 100 * d + j + 1 < 100 * d + i + 1
         /\ 100 * d + j + 1 <= 100 * d + i + 1
OBVIOUS

=============================================================================
