-------------------------- MODULE AmazonBuildProofs --------------------------
(***************************************************************************)
(* Proofs about AmazonBuild: its type invariant, and the invariants of its *)
(* run.                                                                    *)
(*                                                                         *)
(* All of them say what holds when the build ends.  Why it does is a       *)
(* matter of where the runner is: what a step notes it notes before the    *)
(* runner can leave it, and the runner passes every step it has entered    *)
(* once more on its way back.                                              *)
(***************************************************************************)
EXTENDS AmazonBuild, StepRunnerProofs

Subs == {"start", "authorize", "launch", "awaitSpot", "findSpot", "awaitRunning",
         "awaitStopped", "awaitImage", "findImage", "awaitCancelled",
         "terminate", "awaitTerminated"}

\* The bag's entries, and where the runner is.
Entries == {"cancelled", "halted", "error", "amis"}

Places == last = Len(Steps) /\ Placed

\* Only one Run or Cleanup can be half done, and only where the runner is.
Halfway ==
  /\ sub \in Subs
  /\ mode \notin {"run", "clean"} => sub = "start"
  /\ sub = "authorize" => mode = "run" /\ at = 2
  /\ sub \in {"launch", "awaitSpot", "findSpot", "awaitRunning"} => mode = "run" /\ at = 3
  /\ sub = "awaitStopped" => mode = "run" /\ at = 6
  /\ sub \in {"awaitImage", "findImage"} => mode = "run" /\ at = 8
  /\ sub \in {"awaitCancelled", "terminate", "awaitTerminated"} => mode = "clean" /\ at = 3

GroupInv ==
  /\ group = "exists" => "group" \in created
  /\ "group" \in created => Entered(2)
  /\ Undone(2) /\ group = "exists" => "group" \in told

InstanceInv ==
  /\ ~isSpot => spot = "none"
  /\ sub \in {"findSpot", "awaitRunning"} => spot # "open"
  /\ "instance" \in created => mode # "idle" /\ Past(3) /\ spot # "open"
  /\ sub = "awaitTerminated" => "instance" \in created /\ inst \notin Live
  /\ Undone(3) /\ "instance" \in created /\ inst \in Live => told \cap {"instance", "spot"} # {}

ImageInv ==
  /\ ~isSpot /\ at > 6 /\ mode \in {"next", "run"} => inst = "stopped"
  /\ ImageFromStopped
  /\ sub \in {"awaitImage", "findImage"} => builder = "ebs"
  /\ "image" \in created => mode # "idle" /\ Past(8) /\ builder = "ebs"
  /\ Undone(8) /\ "image" \in created /\ "halted" \in bag
       => ami = "deregistered" \/ "image" \in told
  /\ sub = "findImage" => ami = "available"
  /\ "amis" \in bag /\ sub # "awaitImage" /\ "error" \notin bag /\ ~asked => ami = "available"
  /\ result = "artifact" => mode = "ended" /\ "amis" \in bag /\ "error" \notin bag

Inv == TypeOK /\ Places /\ Halfway /\ Reasons /\ GroupInv /\ InstanceInv /\ ImageInv

-----------------------------------------------------------------------------
(* The lists of steps                                                      *)

\* Every step that holds something has one place in them.
LEMMA StepPlaces ==
  ASSUME builder \in {"ebs", "instance"}
  PROVE  /\ Len(Steps) \in Nat /\ Len(Steps) >= 1
         /\ \A n \in 1..Len(Steps) :
              /\ Steps[n] = "SecurityGroup" <=> n = 2
              /\ Steps[n] = "RunSourceInstance" <=> n = 3
              /\ Steps[n] = "StopInstance" <=> n = 6 /\ builder = "ebs"
              /\ Steps[n] = "CreateAMI" <=> n = 8 /\ builder = "ebs"
              /\ Steps[n] = "Connect" => n = 4
              /\ Steps[n] = "ModifyInstance" => n = 7
              /\ Steps[n] \in LibrarySteps => n \notin {2, 3, 6, 8}
<1>1. CASE builder = "ebs"
  BY <1>1 DEF Steps, EbsSteps, LibrarySteps
<1>2. CASE builder = "instance"
  BY <1>2 DEF Steps, InstanceSteps, LibrarySteps
<1>3. QED
  BY <1>1, <1>2

LEMMA StepFacts ==
  ASSUME Inv, at \in 1..last
  PROVE  /\ Step = "SecurityGroup" <=> at = 2
         /\ Step = "RunSourceInstance" <=> at = 3
         /\ Step = "StopInstance" <=> at = 6 /\ builder = "ebs"
         /\ Step = "CreateAMI" <=> at = 8 /\ builder = "ebs"
         /\ Step = "Connect" => at = 4
         /\ Step = "ModifyInstance" => at = 7
         /\ Step \in LibrarySteps => at \notin {2, 3, 6, 8}
BY StepPlaces DEF Inv, TypeOK, Places, Step

-----------------------------------------------------------------------------
(* Inv is inductive                                                        *)

LEMMA InitInv == Init => Inv
<1> SUFFICES ASSUME Init PROVE Inv
  OBVIOUS
<1>1. TypeOK
  <2>1. isSpot \in BOOLEAN /\ ownGroups \in BOOLEAN /\ asked \in BOOLEAN
    BY DEF Init, RunnerInit
  <2>2. last \in Nat /\ at \in 0..(last + 1)
    BY StepPlaces DEF Init, RunnerInit
  <2>3. QED
    BY <2>1, <2>2 DEF Init, RunnerInit, TypeOK, RunnerTypeOK, Modes, MaxTries, InstanceStates
<1>2. Places /\ Halfway /\ Reasons
  BY StepPlaces DEF Init, RunnerInit, Places, Placed, Halfway, Subs, Reasons
<1>3. GroupInv /\ InstanceInv /\ ImageInv
  BY DEF Init, RunnerInit, GroupInv, InstanceInv, ImageInv, ImageFromStopped, Entered, Past,
         Undone, Live
<1>4. QED
  BY <1>1, <1>2, <1>3 DEF Inv

\* What the runner's own lemmas need, and what they give.
LEMMA InvSound == ASSUME Inv PROVE Sound(Entries)
BY DEF Inv, TypeOK, Places, Entries, Sound

LEMMA Continues ==
  ASSUME Inv, Ret(Continue)
  PROVE  /\ Acts(Entries) /\ asked' = asked /\ ("amis" \in bag' => "amis" \in bag)
         /\ sub' = "start" /\ mode = "run" /\ mode' \in {"next", "clean"}
BY InvSound, ContinueActs DEF Ret, Entries

LEMMA Fails ==
  ASSUME Inv, Ret(Fail)
  PROVE  /\ Acts(Entries) /\ asked' = asked /\ ("amis" \in bag' => "amis" \in bag)
         /\ sub' = "start" /\ mode = "run" /\ mode' = "clean" /\ "error" \in bag'
BY InvSound, FailActs DEF Ret, Entries

LEMMA Halts ==
  ASSUME Inv, Ret(StepReturns("halt", {})), "cancelled" \in bag
  PROVE  /\ Acts(Entries) /\ asked' = asked /\ ("amis" \in bag' => "amis" \in bag)
         /\ sub' = "start" /\ mode = "run" /\ mode' = "clean"
BY InvSound, HaltActs DEF Ret, Entries

LEMMA CleansUp ==
  ASSUME Inv, Ret(Cleaned)
  PROVE  /\ Acts(Entries) /\ asked' = asked /\ bag' = bag /\ sub' = "start"
         /\ mode = "clean" /\ mode' = "clean" /\ at' = at - 1
BY InvSound, CleanedActs DEF Ret

LEMMA Stays ==
  ASSUME Inv, UNCHANGED runnerVars
  PROVE  Acts(Entries) /\ asked' = asked /\ bag' = bag /\ mode' = mode /\ at' = at
BY InvSound, StayActs

LEMMA RunnerInv ==
  ASSUME Inv, Acts(Entries), UNCHANGED builder
  PROVE  RunnerTypeOK(Entries)' /\ Places' /\ Reasons'
<1>1. Sound(Entries)'
  BY InvSound, ActsSound
<1>2. last' = Len(Steps)'
  BY DEF Acts, Inv, Places, Steps, EbsSteps, InstanceSteps
<1>3. QED
  BY <1>1, <1>2 DEF Sound, Places

-----------------------------------------------------------------------------
(* Steps that touch neither EC2 nor what the build has noted               *)

Quiet ==
  /\ Acts(Entries) /\ ("amis" \in bag' => "amis" \in bag)
  /\ keepNotes /\ keepEC2 /\ tries' \in 0..(MaxTries - 1)

LEMMA QuietInv ==
  ASSUME Inv, busy, Quiet, Halfway',
         sub' \in {"findSpot", "awaitRunning"} => spot # "open",
         sub' = "awaitTerminated" => sub = "awaitTerminated",
         sub' = "awaitImage" => sub = "awaitImage",
         sub' = "findImage" => ami = "available" /\ builder = "ebs",
         sub = "awaitImage" /\ sub' # "awaitImage"
           => "error" \in bag' \/ ami = "available" \/ asked',
         Passes(2) => "group" \notin created,
         Passes(3) => ("instance" \in created /\ inst \in Live
                         => told \cap {"instance", "spot"} # {}),
         Passes(8) => "image" \notin created \/ "halted" \notin bag,
         at = 6 /\ mode = "run" /\ mode' = "next" /\ ~isSpot => inst = "stopped"
  PROVE  Inv'
<1>1. /\ builder' = builder /\ isSpot' = isSpot /\ ownGroups' = ownGroups /\ created' = created
      /\ told' = told /\ imagedFrom' = imagedFrom /\ result' = result
      /\ group' = group /\ spot' = spot /\ inst' = inst /\ ami' = ami
  BY DEF Quiet, keepNotes, keepEC2, config, ec2
<1>2. Acts(Entries) /\ tries' \in 0..(MaxTries - 1) /\ ("amis" \in bag' => "amis" \in bag)
  BY DEF Quiet
<1>3. TypeOK'
  BY <1>1, <1>2, RunnerInv DEF Inv, TypeOK, Entries, Halfway, Subs
<1>4. Places' /\ Reasons'
  BY <1>1, <1>2, RunnerInv
<1>5. last \in Nat /\ at \in 0..(last + 1)
  BY DEF Inv, TypeOK, RunnerTypeOK
<1>6. Moves /\ Notes(Entries) /\ (asked => asked')
  BY <1>2 DEF Acts
<1>7. GroupInv'
  BY <1>1, <1>5, <1>6 DEF Inv, GroupInv, Moves, Passes, Entered, Undone
<1>8. InstanceInv'
  BY <1>1, <1>5, <1>6 DEF Inv, InstanceInv, Moves, Passes, Past, Undone
<1>9. ImageInv'
  <2>1. ~isSpot /\ at' > 6 /\ mode' \in {"next", "run"} => inst = "stopped"
    BY <1>5, <1>6 DEF Inv, Places, Placed, ImageInv, Moves
  <2>2. "image" \in created => mode' # "idle" /\ (mode' \in {"next", "run"} => at' > 8)
    BY <1>5, <1>6 DEF Inv, ImageInv, Moves, Past
  <2>3. Undone(8)' /\ "image" \in created /\ "halted" \in bag'
          => ami = "deregistered" \/ "image" \in told
    BY <1>5, <1>6 DEF Inv, ImageInv, Moves, Notes, Passes, Past, Undone
  <2>4. "amis" \in bag' /\ sub' # "awaitImage" /\ "error" \notin bag' /\ ~asked'
          => ami = "available"
    BY <1>2, <1>6 DEF Inv, ImageInv, Notes
  <2>5. /\ sub' \in {"awaitImage", "findImage"} => builder = "ebs"
        /\ sub' = "findImage" => ami = "available"
        /\ result # "artifact"
    BY DEF Inv, ImageInv, busy
  <2>6. QED
    BY <1>1, <2>1, <2>2, <2>3, <2>4, <2>5 DEF Inv, ImageInv, ImageFromStopped, Past
<1>10. QED
  BY <1>3, <1>4, <1>7, <1>8, <1>9 DEF Inv

\* Run returns and the runner goes on.
LEMMA ContinueInv ==
  ASSUME Inv, busy, Ret(Continue), keepNotes, keepEC2, tries' \in 0..(MaxTries - 1),
         sub # "awaitImage", at = 6 /\ ~isSpot => inst = "stopped"
  PROVE  Inv'
<1>1. Acts(Entries) /\ ("amis" \in bag' => "amis" \in bag) /\ sub' = "start" /\ mode = "run"
  BY Continues
<1>2. Quiet /\ Halfway'
  BY <1>1 DEF Quiet, Halfway, Subs
<1>3. QED
  BY <1>1, <1>2, QuietInv DEF Passes

\* It halts with an error.
LEMMA FailInv ==
  ASSUME Inv, busy, Ret(Fail), keepNotes, keepEC2, tries' \in 0..(MaxTries - 1)
  PROVE  Inv'
<1>1. /\ Acts(Entries) /\ ("amis" \in bag' => "amis" \in bag) /\ sub' = "start" /\ mode = "run"
      /\ "error" \in bag' /\ mode' = "clean"
  BY Fails
<1>2. Quiet /\ Halfway'
  BY <1>1 DEF Quiet, Halfway, Subs
<1>3. QED
  BY <1>1, <1>2, QuietInv DEF Passes

\* It halts because the build is cancelled.
LEMMA HaltInv ==
  ASSUME Inv, busy, Ret(StepReturns("halt", {})), "cancelled" \in bag, keepNotes, keepEC2,
         tries' \in 0..(MaxTries - 1)
  PROVE  Inv'
<1>1. /\ Acts(Entries) /\ ("amis" \in bag' => "amis" \in bag) /\ sub' = "start" /\ mode = "run"
      /\ mode' = "clean" /\ asked' = asked
  BY Halts
<1>2. Quiet /\ Halfway'
  BY <1>1 DEF Quiet, Halfway, Subs
<1>3. asked'
  BY <1>1 DEF Inv, Reasons
<1>4. QED
  BY <1>1, <1>2, <1>3, QuietInv DEF Passes

\* Cleanup returns, having left nothing that is not accounted for.
LEMMA CleanedInv ==
  ASSUME Inv, busy, Ret(Cleaned), keepNotes, keepEC2, tries' \in 0..(MaxTries - 1),
         at = 2 => "group" \notin created,
         at = 3 => ("instance" \in created /\ inst \in Live
                      => told \cap {"instance", "spot"} # {}),
         at = 8 => "image" \notin created \/ "halted" \notin bag
  PROVE  Inv'
<1>1. Acts(Entries) /\ bag' = bag /\ sub' = "start" /\ mode = "clean" /\ mode' = "clean"
  BY CleansUp DEF Ret
<1>2. Quiet /\ Halfway'
  BY <1>1 DEF Quiet, Halfway, Subs
<1>3. sub # "awaitImage"
  BY <1>1 DEF Inv, Halfway
<1>4. QED
  BY <1>1, <1>2, <1>3, QuietInv DEF Passes

\* Run or Cleanup goes on to a part of it where nothing needs to be known.
LEMMA GotoInv ==
  ASSUME Inv, busy, NEW s \in {"start", "launch", "authorize", "terminate"}, Goto(s),
         keepNotes, keepEC2, tries' \in 0..(MaxTries - 1), sub # "awaitImage",
         s \in {"authorize", "launch"} => mode = "run" /\ at = IF s = "launch" THEN 3 ELSE 2,
         s = "terminate" => mode = "clean" /\ at = 3
  PROVE  Inv'
<1>1. Acts(Entries) /\ bag' = bag /\ mode' = mode /\ at' = at /\ sub' = s
  BY Stays DEF Goto
<1>2. Quiet /\ Halfway'
  BY <1>1 DEF Quiet, Halfway, Subs
<1>3. QED
  BY <1>1, <1>2, QuietInv DEF Passes

LEMMA TriesKept == ASSUME Inv, UNCHANGED tries PROVE tries' \in 0..(MaxTries - 1)
BY DEF Inv, TypeOK

-----------------------------------------------------------------------------
(* The actions, one by one: those that change nothing but the runner       *)

\* Where the runner is when it runs, or cleans up after, a step.
LEMMA AtStep ==
  ASSUME Inv, mode = "run" \/ (mode = "clean" /\ at > 0)
  PROVE  at \in 1..last
BY DEF Inv, TypeOK, RunnerTypeOK, Places, Placed

LEMMA LibraryStepInv == Inv /\ busy /\ LibraryStep => Inv'
<1> SUFFICES ASSUME Inv, busy, LibraryStep PROVE Inv'
  OBVIOUS
<1>1. at \notin {2, 3, 6, 8} /\ tries' \in 0..(MaxTries - 1) /\ keepNotes /\ keepEC2
  BY AtStep, StepFacts, TriesKept DEF LibraryStep
<1>2. sub # "awaitImage"
  BY <1>1 DEF Inv, Halfway
<1>3. QED
  BY <1>1, <1>2, ContinueInv, HaltInv DEF LibraryStep

LEMMA ModifyInstanceInv == Inv /\ busy /\ ModifyInstance => Inv'
BY AtStep, StepFacts, TriesKept, ContinueInv DEF ModifyInstance, Running

LEMMA ConnectInv == Inv /\ busy /\ Connect => Inv'
BY AtStep, StepFacts, TriesKept, ContinueInv, HaltInv DEF Connect, Running

LEMMA ConnectTimeoutInv == Inv /\ busy /\ ConnectTimeout => Inv'
<1> SUFFICES ASSUME Inv, busy, Ret(StepReturns("halt", {"error"})), keepNotes, keepEC2,
                    UNCHANGED tries
             PROVE  Inv'
  BY DEF ConnectTimeout
<1>1. QED
  BY TriesKept, FailInv DEF Ret, Fail

LEMMA FaultsInv == Inv /\ busy /\ (CallFails \/ WaitFails) => Inv'
BY TriesKept, FailInv DEF CallFails, WaitFails

LEMMA WaitFailsInv == Inv /\ busy /\ (WaitInterrupted \/ WaitUnexpected) => Inv'
BY TriesKept, FailInv DEF WaitInterrupted, WaitUnexpected

LEMMA UseOwnGroupsInv == Inv /\ busy /\ UseOwnGroups => Inv'
BY AtStep, StepFacts, TriesKept, ContinueInv DEF UseOwnGroups, Running

LEMMA AuthorizeGroupInv == Inv /\ busy /\ AuthorizeGroup => Inv'
<1> SUFFICES ASSUME Inv, busy, AuthorizeGroup PROVE Inv'
  OBVIOUS
<1>1. at = 2 /\ mode = "run" /\ sub = "authorize" /\ keepNotes /\ keepEC2
  BY AtStep, StepFacts DEF AuthorizeGroup, Running
<1>2. tries' \in 0..(MaxTries - 1)
  BY DEF AuthorizeGroup, MaxTries, Inv, TypeOK
<1>3. QED
  BY <1>1, <1>2, ContinueInv, FailInv, GotoInv DEF AuthorizeGroup

LEMMA LookUpInv == Inv /\ busy /\ LookUp => Inv'
BY AtStep, StepFacts, TriesKept, GotoInv DEF LookUp, Running

LEMMA SpotCancelledInv == Inv /\ busy /\ SpotCancelled => Inv'
<1> SUFFICES ASSUME Inv, busy, SpotCancelled PROVE Inv'
  OBVIOUS
<1>1. at = 3 /\ mode = "clean" /\ sub # "awaitImage"
  BY AtStep, StepFacts DEF SpotCancelled, Cleaning
<1>2. QED
  BY <1>1, TriesKept, GotoInv DEF SpotCancelled

LEMMA TerminatedInv == Inv /\ busy /\ Terminated => Inv'
<1> SUFFICES ASSUME Inv, busy, Terminated PROVE Inv'
  OBVIOUS
<1>1. at = 3
  BY AtStep, StepFacts DEF Terminated, Cleaning
<1>2. "instance" \notin created \/ inst \notin Live
  BY DEF Terminated, Live
<1>3. QED
  BY <1>1, <1>2, TriesKept, CleanedInv DEF Terminated

LEMMA TerminateWaitFailsInv == Inv /\ busy /\ TerminateWaitFails => Inv'
<1> SUFFICES ASSUME Inv, busy, TerminateWaitFails PROVE Inv'
  OBVIOUS
<1>1. at = 3 /\ inst \notin Live
  BY AtStep, StepFacts DEF TerminateWaitFails, Cleaning, Inv, InstanceInv
<1>2. QED
  BY <1>1, TriesKept, CleanedInv DEF TerminateWaitFails

\* What EC2 has made without the step's knowledge is noted nowhere.
LEMMA ReplyLostInv == Inv /\ busy /\ ReplyLost => Inv'
<1> SUFFICES ASSUME Inv, busy, ReplyLost PROVE Inv'
  OBVIOUS
<1>1. /\ mode = "run" /\ Ret(Fail)
      /\ builder' = builder /\ isSpot' = isSpot /\ ownGroups' = ownGroups /\ created' = created
      /\ told' = told /\ imagedFrom' = imagedFrom /\ result' = result /\ tries' = tries
  BY DEF ReplyLost, Running, keepNotes, config
<1>2. /\ Acts(Entries) /\ ("amis" \in bag' => "amis" \in bag) /\ asked' = asked /\ sub' = "start"
      /\ mode' = "clean" /\ "error" \in bag' /\ at' = at
  BY <1>1, Fails DEF Ret, Fail, StepReturns
<1>3. \/ at = 2 /\ group' = "orphan" /\ spot' = spot /\ inst' = inst /\ ami' = ami
      \/ at = 3 /\ isSpot /\ spot' = "orphan" /\ group' = group /\ inst' = inst /\ ami' = ami
      \/ at = 3 /\ inst' = "pending" /\ group' = group /\ spot' = spot /\ ami' = ami
      \/ at = 8 /\ ami' = "pending" /\ group' = group /\ spot' = spot /\ inst' = inst
  BY AtStep, StepFacts DEF ReplyLost, Running
<1>4. TypeOK' /\ Places' /\ Halfway' /\ Reasons'
  BY <1>1, <1>2, <1>3, RunnerInv
     DEF Inv, TypeOK, Entries, Places, Halfway, Subs, InstanceStates, Live
<1>5. GroupInv'
  BY <1>1, <1>2, <1>3 DEF Inv, GroupInv, Entered, Undone
<1>6. InstanceInv'
  BY <1>1, <1>2, <1>3 DEF Inv, InstanceInv, Undone, Past
<1>7. ImageInv'
  BY <1>1, <1>2, <1>3 DEF Inv, ImageInv, ImageFromStopped, Undone, Past, busy
<1>8. QED
  BY <1>4, <1>5, <1>6, <1>7 DEF Inv

LEMMA CreateImageRefusedInv == Inv /\ busy /\ CreateImageRefused => Inv'
BY TriesKept, FailInv DEF CreateImageRefused

LEMMA NoCleanupInv == Inv /\ busy /\ NoCleanup => Inv'
<1> SUFFICES ASSUME Inv, busy, NoCleanup PROVE Inv'
  OBVIOUS
<1>1. /\ at # 3
      /\ at = 2 => "group" \notin created
      /\ at = 8 /\ builder = "ebs" => "image" \notin created \/ "halted" \notin bag
  BY AtStep, StepFacts DEF NoCleanup, mustDeregister
<1>2. builder # "ebs" => "image" \notin created
  BY DEF Inv, ImageInv
<1>3. QED
  BY <1>1, <1>2, TriesKept, CleanedInv DEF NoCleanup

LEMMA FindSpotInstanceInv == Inv /\ busy /\ FindSpotInstance => Inv'
<1> SUFFICES ASSUME Inv, busy, FindSpotInstance PROVE Inv'
  OBVIOUS
<1>1. /\ at = 3 /\ mode = "run" /\ sub = "findSpot" /\ sub' = "awaitRunning"
      /\ UNCHANGED runnerVars /\ keepNotes /\ keepEC2 /\ tries' \in 0..(MaxTries - 1)
  BY AtStep, StepFacts, TriesKept DEF FindSpotInstance, Running, Goto
<1>2. Acts(Entries) /\ bag' = bag /\ mode' = mode /\ at' = at
  BY <1>1, Stays
<1>3. Quiet /\ Halfway' /\ spot # "open"
  BY <1>1, <1>2 DEF Quiet, Halfway, Subs, Inv, InstanceInv
<1>4. QED
  BY <1>1, <1>2, <1>3, QuietInv DEF Passes

LEMMA WaitReachedInv == Inv /\ busy /\ WaitReached => Inv'
<1> SUFFICES ASSUME Inv, busy, WaitReached PROVE Inv'
  OBVIOUS
<1>1. tries' \in 0..(MaxTries - 1) /\ keepEC2 /\ mode = "run"
  BY TriesKept DEF WaitReached
<1>2. sub \in {"awaitSpot", "awaitRunning", "awaitStopped", "awaitImage"}
  BY DEF WaitReached, Awaits
<1>3. CASE sub = "awaitSpot"
  <2>1. /\ at = 3 /\ sub' = "findSpot" /\ UNCHANGED runnerVars /\ keepNotes /\ spot = "active"
    BY <1>3 DEF WaitReached, Reached, Goto, Inv, Halfway, keepNotes
  <2>2. Acts(Entries) /\ bag' = bag /\ mode' = mode /\ at' = at
    BY <2>1, Stays
  <2>3. Quiet /\ Halfway'
    BY <1>1, <2>1, <2>2 DEF Quiet, Halfway, Subs
  <2>4. QED
    BY <1>1, <1>3, <2>1, <2>2, <2>3, QuietInv DEF Passes
<1>4. CASE sub = "awaitRunning"
  <2>1. /\ at = 3 /\ Ret(Continue) /\ created' = created \cup {"instance"}
        /\ UNCHANGED <<config, tries, told, imagedFrom, result>>
        /\ spot # "open" /\ inst = "running"
    BY <1>4 DEF WaitReached, Reached, Inv, Halfway, InstanceInv
  <2>2. /\ Acts(Entries) /\ ("amis" \in bag' => "amis" \in bag) /\ sub' = "start"
        /\ asked' = asked /\ mode' \in {"next", "clean"}
    BY <2>1, Continues
  <2>3. /\ builder' = builder /\ isSpot' = isSpot /\ ownGroups' = ownGroups /\ told' = told
        /\ imagedFrom' = imagedFrom /\ result' = result
        /\ group' = group /\ spot' = spot /\ inst' = inst /\ ami' = ami
    BY <1>1, <2>1 DEF keepEC2, config, ec2
  <2>4. (mode' = "next" /\ at' = 4) \/ (mode' = "clean" /\ at' = 3)
    BY <1>1, <2>1, <2>2 DEF Acts, Moves
  <2>5. TypeOK' /\ Places' /\ Halfway' /\ Reasons'
    BY <1>1, <2>1, <2>2, <2>3, RunnerInv
       DEF Inv, TypeOK, Entries, Places, Halfway, Subs
  <2>6. GroupInv' /\ InstanceInv'
    BY <1>1, <2>1, <2>2, <2>3, <2>4
       DEF Inv, GroupInv, InstanceInv, Entered, Undone, Past
  <2>7. ImageInv'
    BY <1>1, <1>4, <2>1, <2>2, <2>3, <2>4
       DEF Inv, ImageInv, ImageFromStopped, Undone, Past, Acts, Notes, busy
  <2>8. QED
    BY <2>5, <2>6, <2>7 DEF Inv
<1>5. CASE sub = "awaitStopped"
  <2>1. Ret(Continue) /\ keepNotes /\ inst = "stopped"
    BY <1>5 DEF WaitReached, Reached, keepNotes
  <2>2. QED
    BY <1>1, <1>5, <2>1, ContinueInv
<1>6. CASE sub = "awaitImage"
  <2>1. /\ at = 8 /\ sub' = "findImage" /\ UNCHANGED runnerVars /\ keepNotes
        /\ ami = "available" /\ builder = "ebs"
    BY <1>6 DEF WaitReached, Reached, Goto, Inv, Halfway, keepNotes, ImageInv
  <2>2. Acts(Entries) /\ bag' = bag /\ mode' = mode /\ at' = at
    BY <2>1, Stays
  <2>3. Quiet /\ Halfway'
    BY <1>1, <2>1, <2>2 DEF Quiet, Halfway, Subs
  <2>4. QED
    BY <1>1, <2>1, <2>2, <2>3, QuietInv DEF Passes
<1>7. QED
  BY <1>2, <1>3, <1>4, <1>5, <1>6

\* The runner itself, and the user's interrupt.
LEMMA RunnerStepInv == Inv /\ busy /\ (RunnerStep \/ Cancel) => Inv'
<1> SUFFICES ASSUME Inv, busy, RunnerStep \/ Cancel PROVE Inv'
  OBVIOUS
<1>1. /\ UNCHANGED <<config, sub, tries, created, told, ec2, imagedFrom, result>>
      /\ Loop \/ FlagCancelled \/ AskCancel
  BY DEF RunnerStep, Cancel
<1>2. /\ Acts(Entries) /\ ("amis" \in bag' => "amis" \in bag)
      /\ UNCHANGED <<mode, at>> \/ mode \in {"idle", "next"} \/ (mode = "clean" /\ at = 0)
      /\ ~(mode = "run" /\ mode' = "next") /\ ~(mode = "clean" /\ at > 0 /\ at' # at)
  <2>1. "cancelled" \in Entries
    BY DEF Entries
  <2>2. QED
    BY <1>1, <2>1, InvSound, LoopActs
<1>3. sub' = sub
  BY <1>1
<1>4. Quiet
  BY <1>1, <1>2, TriesKept DEF Quiet, keepNotes, keepEC2
<1>5. Halfway'
  BY <1>2, <1>3 DEF Inv, Halfway, Subs
<1>6. ~Passes(2) /\ ~Passes(3) /\ ~Passes(8)
  BY <1>2 DEF Passes
<1>7. /\ sub \in {"findSpot", "awaitRunning"} => spot # "open"
      /\ sub = "findImage" => ami = "available" /\ builder = "ebs"
  BY DEF Inv, InstanceInv, ImageInv
<1>8. QED
  BY <1>2, <1>3, <1>4, <1>5, <1>6, <1>7, QuietInv

-----------------------------------------------------------------------------
(* The actions that make, end or note something                            *)

LEMMA CreateGroupInv == Inv /\ busy /\ CreateGroup => Inv'
<1> SUFFICES ASSUME Inv, busy, CreateGroup PROVE Inv'
  OBVIOUS
<1>1. /\ at = 2 /\ mode = "run" /\ sub' = "authorize" /\ UNCHANGED runnerVars
      /\ created' = created \cup {"group"} /\ group' = "exists"
      /\ builder' = builder /\ isSpot' = isSpot /\ ownGroups' = ownGroups /\ told' = told
      /\ imagedFrom' = imagedFrom /\ result' = result /\ tries' = tries
      /\ spot' = spot /\ inst' = inst /\ ami' = ami
  BY AtStep, StepFacts DEF CreateGroup, Running, Goto, config
<1>2. Acts(Entries) /\ bag' = bag /\ mode' = mode /\ at' = at /\ asked' = asked
  BY <1>1, Stays
<1>3. TypeOK' /\ Places' /\ Halfway' /\ Reasons'
  BY <1>1, <1>2, RunnerInv DEF Inv, TypeOK, Entries, Places, Halfway, Subs
<1>4. GroupInv' /\ InstanceInv'
  BY <1>1, <1>2 DEF Inv, GroupInv, InstanceInv, Entered, Undone, Past
<1>5. ImageInv'
  BY <1>1, <1>2 DEF Inv, ImageInv, ImageFromStopped, Undone, Past, Halfway
<1>6. QED
  BY <1>3, <1>4, <1>5 DEF Inv

LEMMA DeleteGroupInv == Inv /\ busy /\ DeleteGroup => Inv'
<1> SUFFICES ASSUME Inv, busy, DeleteGroup PROVE Inv'
  OBVIOUS
<1>1. /\ at = 2 /\ mode = "clean" /\ sub = "start" /\ "group" \in created
      /\ builder' = builder /\ isSpot' = isSpot /\ ownGroups' = ownGroups /\ created' = created
      /\ imagedFrom' = imagedFrom /\ result' = result
      /\ spot' = spot /\ inst' = inst /\ ami' = ami
  BY AtStep, StepFacts DEF DeleteGroup, Cleaning, config
<1>2. /\ tries' \in 0..(MaxTries - 1)
      /\ group' \in {group, "deleted"} /\ told' \in {told, told \cup {"group"}}
  BY DEF DeleteGroup, MaxTries, Inv, TypeOK
<1>3. /\ Acts(Entries) /\ bag' = bag /\ mode' = "clean" /\ asked' = asked /\ sub' = "start"
      /\ at' = 2 \/ (at' = 1 /\ (group' = "deleted" \/ "group" \in told'))
  <2>1. CASE Ret(Cleaned)
    <3>1. at' = 1
      BY <1>1, <2>1 DEF Ret, Cleaned
    <3>2. group' = "deleted" \/ "group" \in told'
      BY <1>1, <3>1 DEF DeleteGroup, Goto, runnerVars
    <3>3. QED
      BY <2>1, <3>1, <3>2, CleansUp DEF Ret
  <2>2. CASE Goto("start")
    BY <1>1, <2>2, Stays DEF Goto
  <2>3. QED
    BY <2>1, <2>2 DEF DeleteGroup
<1>4. TypeOK' /\ Places' /\ Halfway' /\ Reasons'
  BY <1>1, <1>2, <1>3, RunnerInv DEF Inv, TypeOK, Entries, Places, Halfway, Subs
<1>5. GroupInv'
  BY <1>1, <1>2, <1>3 DEF Inv, GroupInv, Entered, Undone
<1>6. InstanceInv'
  BY <1>1, <1>2, <1>3 DEF Inv, InstanceInv, Undone, Past
<1>7. ImageInv'
  BY <1>1, <1>2, <1>3 DEF Inv, ImageInv, ImageFromStopped, Undone, Past
<1>8. QED
  BY <1>4, <1>5, <1>6, <1>7 DEF Inv

\* The process panics, and the build ends here; nothing else has changed.
LEMMA PanicInv == Inv /\ busy /\ (NoKeyPair \/ EmptyReply) => Inv'
<1> SUFFICES ASSUME Inv, busy, NoKeyPair \/ EmptyReply PROVE Inv'
  OBVIOUS
<1>1. /\ UNCHANGED runnerVars /\ sub' = sub /\ result' = "panic"
      /\ builder' = builder /\ isSpot' = isSpot /\ ownGroups' = ownGroups /\ created' = created
      /\ told' = told /\ imagedFrom' = imagedFrom /\ tries' = tries
      /\ group' = group /\ spot' = spot /\ inst' = inst /\ ami' = ami
  BY DEF NoKeyPair, EmptyReply, keepEC2, ec2, config
<1>2. Acts(Entries) /\ bag' = bag /\ mode' = mode /\ at' = at /\ asked' = asked
  BY <1>1, Stays
<1>3. TypeOK' /\ Places' /\ Halfway' /\ Reasons'
  BY <1>1, <1>2, RunnerInv DEF Inv, TypeOK, Entries, Places, Halfway, Subs
<1>4. GroupInv' /\ InstanceInv'
  BY <1>1, <1>2 DEF Inv, GroupInv, InstanceInv, Entered, Undone, Past
<1>5. ImageInv'
  BY <1>1, <1>2 DEF Inv, ImageInv, ImageFromStopped, Undone, Past
<1>6. QED
  BY <1>3, <1>4, <1>5 DEF Inv

LEMMA LaunchInv == Inv /\ busy /\ Launch => Inv'
<1> SUFFICES ASSUME Inv, busy, Launch PROVE Inv'
  OBVIOUS
<1>1. /\ at = 3 /\ mode = "run" /\ UNCHANGED runnerVars
      /\ builder' = builder /\ isSpot' = isSpot /\ ownGroups' = ownGroups /\ told' = told
      /\ imagedFrom' = imagedFrom /\ result' = result /\ tries' = tries
      /\ group' = group /\ ami' = ami
  BY AtStep, StepFacts DEF Launch, Running, Goto, config
<1>2. Acts(Entries) /\ bag' = bag /\ mode' = mode /\ at' = at /\ asked' = asked
  BY <1>1, Stays
<1>3. \/ /\ isSpot /\ sub' = "awaitSpot" /\ spot' = "open" /\ inst' = inst
         /\ created' = created \cup {"spot"}
      \/ /\ ~isSpot /\ sub' = "awaitRunning" /\ inst' = "pending" /\ spot' = spot
         /\ created' = created
  BY DEF Launch, Goto
<1>4. TypeOK' /\ Places' /\ Halfway' /\ Reasons'
  <2>1. created' \subseteq {"group", "spot", "instance", "image"} /\ inst' \in InstanceStates
        /\ spot' \in {"none", "open", "active", "failed", "cancelled", "orphan"}
    BY <1>3 DEF Inv, TypeOK, InstanceStates, Live
  <2>2. Halfway'
    BY <1>1, <1>2, <1>3 DEF Halfway, Subs
  <2>3. RunnerTypeOK(Entries)' /\ Places' /\ Reasons'
    BY <1>1, <1>2, RunnerInv
  <2>4. TypeOK'
    BY <1>1, <2>1, <2>2, <2>3 DEF Inv, TypeOK, Entries, Halfway, Subs
  <2>5. QED
    BY <2>2, <2>3, <2>4
<1>5. GroupInv' /\ InstanceInv'
  BY <1>1, <1>2, <1>3 DEF Inv, GroupInv, InstanceInv, Entered, Undone, Past
<1>6. ImageInv'
  BY <1>1, <1>2, <1>3 DEF Inv, ImageInv, ImageFromStopped, Undone, Past, Halfway
<1>7. QED
  BY <1>4, <1>5, <1>6 DEF Inv

LEMMA CancelSpotInv == Inv /\ busy /\ CancelSpot => Inv'
<1> SUFFICES ASSUME Inv, busy, CancelSpot PROVE Inv'
  OBVIOUS
<1>1. /\ at = 3 /\ mode = "clean" /\ sub = "start"
      /\ builder' = builder /\ isSpot' = isSpot /\ ownGroups' = ownGroups /\ created' = created
      /\ imagedFrom' = imagedFrom /\ result' = result /\ tries' = tries
      /\ group' = group /\ inst' = inst /\ ami' = ami
  BY AtStep, StepFacts DEF CancelSpot, Cleaning, config
<1>2. \/ /\ spot' \in {spot, "cancelled"} /\ told' = told
         /\ UNCHANGED runnerVars /\ sub' = "awaitCancelled"
      \/ /\ spot' = spot /\ told' = told \cup {"spot"} /\ Ret(Cleaned)
  BY DEF CancelSpot, Goto
<1>3. /\ Acts(Entries) /\ bag' = bag /\ mode' = "clean" /\ asked' = asked
      /\ \/ at' = 3 /\ sub' = "awaitCancelled"
         \/ at' = 2 /\ sub' = "start" /\ "spot" \in told'
  BY <1>1, <1>2, Stays, CleansUp DEF Ret, Cleaned
<1>4. ~isSpot => spot' = "none"
  BY DEF Inv, InstanceInv, CancelSpot
<1>5. TypeOK' /\ Places' /\ Halfway' /\ Reasons'
  <2>1. told' \subseteq {"group", "spot", "instance", "image"}
        /\ spot' \in {"none", "open", "active", "failed", "cancelled", "orphan"}
    BY <1>2 DEF Inv, TypeOK
  <2>2. Halfway'
    BY <1>3 DEF Halfway, Subs
  <2>3. RunnerTypeOK(Entries)' /\ Places' /\ Reasons'
    BY <1>1, <1>3, RunnerInv
  <2>4. TypeOK'
    BY <1>1, <2>1, <2>2, <2>3 DEF Inv, TypeOK, Entries, Halfway, Subs
  <2>5. QED
    BY <2>2, <2>3, <2>4
<1>6. GroupInv'
  BY <1>1, <1>2, <1>3 DEF Inv, GroupInv, Entered, Undone
<1>7. InstanceInv'
  BY <1>1, <1>2, <1>3, <1>4 DEF Inv, InstanceInv, Undone, Past
<1>8. ImageInv'
  BY <1>1, <1>2, <1>3 DEF Inv, ImageInv, ImageFromStopped, Undone, Past
<1>9. QED
  BY <1>5, <1>6, <1>7, <1>8 DEF Inv

LEMMA TerminateInv == Inv /\ busy /\ Terminate => Inv'
<1> SUFFICES ASSUME Inv, busy, Terminate PROVE Inv'
  OBVIOUS
<1>1. /\ at = 3 /\ mode = "clean" /\ sub = "terminate" /\ "instance" \in created
      /\ builder' = builder /\ isSpot' = isSpot /\ ownGroups' = ownGroups /\ created' = created
      /\ imagedFrom' = imagedFrom /\ result' = result /\ tries' = tries
      /\ group' = group /\ spot' = spot /\ ami' = ami
  BY AtStep, StepFacts DEF Terminate, Cleaning, config
<1>2. \/ /\ inst' = (IF inst \in Live THEN "shuttingDown" ELSE inst) /\ told' = told
         /\ UNCHANGED runnerVars /\ sub' = "awaitTerminated"
      \/ /\ inst' = inst /\ told' = told \cup {"instance"} /\ Ret(Cleaned)
  BY DEF Terminate, Goto
<1>3. /\ Acts(Entries) /\ bag' = bag /\ mode' = "clean" /\ asked' = asked
      /\ \/ at' = 3 /\ sub' = "awaitTerminated" /\ inst' \notin Live
         \/ at' = 2 /\ sub' = "start" /\ "instance" \in told'
  BY <1>1, <1>2, Stays, CleansUp DEF Ret, Cleaned, Live
<1>4. TypeOK' /\ Places' /\ Halfway' /\ Reasons'
  <2>1. told' \subseteq {"group", "spot", "instance", "image"} /\ inst' \in InstanceStates
    BY <1>2 DEF Inv, TypeOK, InstanceStates
  <2>2. Halfway'
    BY <1>3 DEF Halfway, Subs
  <2>3. RunnerTypeOK(Entries)' /\ Places' /\ Reasons'
    BY <1>1, <1>3, RunnerInv
  <2>4. TypeOK'
    BY <1>1, <2>1, <2>2, <2>3 DEF Inv, TypeOK, Entries, Halfway, Subs
  <2>5. QED
    BY <2>2, <2>3, <2>4
<1>5. GroupInv'
  BY <1>1, <1>2, <1>3 DEF Inv, GroupInv, Entered, Undone
<1>6. InstanceInv'
  BY <1>1, <1>2, <1>3 DEF Inv, InstanceInv, Undone, Past
<1>7. ImageInv'
  BY <1>1, <1>2, <1>3 DEF Inv, ImageInv, ImageFromStopped, Undone, Past
<1>8. QED
  BY <1>4, <1>5, <1>6, <1>7 DEF Inv

LEMMA StopInv == Inv /\ busy /\ Stop => Inv'
<1> SUFFICES ASSUME Inv, busy, Stop PROVE Inv'
  OBVIOUS
<1>1. at = 6 /\ mode = "run" /\ sub = "start"
  BY AtStep, StepFacts DEF Stop, Running
<1>2. CASE isSpot
  <2>1. Ret(Continue) /\ keepNotes /\ keepEC2
    BY <1>2 DEF Stop, keepEC2, ec2
  <2>2. QED
    BY <1>1, <1>2, <2>1, TriesKept, ContinueInv DEF Stop
<1>3. CASE ~isSpot
  <2>1. /\ UNCHANGED runnerVars /\ sub' = "awaitStopped" /\ inst' \in {inst, "stopping"}
        /\ builder' = builder /\ isSpot' = isSpot /\ ownGroups' = ownGroups /\ told' = told
        /\ created' = created /\ imagedFrom' = imagedFrom /\ result' = result /\ tries' = tries
        /\ group' = group /\ spot' = spot /\ ami' = ami
    BY <1>3 DEF Stop, Goto, keepNotes, config
  <2>2. Acts(Entries) /\ bag' = bag /\ mode' = mode /\ at' = at /\ asked' = asked
    BY <2>1, Stays
  <2>3. TypeOK' /\ Places' /\ Halfway' /\ Reasons'
    BY <1>1, <2>1, <2>2, RunnerInv
       DEF Inv, TypeOK, Entries, Places, Halfway, Subs, InstanceStates, Live
  <2>4. GroupInv' /\ InstanceInv'
    BY <1>1, <2>1, <2>2 DEF Inv, GroupInv, InstanceInv, Entered, Undone, Past
  <2>5. ImageInv'
    BY <1>1, <2>1, <2>2 DEF Inv, ImageInv, ImageFromStopped, Undone, Past
  <2>6. QED
    BY <2>3, <2>4, <2>5 DEF Inv
<1>4. QED
  BY <1>2, <1>3

LEMMA CreateImageInv == Inv /\ busy /\ CreateImage => Inv'
<1> SUFFICES ASSUME Inv, busy, CreateImage PROVE Inv'
  OBVIOUS
<1>1. /\ at = 8 /\ mode = "run" /\ sub' = "awaitImage" /\ builder = "ebs" /\ inst \in Live
      /\ last' = last /\ mode' = mode /\ at' = at /\ asked' = asked /\ bag' = bag \cup {"amis"}
      /\ ami' = "pending" /\ imagedFrom' = inst
      /\ builder' = builder /\ isSpot' = isSpot /\ ownGroups' = ownGroups /\ told' = told
      /\ created' = created /\ result' = result /\ tries' = tries
      /\ group' = group /\ spot' = spot /\ inst' = inst
  BY AtStep, StepFacts DEF CreateImage, Running, config
<1>2. Acts(Entries)
  BY <1>1 DEF Acts, Moves, Notes, Entries, Inv, TypeOK, RunnerTypeOK
<1>3. TypeOK' /\ Places' /\ Halfway' /\ Reasons'
  BY <1>1, <1>2, RunnerInv
     DEF Inv, TypeOK, Entries, Places, Halfway, Subs, InstanceStates
<1>4. GroupInv' /\ InstanceInv'
  BY <1>1 DEF Inv, GroupInv, InstanceInv, Entered, Undone, Past
<1>5. ImageInv'
  BY <1>1 DEF Inv, ImageInv, ImageFromStopped, Undone, Past, busy
<1>6. QED
  BY <1>3, <1>4, <1>5 DEF Inv

LEMMA FindImageInv == Inv /\ busy /\ FindImage => Inv'
<1> SUFFICES ASSUME Inv, busy, FindImage PROVE Inv'
  OBVIOUS
<1>1. /\ at = 8 /\ mode = "run" /\ sub = "findImage" /\ ami = "available" /\ builder = "ebs"
      /\ Ret(Continue) /\ created' = created \cup {"image"}
      /\ builder' = builder /\ isSpot' = isSpot /\ ownGroups' = ownGroups /\ told' = told
      /\ imagedFrom' = imagedFrom /\ result' = result /\ tries' = tries
      /\ group' = group /\ spot' = spot /\ inst' = inst /\ ami' = ami
  BY AtStep, StepFacts DEF FindImage, Running, keepEC2, ec2, config, Inv, ImageInv
<1>2. /\ Acts(Entries) /\ ("amis" \in bag' => "amis" \in bag) /\ sub' = "start" /\ asked' = asked
      /\ mode' \in {"next", "clean"}
  BY <1>1, Continues
<1>3. (mode' = "next" /\ at' = 9) \/ (mode' = "clean" /\ at' = 8)
  BY <1>1, <1>2 DEF Acts, Moves
<1>4. TypeOK' /\ Places' /\ Halfway' /\ Reasons'
  BY <1>1, <1>2, RunnerInv DEF Inv, TypeOK, Entries, Places, Halfway, Subs
<1>5. GroupInv' /\ InstanceInv'
  BY <1>1, <1>2, <1>3 DEF Inv, GroupInv, InstanceInv, Entered, Undone, Past
<1>6. ImageInv'
  BY <1>1, <1>2, <1>3 DEF Inv, ImageInv, ImageFromStopped, Undone, Past, busy
<1>7. QED
  BY <1>4, <1>5, <1>6 DEF Inv

LEMMA DeregisterInv == Inv /\ busy /\ Deregister => Inv'
<1> SUFFICES ASSUME Inv, busy, Deregister PROVE Inv'
  OBVIOUS
<1>1. /\ at = 8 /\ mode = "clean" /\ sub = "start" /\ builder = "ebs" /\ Ret(Cleaned)
      /\ (ami' = "deregistered" /\ told' = told) \/ (ami' = ami /\ told' = told \cup {"image"})
      /\ builder' = builder /\ isSpot' = isSpot /\ ownGroups' = ownGroups /\ created' = created
      /\ imagedFrom' = imagedFrom /\ result' = result /\ tries' = tries
      /\ group' = group /\ spot' = spot /\ inst' = inst
  BY AtStep, StepFacts DEF Deregister, Cleaning, config
<1>2. Acts(Entries) /\ bag' = bag /\ mode' = "clean" /\ asked' = asked /\ sub' = "start" /\ at' = 7
  BY <1>1, CleansUp DEF Ret, Cleaned
<1>3. "error" \in bag \/ asked
  BY DEF Deregister, mustDeregister, Inv, Reasons
<1>4. TypeOK' /\ Places' /\ Halfway' /\ Reasons'
  <2>1. /\ told' \subseteq {"group", "spot", "instance", "image"}
        /\ ami' \in {"none", "pending", "available", "failed", "deregistered"}
    BY <1>1 DEF Inv, TypeOK
  <2>2. RunnerTypeOK(Entries)' /\ Places' /\ Reasons'
    BY <1>1, <1>2, RunnerInv
  <2>3. Halfway'
    BY <1>2 DEF Halfway, Subs
  <2>4. TypeOK'
    BY <1>1, <2>1, <2>2, <2>3 DEF Inv, TypeOK, Entries, Halfway, Subs
  <2>5. QED
    BY <2>2, <2>3, <2>4
<1>5. GroupInv' /\ InstanceInv'
  BY <1>1, <1>2 DEF Inv, GroupInv, InstanceInv, Entered, Undone, Past
<1>6. ImageInv'
  BY <1>1, <1>2, <1>3 DEF Inv, ImageInv, ImageFromStopped, Undone, Past, busy
<1>7. QED
  BY <1>4, <1>5, <1>6 DEF Inv

LEMMA ReportInv == Inv /\ busy /\ Report => Inv'
<1> SUFFICES ASSUME Inv, busy, Report PROVE Inv'
  OBVIOUS
<1>0. /\ result' \in {"error", "nothing", "artifact"}
      /\ result' = "artifact" => mode = "ended" /\ "amis" \in bag /\ "error" \notin bag
  BY DEF Report
<1>1. /\ UNCHANGED runnerVars /\ sub' = sub
      /\ builder' = builder /\ isSpot' = isSpot /\ ownGroups' = ownGroups /\ created' = created
      /\ told' = told /\ imagedFrom' = imagedFrom /\ tries' = tries
      /\ group' = group /\ spot' = spot /\ inst' = inst /\ ami' = ami
  BY DEF Report, ec2, config
<1>2. Acts(Entries) /\ bag' = bag /\ mode' = mode /\ at' = at /\ asked' = asked
  BY <1>1, Stays
<1>3. TypeOK' /\ Places' /\ Halfway' /\ Reasons'
  BY <1>0, <1>1, <1>2, RunnerInv DEF Inv, TypeOK, Entries, Places, Halfway, Subs
<1>4. GroupInv' /\ InstanceInv'
  BY <1>0, <1>1, <1>2 DEF Inv, GroupInv, InstanceInv, Entered, Undone, Past
<1>5. ImageInv'
  BY <1>0, <1>1, <1>2 DEF Inv, ImageInv, ImageFromStopped, Undone, Past
<1>6. QED
  BY <1>3, <1>4, <1>5 DEF Inv

\* What EC2 does on its own.
LEMMA EC2Inv == Inv /\ (EC2 \/ EC2Terminates) => Inv'
<1> SUFFICES ASSUME Inv, EC2 \/ EC2Terminates PROVE Inv'
  OBVIOUS
<1>1. /\ UNCHANGED runnerVars /\ sub' = sub /\ result' = result
      /\ builder' = builder /\ isSpot' = isSpot /\ ownGroups' = ownGroups /\ created' = created
      /\ told' = told /\ imagedFrom' = imagedFrom /\ tries' = tries /\ group' = group
  BY DEF EC2, EC2Terminates, keepBuild, config, SpotMoves, InstanceMoves, ImageMoves,
         InstanceTerminates
<1>2. Acts(Entries) /\ bag' = bag /\ mode' = mode /\ at' = at /\ asked' = asked
  BY <1>1, Stays
<1>3. \/ /\ spot = "open" /\ ami' = ami
         /\ (spot' = "active" /\ inst' = "pending") \/ (spot' = "failed" /\ inst' = inst)
      \/ /\ inst \in {"pending", "running", "stopping"} /\ spot' = spot /\ ami' = ami
         /\ inst' \in {"running", "stopped", "terminated"}
      \/ inst = "shuttingDown" /\ inst' = "terminated" /\ spot' = spot /\ ami' = ami
      \/ ami = "pending" /\ ami' \in {"available", "failed"} /\ spot' = spot /\ inst' = inst
  BY DEF EC2, EC2Terminates, SpotMoves, InstanceMoves, ImageMoves, InstanceTerminates
<1>4. TypeOK' /\ Places' /\ Halfway' /\ Reasons'
  <2>1. Halfway'
    BY <1>1, <1>2 DEF Inv, Halfway
  <2>2. RunnerTypeOK(Entries)' /\ Places' /\ Reasons'
    BY <1>1, <1>2, RunnerInv
  <2>3. /\ inst' \in InstanceStates
        /\ spot' \in {"none", "open", "active", "failed", "cancelled", "orphan"}
        /\ ami' \in {"none", "pending", "available", "failed", "deregistered"}
    BY <1>3 DEF Inv, TypeOK, InstanceStates, Live
  <2>4. TypeOK'
    BY <1>1, <2>1, <2>2, <2>3 DEF Inv, TypeOK, Entries
  <2>5. QED
    BY <2>1, <2>2, <2>4
<1>5. GroupInv'
  BY <1>1, <1>2 DEF Inv, GroupInv, Entered, Undone
<1>6. InstanceInv'
  BY <1>1, <1>2, <1>3 DEF Inv, InstanceInv, Undone, Past, Live
<1>7. ImageInv'
  BY <1>1, <1>2, <1>3 DEF Inv, InstanceInv, ImageInv, ImageFromStopped, Undone, Past
<1>8. QED
  BY <1>4, <1>5, <1>6, <1>7 DEF Inv

-----------------------------------------------------------------------------
(* The theorems                                                            *)

LEMMA NextInv == Inv /\ [Next]_vars => Inv'
<1> SUFFICES ASSUME Inv, [Next]_vars PROVE Inv'
  OBVIOUS
<1>1. CASE busy /\ Code
  BY <1>1, LibraryStepInv, ModifyInstanceInv, ConnectInv, WaitReachedInv, WaitFailsInv,
     UseOwnGroupsInv, CreateGroupInv, AuthorizeGroupInv, DeleteGroupInv, PanicInv, LookUpInv,
     LaunchInv, FindSpotInstanceInv, CancelSpotInv, SpotCancelledInv, TerminateInv,
     TerminatedInv, StopInv, CreateImageInv, CreateImageRefusedInv, FindImageInv,
     DeregisterInv, NoCleanupInv, RunnerStepInv, ReportInv DEF Code
<1>2. CASE busy /\ Faults
  BY <1>2, FaultsInv, ConnectTimeoutInv, TerminateWaitFailsInv, PanicInv, ReplyLostInv DEF Faults
<1>3. CASE busy /\ Cancel
  BY <1>3, RunnerStepInv
<1>4. CASE EC2 \/ EC2Terminates
  BY <1>4, EC2Inv
<1>5. CASE UNCHANGED vars
  <2>1. /\ UNCHANGED runnerVars /\ sub' = sub /\ result' = result
        /\ builder' = builder /\ isSpot' = isSpot /\ ownGroups' = ownGroups
        /\ created' = created /\ told' = told /\ imagedFrom' = imagedFrom /\ tries' = tries
        /\ group' = group /\ spot' = spot /\ inst' = inst /\ ami' = ami
    BY <1>5 DEF vars, config, ec2
  <2>2. Acts(Entries) /\ bag' = bag /\ mode' = mode /\ at' = at /\ asked' = asked
    BY <2>1, Stays
  <2>3. TypeOK' /\ Places' /\ Halfway' /\ Reasons'
    BY <2>1, <2>2, RunnerInv DEF Inv, TypeOK, Entries, Places, Halfway, Subs
  <2>4. GroupInv' /\ InstanceInv'
    BY <2>1, <2>2 DEF Inv, GroupInv, InstanceInv, Entered, Undone, Past
  <2>5. ImageInv'
    BY <2>1, <2>2 DEF Inv, ImageInv, ImageFromStopped, Undone, Past
  <2>6. QED
    BY <2>3, <2>4, <2>5 DEF Inv
<1>6. QED
  BY <1>1, <1>2, <1>3, <1>4, <1>5 DEF Next

LEMMA Invariant == Spec => []Inv
<1>1. QED
  BY InitInv, NextInv, PTL DEF Spec

\* Every variable keeps its type: no step, fault or move of EC2 puts anything in the bag,
\* or brings a resource into a state, that the code does not expect.
THEOREM TypeCorrect == Spec => []TypeOK
<1>1. Inv => TypeOK
  BY DEF Inv
<1>2. QED
  BY Invariant, <1>1, PTL

\* The temporary security group never outlives the build without a message
\* (StepSecurityGroup.Cleanup).
THEOREM GroupIsAccounted == Spec => []GroupAccounted
<1>1. Inv => GroupAccounted
  BY DEF Inv, Places, Placed, GroupInv, Undone, GroupAccounted
<1>2. QED
  BY Invariant, <1>1, PTL

\* A build that was not interrupted returns only an image that can be used, and one that
\* failed deregisters the image it had made (stepCreateAMI.Cleanup).
THEOREM ImageIsAccounted == Spec => []ImageAccounted
<1>1. Inv => ImageAccounted
  BY DEF Inv, Places, Placed, Halfway, ImageInv, Undone, ImageAccounted
<1>2. QED
  BY Invariant, <1>1, PTL

\* The image is taken of a stopped instance (stepStopInstance before stepCreateAMI).
THEOREM StoppedImage == Spec => []ImageFromStopped
<1>1. Inv => ImageFromStopped
  BY DEF Inv, ImageInv
<1>2. QED
  BY Invariant, <1>1, PTL

-----------------------------------------------------------------------------
(* AmazonBuild implements AbstractBuild                                    *)

Launching  == {"launch", "awaitSpot", "findSpot", "awaitRunning"}
Imaging    == {"awaitImage", "findImage"}
CleaningUp == {"awaitCancelled", "terminate", "awaitTerminated"}

\* What a build returns rests on what it has passed: only the EBS builder comes past
\* RunSourceInstance, and a build past CreateAMI has its "amis".  And a spot request that
\* EC2 may still fulfil is one that Cleanup has not dealt with.
More ==
  /\ sub \in Launching \/ Done(3) => builder = "ebs"
  /\ sub \in Imaging \/ Done(8) => "amis" \in bag
  /\ spot \in {"open", "active"} => "spot" \in created
  /\ sub \in CleaningUp => spot \notin {"open", "active"}

LEMMA InitMore == Init => More
BY DEF Init, RunnerInit, More, Launching, Imaging, CleaningUp, Done

LEMMA MoreKept ==
  ASSUME Inv, More, Acts(Entries), builder' = builder,
         Passing(3) \/ sub' \in Launching => builder = "ebs",
         Passing(8) => "amis" \in bag, sub' \in Imaging => "amis" \in bag',
         spot' \in {"open", "active"} => "spot" \in created',
         sub' \in CleaningUp => spot' \notin {"open", "active"}
  PROVE  More'
<1>1. 3 \in 1..last /\ 8 \in 1..last
  BY DEF Inv, TypeOK, Places, Steps, EbsSteps, InstanceSteps
<1>2. (Done(3)' => Done(3) \/ Passing(3)) /\ (Done(8)' => Done(8) \/ Passing(8))
  BY <1>1, InvSound, DoneFrom
<1>3. bag \subseteq bag'
  BY DEF Acts, Notes
<1>4. QED
  BY <1>2, <1>3 DEF More

\* What there is to prove of a step that goes on with the build.
Effect ==
  /\ Acts(Entries) /\ UNCHANGED <<config, result>> /\ excused \subseteq excused'
  /\ \A r \in holds' : r \in holds \/ (mode = "run" /\ r \in Makes(Step))
  /\ mode = "clean" /\ at > 0 /\ at' # at
       => \A r \in holds' \cap Makes(Step) : r \in excused' \/ (r = "image" /\ "halted" \notin bag)
  /\ \/ UNCHANGED <<holds, excused>>
     \/ asked' = asked /\ (mode = "run" \/ (mode = "clean" /\ at > 0))

LEMMA ListKept ==
  ASSUME Inv, UNCHANGED <<last, config>>
  PROVE  UNCHANGED Build!list
<1>1. Steps' = Steps
  BY DEF config, Steps, EbsSteps, InstanceSteps
<1>2. QED
  BY <1>1 DEF Build!list

LEMMA EffectImplements ==
  ASSUME Inv, busy, Effect
  PROVE  [Build!Next]_(Build!bvars)
<1>1. /\ UNCHANGED Build!list /\ result' = result /\ result = "none" /\ last' = last
      /\ excused \subseteq excused'
  BY ListKept DEF Effect, Acts, busy
<1>2. mode = "run" \/ (mode = "clean" /\ at > 0)
        => [n \in 1..last |-> Makes(Steps[n])][at] = Makes(Step) /\ at \in 1..last /\ last \in Nat
  BY AtStep DEF Step, Inv, TypeOK, RunnerTypeOK
<1>3. \A r \in holds' : r \in holds \/ (mode = "run" /\ r \in Makes(Step))
  BY DEF Effect
<1>4. \/ UNCHANGED <<holds, excused>>
      \/ asked' = asked /\ (mode = "run" \/ (mode = "clean" /\ at > 0))
  BY DEF Effect
<1>5. Sound(Entries) /\ Acts(Entries)
  BY InvSound DEF Effect
<1>6. CASE Still /\ UNCHANGED <<holds, excused>>
  <2>1. CASE asked' = asked
    BY <1>1, <1>6, <2>1 DEF Still, Halted, Build!bvars
  <2>2. CASE asked' # asked
    <3>1. ~asked /\ asked' = TRUE
      BY <2>2 DEF Effect, Acts, Inv, TypeOK, RunnerTypeOK
    <3>2. Build!Ask
      BY <1>1, <1>6, <3>1 DEF Still, Halted, Build!Ask
    <3>3. QED
      BY <1>1, <3>2 DEF Build!Next
  <2>3. QED
    BY <2>1, <2>2
<1>7. CASE Still /\ asked' = asked /\ mode = "run"
  <2>1. buildPhase = "ahead" /\ buildPhase' = "ahead" /\ openSteps = at /\ ~Halted
    BY <1>7 DEF Still, buildPhase, openSteps, Halted, Inv, Reasons
  <2>2. Build!Run
    <3>1. ("halted" \in bag)' \in BOOLEAN
      OBVIOUS
    <3>2. openSteps > 0 /\ \A r \in holds' :
            r \in holds \/ r \in [n \in 1..last |-> Makes(Steps[n])][openSteps]
      BY <1>2, <1>3, <1>7, <2>1 DEF Still
    <3>3. QED
      BY <1>1, <1>7, <2>1, <3>1, <3>2 DEF Still, Halted, Build!Run
  <2>3. QED
    BY <1>1, <2>2 DEF Build!Next
<1>8. CASE Still /\ asked' = asked /\ mode = "clean" /\ at > 0
  <2>1. buildPhase = "back" /\ openSteps = at
    BY <1>8 DEF buildPhase, openSteps
  <2>2. Build!CleaningUp
    BY <1>1, <1>3, <1>8, <2>1 DEF Still, Halted, Build!CleaningUp
  <2>3. QED
    BY <1>1, <2>2 DEF Build!Next
<1>9. CASE Starts
  BY <1>1, <1>4, <1>9 DEF Starts, Halted, Build!bvars
<1>10. CASE Enters
  <2>1. Build!Enter
    BY <1>1, <1>4, <1>10 DEF Enters, Halted, Build!Enter
  <2>2. QED
    BY <1>1, <2>1 DEF Build!Next
<1>11. CASE TurnsBack
  <2>1. Build!TurnBack
    BY <1>1, <1>4, <1>11 DEF TurnsBack, Halted, Build!TurnBack
  <2>2. QED
    BY <1>1, <2>1 DEF Build!Next
<1>12. CASE Returns
  <2>1. openSteps = at
    BY <1>12 DEF Returns, openSteps
  <2>2. Build!Run
    <3>1. ("halted" \in bag)' \in BOOLEAN
      OBVIOUS
    <3>2. openSteps > 0 /\ \A r \in holds' :
            r \in holds \/ r \in [n \in 1..last |-> Makes(Steps[n])][openSteps]
      BY <1>2, <1>3, <1>12, <2>1 DEF Returns
    <3>3. QED
      BY <1>1, <1>12, <2>1, <3>1, <3>2 DEF Returns, Halted, Build!Run
  <2>3. QED
    BY <1>1, <2>2 DEF Build!Next
<1>13. CASE Undoes
  <2>1. \A r \in holds' \cap Makes(Step) : r \in excused' \/ (r = "image" /\ "halted" \notin bag)
    BY <1>13 DEF Effect, Undoes
  <2>2. Build!CleanedUp
    BY <1>1, <1>2, <1>3, <1>13, <2>1 DEF Undoes, Halted, Build!CleanedUp, Build!Accounts
  <2>3. QED
    BY <1>1, <2>2 DEF Build!Next
<1>14. CASE Ends
  <2>1. Build!End
    BY <1>1, <1>4, <1>14 DEF Ends, Halted, Build!End
  <2>2. QED
    BY <1>1, <2>1 DEF Build!Next
<1>15. QED
  BY <1>4, <1>5, <1>6, <1>7, <1>8, <1>9, <1>10, <1>11, <1>12, <1>13, <1>14, RunnerMoves

\* What exists, and whose making it is.
LEMMA Held ==
  /\ "group" \in holds <=> group = "exists"
  /\ "spot" \in holds <=> spot \in {"open", "active"}
  /\ "instance" \in holds <=> "instance" \in created /\ inst \in Live
  /\ "image" \in holds <=> "image" \in created /\ ami # "deregistered"
  /\ \A r \in holds : r \in {"group", "spot", "instance", "image"}
BY DEF holds

LEMMA HeldAfter ==
  /\ "group" \in holds' <=> group' = "exists"
  /\ "spot" \in holds' <=> spot' \in {"open", "active"}
  /\ "instance" \in holds' <=> "instance" \in created' /\ inst' \in Live
  /\ "image" \in holds' <=> "image" \in created' /\ ami' # "deregistered"
  /\ \A r \in holds' : r \in {"group", "spot", "instance", "image"}
BY DEF holds

LEMMA Maker ==
  ASSUME NEW r \in {"group", "spot", "instance", "image"}
  PROVE  /\ r = "group" => (r \in Makes(Step) <=> Step = "SecurityGroup")
         /\ r \in {"spot", "instance"} => (r \in Makes(Step) <=> Step = "RunSourceInstance")
         /\ r = "image" => (r \in Makes(Step) <=> Step = "CreateAMI")
BY DEF Makes

LEMMA ExcusedKept ==
  ASSUME told \subseteq told'
  PROVE  excused \subseteq excused'
BY DEF excused

\* A step that changes nothing in EC2 and notes nothing, and is no Cleanup that returns.
LEMMA QuietEffect ==
  ASSUME Acts(Entries), keepNotes, keepEC2, ~(mode = "clean" /\ at > 0 /\ at' # at)
  PROVE  Effect
<1>1. UNCHANGED <<config, result, excused, holds>>
  BY DEF keepNotes, keepEC2, ec2, holds, excused
<1>2. QED
  BY <1>1 DEF Effect

\* A part of Run makes only what its step can make.
LEMMA RunEffect ==
  ASSUME Acts(Entries), asked' = asked, mode = "run", UNCHANGED <<config, result>>,
         told \subseteq told', \A r \in holds' : r \in holds \/ r \in Makes(Step)
  PROVE  Effect
BY ExcusedKept DEF Effect

\* A part of Cleanup makes nothing, and returns only if its step accounts for everything.
LEMMA CleanupEffect ==
  ASSUME Acts(Entries), asked' = asked, mode = "clean", at > 0, UNCHANGED <<config, result>>,
         told \subseteq told', \A r \in holds' : r \in holds,
         at' # at => \A r \in holds' \cap Makes(Step) :
                       r \in excused' \/ (r = "image" /\ "halted" \notin bag)
  PROVE  Effect
BY ExcusedKept DEF Effect

\* A quiet step leaves More alone, too, unless it passes a step or goes to a part of it.
LEMMA QuietMore ==
  ASSUME Inv, More, Acts(Entries), keepNotes, keepEC2,
         Passing(3) \/ (sub' \in Launching /\ sub' # sub) => builder = "ebs",
         Passing(8) => "amis" \in bag,
         sub' \in Imaging => sub \in Imaging,
         sub' \in CleaningUp => sub \in CleaningUp \/ "spot" \notin created
  PROVE  More'
<1>1. builder' = builder /\ created' = created /\ spot' = spot
  BY DEF keepNotes, keepEC2, config, ec2
<1>2. bag \subseteq bag'
  BY DEF Acts, Notes
<1>3. sub' \in Launching => builder = "ebs"
  BY DEF More
<1>4. QED
  BY <1>1, <1>2, <1>3, MoreKept DEF More

\* A Run that returns, quietly, from a step on which nothing rests; ...
LEMMA ReturnsQuietly ==
  ASSUME Inv, More, keepNotes, keepEC2,
         \/ Ret(Continue) /\ at \notin {3, 8}
         \/ Ret(Fail)
         \/ Ret(StepReturns("halt", {})) /\ "cancelled" \in bag
  PROVE  Effect /\ More'
<1>1. Acts(Entries) /\ sub' = "start" /\ mode = "run" /\ (at \in {3, 8} => mode' = "clean")
  BY Continues, Fails, Halts
<1>2. QED
  BY <1>1, QuietEffect, QuietMore DEF Passing, Launching, Imaging, CleaningUp

\* ... a part of Run, or of Cleanup, that is followed by another.
LEMMA GoesQuietly ==
  ASSUME Inv, More, keepNotes, keepEC2, NEW s, Goto(s),
         s \in Launching => builder = "ebs", s \notin Imaging,
         s \in CleaningUp => sub \in CleaningUp \/ "spot" \notin created
  PROVE  Effect /\ More'
<1>1. Acts(Entries) /\ sub' = s /\ mode' = mode /\ at' = at
  BY Stays DEF Goto
<1>2. QED
  BY <1>1, QuietEffect, QuietMore DEF Passing

LEMMA QuietStepEffect ==
  ASSUME Inv, More, busy, \/ LibraryStep \/ ModifyInstance \/ Connect \/ ConnectTimeout
                          \/ CallFails \/ WaitFails \/ WaitInterrupted \/ WaitUnexpected
                          \/ UseOwnGroups \/ AuthorizeGroup \/ CreateImageRefused
                          \/ RunnerStep \/ Cancel
  PROVE  Effect /\ More'
<1>1. CASE ConnectTimeout
  <2>1. Ret(Fail) /\ keepNotes /\ keepEC2
    BY <1>1 DEF ConnectTimeout, Ret, Fail
  <2>2. QED
    BY <2>1, ReturnsQuietly
<1>2. CASE CallFails \/ WaitFails \/ WaitInterrupted \/ WaitUnexpected \/ CreateImageRefused
  BY <1>2, ReturnsQuietly
     DEF CallFails, WaitFails, WaitInterrupted, WaitUnexpected, CreateImageRefused
<1>3. CASE LibraryStep \/ ModifyInstance \/ Connect \/ UseOwnGroups
  <2>1. at \notin {3, 8}
    BY <1>3, AtStep, StepFacts DEF LibraryStep, ModifyInstance, Connect, UseOwnGroups, Running
  <2>2. QED
    BY <1>3, <2>1, ReturnsQuietly DEF LibraryStep, ModifyInstance, Connect, UseOwnGroups
<1>4. CASE AuthorizeGroup
  <2>1. at = 2
    BY <1>4, AtStep, StepFacts DEF AuthorizeGroup, Running
  <2>2. QED
    BY <1>4, <2>1, ReturnsQuietly, GoesQuietly DEF AuthorizeGroup, Launching, Imaging, CleaningUp
<1>5. CASE RunnerStep \/ Cancel
  <2>1. keepNotes /\ keepEC2 /\ sub' = sub /\ (Loop \/ FlagCancelled \/ AskCancel)
    BY <1>5 DEF RunnerStep, Cancel, keepNotes, keepEC2
  <2>2. "cancelled" \in Entries
    BY DEF Entries
  <2>3. /\ Acts(Entries)
        /\ ~(mode = "run" /\ mode' = "next") /\ ~(mode = "clean" /\ at > 0 /\ at' # at)
    BY <2>1, <2>2, InvSound, LoopActs
  <2>4. QED
    BY <2>1, <2>3, QuietEffect, QuietMore DEF Passing
<1>6. QED
  BY <1>1, <1>2, <1>3, <1>4, <1>5

\* A call whose reply is lost makes nothing that counts.
LEMMA ReplyLostEffect ==
  ASSUME Inv, More, busy, ReplyLost
  PROVE  Effect /\ More'
<1>1. /\ Ret(Fail) /\ UNCHANGED <<config, result, told, created>> /\ builder' = builder
      /\ Step \in {"SecurityGroup", "RunSourceInstance", "CreateAMI"}
  BY DEF ReplyLost, Running, keepNotes, config
<1>2. Acts(Entries) /\ asked' = asked /\ mode = "run" /\ mode' = "clean" /\ sub' = "start"
  BY <1>1, Fails
<1>3. /\ group' = group \/ group' = "orphan"
      /\ spot' = spot \/ spot' = "orphan"
      /\ inst' = inst \/ Step = "RunSourceInstance"
      /\ ami' = ami \/ Step = "CreateAMI"
  BY DEF ReplyLost, Running
<1>4. \A r \in holds' : r \in holds \/ r \in Makes(Step)
  BY <1>1, <1>3, Held, HeldAfter, Maker
<1>5. QED
  BY <1>1, <1>2, <1>3, <1>4, RunEffect, MoreKept
     DEF More, Passing, Launching, Imaging, CleaningUp

\* The security group, ...
LEMMA GroupEffect ==
  ASSUME Inv, More, busy, CreateGroup \/ DeleteGroup
  PROVE  Effect /\ More'
<1>1. /\ UNCHANGED <<config, result, spot, inst, ami>> /\ builder' = builder
      /\ told \subseteq told' /\ created' \in {created, created \cup {"group"}}
  BY DEF CreateGroup, DeleteGroup, config
<1>2. CASE CreateGroup
  <2>1. mode = "run" /\ Step = "SecurityGroup" /\ sub' = "authorize" /\ Goto("authorize")
    BY <1>2 DEF CreateGroup, Running, Goto
  <2>2. Acts(Entries) /\ asked' = asked /\ mode' = mode
    BY <2>1, Stays DEF Goto
  <2>3. \A r \in holds' : r \in holds \/ r \in Makes(Step)
    BY <1>1, <2>1, Held, HeldAfter, Maker
  <2>4. QED
    BY <1>1, <2>1, <2>2, <2>3, RunEffect, MoreKept
       DEF More, Passing, Launching, Imaging, CleaningUp
<1>3. CASE DeleteGroup
  <2>1. mode = "clean" /\ at > 0 /\ Step = "SecurityGroup" /\ created' = created
        /\ group' \in {group, "deleted"}
    BY <1>3 DEF DeleteGroup, Cleaning
  <2>2. Acts(Entries) /\ asked' = asked /\ mode' = mode /\ sub' = "start"
    BY <1>3, <2>1, Stays, CleansUp DEF DeleteGroup, Goto
  <2>3. at' # at => group' = "deleted" \/ "group" \in told'
    BY <1>3 DEF DeleteGroup, Goto, runnerVars
  <2>4. \A r \in holds' : r \in holds
    BY <1>1, <2>1, Held, HeldAfter
  <2>5. at' # at => \A r \in holds' \cap Makes(Step) : r \in excused'
    BY <2>1, <2>3, HeldAfter, Maker DEF excused
  <2>6. QED
    BY <1>1, <2>1, <2>2, <2>4, <2>5, CleanupEffect, MoreKept
       DEF More, Passing, Launching, Imaging, CleaningUp
<1>4. QED
  BY <1>2, <1>3

\* ... the source instance and the request for it, ...
LEMMA LaunchEffect ==
  ASSUME Inv, More, busy, LookUp \/ Launch \/ FindSpotInstance
  PROVE  Effect /\ More'
<1>1. CASE LookUp
  <2>1. Goto("launch") /\ keepNotes /\ keepEC2 /\ builder = "ebs"
    BY <1>1 DEF LookUp, HasKeyPair
  <2>2. QED
    BY <2>1, GoesQuietly DEF Imaging, CleaningUp
<1>2. CASE FindSpotInstance
  <2>1. Goto("awaitRunning") /\ keepNotes /\ keepEC2 /\ builder = "ebs"
    BY <1>2 DEF FindSpotInstance, Running, More, Launching
  <2>2. QED
    BY <2>1, GoesQuietly DEF Imaging, CleaningUp
<1>3. CASE Launch
  <2>1. /\ mode = "run" /\ Step = "RunSourceInstance" /\ builder = "ebs" /\ builder' = builder
        /\ UNCHANGED <<runnerVars, config, result, told, group, ami>>
        /\ sub' \in {"awaitSpot", "awaitRunning"}
        /\ \/ spot' = "open" /\ created' = created \cup {"spot"}
           \/ spot' = spot /\ created' = created
    BY <1>3 DEF Launch, Running, More, Launching, Goto, config
  <2>2. Acts(Entries) /\ asked' = asked /\ mode' = mode
    BY <2>1, Stays
  <2>3. \A r \in holds' : r \in holds \/ r \in Makes(Step)
    BY <2>1, Held, HeldAfter, Maker
  <2>4. QED
    BY <2>1, <2>2, <2>3, RunEffect, MoreKept
       DEF More, Passing, Launching, Imaging, CleaningUp
<1>4. QED
  BY <1>1, <1>2, <1>3

LEMMA EndInstanceEffect ==
  ASSUME Inv, More, busy, CancelSpot \/ SpotCancelled \/ Terminate \/ Terminated
                          \/ TerminateWaitFails
  PROVE  Effect /\ More'
<1>1. /\ mode = "clean" /\ at > 0 /\ Step = "RunSourceInstance"
      /\ UNCHANGED <<config, result, group, ami, created>> /\ builder' = builder
      /\ told \subseteq told'
  BY DEF CancelSpot, SpotCancelled, Terminate, Terminated, TerminateWaitFails, Cleaning,
         keepNotes, keepEC2, ec2, config
<1>2. \/ Ret(Cleaned)
      \/ UNCHANGED runnerVars /\ sub' \in CleaningUp
  BY DEF CancelSpot, SpotCancelled, Terminate, Terminated, TerminateWaitFails, Goto, CleaningUp
<1>3. /\ Acts(Entries) /\ asked' = asked /\ mode' = mode
      /\ sub' = "start" \/ (at' = at /\ sub' \in CleaningUp)
  BY <1>1, <1>2, Stays, CleansUp
<1>4. /\ spot' \in {"open", "active"} => spot' = spot
      /\ sub' \in CleaningUp => spot' \notin {"open", "active"}
      /\ sub' = "start" => spot' \notin {"open", "active"} \/ "spot" \in told'
  BY DEF CancelSpot, SpotCancelled, Terminate, Terminated, TerminateWaitFails, Cleaning, Goto, Ret,
         More, CleaningUp, keepNotes, keepEC2, ec2
<1>5. /\ inst' \in Live => inst' = inst
      /\ sub' = "start" /\ "instance" \in created /\ inst' \in Live
           => "instance" \in told' \/ "spot" \in told'
  BY DEF CancelSpot, SpotCancelled, Terminate, Terminated, TerminateWaitFails, Cleaning, Goto, Ret,
         Inv, InstanceInv, Live, keepNotes, keepEC2, ec2
<1>6. \A r \in holds' : r \in holds
  BY <1>1, <1>4, <1>5, Held, HeldAfter
<1>7. sub' \notin CleaningUp => \A r \in holds' \cap Makes(Step) : r \in excused'
  BY <1>1, <1>3, <1>4, <1>5, HeldAfter, Maker DEF excused
<1>8. sub' = "start" => sub' \notin CleaningUp
  BY DEF CleaningUp
<1>9. Effect
  BY <1>1, <1>3, <1>6, <1>7, <1>8, CleanupEffect
<1>10. More'
  BY <1>1, <1>3, <1>4, MoreKept DEF More, Passing, Launching, Imaging, CleaningUp
<1>11. QED
  BY <1>9, <1>10

\* ... and the image; what is waited for has come.
LEMMA ReachedEffect ==
  ASSUME Inv, More, busy, WaitReached
  PROVE  Effect /\ More'
<1>1. sub \in {"awaitSpot", "awaitRunning", "awaitStopped", "awaitImage"} /\ mode = "run" /\ keepEC2
      /\ UNCHANGED <<config, told, imagedFrom, result>>
  BY DEF WaitReached, Awaits
<1>2. CASE sub = "awaitSpot"
  <2>1. Goto("findSpot") /\ keepNotes /\ builder = "ebs"
    BY <1>1, <1>2 DEF WaitReached, keepNotes, More, Launching
  <2>2. QED
    BY <1>1, <2>1, GoesQuietly DEF Imaging, CleaningUp
<1>3. CASE sub = "awaitStopped"
  <2>1. Ret(Continue) /\ keepNotes /\ at = 6
    BY <1>1, <1>3 DEF WaitReached, keepNotes, Inv, Halfway
  <2>2. QED
    BY <1>1, <2>1, ReturnsQuietly
<1>4. CASE sub = "awaitImage"
  <2>1. sub' = "findImage" /\ UNCHANGED runnerVars /\ keepNotes
    BY <1>1, <1>4 DEF WaitReached, Goto, keepNotes
  <2>2. Acts(Entries) /\ mode' = mode /\ at' = at
    BY <2>1, Stays
  <2>3. QED
    BY <1>1, <1>4, <2>1, <2>2, QuietEffect, QuietMore DEF Passing, Launching, Imaging, CleaningUp
<1>5. CASE sub = "awaitRunning"
  <2>1. /\ Ret(Continue) /\ builder = "ebs" /\ builder' = builder /\ at = 3
        /\ created' = created \cup {"instance"}
        /\ UNCHANGED <<group, spot, inst, ami>>
    BY <1>1, <1>5 DEF WaitReached, More, Launching, Inv, Halfway, keepEC2, ec2, config
  <2>2. Acts(Entries) /\ asked' = asked /\ sub' = "start"
    BY <2>1, Continues
  <2>3. Step = "RunSourceInstance"
    BY <1>1, <2>1, AtStep, StepFacts
  <2>4. \A r \in holds' : r \in holds \/ r \in Makes(Step)
    BY <2>1, <2>3, Held, HeldAfter, Maker
  <2>5. QED
    BY <1>1, <2>1, <2>2, <2>4, RunEffect, MoreKept
       DEF More, Passing, Launching, Imaging, CleaningUp
<1>6. QED
  BY <1>1, <1>2, <1>3, <1>4, <1>5

LEMMA StopEffect ==
  ASSUME Inv, More, busy, Stop
  PROVE  Effect /\ More'
<1>1. /\ mode = "run" /\ Step = "StopInstance" /\ keepNotes /\ UNCHANGED <<group, spot, ami>>
      /\ (inst' = inst \/ (inst = "running" /\ inst' = "stopping"))
      /\ Ret(Continue) \/ Goto("awaitStopped")
  BY DEF Stop, Running
<1>2. at = 6
  BY <1>1, AtStep, StepFacts
<1>3. Acts(Entries) /\ asked' = asked /\ sub' \in {"start", "awaitStopped"}
  BY <1>1, Continues, Stays DEF Goto
<1>4. UNCHANGED <<config, result, told, created>> /\ builder' = builder
  BY <1>1 DEF keepNotes, config
<1>5. \A r \in holds' : r \in holds
  BY <1>1, <1>4, Held, HeldAfter DEF Live
<1>6. QED
  BY <1>1, <1>2, <1>3, <1>4, <1>5, RunEffect, MoreKept
     DEF More, Passing, Launching, Imaging, CleaningUp

LEMMA ImageEffect ==
  ASSUME Inv, More, busy, CreateImage \/ FindImage \/ Deregister
  PROVE  Effect /\ More'
<1>1. /\ Step = "CreateAMI" /\ UNCHANGED <<config, result, group, spot, inst>>
      /\ builder' = builder /\ told \subseteq told'
      /\ created' \in {created, created \cup {"image"}}
  BY DEF CreateImage, FindImage, Deregister, Running, Cleaning, keepEC2, ec2, config
<1>2. CASE CreateImage \/ FindImage
  <2>1. /\ mode = "run" /\ at = 8 /\ builder = "ebs"
        /\ \/ sub' = "awaitImage" /\ mode' = mode /\ "amis" \in bag'
           \/ sub' = "start" /\ "amis" \in bag
    BY <1>1, <1>2, AtStep, StepFacts DEF CreateImage, FindImage, Running, Ret, More, Imaging
  <2>2. Acts(Entries) /\ asked' = asked
    <3>1. CASE CreateImage
      BY <3>1, <2>1 DEF CreateImage, Acts, Moves, Notes, Entries, Inv, TypeOK, RunnerTypeOK
    <3>2. CASE FindImage
      BY <3>2, Continues DEF FindImage
    <3>3. QED
      BY <1>2, <3>1, <3>2
  <2>3. \A r \in holds' : r \in holds \/ r \in Makes(Step)
    BY <1>1, Held, HeldAfter, Maker
  <2>4. Effect
    BY <1>1, <2>1, <2>2, <2>3, RunEffect
  <2>5. Passing(8) => "amis" \in bag
    BY <2>1 DEF Passing
  <2>6. QED
    BY <1>1, <2>1, <2>2, <2>4, <2>5, MoreKept
       DEF More, Passing, Launching, Imaging, CleaningUp
<1>3. CASE Deregister
  <2>1. /\ mode = "clean" /\ at > 0 /\ Ret(Cleaned) /\ created' = created
        /\ ami' = "deregistered" \/ (ami' = ami /\ "image" \in told')
    BY <1>3 DEF Deregister, Cleaning
  <2>2. Acts(Entries) /\ asked' = asked /\ mode' = "clean" /\ sub' = "start"
    BY <2>1, CleansUp
  <2>3. \A r \in holds' : r \in holds
    BY <1>1, <2>1, Held, HeldAfter
  <2>4. \A r \in holds' \cap Makes(Step) : r \in excused'
    BY <1>1, <2>1, HeldAfter, Maker DEF excused
  <2>5. QED
    BY <1>1, <2>1, <2>2, <2>3, <2>4, CleanupEffect, MoreKept
       DEF More, Passing, Launching, Imaging, CleaningUp
<1>4. QED
  BY <1>2, <1>3

\* A Cleanup has nothing to do only if its Run has noted nothing, and so made nothing; or if
\* the image is to stay.
LEMMA NoCleanupEffect ==
  ASSUME Inv, More, busy, NoCleanup
  PROVE  Effect /\ More'
<1>1. /\ mode = "clean" /\ at > 0 /\ Ret(Cleaned) /\ Step # "RunSourceInstance"
      /\ UNCHANGED <<config, result, told, created, group, spot, inst, ami>>
      /\ keepNotes /\ keepEC2 /\ builder' = builder
  BY DEF NoCleanup, keepNotes, keepEC2, ec2, config
<1>2. Acts(Entries) /\ asked' = asked /\ mode' = "clean" /\ sub' = "start"
  BY <1>1, CleansUp
<1>3. \A r \in holds' : r \in holds
  BY <1>1, Held, HeldAfter
<1>4. Step = "SecurityGroup" => group' # "exists"
  BY <1>1 DEF NoCleanup, Inv, GroupInv
<1>5. Step = "CreateAMI" => "image" \notin created' \/ "halted" \notin bag
  BY <1>1 DEF NoCleanup, mustDeregister
<1>6. ASSUME NEW r \in holds', r \in Makes(Step) PROVE r = "image" /\ "halted" \notin bag
  BY <1>1, <1>4, <1>5, <1>6, HeldAfter, Maker
<1>7. Effect
  BY <1>1, <1>2, <1>3, <1>6, CleanupEffect
<1>8. More'
  BY <1>1, <1>2, QuietMore DEF Passing, Launching, Imaging, CleaningUp
<1>9. QED
  BY <1>7, <1>8

\* The process panics, or Builder.Run looks for its results when the runner has ended.  No
\* interrupt and no error: then no step has been given up, the image's included.
LEMMA EndImplements ==
  ASSUME Inv, More, busy, NoKeyPair \/ EmptyReply \/ Report
  PROVE  [Build!Next]_(Build!bvars) /\ More'
<1>1. UNCHANGED <<runnerVars, config, sub, created, told, group, spot, inst, ami>>
  BY DEF NoKeyPair, EmptyReply, Report, keepEC2, ec2
<1>2. UNCHANGED <<Build!list, buildPhase, openSteps, asked, "halted" \in bag, holds, excused>>
  BY <1>1, ListKept DEF runnerVars, buildPhase, openSteps, holds, excused
<1>3. More'
  BY <1>1 DEF More, Done, runnerVars, config
<1>4. CASE NoKeyPair \/ EmptyReply
  <2>1. mode = "run" /\ at \in 1..last /\ last \in Nat /\ result' = "panic"
    BY <1>4, AtStep DEF NoKeyPair, EmptyReply, Running, Inv, TypeOK, RunnerTypeOK
  <2>2. Build!Panic
    BY <1>2, <2>1 DEF Build!Panic, buildPhase, openSteps
  <2>3. QED
    BY <1>3, <2>2 DEF Build!Next, busy
<1>5. CASE Report
  <2>1. mode = "ended" /\ ("halted" \in bag => "error" \in bag) /\ ("cancelled" \in bag => asked)
    BY <1>5 DEF Report, Inv, Reasons
  <2>2. /\ result' \in Build!Outcomes
        /\ "halted" \in bag => result' = "error"
        /\ ~asked => result' \in {"artifact", "error"}
    <3>1. CASE "error" \in bag
      BY <1>5, <3>1 DEF Report, Build!Outcomes
    <3>2. CASE "error" \notin bag
      <4>1. result' \in {"artifact", "nothing"} /\ ("amis" \in bag => result' = "artifact")
        BY <1>5, <3>2 DEF Report
      <4>2. ~asked => "amis" \in bag
        BY <2>1, <3>2 DEF More, Done
      <4>3. QED
        BY <2>1, <3>2, <4>1, <4>2 DEF Build!Outcomes
    <3>3. QED
      BY <3>1, <3>2
  <2>3. Build!Return(result')
    BY <1>2, <2>1, <2>2 DEF Build!Return, buildPhase
  <2>4. QED
    BY <1>3, <2>2, <2>3 DEF Build!Next, busy
<1>6. QED
  BY <1>4, <1>5

\* What EC2 does on its own brings a build nothing it did not know of.
LEMMA WorldImplements ==
  ASSUME Inv, More, EC2 \/ EC2Terminates \/ UNCHANGED vars
  PROVE  [Build!Next]_(Build!bvars) /\ More'
<1>1. UNCHANGED <<runnerVars, config, sub, created, told, result>>
  BY DEF EC2, EC2Terminates, keepBuild, vars
<1>2. /\ group' = group /\ (spot' = spot \/ spot = "open") /\ (ami' = ami \/ ami = "pending")
      /\ inst' \in Live => inst \in Live \/ spot = "open"
  BY DEF EC2, EC2Terminates, SpotMoves, InstanceMoves, ImageMoves, InstanceTerminates, Live,
         vars, ec2
<1>3. UNCHANGED <<Build!list, buildPhase, openSteps, asked, "halted" \in bag, excused, result>>
  BY <1>1, ListKept DEF runnerVars, buildPhase, openSteps, excused
<1>4. \A r \in holds' : r \in holds
  BY <1>1, <1>2, Held, HeldAfter DEF Inv, InstanceInv
<1>5. Build!Lose
  BY <1>3, <1>4 DEF Build!Lose
<1>6. More'
  BY <1>1, <1>2 DEF More, Done, runnerVars, config
<1>7. QED
  BY <1>5, <1>6 DEF Build!Next

\* The abstract build has not begun.
LEMMA InitImplements == Init => Build!Init
<1> SUFFICES ASSUME Init PROVE Build!Init
  OBVIOUS
<1>1. last \in Nat
  BY StepPlaces DEF Init, RunnerInit
<1>2. [n \in 1..last |-> Makes(Steps[n])]
        \in [1..last -> SUBSET {"group", "spot", "instance", "image"}]
  BY DEF Makes
<1>3. /\ holds = {} /\ excused = {} /\ bag = {} /\ asked = FALSE
      /\ buildPhase = "ahead" /\ openSteps = 0
  BY DEF Init, RunnerInit, holds, excused, buildPhase, openSteps
<1>4. QED
  BY <1>1, <1>2, <1>3 DEF Init, Build!Init

LEMMA StepImplements == Inv /\ More /\ [Next]_vars => [Build!Next]_(Build!bvars) /\ More'
<1> SUFFICES ASSUME Inv, More, [Next]_vars PROVE [Build!Next]_(Build!bvars) /\ More'
  OBVIOUS
<1>1. CASE busy /\ (NoKeyPair \/ EmptyReply \/ Report)
  BY <1>1, EndImplements
<1>2. CASE EC2 \/ EC2Terminates \/ UNCHANGED vars
  BY <1>2, WorldImplements
<1>3. CASE /\ busy /\ ~(NoKeyPair \/ EmptyReply \/ Report)
           /\ Code \/ Faults \/ Cancel
  <2>1. Effect /\ More'
    BY <1>3, QuietStepEffect, ReplyLostEffect, GroupEffect, LaunchEffect, EndInstanceEffect, ReachedEffect,
       StopEffect, ImageEffect, NoCleanupEffect DEF Code, Faults
  <2>2. QED
    BY <1>3, <2>1, EffectImplements
<1>4. QED
  BY <1>1, <1>2, <1>3 DEF Next

\* Every behaviour of a build of an AMI, whatever fails in EC2 and whenever it is
\* interrupted, is one of the abstract build.
THEOREM Implements == Spec => ImplementsBuild
BY Invariant, InitMore, InitImplements, StepImplements, PTL DEF Spec, ImplementsBuild, Build!Spec

-----------------------------------------------------------------------------
(* What the abstract build comes to                                        *)

Makers == [n \in 1..last |-> Makes(Steps[n])]

\* Build!Owned, as the proof needs it.
Pending ==
  \A r \in holds :
    \/ r \in excused
    \/ r = "image" /\ "halted" \notin bag /\ buildPhase # "ahead"
    \/ \E n \in 1..openSteps : r \in Makers[n]

LEMMA PendingKept ==
  ASSUME Inv, Pending, [Build!Next]_(Build!bvars)
  PROVE  Pending'
<1>1. openSteps \in Nat
  BY DEF Inv, TypeOK, RunnerTypeOK, Places, Placed, openSteps
<1>2. CASE UNCHANGED Build!bvars
  <2>1. UNCHANGED <<holds, excused, buildPhase, openSteps, Makers, "halted" \in bag>>
    BY <1>2 DEF Build!bvars, Build!list, Makers
  <2>2. QED
    BY <2>1 DEF Pending
<1>3. CASE Build!Enter
  <2>1. /\ openSteps' = openSteps + 1
        /\ UNCHANGED <<holds, excused, buildPhase, Makers, "halted" \in bag>>
    BY <1>3 DEF Build!Enter, Build!list, Makers
  <2>2. QED
    BY <1>1, <2>1 DEF Pending
<1>4. CASE Build!Run
  <2>1. /\ openSteps > 0 /\ buildPhase = "ahead" /\ excused \subseteq excused'
        /\ UNCHANGED <<openSteps, Makers>>
        /\ \A r \in holds' : r \in holds \/ r \in Makers[openSteps]
    BY <1>4 DEF Build!Run, Build!list, Makers
  <2>2. QED
    BY <1>1, <2>1 DEF Pending
<1>5. CASE Build!TurnBack
  <2>1. UNCHANGED <<holds, excused, openSteps, Makers>> /\ buildPhase = "ahead"
    BY <1>5 DEF Build!TurnBack, Build!list, Makers
  <2>2. QED
    BY <2>1 DEF Pending
<1>6. CASE Build!CleaningUp
  <2>1. /\ holds' \subseteq holds /\ excused \subseteq excused'
        /\ UNCHANGED <<buildPhase, openSteps, Makers, "halted" \in bag>>
    BY <1>6 DEF Build!CleaningUp, Build!list, Makers
  <2>2. QED
    BY <2>1 DEF Pending
<1>7. CASE Build!CleanedUp
  <2>1. /\ openSteps > 0 /\ openSteps' = openSteps - 1
        /\ holds' \subseteq holds /\ excused \subseteq excused' /\ buildPhase = "back"
        /\ UNCHANGED <<buildPhase, Makers, "halted" \in bag>>
        /\ \A r \in holds' : r \in Makers[openSteps]
                               => r \in excused' \/ (r = "image" /\ "halted" \notin bag)
    BY <1>7 DEF Build!CleanedUp, Build!Accounts, Build!list, Makers
  <2>2. QED
    BY <1>1, <2>1 DEF Pending
<1>8. CASE Build!End
  <2>1. /\ buildPhase' # "ahead"
        /\ UNCHANGED <<holds, excused, openSteps, Makers, "halted" \in bag>>
    BY <1>8 DEF Build!End, Build!list, Makers
  <2>2. QED
    BY <2>1 DEF Pending
<1>9. CASE Build!Ask \/ Build!Refuse \/ Build!Panic \/ \E o \in Build!Outcomes : Build!Return(o)
  <2>1. UNCHANGED <<holds, excused, buildPhase, openSteps, Makers, "halted" \in bag>>
    BY <1>9 DEF Build!Ask, Build!Refuse, Build!Panic, Build!Return, Build!list, Makers
  <2>2. QED
    BY <2>1 DEF Pending
<1>10. CASE Build!Lose
  <2>1. /\ holds' \subseteq holds
        /\ UNCHANGED <<excused, buildPhase, openSteps, Makers, "halted" \in bag>>
    BY <1>10 DEF Build!Lose, Build!list, Makers
  <2>2. QED
    BY <2>1 DEF Pending
<1>11. QED
  BY <1>2, <1>3, <1>4, <1>5, <1>6, <1>7, <1>8, <1>9, <1>10 DEF Build!Next

\* In every state of a build what exists is accounted for, or is delivered, or the Cleanup of
\* the step that made it is still to come.  So when the build is over, whatever has failed and
\* whenever it was interrupted, all that is left of what it knew of is what the user was told
\* of, or can find through that, and the image if no step has halted it.
THEOREM EverythingAccounted == Spec => [](Build!Owned /\ Build!AllAccounted)
<1>1. Init => Pending
  BY DEF Init, RunnerInit, Pending, holds
<1>2. Inv /\ More /\ Pending /\ [Next]_vars => Pending' /\ More'
  BY StepImplements, PendingKept
<1>3. Pending => Build!Owned
  BY DEF Pending, Makers, Build!Owned
<1>4. Inv /\ Pending => Build!AllAccounted
  <2> SUFFICES ASSUME Inv, Pending, buildPhase = "over"
               PROVE  \A r \in holds : r \in excused \/ (r = "image" /\ "halted" \notin bag)
    BY DEF Build!AllAccounted, Build!Accounts
  <2>1. openSteps = 0
    BY DEF Inv, TypeOK, RunnerTypeOK, Modes, Places, Placed, buildPhase, openSteps
  <2>2. QED
    BY <2>1 DEF Pending
<1>5. QED
  BY Invariant, InitMore, <1>1, <1>2, <1>3, <1>4, PTL DEF Spec

-----------------------------------------------------------------------------
(* A build counts down                                                     *)

\* The steps of the build itself and of its calls to EC2, as opposed to the user's and to
\* what EC2 does on its own.
Own == Code \/ Faults

\* What is to be done before the runner moves: the parts of a Run or of a Cleanup, the
\* tries left, and the note of an interrupt.
Part ==
  IF sub = "start" THEN 6 ELSE IF sub = "launch" THEN 5 ELSE IF sub = "awaitSpot" THEN 4
  ELSE IF sub \in {"findSpot", "awaitCancelled"} THEN 3
  ELSE IF sub \in {"terminate", "awaitImage"} THEN 2 ELSE 1

Inner == (IF "cancelled" \in bag THEN 0 ELSE 1) + Part + (MaxTries - tries)

\* More than the number of steps a build can still take.
Rank == IF busy THEN 100 * Distance + Inner + 1 ELSE 0

Onward == Rank' <= Rank /\ (busy /\ Own => Rank' < Rank)

LEMMA InnerSmall == ASSUME Inv PROVE Inner \in 0..99
<1>1. tries \in 0..4 /\ Part \in 1..6
  BY DEF Inv, TypeOK, MaxTries, Part
<1>2. QED
  BY <1>1 DEF Inner, MaxTries

LEMMA RankNat == ASSUME Inv PROVE Rank \in Nat /\ (busy => Rank > 0)
<1>1. Distance \in Nat
  BY DEF Inv, TypeOK, RunnerTypeOK, Places, Placed, Modes, Distance
<1>2. QED
  BY <1>1, InnerSmall DEF Rank

LEMMA RankFalls ==
  ASSUME Inv, Inv', busy, Acts(Entries), UNCHANGED result,
         Inner' < Inner \/ ~UNCHANGED <<mode, at>>
  PROVE  Rank' < Rank /\ Rank' <= Rank
<1>1. Inner \in 0..99 /\ Inner' \in 0..99
  <2>1. tries' \in 0..4 /\ Part' \in 1..6
    BY DEF Inv, TypeOK, MaxTries, Part
  <2>2. \A t \in 0..4, f \in {0, 1}, p \in 1..6 : f + p + (5 - t) \in 0..99
    OBVIOUS
  <2>3. Inner' \in 0..99
    BY <2>1, <2>2 DEF Inner, MaxTries
  <2>4. QED
    BY <2>3, InnerSmall
<1>2. /\ Distance \in Nat /\ Distance' \in Nat
      /\ UNCHANGED <<mode, at>> => Distance' = Distance
      /\ ~UNCHANGED <<mode, at>> => Distance' + 1 <= Distance
  BY InvSound, Nearer
<1>3. /\ Rank = 100 * Distance + Inner + 1
      /\ Rank' = 100 * Distance' + Inner' + 1
  BY DEF Rank, busy
<1>4. CASE ~UNCHANGED <<mode, at>>
  <2>1. Distance \in Nat /\ Distance' \in Nat /\ Distance' + 1 <= Distance
    BY <1>2, <1>4
  <2>2. /\ 100 * Distance' + Inner' + 1 < 100 * Distance + Inner + 1
        /\ 100 * Distance' + Inner' + 1 <= 100 * Distance + Inner + 1
    BY <1>1, <2>1, FirstDigit, Zenon
  <2>3. QED
    BY <1>3, <2>2
<1>5. CASE UNCHANGED <<mode, at>>
  <2>1. Distance' = Distance /\ Inner' < Inner
    BY <1>2, <1>5
  <2>2. /\ 100 * Distance + Inner' + 1 < 100 * Distance + Inner + 1
        /\ 100 * Distance + Inner' + 1 <= 100 * Distance + Inner + 1
    BY <1>1, <1>2, <2>1, SecondDigit
  <2>3. QED
    BY <1>3, <2>1, <2>2
<1>6. QED
  BY <1>4, <1>5

\* A Run or a Cleanup returns, ...
LEMMA Returning ==
  ASSUME Inv, \/ Ret(Continue) \/ Ret(Fail) \/ Ret(Cleaned)
              \/ Ret(StepReturns("halt", {})) \/ Ret(StepReturns("halt", {"error"}))
  PROVE  ~UNCHANGED <<mode, at>>
<1>1. at \in Nat
  BY DEF Inv, TypeOK, RunnerTypeOK
<1>2. CASE \/ Ret(Continue) \/ Ret(Fail)
           \/ Ret(StepReturns("halt", {})) \/ Ret(StepReturns("halt", {"error"}))
  BY <1>2 DEF Ret, Continue, Fail, StepReturns
<1>3. CASE Ret(Cleaned)
  BY <1>1, <1>3 DEF Ret, Cleaned
<1>4. QED
  BY <1>2, <1>3

\* ... goes on to a part of it that comes later, ...
LEMMA PartFalls ==
  ASSUME Inv, UNCHANGED tries, "cancelled" \in bag' <=> "cancelled" \in bag,
         \/ sub = "start" /\ sub' \in Subs \ {"start"}
         \/ sub = "launch" /\ sub' \in {"awaitSpot", "awaitRunning"}
         \/ sub = "awaitSpot" /\ sub' = "findSpot"
         \/ sub = "findSpot" /\ sub' = "awaitRunning"
         \/ sub = "awaitImage" /\ sub' = "findImage"
         \/ sub = "awaitCancelled" /\ sub' = "terminate"
         \/ sub = "terminate" /\ sub' = "awaitTerminated"
  PROVE  Inner' < Inner
<1>1. Part \in Nat /\ Part' \in Nat /\ Part' < Part
  BY DEF Part, Subs
<1>2. tries \in 0..4 /\ tries' = tries
  BY DEF Inv, TypeOK, MaxTries
<1>3. \A p, q \in Nat, f \in {0, 1}, t \in 0..4 : q < p => f + q + (5 - t) < f + p + (5 - t)
  OBVIOUS
<1>4. QED
  BY <1>1, <1>2, <1>3 DEF Inner, MaxTries

\* ... or tries again.
LEMMA TryingAgain ==
  ASSUME Inv, UNCHANGED runnerVars, sub' = sub, tries' = tries + 1
  PROVE  Inner' < Inner
<1>1. tries \in 0..4 /\ Part \in 1..6 /\ Part' = Part
  BY DEF Inv, TypeOK, MaxTries, Part
<1>2. QED
  BY <1>1 DEF Inner, MaxTries, runnerVars

LEMMA ReturningSteps ==
  ASSUME Inv, busy, \/ LibraryStep \/ ModifyInstance \/ Connect \/ ConnectTimeout \/ CallFails
                    \/ ReplyLost \/ WaitFails \/ WaitInterrupted \/ WaitUnexpected \/ UseOwnGroups
                    \/ Terminated \/ TerminateWaitFails \/ CreateImageRefused \/ FindImage
                    \/ Deregister \/ NoCleanup
  PROVE  ~UNCHANGED <<mode, at>>
<1>1. CASE \/ LibraryStep \/ ModifyInstance \/ Connect \/ ConnectTimeout \/ CallFails
           \/ ReplyLost \/ WaitFails \/ WaitInterrupted \/ WaitUnexpected
  BY <1>1, Returning DEF LibraryStep, ModifyInstance, Connect, ConnectTimeout, CallFails,
     ReplyLost, WaitFails, WaitInterrupted, WaitUnexpected
<1>2. CASE \/ UseOwnGroups \/ Terminated \/ TerminateWaitFails \/ CreateImageRefused \/ FindImage
           \/ Deregister \/ NoCleanup
  BY <1>2, Returning DEF UseOwnGroups, Terminated, TerminateWaitFails, CreateImageRefused,
     FindImage, Deregister, NoCleanup
<1>3. QED
  BY <1>1, <1>2

LEMMA OtherSteps ==
  ASSUME Inv, busy, \/ WaitReached \/ CreateGroup \/ AuthorizeGroup \/ DeleteGroup \/ LookUp
                    \/ Launch \/ FindSpotInstance \/ CancelSpot \/ SpotCancelled \/ Terminate
                    \/ Stop \/ CreateImage
  PROVE  Inner' < Inner \/ ~UNCHANGED <<mode, at>>
<1>1. CASE WaitReached
  <2>1. sub \in Awaits /\ tries' = tries
    BY <1>1 DEF WaitReached
  <2>2. CASE sub = "awaitSpot"
    BY <1>1, <2>1, <2>2, PartFalls DEF WaitReached, Goto, runnerVars
  <2>3. CASE sub = "awaitImage"
    BY <1>1, <2>1, <2>3, PartFalls DEF WaitReached, Goto, runnerVars
  <2>4. CASE sub \in {"awaitRunning", "awaitStopped"}
    <3>1. Ret(Continue)
      BY <1>1, <2>4 DEF WaitReached
    <3>2. QED
      BY <3>1, Returning
  <2>5. QED
    BY <2>1, <2>2, <2>3, <2>4 DEF Awaits
<1>2. CASE AuthorizeGroup \/ DeleteGroup
  BY <1>2, Returning, TryingAgain DEF AuthorizeGroup, DeleteGroup, Running, Cleaning, Goto
<1>3. CASE CreateGroup \/ LookUp \/ Launch \/ FindSpotInstance
  BY <1>3, PartFalls
     DEF CreateGroup, LookUp, Launch, FindSpotInstance, Running, Goto, runnerVars, Subs
<1>4. CASE CancelSpot \/ SpotCancelled
  BY <1>4, Returning, PartFalls DEF CancelSpot, SpotCancelled, Cleaning, Goto, runnerVars, Subs
<1>5. CASE Terminate \/ Stop
  BY <1>5, Returning, PartFalls DEF Terminate, Stop, Running, Cleaning, Goto, runnerVars, Subs
<1>6. CASE CreateImage
  BY <1>6, PartFalls DEF CreateImage, Running, Subs
<1>7. QED
  BY <1>1, <1>2, <1>3, <1>4, <1>5, <1>6

LEMMA RunnerOnward ==
  ASSUME Inv, busy, RunnerStep
  PROVE  Inner' < Inner \/ ~UNCHANGED <<mode, at>>
<1>1. tries \in 0..4 /\ at \in Nat /\ Part \in 1..6
  BY DEF Inv, TypeOK, RunnerTypeOK, MaxTries, Part
<1>2. CASE FlagCancelled
  <2>1. Part' = Part /\ tries' = tries
    BY <1>2 DEF RunnerStep, Part
  <2>2. QED
    BY <1>1, <1>2, <2>1 DEF FlagCancelled, Inner, MaxTries
<1>3. CASE Loop
  BY <1>1, <1>3 DEF Loop, StartRunner, EnterStep, LeaveLoop, EndRunner
<1>4. QED
  BY <1>2, <1>3 DEF RunnerStep

\* What others do leaves the rank as it is.
LEMMA WorldOnward ==
  ASSUME Inv, (busy /\ Cancel) \/ EC2 \/ EC2Terminates
  PROVE  Rank' <= Rank
<1>1. UNCHANGED <<mode, at, last, bag, sub, tries, result>>
  BY DEF Cancel, AskCancel, EC2, EC2Terminates, keepBuild, runnerVars
<1>2. Rank' = Rank
  BY <1>1 DEF Rank, busy, Inner, Part, Distance
<1>3. QED
  BY <1>2, RankNat

LEMMA StepOnward == Inv /\ Inv' /\ More /\ [Next]_vars => [Onward]_vars
<1> SUFFICES ASSUME Inv, Inv', More, Next PROVE Onward
  OBVIOUS
<1>1. CASE busy /\ (NoKeyPair \/ EmptyReply \/ Report)
  <2>1. result' # "none"
    BY <1>1 DEF NoKeyPair, EmptyReply, Report
  <2>2. Rank' = 0 /\ Rank \in Nat /\ Rank > 0
    BY <1>1, <2>1, RankNat DEF Rank, busy
  <2>3. QED
    BY <2>2 DEF Onward
<1>2. CASE busy /\ Own /\ ~(NoKeyPair \/ EmptyReply \/ Report)
  <2>1. Effect
    BY <1>2, QuietStepEffect, ReplyLostEffect, GroupEffect, LaunchEffect, EndInstanceEffect, ReachedEffect,
       StopEffect, ImageEffect, NoCleanupEffect DEF Own, Code, Faults
  <2>2. Inner' < Inner \/ ~UNCHANGED <<mode, at>>
    BY <1>2, ReturningSteps, OtherSteps, RunnerOnward DEF Own, Code, Faults
  <2>3. Rank' < Rank /\ Rank' <= Rank
    BY <1>2, <2>1, <2>2, RankFalls DEF Effect
  <2>4. QED
    BY <2>3 DEF Onward
<1>3. CASE ~(busy /\ Own)
  BY <1>3, WorldOnward DEF Next, Own, Onward
<1>4. QED
  BY <1>1, <1>2, <1>3

\* Every step of the build itself brings it nearer its end, and nothing EC2 or the user does
\* takes it back: the runner goes back to no step it has left, and the tries to authorize and
\* to delete the group are no endless loops.  A poll that finds nothing new is no step of the
\* module: that a wait comes to an end is what InterruptEnds assumes fairness for.
THEOREM CountsDown == Spec => [][Onward]_vars
<1>1. Inv /\ More /\ [Next]_vars => More'
  BY StepImplements
<1>2. QED
  BY Invariant, InitMore, StepOnward, <1>1, PTL DEF Spec

=============================================================================
