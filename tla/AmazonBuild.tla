----------------------------- MODULE AmazonBuild -----------------------------
(***************************************************************************)
(* builder/amazon-windows/ebs and instance: one build of an AMI from an    *)
(* EC2 instance, backed by EBS or by the instance's own storage.           *)
(*                                                                         *)
(* The build runs its steps under StepRunner while EC2 moves the security  *)
(* group, the spot request, the instance and the image through their own   *)
(* lives, and the user may interrupt at any point.  What matters is what   *)
(* is left behind when the build ends: which resources still exist, which  *)
(* of them the user has been told about, and what the builder returns.     *)
(*                                                                         *)
(* A wait (StateChangeConf, WaitForState) is the contract the module       *)
(* WaitForState checks: it ends well only in its target state, and         *)
(* otherwise with an error: "interrupted" if the bag says so, or any other *)
(* failure at any time.                                                    *)
(***************************************************************************)
EXTENDS StepRunner, Sequences

VARIABLES
  builder,      \* "ebs" or "instance"
  isSpot,       \* configuration: a spot price is given
  ownGroups,    \* configuration: security groups are given
  sub,          \* where in the current Run or Cleanup the build is
  tries,        \* retries made by the current loop of StepSecurityGroup
  created,      \* what the steps remember for their Cleanup
  told,         \* resources the user was told may still be around
  group,        \* the security group in EC2
  spot,         \* the spot request in EC2
  inst,         \* the instance in EC2
  ami,          \* the image in EC2
  imagedFrom,   \* state of the instance when the image was taken
  result        \* what Builder.Run returned

config == <<builder, isSpot, ownGroups>>
ec2    == <<group, spot, inst, ami>>
vars   == <<runnerVars, config, sub, tries, created, told, ec2, imagedFrom, result>>

\* The steps of Builder.Run: both lists begin and end alike.
EbsSteps ==
  <<"SourceAMIInfo", "SecurityGroup", "RunSourceInstance", "Connect", "Provision",
    "StopInstance", "ModifyInstance", "CreateAMI",
    "RegionCopy", "ModifyAttrs", "CreateTags">>

InstanceSteps ==
  <<"SourceAMIInfo", "SecurityGroup", "RunSourceInstance", "Connect", "Provision",
    "UploadX509Cert", "BundleVolume", "UploadBundle", "RegisterAMI",
    "RegionCopy", "ModifyAttrs", "CreateTags">>

Steps == IF builder = "ebs" THEN EbsSteps ELSE InstanceSteps

\* Builder.Run puts "keyPair" in the bag, which StepRunSourceInstance requires.
HasKeyPair == builder = "ebs"

MaxTries == 5

Live == {"pending", "running", "stopping", "stopped"}
InstanceStates == Live \cup {"none", "shuttingDown", "terminated"}

TypeOK ==
  /\ RunnerTypeOK({"cancelled", "halted", "error", "amis"})
  /\ builder \in {"ebs", "instance"} /\ isSpot \in BOOLEAN /\ ownGroups \in BOOLEAN
  /\ sub \in {"start", "authorize", "launch", "awaitSpot", "findSpot", "awaitRunning",
              "awaitStopped", "awaitImage", "findImage", "awaitCancelled",
              "terminate", "awaitTerminated"}
  /\ tries \in 0..(MaxTries - 1)
  /\ created \in SUBSET {"group", "spot", "instance", "image"}
  /\ told \in SUBSET {"group", "spot", "instance", "image"}
  /\ group \in {"none", "exists", "deleted", "orphan"}
  /\ spot \in {"none", "open", "active", "failed", "cancelled", "orphan"}
  /\ inst \in InstanceStates
  /\ ami \in {"none", "pending", "available", "failed", "deregistered"}
  /\ imagedFrom \in {"none"} \cup InstanceStates
  /\ result \in {"none", "error", "nothing", "artifact", "panic"}

Init ==
  /\ builder \in {"ebs", "instance"}
  /\ RunnerInit(Len(Steps))
  /\ isSpot \in BOOLEAN /\ ownGroups \in BOOLEAN
  /\ sub = "start"
  /\ tries = 0
  /\ created = {} /\ told = {}
  /\ group = "none" /\ spot = "none" /\ inst = "none" /\ ami = "none"
  /\ imagedFrom = "none"
  /\ result = "none"

-----------------------------------------------------------------------------
(* Frames                                                                  *)

Step == Steps[at]
Running(step, s)  == mode = "run" /\ Step = step /\ sub = s
Cleaning(step, s) == mode = "clean" /\ at > 0 /\ Step = step /\ sub = s

Goto(s) == sub' = s /\ UNCHANGED runnerVars

\* The step returns; the next Run or Cleanup starts at its start.
Ret(how) == how /\ sub' = "start"

keepNotes == UNCHANGED <<config, created, told, imagedFrom, result>>
keepEC2   == UNCHANGED ec2

-----------------------------------------------------------------------------
(* Steps of libraries, and those of this repository that make one call     *)

\* awscommon.StepSourceAMIInfo, StepProvision, StepAMIRegionCopy,
\* StepModifyAMIAttributes and StepCreateTags: each continues, or puts "error" and
\* halts; StepProvision also halts when it finds the build cancelled.
LibrarySteps == {"SourceAMIInfo", "Provision", "RegionCopy", "ModifyAttrs", "CreateTags"}

LibraryStep ==
  /\ mode = "run" /\ Step \in LibrarySteps
  /\ \/ Ret(Continue)
     \/ Step = "Provision" /\ "cancelled" \in bag /\ Ret(StepReturns("halt", {}))
  /\ UNCHANGED tries /\ keepNotes /\ keepEC2

\* stepModifyInstance: one optional call to EC2.
ModifyInstance ==
  /\ Running("ModifyInstance", "start")
  /\ Ret(Continue)
  /\ UNCHANGED tries /\ keepNotes /\ keepEC2

\* StepConnectWinRM, as WinRMConnect has it: it continues with a communicator,
\* which needs a running instance, or halts because the bag has "cancelled".
Connect ==
  /\ Running("Connect", "start")
  /\ \/ inst = "running" /\ Ret(Continue)
     \/ "cancelled" \in bag /\ Ret(StepReturns("halt", {}))
  /\ UNCHANGED tries /\ keepNotes /\ keepEC2

\* ... or because its timer fired.
ConnectTimeout ==
  /\ Running("Connect", "start")
  /\ Ret(StepReturns("halt", {"error"}))
  /\ UNCHANGED tries /\ keepNotes /\ keepEC2

\* A call to EC2 fails: every step that makes one puts "error" and halts.
CallSubs == {<<"SecurityGroup", "start">>, <<"RunSourceInstance", "start">>,
             <<"RunSourceInstance", "launch">>, <<"RunSourceInstance", "findSpot">>,
             <<"StopInstance", "start">>, <<"ModifyInstance", "start">>,
             <<"CreateAMI", "start">>, <<"CreateAMI", "findImage">>}

CallFails ==
  /\ mode = "run"
  /\ <<Step, sub>> \in CallSubs \/ Step \in LibrarySteps
  /\ Step = "SecurityGroup" => ~ownGroups
  /\ Step = "RunSourceInstance" => HasKeyPair
  /\ Step = "StopInstance" => ~isSpot
  /\ Ret(Fail)
  /\ UNCHANGED tries /\ keepNotes /\ keepEC2

\* A call that makes something fails although EC2 has made it: the step, which knows no
\* better, puts "error" and halts, and notes nothing.  Such an "orphan" is not followed.
ReplyLost ==
  /\ \/ /\ Running("SecurityGroup", "start") /\ ~ownGroups
        /\ group' = "orphan" /\ UNCHANGED <<spot, inst, ami>>
     \/ /\ Running("RunSourceInstance", "launch")
        /\ IF isSpot THEN spot' = "orphan" /\ UNCHANGED inst
                     ELSE inst' = "pending" /\ UNCHANGED spot
        /\ UNCHANGED <<group, ami>>
     \/ /\ Running("CreateAMI", "start") /\ inst \in Live
        /\ ami' = "pending" /\ UNCHANGED <<group, spot, inst>>
  /\ Ret(Fail)
  /\ UNCHANGED tries /\ keepNotes

-----------------------------------------------------------------------------
(* Waiting for EC2: the calls of WaitForState in Run                       *)

Awaits == {"awaitSpot", "awaitRunning", "awaitStopped", "awaitImage"}

Reached ==
  CASE sub = "awaitSpot"    -> spot = "active"
    [] sub = "awaitRunning" -> inst = "running"
    [] sub = "awaitStopped" -> inst = "stopped"
    [] sub = "awaitImage"   -> ami = "available"

\* The wait found the target state; only StepRunSourceInstance notes anything.
WaitReached ==
  /\ mode = "run" /\ sub \in Awaits /\ Reached
  /\ CASE sub = "awaitSpot"  -> Goto("findSpot")
       [] sub = "awaitImage" -> Goto("findImage")
       [] OTHER              -> Ret(Continue)
  /\ created' = IF sub = "awaitRunning" THEN created \cup {"instance"} ELSE created
  /\ UNCHANGED <<config, tries, told, imagedFrom, result>> /\ keepEC2

\* Slip: the wait for the image has no StepState.
SlipUninterruptible ==
  /\ mode = "run" /\ sub \in Awaits \ {"awaitImage"}
  /\ "cancelled" \in bag
  /\ Ret(Fail)
  /\ UNCHANGED tries /\ keepNotes /\ keepEC2

\* StepState is set in every wait of a Run, so that it sees the interrupt.
WaitInterrupted ==
  /\ mode = "run" /\ sub \in Awaits
  /\ "cancelled" \in bag
  /\ Ret(Fail)
  /\ UNCHANGED tries /\ keepNotes /\ keepEC2

\* The resource was found in a state that is neither the target nor pending.
Unexpected ==
  CASE sub = "awaitSpot"    -> spot \in {"failed", "cancelled"}
    [] sub = "awaitRunning" -> inst \notin {"pending", "running"}
    [] sub = "awaitStopped" -> inst \notin {"running", "stopping", "stopped"}
    [] sub = "awaitImage"   -> ami = "failed"

WaitUnexpected ==
  /\ mode = "run" /\ sub \in Awaits /\ Unexpected
  /\ Ret(Fail)
  /\ UNCHANGED tries /\ keepNotes /\ keepEC2

\* Refresh failed, or the resource was not found for long.
WaitFails ==
  /\ mode = "run" /\ sub \in Awaits
  /\ Ret(Fail)
  /\ UNCHANGED tries /\ keepNotes /\ keepEC2

-----------------------------------------------------------------------------
(* StepSecurityGroup                                                       *)

UseOwnGroups ==
  /\ Running("SecurityGroup", "start")
  /\ ownGroups
  /\ Ret(Continue)
  /\ UNCHANGED tries /\ keepNotes /\ keepEC2

\* Slip: the group is not remembered when it is made.
SlipForgetsGroup ==
  /\ Running("SecurityGroup", "start")
  /\ ~ownGroups
  /\ group' = "exists"
  /\ Goto("authorize")
  /\ UNCHANGED <<config, tries, created, told, spot, inst, ami, imagedFrom, result>>

CreateGroup ==
  /\ Running("SecurityGroup", "start")
  /\ ~ownGroups
  /\ group' = "exists"
  /\ created' = created \cup {"group"}
  /\ Goto("authorize")
  /\ UNCHANGED <<config, tries, told, spot, inst, ami, imagedFrom, result>>

\* Slip: one try too many.
SlipSixTries ==
  /\ Running("SecurityGroup", "authorize")
  /\ \/ Ret(Continue) /\ tries' = 0
     \/ tries < MaxTries /\ tries' = tries + 1 /\ Goto("authorize")
     \/ tries = MaxTries /\ tries' = 0 /\ Ret(Fail)
  /\ keepNotes /\ keepEC2

\* One turn of the loop around AuthorizeSecurityGroup.
AuthorizeGroup ==
  /\ Running("SecurityGroup", "authorize")
  /\ \/ Ret(Continue) /\ tries' = 0
     \/ tries + 1 < MaxTries /\ tries' = tries + 1 /\ Goto("authorize")
     \/ tries + 1 = MaxTries /\ tries' = 0 /\ Ret(Fail)
  /\ keepNotes /\ keepEC2

\* Cleanup: the group is deleted in at most 5 tries.  EC2 refuses while an instance
\* is in it.
DeleteGroup ==
  /\ Cleaning("SecurityGroup", "start")
  /\ "group" \in created
  /\ \/ /\ inst \in {"none", "terminated"}
        /\ group' = "deleted" /\ tries' = 0
        /\ Ret(Cleaned)
        /\ UNCHANGED told
     \/ /\ tries + 1 < MaxTries /\ tries' = tries + 1
        /\ Goto("start")
        /\ UNCHANGED <<group, told>>
     \/ /\ tries + 1 = MaxTries /\ tries' = 0
        /\ told' = told \cup {"group"}
        /\ Ret(Cleaned)
        /\ UNCHANGED group
  /\ UNCHANGED <<config, created, spot, inst, ami, imagedFrom, result>>

-----------------------------------------------------------------------------
(* StepRunSourceInstance                                                   *)

\* state.Get("keyPair").(string) comes first: the instance builder's bag has no such
\* entry, and the process panics.  Its further steps are never reached.
NoKeyPair ==
  /\ Running("RunSourceInstance", "start")
  /\ ~HasKeyPair
  /\ result' = "panic"
  /\ UNCHANGED <<runnerVars, config, sub, tries, created, told, imagedFrom>> /\ keepEC2

\* User data is read, the source AMI and the spot price looked up.
LookUp ==
  /\ Running("RunSourceInstance", "start")
  /\ HasKeyPair
  /\ Goto("launch")
  /\ UNCHANGED tries /\ keepNotes /\ keepEC2

\* RunInstances or RequestSpotInstances.
Launch ==
  /\ Running("RunSourceInstance", "launch")
  /\ IF isSpot
       THEN /\ spot' = "open" /\ created' = created \cup {"spot"}
            /\ Goto("awaitSpot") /\ UNCHANGED inst
       ELSE /\ inst' = "pending"
            /\ Goto("awaitRunning") /\ UNCHANGED <<spot, created>>
  /\ UNCHANGED <<config, tries, told, group, ami, imagedFrom, result>>

\* A reply of EC2 without an entry, whose first entry is taken all the same: of the
\* launch, or of the look-ups of the spot request and of the image.  The process panics.
EmptyReply ==
  /\ \/ Running("RunSourceInstance", "launch")
     \/ Running("RunSourceInstance", "findSpot")
     \/ Running("CreateAMI", "findImage")
  /\ result' = "panic"
  /\ UNCHANGED <<runnerVars, config, sub, tries, created, told, imagedFrom>> /\ keepEC2

\* The spot request is looked up once more, for the instance that fulfils it.
FindSpotInstance ==
  /\ Running("RunSourceInstance", "findSpot")
  /\ Goto("awaitRunning")
  /\ UNCHANGED tries /\ keepNotes /\ keepEC2

\* Cleanup, first part: CancelSpotRequests; if it fails Cleanup returns at once.
CancelSpot ==
  /\ Cleaning("RunSourceInstance", "start")
  /\ "spot" \in created
  /\ \/ /\ spot' = IF spot \in {"open", "active"} THEN "cancelled" ELSE spot
        /\ Goto("awaitCancelled")
        /\ UNCHANGED told
     \/ /\ told' = told \cup {"spot"}
        /\ Ret(Cleaned)
        /\ UNCHANGED spot
  /\ UNCHANGED <<config, tries, created, group, inst, ami, imagedFrom, result>>

\* Nothing to cancel, or the outcome of the wait for "cancelled", which is ignored.
SpotCancelled ==
  /\ \/ Cleaning("RunSourceInstance", "start") /\ "spot" \notin created
     \/ Cleaning("RunSourceInstance", "awaitCancelled")
  /\ Goto("terminate")
  /\ UNCHANGED tries /\ keepNotes /\ keepEC2

\* Cleanup, second part: only the instance remembered by Run is terminated.
Terminate ==
  /\ Cleaning("RunSourceInstance", "terminate")
  /\ "instance" \in created
  /\ \/ /\ inst' = IF inst \in Live THEN "shuttingDown" ELSE inst
        /\ Goto("awaitTerminated")
        /\ UNCHANGED told
     \/ /\ told' = told \cup {"instance"}
        /\ Ret(Cleaned)
        /\ UNCHANGED inst
  /\ UNCHANGED <<config, tries, created, group, spot, ami, imagedFrom, result>>

\* No instance is remembered, or it is gone: this wait has no StepState.
Terminated ==
  /\ \/ Cleaning("RunSourceInstance", "terminate") /\ "instance" \notin created
     \/ Cleaning("RunSourceInstance", "awaitTerminated") /\ inst = "terminated"
  /\ Ret(Cleaned)
  /\ UNCHANGED tries /\ keepNotes /\ keepEC2

\* The wait for "terminated" fails; its error is ignored.
TerminateWaitFails ==
  /\ Cleaning("RunSourceInstance", "awaitTerminated")
  /\ Ret(Cleaned)
  /\ UNCHANGED tries /\ keepNotes /\ keepEC2

-----------------------------------------------------------------------------
(* stepStopInstance and stepCreateAMI                                      *)

\* Slip: the instance is told to stop, and the step does not wait.
SlipStopsAsync ==
  /\ Running("StopInstance", "start")
  /\ inst' = IF ~isSpot /\ inst = "running" THEN "stopping" ELSE inst
  /\ Ret(Continue)
  /\ UNCHANGED <<tries, group, spot, ami>> /\ keepNotes

Stop ==
  /\ Running("StopInstance", "start")
  /\ IF isSpot
       THEN Ret(Continue) /\ UNCHANGED inst
       ELSE /\ inst' = IF inst = "running" THEN "stopping" ELSE inst
            /\ Goto("awaitStopped")
  /\ UNCHANGED <<tries, group, spot, ami>> /\ keepNotes

\* CreateImage; "amis" is in the bag before anybody waits for the image.
CreateImage ==
  /\ Running("CreateAMI", "start")
  /\ inst \in Live
  /\ ami' = "pending"
  /\ imagedFrom' = inst
  /\ bag' = bag \cup {"amis"}
  /\ sub' = "awaitImage"
  /\ UNCHANGED <<last, mode, at, asked, config, tries, created, told, group, spot, inst, result>>

CreateImageRefused ==
  /\ Running("CreateAMI", "start")
  /\ inst \notin Live
  /\ Ret(Fail)
  /\ UNCHANGED tries /\ keepNotes /\ keepEC2

\* The image is looked up once more, and only then remembered for Cleanup.
FindImage ==
  /\ Running("CreateAMI", "findImage")
  /\ created' = created \cup {"image"}
  /\ Ret(Continue)
  /\ UNCHANGED <<config, tries, told, imagedFrom, result>> /\ keepEC2

\* Slip: only a cancelled build loses its image.
SlipCancelledOnly == "image" \in created /\ "cancelled" \in bag

mustDeregister == "image" \in created /\ bag \cap {"cancelled", "halted"} # {}

Deregister ==
  /\ Cleaning("CreateAMI", "start")
  /\ mustDeregister
  /\ \/ ami' = "deregistered" /\ UNCHANGED told
     \/ told' = told \cup {"image"} /\ UNCHANGED ami
  /\ Ret(Cleaned)
  /\ UNCHANGED <<config, tries, created, group, spot, inst, imagedFrom, result>>

\* The other Cleanups, and those with nothing to do, do nothing.
NoCleanup ==
  /\ mode = "clean" /\ at > 0 /\ sub = "start"
  /\ Step # "RunSourceInstance"
  /\ Step = "SecurityGroup" => "group" \notin created
  /\ Step = "CreateAMI" => ~mustDeregister
  /\ Ret(Cleaned)
  /\ UNCHANGED tries /\ keepNotes /\ keepEC2

-----------------------------------------------------------------------------
(* Builder.Run around the runner, and the world                            *)

\* Only "error" and "amis" are looked at, neither "cancelled" nor "halted".
Report ==
  /\ mode = "ended"
  /\ result' = IF "error" \in bag THEN "error"
               ELSE IF "amis" \notin bag THEN "nothing"
               ELSE "artifact"
  /\ UNCHANGED <<runnerVars, config, sub, tries, created, told, ec2, imagedFrom>>

RunnerStep ==
  /\ Loop \/ FlagCancelled
  /\ UNCHANGED <<config, sub, tries, created, told, ec2, imagedFrom, result>>

Cancel ==
  /\ AskCancel
  /\ UNCHANGED <<config, sub, tries, created, told, ec2, imagedFrom, result>>

SpotMoves ==
  /\ spot = "open"
  /\ \/ spot' = "active" /\ inst' = "pending"
     \/ spot' = "failed" /\ UNCHANGED inst
  /\ UNCHANGED <<group, ami>>

InstanceMoves ==
  /\ \/ inst = "pending"      /\ inst' \in {"running", "terminated"}
     \/ inst = "running"      /\ inst' = "terminated"
     \/ inst = "stopping"     /\ inst' = "stopped"
  /\ UNCHANGED <<group, spot, ami>>

InstanceTerminates ==
  /\ inst = "shuttingDown"
  /\ inst' = "terminated"
  /\ UNCHANGED <<group, spot, ami>>

ImageMoves ==
  /\ ami = "pending"
  /\ ami' \in {"available", "failed"}
  /\ UNCHANGED <<group, spot, inst>>

keepBuild == UNCHANGED <<runnerVars, config, sub, tries, created, told, imagedFrom, result>>

EC2 == (SpotMoves \/ InstanceMoves \/ ImageMoves) /\ keepBuild
EC2Terminates == InstanceTerminates /\ keepBuild

\* What the plugin's own code does when it can.
Code ==
  \/ LibraryStep \/ ModifyInstance \/ Connect
  \/ WaitReached \/ WaitInterrupted \/ WaitUnexpected
  \/ UseOwnGroups \/ CreateGroup \/ AuthorizeGroup \/ DeleteGroup
  \/ NoKeyPair \/ LookUp \/ Launch \/ FindSpotInstance
  \/ CancelSpot \/ SpotCancelled \/ Terminate \/ Terminated
  \/ Stop \/ CreateImage \/ CreateImageRefused \/ FindImage \/ Deregister \/ NoCleanup
  \/ RunnerStep \/ Report

Faults == \/ CallFails \/ ReplyLost \/ EmptyReply
          \/ WaitFails \/ ConnectTimeout \/ TerminateWaitFails

busy == result = "none"

Next ==
  \/ busy /\ (Code \/ Faults \/ Cancel)
  \/ EC2 \/ EC2Terminates

\* The plugin keeps running, the WinRM timer fires and EC2 finishes a termination it
\* has accepted.  EC2 may leave everything else pending for ever, and no fault need
\* happen.
Spec == /\ Init /\ [][Next]_vars
        /\ WF_vars(busy /\ Code) /\ WF_vars(busy /\ ConnectTimeout) /\ WF_vars(EC2Terminates)

-----------------------------------------------------------------------------
(* Properties                                                              *)

\* The temporary security group the build made is gone when it ends, or the user was told.
GroupAccounted == mode = "ended" /\ group = "exists" => "group" \in told

\* An image ends up in an artifact only when it can be used; one that was made and given
\* up because a later step failed is deregistered, although its own step went well, or
\* the user was told.
ImageAccounted ==
  /\ result = "artifact" /\ ~asked => ami = "available"
  /\ mode = "ended" /\ "image" \in created /\ "halted" \in bag
       => ami = "deregistered" \/ "image" \in told

\* The image is taken of a stopped disk, unless spot instances make that impossible.
ImageFromStopped == imagedFrom # "none" /\ ~isSpot => imagedFrom = "stopped"

\* An interrupt ends the build even if EC2 leaves what it waits for pending for ever.
InterruptEnds == asked ~> (result # "none")

\* "Terminate the source instance if it exists": no instance is left running unless
\* the user was told that something may still be around.
NoInstanceLeft ==
  mode = "ended" /\ inst \in Live => told \cap {"instance", "spot"} # {}

\* "Deregistering the AMI because cancelation or error...", and only then "Build the
\* artifact and return it": an artifact names an image that is still registered.
ArtifactRegistered == result = "artifact" => ami # "deregistered"

-----------------------------------------------------------------------------
(* The builders implement the abstract build.                              *)

Makes(step) ==
  (IF step = "SecurityGroup" THEN {"group"} ELSE {}) \cup
  (IF step = "RunSourceInstance" THEN {"spot", "instance"} ELSE {}) \cup
  (IF step = "CreateAMI" THEN {"image"} ELSE {})

\* An instance or an image counts from when the build knows of it, an orphan never.
holds ==
  (IF group = "exists" THEN {"group"} ELSE {}) \cup
  (IF spot \in {"open", "active"} THEN {"spot"} ELSE {}) \cup
  (IF "instance" \in created /\ inst \in Live THEN {"instance"} ELSE {}) \cup
  (IF "image" \in created /\ ami # "deregistered" THEN {"image"} ELSE {})

\* Who was told of the spot request knows where to look for its instance.
excused == told \cup (IF "spot" \in told THEN {"instance"} ELSE {})

Build == INSTANCE AbstractBuild
           WITH Things  <- {"group", "spot", "instance", "image"},
                Lasting <- {"image"},
                total   <- last,
                makes   <- [n \in 1..last |-> Makes(Steps[n])],
                phase   <- buildPhase,
                open    <- openSteps,
                halted  <- ("halted" \in bag),
                outcome <- result

\* Every behaviour of a build is one of the abstract build: the group, the spot request
\* and the instance are gone when the Cleanup of their step returns, or the user was told;
\* the image is deregistered if a later step halts; and a build that was not interrupted
\* returns an artifact or an error.
ImplementsBuild == Build!Spec

=============================================================================
