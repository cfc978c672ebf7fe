----------------------------- MODULE VMwareBuild -----------------------------
(***************************************************************************)
(* builder/vmware-windows: one build of a VMware machine, by the iso       *)
(* builder on this host ("iso"), by the iso builder on a remote ESXi host  *)
(* ("esx"), or by the vmx builder, which clones a machine ("vmx").         *)
(*                                                                         *)
(* The steps run under StepRunner.  They share the machine, its output     *)
(* directory and its VMX file with VMware, with the guest and with         *)
(* whatever earlier builds have left behind.                               *)
(*                                                                         *)
(* Some calls fail and the code does not look, or takes the failure for an *)
(* answer, and some fail although they have done their work: `ignored`     *)
(* names both, `told` what the user was told could not be undone.  Which   *)
(* optional parts of a step are configured is left open.                   *)
(***************************************************************************)
EXTENDS StepRunner, Sequences

VARIABLES
  kind,       \* configuration: "iso", "esx" or "vmx"
  force,      \* configuration: PackerForce
  portsFree,  \* configuration: the ranges of ports to listen on have a free one
  sub,        \* where in the current Run or Cleanup the build is
  tries,      \* failed tries of the loop in StepOutputDir.Cleanup
  noted,      \* what the steps remember for their Cleanup
  held,       \* what the build holds on the hosts and has to give back
  vm,         \* the machine: "off" or "on"
  locks,      \* lock files in the output directory: "none", "vmx" (that one) or "many"
  dir,        \* the output directory: "absent", "old", "new" or "mixed"
  media,      \* drives with an image attached, in the VMX file at vmx_path
  uploaded,   \* the same, in the VMX file on the ESXi host
  told,       \* what the user was told may still be there
  ignored,    \* failed calls whose outcome the code does not know
  result      \* what Builder.Run returned

config  == <<kind, force, portsFree>>
machine == <<vm, locks>>
files   == <<dir, media, uploaded>>
notes   == <<noted, told, ignored>>
vars == <<runnerVars, config, sub, tries, notes, held, machine, files, result>>

IsoSteps ==
  <<"PrepareTools", "Download", "OutputDir", "CreateFloppy", "UploadFloppy",
    "UploadISO", "CreateDisk", "CreateVMX", "ConfigureVMX", "SuppressMessages",
    "HTTPServer", "ConfigureVNC", "Register", "Run", "TypeBootCommand", "Connect",
    "UploadTools", "Provision", "Shutdown", "CleanFiles", "ConfigureVMXPost",
    "CleanVMX", "CompactDisk">>

VmxSteps ==
  <<"PrepareTools", "OutputDir", "CreateFloppy", "CloneVMX", "ConfigureVMX",
    "SuppressMessages", "HTTPServer", "ConfigureVNC", "Run", "TypeBootCommand",
    "Connect", "UploadTools", "Provision", "Shutdown", "CleanFiles",
    "ConfigureVMXPost", "CleanVMX", "CompactDisk">>

Steps == IF kind = "vmx" THEN VmxSteps ELSE IsoSteps

\* LocalOutputDir.RemoveAll and ESX5Driver.RemoveAll are tried this often.
MaxTries == 5

Drives == {"floppy", "iso"}

Ignorable == {"exists", "removeOld", "makeDir", "removeNew", "removeTemp", "register",
              "power", "locks"}

TypeOK ==
  /\ RunnerTypeOK({"cancelled", "halted", "error"})
  /\ kind \in {"iso", "esx", "vmx"} /\ force \in BOOLEAN /\ portsFree \in BOOLEAN
  /\ sub \in {"start", "make", "boot", "command", "off", "stop", "locks"}
  /\ tries \in 0..(MaxTries - 1)
  /\ noted \subseteq {"dir", "temp", "http", "registered", "run"}
  /\ held \subseteq {"temp", "http", "registered"}
  /\ vm \in {"off", "on"} /\ locks \in {"none", "vmx", "many"}
  /\ dir \in {"absent", "old", "new", "mixed"}
  /\ media \in SUBSET Drives /\ uploaded \in SUBSET Drives
  /\ told \subseteq {"vm", "registered"}
  /\ ignored \subseteq Ignorable
  /\ result \in {"none", "error", "cancelled", "halted", "artifact", "panic"}

Init ==
  /\ kind \in {"iso", "esx", "vmx"} /\ force \in BOOLEAN /\ portsFree \in BOOLEAN
  /\ RunnerInit(Len(Steps))
  /\ sub = "start"
  /\ tries = 0
  /\ noted = {} /\ held = {}
  /\ vm = "off" /\ locks = "none"
  /\ dir \in {"absent", "old"}
  /\ media = {} /\ uploaded = {}
  /\ told = {} /\ ignored = {}
  /\ result = "none"

-----------------------------------------------------------------------------
(* Frames                                                                  *)

Step == Steps[at]
Running(step, s)  == mode = "run" /\ Step = step /\ sub = s
Cleaning(step, s) == mode = "clean" /\ at > 0 /\ Step = step /\ sub = s

Goto(s) == sub' = s /\ UNCHANGED runnerVars

\* The step returns; the next Run or Cleanup starts at its start.
Ret(how) == how /\ sub' = "start"

HaltQuietly == StepReturns("halt", {})

keepWorld == UNCHANGED <<held, machine, files>>
keepRest  == UNCHANGED <<config, tries, result>>

-----------------------------------------------------------------------------
(* Steps that change nothing the model keeps                               *)

\* They continue, or put "error" and halt.  StepDownload and StepProvision, of
\* Packer's library, also halt when they find the build cancelled.
PlainSteps == {"PrepareTools", "Download", "CreateFloppy", "UploadFloppy", "UploadISO",
               "CreateDisk", "SuppressMessages", "Provision", "CleanFiles",
               "ConfigureVMXPost", "CompactDisk"}

PlainStep ==
  /\ mode = "run" /\ Step \in PlainSteps
  /\ \/ Ret(Continue)
     \/ Step \in {"Download", "Provision"} /\ "cancelled" \in bag /\ Ret(HaltQuietly)
  /\ UNCHANGED notes /\ keepWorld /\ keepRest

\* A call to the driver, to the file system or to the guest fails.  Remote upload and
\* registration happen on ESXi only; an ESXi host reports that no port is free.
CallFails ==
  /\ mode = "run"
  /\ \/ Step \in PlainSteps
     \/ Step \in {"CreateVMX", "CloneVMX", "ConfigureVMX", "CleanVMX", "Register"}
     \/ Step \in {"OutputDir", "Shutdown", "ConfigureVNC"}
     \/ Step \in {"TypeBootCommand", "UploadTools"}
  /\ Step \in {"UploadFloppy", "UploadISO", "Register"} => kind = "esx"
  /\ Step \in {"PrepareTools", "SuppressMessages", "CompactDisk", "UploadTools"}
       => kind # "esx"
  /\ Step = "OutputDir" => sub = "make"
  /\ Step = "Shutdown" => sub \in {"start", "command", "stop"}
  /\ Ret(Fail)
  /\ UNCHANGED notes /\ keepWorld /\ keepRest

\* StepConnectWinRM, as WinRMConnect has it: it continues with a communicator, which
\* needs a running machine, or halts because the bag has "cancelled".
Connect ==
  /\ Running("Connect", "start")
  /\ \/ vm = "on" /\ Ret(Continue)
     \/ "cancelled" \in bag /\ Ret(HaltQuietly)
  /\ UNCHANGED notes /\ keepWorld /\ keepRest

ConnectTimeout ==
  /\ Running("Connect", "start")
  /\ Ret(Fail)
  /\ UNCHANGED notes /\ keepWorld /\ keepRest

\* Typing looks for an interrupt before each command.
TypeBootCommand ==
  /\ Running("TypeBootCommand", "start")
  /\ Ret(Continue) \/ ("cancelled" \in bag /\ Ret(HaltQuietly))
  /\ UNCHANGED notes /\ keepWorld /\ keepRest

\* ESX5Driver.HostIP defers conn.Close before it looks at the error of Dial: if the
\* host does not answer, conn is nil and the process panics.
HostIPPanics ==
  /\ Running("TypeBootCommand", "start")
  /\ kind = "esx"
  /\ result' = "panic"
  /\ UNCHANGED <<runnerVars, config, sub, tries, notes>> /\ keepWorld

\* StepUploadTools; on ESXi a failure puts "error" and the step continues all the same.
UploadTools ==
  /\ Running("UploadTools", "start")
  /\ \/ Ret(Continue)
     \/ kind = "esx" /\ Ret(StepReturns("continue", {"error"}))
  /\ UNCHANGED notes /\ keepWorld /\ keepRest

-----------------------------------------------------------------------------
(* StepOutputDir                                                           *)

\* Slip: Force is not looked at.
SlipAlwaysForces ==
  /\ Running("OutputDir", "start")
  /\ dir' = "absent"
  /\ Goto("make")
  /\ UNCHANGED <<notes, held, machine, media, uploaded>> /\ keepRest

\* Slip: what is there is left there.
SlipNeverRemoves ==
  /\ Running("OutputDir", "start")
  /\ IF dir = "old" /\ ~force THEN Ret(Fail) ELSE Goto("make")
  /\ UNCHANGED notes /\ keepWorld /\ keepRest

\* DirExists, and RemoveAll of a directory that exists if Force is set.  Neither
\* implementation of DirExists returns an error: it takes every failure for "no".
\* The error of this RemoveAll is not looked at.
CheckDir ==
  /\ Running("OutputDir", "start")
  /\ \/ dir = "absent" /\ Goto("make") /\ UNCHANGED <<dir, ignored>>
     \/ dir = "old" /\ ~force /\ Ret(Fail) /\ UNCHANGED <<dir, ignored>>
     \/ dir = "old" /\ force /\ Goto("make") /\ dir' = "absent" /\ UNCHANGED ignored
     \/ /\ dir = "old" /\ force /\ Goto("make")
        /\ ignored' = ignored \cup {"removeOld"} /\ UNCHANGED dir
     \/ /\ dir = "old" /\ Goto("make")
        /\ ignored' = ignored \cup {"exists"} /\ UNCHANGED dir
  /\ UNCHANGED <<noted, told, held, machine, media, uploaded>> /\ keepRest

\* MkdirAll succeeds if the directory is there; s.success is set.
MakeDir ==
  /\ Running("OutputDir", "make")
  /\ dir' = IF dir = "old" THEN "mixed" ELSE "new"
  /\ noted' = noted \cup {"dir"}
  /\ Ret(Continue)
  /\ UNCHANGED <<told, ignored, held, machine, media, uploaded>> /\ keepRest

\* On ESXi `mkdir -p` fails although the directory was made: s.success is not set.
MakeDirHalfway ==
  /\ Running("OutputDir", "make")
  /\ kind = "esx"
  /\ dir' = IF dir = "old" THEN "mixed" ELSE "new"
  /\ ignored' = ignored \cup {"makeDir"}
  /\ Ret(Fail)
  /\ UNCHANGED <<noted, told, held, machine, media, uploaded>> /\ keepRest

\* Slip: one try too many.
SlipSixTries ==
  /\ Cleaning("OutputDir", "start")
  /\ "dir" \in noted /\ bag \cap {"cancelled", "halted"} # {}
  /\ \/ dir' = "absent" /\ tries' = 0 /\ Ret(Cleaned) /\ UNCHANGED ignored
     \/ /\ tries < MaxTries /\ tries' = tries + 1
        /\ Goto("start") /\ UNCHANGED <<dir, ignored>>
     \/ /\ tries = MaxTries /\ tries' = 0
        /\ Ret(Cleaned) /\ ignored' = ignored \cup {"removeNew"} /\ UNCHANGED dir
  /\ UNCHANGED <<noted, told, held, machine, media, uploaded, config, result>>

\* Cleanup: one try to remove the directory; the fifth failure is only logged.
RemoveDir ==
  /\ Cleaning("OutputDir", "start")
  /\ "dir" \in noted
  /\ bag \cap {"cancelled", "halted"} # {}
  /\ \/ dir' = "absent" /\ tries' = 0 /\ Ret(Cleaned) /\ UNCHANGED ignored
     \/ /\ tries + 1 < MaxTries /\ tries' = tries + 1
        /\ Goto("start") /\ UNCHANGED <<dir, ignored>>
     \/ /\ tries + 1 = MaxTries /\ tries' = 0
        /\ Ret(Cleaned) /\ ignored' = ignored \cup {"removeNew"} /\ UNCHANGED dir
  /\ UNCHANGED <<noted, told, held, machine, media, uploaded, config, result>>

-----------------------------------------------------------------------------
(* The VMX file: stepCreateVMX, StepCloneVMX, StepConfigureVMX, StepCleanVMX *)

\* The template mounts the ISO; a remote build writes to a temporary directory.
CreateVMX ==
  /\ Running("CreateVMX", "start")
  /\ media' = {"iso"}
  /\ IF kind = "esx"
       THEN noted' = noted \cup {"temp"} /\ held' = held \cup {"temp"}
       ELSE UNCHANGED <<noted, held>>
  /\ Ret(Continue)
  /\ UNCHANGED <<told, ignored, machine, dir, uploaded>> /\ keepRest

\* The temporary directory is made and the VMX file cannot be written.
CreateVMXHalfway ==
  /\ Running("CreateVMX", "start")
  /\ kind = "esx"
  /\ noted' = noted \cup {"temp"} /\ held' = held \cup {"temp"}
  /\ Ret(Fail)
  /\ UNCHANGED <<told, ignored, machine, files>> /\ keepRest

CloneVMX ==
  /\ Running("CloneVMX", "start")
  /\ media' \in SUBSET Drives
  /\ Ret(Continue)
  /\ UNCHANGED <<notes, held, machine, dir, uploaded>> /\ keepRest

\* Attaches the floppy if there is one; the post-shutdown one has SkipFloppy.
ConfigureVMX ==
  /\ Running("ConfigureVMX", "start")
  /\ media' \in {media, media \cup {"floppy"}}
  /\ Ret(Continue)
  /\ UNCHANGED <<notes, held, machine, dir, uploaded>> /\ keepRest

\* The vmx builder has no "iso_path" to compare with.
CleanVMX ==
  /\ Running("CleanVMX", "start")
  /\ media' = media \ (IF kind = "vmx" THEN {"floppy"} ELSE Drives)
  /\ Ret(Continue)
  /\ UNCHANGED <<notes, held, machine, dir, uploaded>> /\ keepRest

-----------------------------------------------------------------------------
(* Ports: StepHTTPServer and StepConfigureVNC                              *)

\* Both loops draw a port until one is free.  Without HTTPDir no port is needed.
HTTPServer ==
  /\ Running("HTTPServer", "start")
  /\ \/ UNCHANGED <<noted, held>>
     \/ portsFree /\ noted' = noted \cup {"http"} /\ held' = held \cup {"http"}
  /\ Ret(Continue)
  /\ UNCHANGED <<told, ignored, machine, files>> /\ keepRest

\* The driver of ESXi tries each port once and gives up (CallFails).
ConfigureVNC ==
  /\ Running("ConfigureVNC", "start")
  /\ portsFree
  /\ Ret(Continue)
  /\ UNCHANGED notes /\ keepWorld /\ keepRest

-----------------------------------------------------------------------------
(* StepRegister and StepRun                                                *)

Register ==
  /\ Running("Register", "start")
  /\ IF kind = "esx"
       THEN /\ noted' = noted \cup {"registered"} /\ held' = held \cup {"registered"}
            /\ uploaded' = media
       ELSE UNCHANGED <<noted, held, uploaded>>
  /\ Ret(Continue)
  /\ UNCHANGED <<told, ignored, machine, dir, media>> /\ keepRest

\* The file was uploaded and the machine registered, and registervm fails all the same:
\* s.registeredPath is not set.
RegisterHalfway ==
  /\ Running("Register", "start")
  /\ kind = "esx"
  /\ held' = held \cup {"registered"}
  /\ uploaded' = media
  /\ ignored' = ignored \cup {"register"}
  /\ Ret(Fail)
  /\ UNCHANGED <<noted, told, machine, dir, media>> /\ keepRest

\* s.vmxPath is set before driver.Start, whose failure does not mean that the machine
\* has not started.
StartVM ==
  /\ Running("Run", "start")
  /\ noted' = noted \cup {"run"}
  /\ \/ vm' = "on" /\ locks' = "many" /\ Goto("boot")
     \/ /\ vm' \in {"off", "on"} /\ locks' = (IF vm' = "on" THEN "many" ELSE locks)
        /\ Ret(Fail)
  /\ UNCHANGED <<told, ignored, held, files>> /\ keepRest

\* The wait for BootWait ends, or sees the interrupt.
BootWait ==
  /\ Running("Run", "boot")
  /\ Ret(Continue) \/ ("cancelled" \in bag /\ Ret(HaltQuietly))
  /\ UNCHANGED notes /\ keepWorld /\ keepRest

\* driver.IsRunning of StepRun.Cleanup and of StepShutdown, with an answer ...
SeesStopped ==
  /\ vm = "off"
  /\ \/ Running("Shutdown", "off") /\ Goto("locks")
     \/ Cleaning("Run", "start") /\ "run" \in noted /\ Ret(Cleaned)
  /\ UNCHANGED notes /\ keepWorld /\ keepRest

\* ... and with an error, which is dropped: its value is FALSE.
AssumesStopped ==
  /\ \/ Running("Shutdown", "off") /\ Goto("locks")
     \/ Cleaning("Run", "start") /\ "run" \in noted /\ Ret(Cleaned)
  /\ ignored' = ignored \cup {"power"}
  /\ UNCHANGED <<noted, told>> /\ keepWorld /\ keepRest

StopInCleanup ==
  /\ Cleaning("Run", "start")
  /\ "run" \in noted /\ vm = "on"
  /\ \/ vm' = "off" /\ UNCHANGED told
     \/ told' = told \cup {"vm"} /\ UNCHANGED vm
  /\ Ret(Cleaned)
  /\ UNCHANGED <<noted, ignored, held, locks, files>> /\ keepRest

-----------------------------------------------------------------------------
(* StepShutdown                                                            *)

\* With a shutdown command it is started on the guest; without one, driver.Stop.
Shutdown ==
  /\ Running("Shutdown", "start")
  /\ Goto("command") \/ Goto("stop")
  /\ UNCHANGED notes /\ keepWorld /\ keepRest

\* cmd.Wait returns with exit status 0.  The wait has no timeout.
CommandReturns ==
  /\ Running("Shutdown", "command")
  /\ Goto("off")
  /\ UNCHANGED notes /\ keepWorld /\ keepRest

\* Slip: the step goes on as if the machine had been stopped.
SlipTimeoutGoesOn ==
  /\ Running("Shutdown", "off")
  /\ vm = "on"
  /\ Goto("locks")
  /\ UNCHANGED notes /\ keepWorld /\ keepRest

\* Slip: the timer is looked at only once the machine is off.
SlipPollsTimerLast ==
  /\ Running("Shutdown", "off")
  /\ vm = "off"
  /\ Ret(Fail)
  /\ UNCHANGED notes /\ keepWorld /\ keepRest

\* The timer is polled each time the machine is seen running.
ShutdownTimeout ==
  /\ Running("Shutdown", "off")
  /\ vm = "on"
  /\ Ret(Fail)
  /\ UNCHANGED notes /\ keepWorld /\ keepRest

ForcedStop ==
  /\ Running("Shutdown", "stop")
  /\ vm' = "off"
  /\ Goto("locks")
  /\ UNCHANGED <<notes, locks, held, files>> /\ keepRest

\* No lock is left, or only that of the VMX file ...
LocksGone ==
  /\ Running("Shutdown", "locks")
  /\ locks # "many"
  /\ Ret(Continue)
  /\ UNCHANGED notes /\ keepWorld /\ keepRest

\* ... or the 120 seconds are over: "Assuming clean."
LocksTimeout ==
  /\ Running("Shutdown", "locks")
  /\ locks = "many"
  /\ ignored' = ignored \cup {"locks"}
  /\ Ret(Continue)
  /\ UNCHANGED <<noted, told>> /\ keepWorld /\ keepRest

-----------------------------------------------------------------------------
(* The other Cleanups                                                      *)

\* Slip: the path is forgotten before it is used.
SlipForgets ==
  /\ mode = "clean" /\ at > 0 /\ Step \in {"Register", "HTTPServer", "CreateVMX"}
  /\ Ret(Cleaned)
  /\ UNCHANGED notes /\ keepWorld /\ keepRest

Releases == [Register |-> "registered", HTTPServer |-> "http", CreateVMX |-> "temp"]

\* Unregister, which ESXi refuses for a running machine and which may fail; the
\* listener is closed; the temporary directory is removed, or not: nobody looks.
Release ==
  /\ mode = "clean" /\ at > 0 /\ Step \in DOMAIN Releases
  /\ LET r == Releases[Step]
     IN  /\ r \in noted
         /\ \/ /\ r = "registered" => vm = "off"
               /\ held' = held \ {r} /\ UNCHANGED <<told, ignored>>
            \/ r = "registered" /\ told' = told \cup {r} /\ UNCHANGED <<held, ignored>>
            \/ r = "temp" /\ ignored' = ignored \cup {"removeTemp"} /\ UNCHANGED <<held, told>>
  /\ Ret(Cleaned)
  /\ UNCHANGED <<noted, machine, files>> /\ keepRest

NoCleanup ==
  /\ mode = "clean" /\ at > 0 /\ sub = "start"
  /\ Step = "OutputDir" => "dir" \notin noted \/ bag \cap {"cancelled", "halted"} = {}
  /\ Step \in DOMAIN Releases => Releases[Step] \notin noted
  /\ Step = "Run" => "run" \notin noted
  /\ tries = 0
  /\ Ret(Cleaned)
  /\ UNCHANGED notes /\ keepWorld /\ keepRest

-----------------------------------------------------------------------------
(* Builder.Run around the runner, and the world                            *)

\* NewDriver fails: no step runs.
NoDriver ==
  /\ mode = "idle"
  /\ result' = "error"
  /\ UNCHANGED <<runnerVars, config, sub, tries, notes>> /\ keepWorld

\* The results in the order they are looked for; listing the files may fail.
Report ==
  /\ mode = "ended"
  /\ result' \in CASE "error" \in bag     -> {"error"}
                   [] "error" \notin bag /\ "cancelled" \in bag -> {"cancelled"}
                   [] bag = {"halted"}    -> {"halted"}
                   [] OTHER               -> {"artifact", "error"}
  /\ UNCHANGED <<runnerVars, config, sub, tries, notes>> /\ keepWorld

RunnerStep ==
  /\ Loop \/ FlagCancelled
  /\ UNCHANGED <<sub, notes>> /\ keepWorld /\ keepRest

Cancel ==
  /\ AskCancel
  /\ UNCHANGED <<sub, notes>> /\ keepWorld /\ keepRest

\* The guest may go down at any time, by the shutdown command or by itself.
GuestGoesDown ==
  /\ vm = "on"
  /\ vm' = "off"
  /\ UNCHANGED <<runnerVars, sub, notes, held, locks, files>> /\ keepRest

\* VMware cleans up after a machine that is off.
UnlockFiles ==
  /\ vm = "off"
  /\ \/ locks = "many" /\ locks' \in {"vmx", "none"}
     \/ locks = "vmx"  /\ locks' = "none"
  /\ UNCHANGED <<runnerVars, sub, notes, held, vm, files>> /\ keepRest

busy == result = "none"

Code ==
  \/ PlainStep \/ Connect \/ TypeBootCommand \/ UploadTools
  \/ CheckDir \/ MakeDir \/ RemoveDir
  \/ CreateVMX \/ CloneVMX \/ ConfigureVMX \/ CleanVMX
  \/ HTTPServer \/ ConfigureVNC \/ Register
  \/ StartVM \/ BootWait \/ SeesStopped \/ StopInCleanup
  \/ Shutdown \/ ForcedStop \/ LocksGone \/ Release \/ NoCleanup
  \/ RunnerStep \/ Report

TimersFire == ConnectTimeout \/ ShutdownTimeout \/ LocksTimeout

Faults == \/ CallFails \/ MakeDirHalfway \/ CreateVMXHalfway \/ RegisterHalfway
          \/ HostIPPanics \/ AssumesStopped \/ NoDriver

Next ==
  \/ busy /\ (Code \/ TimersFire \/ CommandReturns \/ Faults \/ Cancel)
  \/ GuestGoesDown \/ UnlockFiles

\* The plugin keeps running, the commands it runs on the hosts return and its timers
\* fire.  The guest need not go down, and no fault need happen.
Spec == Init /\ [][Next]_vars /\ WF_vars(busy /\ Code) /\ WF_vars(busy /\ TimersFire)

-----------------------------------------------------------------------------
(* Properties                                                              *)

\* Files are deleted and disks compacted only of a machine that is off and whose
\* lock files have gone, or had 120 seconds to go.
AtRest ==
  mode = "run" /\ Step \in {"CleanFiles", "ConfigureVMXPost", "CleanVMX", "CompactDisk"}
    => /\ vm = "off" \/ "power" \in ignored
       /\ locks # "many" \/ "locks" \in ignored

\* What was in the output directory before is touched only if the user forces it, or
\* if the directory could not be seen.
OldDirKept == [][(dir = "old" /\ dir' # "old" => force \/ "exists" \in ignored)]_vars

\* An artifact is all of this build: there is nothing old in it, and a machine that
\* was built on this host has no floppy image any more.
ArtifactWhole ==
  result = "artifact" =>
    /\ dir = "new" \/ ignored \cap {"exists", "removeOld"} # {}
    /\ kind # "esx" => "floppy" \notin media

\* An interrupt ends the build, if the shutdown command ends once it was started and
\* if there is a port to listen on.
InterruptEnds ==
  WF_vars(busy /\ CommandReturns) /\ []portsFree => (asked ~> (result # "none"))

\* "Delete the floppy0 entries so the floppy is no longer mounted": the machine in the
\* artifact has no floppy image attached, wherever it was built.
FloppyUnmounted ==
  result = "artifact" => "floppy" \notin (IF kind = "esx" THEN uploaded ELSE media)

-----------------------------------------------------------------------------
(* The builders implement the abstract build.                              *)

\* "vm" stands for a machine that runs, "dir" for the output directory that was made.
Makes(step) ==
  (IF step = "OutputDir" THEN {"dir"} ELSE {}) \cup
  (IF step = "CreateVMX" THEN {"temp"} ELSE {}) \cup
  (IF step = "HTTPServer" THEN {"http"} ELSE {}) \cup
  (IF step = "Register" THEN {"registered"} ELSE {}) \cup
  (IF step = "Run" THEN {"vm"} ELSE {})

dirMade == dir # "absent" /\ ("dir" \in noted \/ "makeDir" \in ignored)

holds ==
  held \cup (IF vm = "on" THEN {"vm"} ELSE {})
       \cup (IF dirMade THEN {"dir"} ELSE {})

\* Told to the user, not told by the host, or left after a failure nobody is told of.
excused ==
  told \cup (IF "power" \in ignored THEN {"vm"} ELSE {})
       \cup (IF "register" \in ignored THEN {"registered"} ELSE {})
       \cup (IF "removeTemp" \in ignored THEN {"temp"} ELSE {})
       \cup (IF ignored \cap {"makeDir", "removeNew"} # {} THEN {"dir"} ELSE {})

\* The listener, the temporary directory and the registration are given back, even by
\* a build that fails between two of them, or are accounted for; a build that a step has
\* halted also removes the directory it noted, in five tries at most.  (One that only has
\* an "error", because StepUploadTools puts it and goes on, keeps it.)
Released ==
  mode = "ended" =>
    /\ held \subseteq excused
    /\ "dir" \in noted /\ "halted" \in bag => dir = "absent" \/ "removeNew" \in ignored

Build == INSTANCE AbstractBuild
           WITH Things  <- {"dir", "temp", "http", "registered", "vm"},
                Lasting <- {"dir"},
                total   <- last,
                makes   <- [n \in 1..last |-> Makes(Steps[n])],
                phase   <- buildPhase,
                open    <- openSteps,
                halted  <- ("halted" \in bag),
                outcome <- result

\* Every behaviour of a build is one of the abstract build: what a step makes is given back
\* by the time its own Cleanup returns, even by a build that fails between two steps, or
\* is accounted for; and a build that halts removes the directory it made.
ImplementsBuild == Build!Spec

=============================================================================
