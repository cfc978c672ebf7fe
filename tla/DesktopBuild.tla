---------------------------- MODULE DesktopBuild ----------------------------
(***************************************************************************)
(* builder/virtualbox-windows and builder/parallels-windows: one build of  *)
(* a machine by the hypervisor of a desktop, from an ISO or from a machine *)
(* that is there already.                                                  *)
(*                                                                         *)
(* The four builders put the few steps of this repository between those of *)
(* Packer's own builders, under StepRunner.  A machine is registered with  *)
(* the hypervisor, configured, run, shut down and, by VirtualBox, exported *)
(* to the output directory; Parallels leaves its files there.  A machine   *)
(* of VirtualBox is reached through a forwarded port of the host, for      *)
(* which it competes with every other process, another build among them.   *)
(*                                                                         *)
(* `told` has what the user was told could not be undone, `ignored` what   *)
(* may be left although nobody was: an import that failed half done, or a  *)
(* failure that a Cleanup of Packer's library only logs or drops.          *)
(***************************************************************************)
EXTENDS StepRunner, Sequences

VARIABLES
  kind,       \* configuration: which of the builders
  http,       \* configuration: a directory to serve, "none", and a port for it, "free", or "busy"
  sub,        \* where in the current Run or Cleanup the build is
  tries,      \* failed tries of the loop in stepCreateVM.Cleanup
  noted,      \* what the steps remember for their Cleanup
  held,       \* what the build has to give back: "vm" is registered, "http" listens
  parts,      \* what is attached to the machine, or set in its configuration
  power,      \* the machine: "off" or "on"
  port,       \* who listens on the forwarded port that was drawn
  exported,   \* `parts` when StepExport exported the machine
  dir,        \* the output directory: "absent", "there" or "removed"
  told,       \* what the user was told could not be undone
  ignored,    \* what may be left without the user being told
  result      \* what Builder.Run returned

config == <<kind, http>>
host   == <<held, parts, power, port, dir>>
notes  == <<noted, told, ignored>>
vars   == <<runnerVars, config, sub, tries, notes, host, exported, result>>

VBoxIsoSteps ==
  <<"DownloadGuestAdditions", "Download", "OutputDir", "CreateFloppy", "LibHTTPServer",
    "SuppressMessages", "CreateVM", "CreateDisk", "AttachISO", "AttachGuestAdditions",
    "AttachFloppy", "ForwardWinRM", "VBoxManage", "Run", "TypeBootCommand", "Connect",
    "UploadVersion", "UploadGuestAdditions", "Provision", "Shutdown", "RemoveDevices",
    "VBoxManagePost", "Export">>

VBoxOvfSteps ==
  <<"OutputDir", "SuppressMessages", "CreateFloppy", "LibHTTPServer",
    "DownloadGuestAdditions", "LibImport", "AttachGuestAdditions", "AttachFloppy",
    "ForwardWinRM", "VBoxManage", "Run", "TypeBootCommand", "Connect", "UploadVersion",
    "UploadGuestAdditions", "Provision", "Shutdown", "RemoveDevices", "VBoxManagePost",
    "Export">>

PrlIsoSteps ==
  <<"PrepareTools", "Download", "OutputDir", "CreateFloppy", "HTTPServer", "CreateVM",
    "CreateDisk", "SetBootOrder", "AttachISO", "AttachTools", "AttachFloppy", "Prlctl",
    "Run", "TypeBootCommand", "Connect", "UploadVersion", "UploadTools", "Provision",
    "Shutdown">>

PrlPvmSteps ==
  <<"PrepareTools", "OutputDir", "CreateFloppy", "Import", "AttachTools", "AttachFloppy",
    "Prlctl", "Run", "TypeBootCommand", "Connect", "UploadVersion", "UploadTools",
    "Provision", "Shutdown">>

Steps ==
  CASE kind = "vbox-iso" -> VBoxIsoSteps
    [] kind = "vbox-ovf" -> VBoxOvfSteps
    [] kind = "prl-iso"  -> PrlIsoSteps
    [] kind = "prl-pvm"  -> PrlPvmSteps

VBox == kind \in {"vbox-iso", "vbox-ovf"}

\* unregistervm is tried this often.
MaxTries == 5

Parts == {"disk", "looseDisk", "iso", "rule"}

TypeOK ==
  /\ RunnerTypeOK({"cancelled", "halted", "error"})
  /\ kind \in {"vbox-iso", "vbox-ovf", "prl-iso", "prl-pvm"} /\ http \in {"none", "free", "busy"}
  /\ sub \in {"start", "settings", "attach", "rule", "export"}
  /\ tries \in 0..(MaxTries - 1)
  /\ noted \subseteq {"vm", "iso", "http"}
  /\ held \subseteq {"vm", "http"}
  /\ parts \in SUBSET Parts
  /\ power \in {"off", "on"}
  /\ port \in {"free", "step", "machine", "other"}
  /\ exported \in SUBSET Parts
  /\ dir \in {"absent", "there", "removed"}
  /\ told \subseteq {"vm", "iso", "power"}
  /\ ignored \subseteq {"vm", "power", "dir"}
  /\ result \in {"none", "error", "cancelled", "halted", "artifact"}

Init ==
  /\ kind \in {"vbox-iso", "vbox-ovf", "prl-iso", "prl-pvm"} /\ http \in {"none", "free", "busy"}
  /\ RunnerInit(Len(Steps))
  /\ sub = "start" /\ tries = 0
  /\ noted = {} /\ told = {} /\ ignored = {} /\ held = {} /\ parts = {}
  /\ power = "off" /\ port = "free" /\ exported = {} /\ dir = "absent"
  /\ result = "none"

-----------------------------------------------------------------------------
(* Frames                                                                  *)

Step == Steps[at]
Running(step, s) == mode = "run" /\ Step = step /\ sub = s
Cleaning(step)   == mode = "clean" /\ at > 0 /\ Step = step

Goto(s) == sub' = s /\ UNCHANGED runnerVars

\* The step returns; the next Run or Cleanup starts at its start.
Ret(how) == how /\ sub' = "start"

keepRest == UNCHANGED <<config, tries, exported, result>>

\* The machine is off: whatever it listened on is free.
PowerOff == power' = "off" /\ port' = IF port = "machine" THEN "free" ELSE port

-----------------------------------------------------------------------------
(* Steps of Packer's library                                               *)

LibrarySteps ==
  {"DownloadGuestAdditions", "Download", "CreateFloppy", "LibHTTPServer",
   "SuppressMessages", "AttachGuestAdditions", "AttachFloppy", "VBoxManage",
   "TypeBootCommand", "UploadVersion", "UploadGuestAdditions", "Provision",
   "VBoxManagePost", "PrepareTools", "AttachTools", "Prlctl", "UploadTools"}

\* They continue; those that wait for something halt when the build is cancelled.  The
\* HTTP server draws ports until one is free.
LibraryStep ==
  /\ mode = "run" /\ Step \in LibrarySteps
  /\ Step = "LibHTTPServer" => http # "busy"
  /\ \/ Ret(Continue)
     \/ "cancelled" \in bag /\ Ret(StepReturns("halt", {}))
  /\ UNCHANGED <<notes, host>> /\ keepRest

\* A call to the driver, to the file system or to the guest fails.
CallFails ==
  /\ mode = "run"
  /\ Step \in LibrarySteps \cup
       {"OutputDir", "CreateVM", "CreateDisk", "SetBootOrder", "AttachISO", "Run",
        "Import", "LibImport", "Shutdown", "RemoveDevices", "Export"}
  /\ Ret(Fail)
  /\ UNCHANGED <<notes, host>> /\ keepRest

\* Of a directory that cannot be removed the log is told, not the user.
OutputDir ==
  /\ \/ Running("OutputDir", "start") /\ Ret(Continue) /\ dir' = "there" /\ UNCHANGED ignored
     \/ /\ Cleaning("OutputDir") /\ Ret(Cleaned)
        /\ \/ bag \cap {"cancelled", "halted"} = {} /\ UNCHANGED <<dir, ignored>>
           \/ /\ bag \cap {"cancelled", "halted"} # {}
              /\ dir' = (IF dir = "there" THEN "removed" ELSE dir) /\ UNCHANGED ignored
           \/ /\ bag \cap {"cancelled", "halted"} # {} /\ dir = "there"
              /\ ignored' = ignored \cup {"dir"} /\ UNCHANGED dir
  /\ UNCHANGED <<noted, told, held, parts, power, port>> /\ keepRest

\* StepRun: VirtualBox starts a machine even if its forwarded port is not to be had.
RunMachine ==
  /\ Running("Run", "start")
  /\ power' = "on"
  /\ port' = IF "rule" \in parts /\ port = "free" THEN "machine" ELSE port
  /\ \/ Ret(Continue)
     \/ "cancelled" \in bag /\ Ret(StepReturns("halt", {}))
  /\ UNCHANGED <<notes, held, parts, dir>> /\ keepRest

\* Its Cleanup stops a machine that runs.  If the hypervisor does not answer whether it
\* does, it is taken for stopped.
StopMachine ==
  /\ Cleaning("Run") /\ power = "on"
  /\ \/ PowerOff /\ UNCHANGED <<told, ignored>>
     \/ told' = told \cup {"power"} /\ UNCHANGED <<ignored, power, port>>
     \/ ignored' = ignored \cup {"power"} /\ UNCHANGED <<told, power, port>>
  /\ Ret(Cleaned)
  /\ UNCHANGED <<noted, held, parts, dir>> /\ keepRest

Shutdown ==
  /\ Running("Shutdown", "start")
  /\ PowerOff
  /\ Ret(Continue)
  /\ UNCHANGED <<notes, held, parts, dir>> /\ keepRest

RemoveDevices ==
  /\ Running("RemoveDevices", "start")
  /\ parts' = parts \ {"iso"}
  /\ Ret(Continue)
  /\ UNCHANGED <<notes, held, power, port, dir>> /\ keepRest

-----------------------------------------------------------------------------
(* The machine is made: stepCreateVM, stepCreateDisk, StepImport           *)

\* Slip: the name is noted when every command has been given.
SlipNotesLate ==
  /\ \/ /\ Running("CreateVM", "start")
        /\ held' = held \cup {"vm"} /\ Goto("settings")
        /\ UNCHANGED noted
     \/ /\ Running("CreateVM", "settings")
        /\ noted' = noted \cup {"vm"} /\ Ret(Continue)
        /\ UNCHANGED held
  /\ UNCHANGED <<told, ignored, parts, power, port, dir>> /\ keepRest

\* The first command registers the machine, and its name is noted at once; the others
\* (three of VBoxManage, seven of prlctl) change settings.
CreateVM ==
  /\ \/ /\ Running("CreateVM", "start")
        /\ held' = held \cup {"vm"} /\ noted' = noted \cup {"vm"} /\ Goto("settings")
     \/ /\ Running("CreateVM", "settings")
        /\ Ret(Continue)
        /\ UNCHANGED <<held, noted>>
  /\ UNCHANGED <<told, ignored, parts, power, port, dir>> /\ keepRest

\* Parallels' own import, and VirtualBox's, which is the library's.
Import ==
  /\ Running("Import", "start") \/ Running("LibImport", "start")
  /\ held' = held \cup {"vm"} /\ noted' = noted \cup {"vm"} /\ parts' = {"disk"}
  /\ Ret(Continue)
  /\ UNCHANGED <<told, ignored, power, port, dir>> /\ keepRest

\* Parallels' import is several commands: when one that follows the registration fails, the
\* machine is left, and no name is noted for Cleanup.
ImportHalfway ==
  /\ Running("Import", "start")
  /\ held' = held \cup {"vm"} /\ parts' = {"disk"} /\ ignored' = ignored \cup {"vm"}
  /\ Ret(Fail)
  /\ UNCHANGED <<noted, told, power, port, dir>> /\ keepRest

\* VirtualBox: the disk is made, and known to VirtualBox, before there is a controller
\* to attach it to.
CreateDisk ==
  /\ VBox
  /\ \/ Running("CreateDisk", "start") /\ parts' = {"looseDisk"} /\ Goto("attach")
     \/ Running("CreateDisk", "attach") /\ parts' = {"disk"} /\ Ret(Continue)
  /\ UNCHANGED <<notes, held, power, port, dir>> /\ keepRest

AddDisk ==
  /\ Running("CreateDisk", "start") /\ ~VBox
  /\ parts' = parts \cup {"disk"}
  /\ Ret(Continue)
  /\ UNCHANGED <<notes, held, power, port, dir>> /\ keepRest

SetBootOrder ==
  /\ Running("SetBootOrder", "start")
  /\ Ret(Continue)
  /\ UNCHANGED <<notes, host>> /\ keepRest

\* Slip: one try too many.
SlipSixTries ==
  /\ Cleaning("CreateVM") \/ Cleaning("LibImport") \/ Cleaning("Import")
  /\ "vm" \in noted
  /\ \/ power = "off" /\ held' = held \ {"vm"} /\ tries' = 0 /\ Ret(Cleaned) /\ UNCHANGED told
     \/ tries < MaxTries /\ tries' = tries + 1 /\ Goto("start") /\ UNCHANGED <<held, told>>
     \/ /\ tries = MaxTries
        /\ tries' = 0 /\ told' = told \cup {"vm"} /\ Ret(Cleaned) /\ UNCHANGED held
  /\ UNCHANGED <<config, noted, ignored, parts, power, port, dir, exported, result>>

\* Slip: unregistervm is tried until it succeeds.
SlipTriesForever ==
  /\ Cleaning("CreateVM") \/ Cleaning("LibImport") \/ Cleaning("Import")
  /\ "vm" \in noted
  /\ power = "off" /\ held' = held \ {"vm"} /\ parts' = parts \cap {"looseDisk"} /\ Ret(Cleaned)
  /\ UNCHANGED <<config, tries, notes, power, port, dir, exported, result>>

\* Cleanup: unregister.  The hypervisors refuse it for a machine that runs; VirtualBox
\* is asked five times and also deletes what is attached.
Unregister ==
  /\ Cleaning("CreateVM") \/ Cleaning("LibImport") \/ Cleaning("Import")
  /\ "vm" \in noted
  /\ \/ /\ power = "off"
        /\ held' = held \ {"vm"}
        /\ parts' = IF VBox THEN parts \cap {"looseDisk"} ELSE parts
        /\ tries' = 0 /\ Ret(Cleaned) /\ UNCHANGED told
     \/ /\ Step = "CreateVM" /\ VBox /\ tries + 1 < MaxTries
        /\ tries' = tries + 1 /\ Goto("start")
        /\ UNCHANGED <<held, parts, told>>
     \/ /\ Step = "CreateVM" /\ VBox => tries + 1 = MaxTries
        /\ tries' = 0 /\ told' = told \cup {"vm"} /\ Ret(Cleaned)
        /\ UNCHANGED <<held, parts>>
  /\ UNCHANGED <<config, noted, ignored, power, port, dir, exported, result>>

-----------------------------------------------------------------------------
(* stepAttachISO and Parallels' stepHTTPServer                             *)

AttachISO ==
  /\ Running("AttachISO", "start")
  /\ parts' = parts \cup {"iso"} /\ noted' = noted \cup {"iso"}
  /\ Ret(Continue)
  /\ UNCHANGED <<told, ignored, held, power, port, dir>> /\ keepRest

\* Slip: only a build that fails detaches it.
SlipDetachesIfHalted ==
  /\ Cleaning("AttachISO") /\ "iso" \in noted
  /\ parts' = IF "halted" \in bag THEN parts \ {"iso"} ELSE parts
  /\ Ret(Cleaned)
  /\ UNCHANGED <<notes, held, power, port, dir>> /\ keepRest

\* Cleanup.  Of a failure Parallels tells the user, VirtualBox does not.
DetachISO ==
  /\ Cleaning("AttachISO") /\ "iso" \in noted
  /\ \/ parts' = parts \ {"iso"} /\ UNCHANGED told
     \/ told' = (IF VBox THEN told ELSE told \cup {"iso"}) /\ UNCHANGED parts
  /\ Ret(Cleaned)
  /\ UNCHANGED <<noted, ignored, held, power, port, dir>> /\ keepRest

\* Ports are drawn until one is free.
HTTPServer ==
  /\ Running("HTTPServer", "start")
  /\ \/ http = "none" /\ UNCHANGED <<held, noted>>
     \/ http = "free" /\ held' = held \cup {"http"} /\ noted' = noted \cup {"http"}
  /\ Ret(Continue)
  /\ UNCHANGED <<told, ignored, parts, power, port, dir>> /\ keepRest

CloseHTTPServer ==
  /\ Cleaning("HTTPServer") /\ "http" \in noted
  /\ held' = held \ {"http"}
  /\ Ret(Cleaned)
  /\ UNCHANGED <<notes, parts, power, port, dir>> /\ keepRest

-----------------------------------------------------------------------------
(* The forwarded port: StepForwardWinRM, the connect steps, StepExport     *)

\* The loop: it draws one port and tries that one until it can listen on it.
TryPort ==
  /\ Running("ForwardWinRM", "start")
  /\ port = "free"
  /\ port' = "step"
  /\ Goto("rule")
  /\ UNCHANGED <<notes, held, parts, power, dir>> /\ keepRest

\* The rule is made, or not; on the return of Run the listener is closed.
AddRule ==
  /\ Running("ForwardWinRM", "rule")
  /\ \/ parts' = parts \cup {"rule"} /\ Ret(Continue)
     \/ Ret(Fail) /\ UNCHANGED parts
  /\ port' = IF port = "step" THEN "free" ELSE port
  /\ UNCHANGED <<notes, held, power, dir>> /\ keepRest

\* Parallels asks the hypervisor for the machine's address; VirtualBox's machine is
\* whoever answers at the forwarded port.
Connect ==
  /\ Running("Connect", "start")
  /\ \/ power = "on" /\ (VBox => port = "machine") /\ Ret(Continue)
     \/ VBox /\ port = "other" /\ Ret(Continue)
     \/ "cancelled" \in bag /\ Ret(StepReturns("halt", {}))
  /\ UNCHANGED <<notes, host>> /\ keepRest

ConnectTimeout ==
  /\ Running("Connect", "start")
  /\ Ret(StepReturns("halt", {"error"}))
  /\ UNCHANGED <<notes, host>> /\ keepRest

\* The rule is deleted, then the machine exported.
Export ==
  /\ \/ /\ Running("Export", "start")
        /\ parts' = parts \ {"rule"} /\ Goto("export")
        /\ UNCHANGED exported
     \/ /\ Running("Export", "export")
        /\ exported' = parts /\ Ret(Continue)
        /\ UNCHANGED parts
  /\ UNCHANGED <<config, tries, notes, held, power, port, dir, result>>

-----------------------------------------------------------------------------
(* Builder.Run around the runner, and the world                            *)

NoCleanup ==
  /\ mode = "clean" /\ at > 0
  /\ Step # "OutputDir"
  /\ Step \in {"CreateVM", "LibImport", "Import"} => "vm" \notin noted
  /\ Step = "AttachISO" => "iso" \notin noted
  /\ Step = "HTTPServer" => "http" \notin noted
  /\ Step = "Run" => power = "off"
  /\ Ret(Cleaned)
  /\ UNCHANGED <<notes, host>> /\ keepRest

\* NewDriver fails: no step runs.
NoDriver ==
  /\ mode = "idle"
  /\ result' = "error"
  /\ UNCHANGED <<runnerVars, config, sub, tries, notes, host, exported>>

\* The results in the order they are looked for; NewArtifact may fail.
Report ==
  /\ mode = "ended"
  /\ result' \in CASE "error" \in bag     -> {"error"}
                   [] "error" \notin bag /\ "cancelled" \in bag -> {"cancelled"}
                   [] bag = {"halted"}    -> {"halted"}
                   [] OTHER               -> {"artifact", "error"}
  /\ UNCHANGED <<runnerVars, config, sub, tries, notes, host, exported>>

RunnerStep == (Loop \/ FlagCancelled) /\ UNCHANGED <<sub, notes, host>> /\ keepRest
Cancel     == AskCancel /\ UNCHANGED <<sub, notes, host>> /\ keepRest

GuestGoesDown ==
  /\ power = "on"
  /\ PowerOff
  /\ UNCHANGED <<runnerVars, sub, notes, held, parts, dir>> /\ keepRest

\* Another process, such as another build, listens on the port, or no longer does.
OthersListen ==
  /\ \/ port = "free" /\ port' = "other"
     \/ port = "other" /\ port' = "free"
  /\ UNCHANGED <<runnerVars, sub, notes, held, parts, power, dir>> /\ keepRest

busy == result = "none"

Code ==
  \/ LibraryStep \/ OutputDir \/ RunMachine \/ StopMachine \/ Shutdown \/ RemoveDevices
  \/ CreateVM \/ Import \/ CreateDisk \/ AddDisk \/ SetBootOrder \/ Unregister
  \/ AttachISO \/ DetachISO \/ HTTPServer \/ CloseHTTPServer
  \/ TryPort \/ AddRule \/ Connect \/ Export
  \/ NoCleanup \/ RunnerStep \/ Report

Next ==
  \/ busy /\ (Code \/ ConnectTimeout \/ CallFails \/ ImportHalfway \/ NoDriver \/ Cancel)
  \/ GuestGoesDown \/ OthersListen

\* The plugin runs, its calls to the hypervisor return and the timer of WinRM fires.
Spec == Init /\ [][Next]_vars /\ WF_vars(busy /\ Code) /\ WF_vars(busy /\ ConnectTimeout)

-----------------------------------------------------------------------------
(* Properties                                                              *)

\* What a failure has left of a build without its Cleanups being to blame.
excused == told \cup ignored

\* A machine, however far it was made, and the listener of the HTTP server are given
\* back when the build ends, the machine before its directory is removed; or the user
\* was told, or the machine's import failed half done.
Released ==
  /\ mode = "ended" => held \subseteq excused
  /\ dir = "removed" /\ "vm" \in held => "vm" \in excused

\* What is delivered, VirtualBox's export or Parallels' files, has no forwarding rule of
\* this host and no installation medium, or the user was told.
ArtifactClean ==
  LET delivered == IF VBox THEN exported ELSE parts
  IN  result = "artifact" => "rule" \notin delivered /\ delivered \cap {"iso"} \subseteq told

\* An interrupt ends the build, if the HTTP server finds a port and the one port drawn for
\* WinRM is free in the end.
InterruptEnds ==
  http # "busy" /\ <>[](port # "other") => (asked ~> (result # "none"))

-----------------------------------------------------------------------------
(* The builders implement the abstract build.                              *)

\* "power" stands for a machine that runs, "iso" for the medium of Parallels' machine: it
\* is VirtualBox's StepRemoveDevices, not a Cleanup, that takes that of VirtualBox out.
Makes(step) ==
  (IF step = "OutputDir" THEN {"dir"} ELSE {}) \cup
  (IF step \in {"CreateVM", "Import", "LibImport"} THEN {"vm"} ELSE {}) \cup
  (IF step = "AttachISO" THEN {"iso"} ELSE {}) \cup
  (IF step = "HTTPServer" THEN {"http"} ELSE {}) \cup
  (IF step = "Run" THEN {"power"} ELSE {})

holds ==
  held \cup (IF VBox THEN {} ELSE parts \cap {"iso"})
       \cup (IF power = "on" THEN {"power"} ELSE {})
       \cup (IF dir = "there" THEN {"dir"} ELSE {})

Build == INSTANCE AbstractBuild
           WITH Things  <- {"vm", "iso", "http", "power", "dir"},
                Lasting <- {"dir"},
                total   <- last,
                makes   <- [n \in 1..last |-> Makes(Steps[n])],
                phase   <- buildPhase,
                open    <- openSteps,
                halted  <- ("halted" \in bag),
                excused <- excused,
                outcome <- result

\* Every behaviour of a build is one of the abstract build: what a step makes is given back
\* by the time its own Cleanup returns, or excused; and a build that halts leaves no output
\* directory that could be removed.
ImplementsBuild == Build!Spec

=============================================================================
