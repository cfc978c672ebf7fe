--------------------------- MODULE VMwareBuildProofs ---------------------------
(***************************************************************************)
(* Proofs about VMwareBuild: its type invariant, the invariants of the run *)
(* of the same name, and that an old output directory is kept.             *)
(*                                                                         *)
(* Each thing the build makes belongs to one step.  The invariant says of  *)
(* each of them what is known while the runner is past that step, which it *)
(* can be only if Run continued, and what is known once the runner has     *)
(* passed the step again on its way back.                                  *)
(***************************************************************************)
EXTENDS VMwareBuild, StepRunnerProofs

Entries == {"cancelled", "halted", "error"}

Subs == {"start", "make", "boot", "command", "off", "stop", "locks"}

\* The places of the steps that make or end something.
OutputDirAt == IF kind = "vmx" THEN 2 ELSE 3
CreateVMXAt == 8
HTTPAt      == IF kind = "vmx" THEN 7 ELSE 11
RegisterAt  == 13
RunAt       == IF kind = "vmx" THEN 9 ELSE 14
ShutdownAt  == IF kind = "vmx" THEN 14 ELSE 19
CleanVMXAt  == IF kind = "vmx" THEN 17 ELSE 22

Places == last = Len(Steps) /\ Placed

Halfway ==
  /\ sub \in Subs
  /\ sub # "start" => mode = "run"
  /\ sub = "make" => at = OutputDirAt
  /\ sub = "boot" => at = RunAt
  /\ sub \in {"command", "off", "stop", "locks"} => at = ShutdownAt

GivenUp == bag \cap {"cancelled", "halted"} # {}

DirInv ==
  /\ sub = "make" /\ dir = "old"
       => (force /\ "removeOld" \in ignored) \/ "exists" \in ignored
  /\ "dir" \in noted => Entered(OutputDirAt) /\ dir # "old"
  /\ Done(OutputDirAt) => "dir" \in noted
  /\ "dir" \in noted /\ ~GivenUp => dir = "new" \/ ignored \cap {"exists", "removeOld"} # {}
  /\ Undone(OutputDirAt) /\ "dir" \in noted /\ "halted" \in bag
       => dir = "absent" \/ "removeNew" \in ignored

\* The machine is off, or VMware did not say.
Off    == vm = "off" \/ "power" \in ignored
NoLock == locks # "many" \/ "locks" \in ignored

MachineInv ==
  /\ vm = "on" => "run" \in noted
  /\ "run" \in noted => Entered(RunAt)
  /\ Undone(RunAt) => Off \/ "vm" \in told
  /\ sub = "locks" => Off
  /\ mode \in {"next", "run"} /\ at > ShutdownAt => Off /\ NoLock

Holds == {"temp", "http", "registered"}

Place(r) == IF r = "temp" THEN CreateVMXAt ELSE IF r = "http" THEN HTTPAt ELSE RegisterAt

HeldInv ==
  \A r \in Holds :
    /\ r \in held => r \in noted \/ r \in excused
    /\ r \in noted => Entered(Place(r)) /\ (r # "http" => kind # "vmx")
    /\ Undone(Place(r)) /\ r \in held => r \in excused

MediaInv == Done(CleanVMXAt) /\ kind # "esx" => "floppy" \notin media

ResultInv == result = "artifact" => mode = "ended" /\ ~GivenUp

Inv ==
  /\ TypeOK /\ Places /\ Halfway /\ Reasons
  /\ DirInv /\ MachineInv /\ HeldInv /\ MediaInv /\ ResultInv

-----------------------------------------------------------------------------
(* The lists of steps                                                      *)

LEMMA Numbers ==
  /\ OutputDirAt \in Nat /\ HTTPAt \in Nat /\ RunAt \in Nat /\ ShutdownAt \in Nat
  /\ CleanVMXAt \in Nat /\ CreateVMXAt \in Nat /\ RegisterAt \in Nat
  /\ OutputDirAt < CreateVMXAt /\ OutputDirAt < HTTPAt /\ HTTPAt < RunAt
  /\ RunAt < ShutdownAt /\ ShutdownAt < CleanVMXAt
BY DEF OutputDirAt, HTTPAt, RunAt, ShutdownAt, CleanVMXAt, CreateVMXAt, RegisterAt

\* Steps that neither make nor end anything the invariant speaks of.
Others == PlainSteps \cup {"Connect", "TypeBootCommand", "UploadTools", "ConfigureVNC",
                           "CloneVMX", "ConfigureVMX"}

LEMMA StepPlaces ==
  ASSUME kind \in {"iso", "esx", "vmx"}
  PROVE  /\ Len(Steps) \in Nat /\ Len(Steps) = CleanVMXAt + 1
         /\ DOMAIN Steps = 1..Len(Steps)
         /\ \A n \in 1..Len(Steps) :
              /\ Steps[n] = "OutputDir" <=> n = OutputDirAt
              /\ Steps[n] = "CreateVMX" <=> n = CreateVMXAt /\ kind # "vmx"
              /\ Steps[n] = "HTTPServer" <=> n = HTTPAt
              /\ Steps[n] = "Register" <=> n = RegisterAt /\ kind # "vmx"
              /\ Steps[n] = "Run" <=> n = RunAt
              /\ Steps[n] = "Shutdown" <=> n = ShutdownAt
              /\ Steps[n] = "CleanVMX" <=> n = CleanVMXAt
              /\ Steps[n] \in {"CloneVMX", "ConfigureVMX"} => n < HTTPAt
              /\ Steps[n] \in {"CleanFiles", "ConfigureVMXPost", "CompactDisk"} => n > ShutdownAt
              /\ Steps[n] \in Others
                   => n \notin {OutputDirAt, HTTPAt, RunAt, ShutdownAt, CleanVMXAt}
<1>1. CASE kind = "vmx"
  BY <1>1 DEF Steps, VmxSteps, Others, PlainSteps, OutputDirAt, HTTPAt, RunAt, ShutdownAt,
              CleanVMXAt, CreateVMXAt, RegisterAt
<1>2. CASE kind # "vmx"
  <2>1. /\ OutputDirAt = 3 /\ CreateVMXAt = 8 /\ HTTPAt = 11 /\ RegisterAt = 13 /\ RunAt = 14
        /\ ShutdownAt = 19 /\ CleanVMXAt = 22 /\ Steps = IsoSteps
    BY <1>2 DEF Steps, OutputDirAt, HTTPAt, RunAt, ShutdownAt, CleanVMXAt, CreateVMXAt,
                RegisterAt
  <2>2. Len(IsoSteps) = 23 /\ DOMAIN IsoSteps = 1..23
    BY DEF IsoSteps
  <2>3. ASSUME NEW n \in 1..23
        PROVE  /\ IsoSteps[n] = "OutputDir" <=> n = 3
               /\ IsoSteps[n] = "CreateVMX" <=> n = 8
               /\ IsoSteps[n] = "HTTPServer" <=> n = 11
               /\ IsoSteps[n] = "Register" <=> n = 13
               /\ IsoSteps[n] = "Run" <=> n = 14
               /\ IsoSteps[n] = "Shutdown" <=> n = 19
               /\ IsoSteps[n] = "CleanVMX" <=> n = 22
    BY DEF IsoSteps
  <2>4. ASSUME NEW n \in 1..23
        PROVE  /\ IsoSteps[n] \in {"CloneVMX", "ConfigureVMX"} => n < 11
               /\ IsoSteps[n] \in {"CleanFiles", "ConfigureVMXPost", "CompactDisk"} => n > 19
               /\ IsoSteps[n] \in Others => n \notin {3, 11, 14, 19, 22}
    BY DEF IsoSteps, Others, PlainSteps
  <2>5. QED
    BY <1>2, <2>1, <2>2, <2>3, <2>4
<1>3. QED
  BY <1>1, <1>2

LEMMA StepFacts ==
  ASSUME Inv, mode = "run" \/ (mode = "clean" /\ at > 0)
  PROVE  /\ at \in 1..last
         /\ Step = "OutputDir" <=> at = OutputDirAt
         /\ Step = "CreateVMX" <=> at = CreateVMXAt /\ kind # "vmx"
         /\ Step = "HTTPServer" <=> at = HTTPAt
         /\ Step = "Register" <=> at = RegisterAt /\ kind # "vmx"
         /\ Step = "Run" <=> at = RunAt
         /\ Step = "Shutdown" <=> at = ShutdownAt
         /\ Step = "CleanVMX" <=> at = CleanVMXAt
         /\ Step \in {"CloneVMX", "ConfigureVMX"} => at < HTTPAt
         /\ Step \in {"CleanFiles", "ConfigureVMXPost", "CompactDisk"} => at > ShutdownAt
         /\ Step \in Others
              => at \notin {OutputDirAt, HTTPAt, RunAt, ShutdownAt, CleanVMXAt}
<1>1. at \in 1..last
  BY DEF Inv, TypeOK, RunnerTypeOK, Places, Placed
<1>2. QED
  BY <1>1, StepPlaces DEF Inv, TypeOK, Places, Step

-----------------------------------------------------------------------------
(* The runner                                                              *)

LEMMA InvSound ==
  ASSUME Inv
  PROVE  /\ Sound(Entries) /\ {"halted", "error", "cancelled"} \subseteq Entries
         /\ OutputDirAt \in 1..last /\ CleanVMXAt \in 1..last /\ ShutdownAt \in 1..last
<1>1. Sound(Entries)
  BY DEF Inv, TypeOK, Places, Entries, Sound
<1>2. last = CleanVMXAt + 1
  BY StepPlaces DEF Inv, TypeOK, Places
<1>3. QED
  BY <1>1, <1>2 DEF Entries, OutputDirAt, ShutdownAt, CleanVMXAt

LEMMA RunnerInv ==
  ASSUME Inv, Acts(Entries), kind' = kind
  PROVE  RunnerTypeOK(Entries)' /\ Places' /\ Reasons'
<1>1. Sound(Entries)'
  BY InvSound, ActsSound
<1>2. last' = Len(Steps)'
  BY DEF Acts, Inv, Places, Steps, IsoSteps, VmxSteps
<1>3. QED
  BY <1>1, <1>2 DEF Sound, Places

\* A build that is not given up was not given up before.
LEMMA NotGivenUp == ASSUME Acts(Entries), ~GivenUp' PROVE ~GivenUp
BY DEF Acts, Notes, GivenUp

-----------------------------------------------------------------------------
(* What keeps the parts of the invariant                                   *)

LEMMA DirKept ==
  ASSUME Inv, Acts(Entries), kind' = kind, force' = force, dir' = dir,
         "dir" \in noted' <=> "dir" \in noted, ignored \subseteq ignored',
         sub' = "make" => sub = "make", ~Passing(OutputDirAt),
         Passes(OutputDirAt) => "dir" \notin noted \/ ~GivenUp
  PROVE  DirInv'
<1>1. OutputDirAt' = OutputDirAt /\ OutputDirAt \in Nat
  BY DEF OutputDirAt
<1>2. "dir" \in noted => Entered(OutputDirAt)' /\ dir # "old"
  BY <1>1, InvSound, EnteredKept DEF Inv, DirInv, Entered
<1>3. Done(OutputDirAt)' => "dir" \in noted
  BY <1>1, InvSound, DoneFrom DEF Inv, DirInv
<1>4. "dir" \in noted /\ ~GivenUp' => dir = "new" \/ ignored' \cap {"exists", "removeOld"} # {}
  BY NotGivenUp DEF Inv, DirInv
<1>5. Undone(OutputDirAt)' /\ "dir" \in noted /\ "halted" \in bag'
        => dir = "absent" \/ "removeNew" \in ignored'
  <2> SUFFICES ASSUME Undone(OutputDirAt)', "dir" \in noted, "halted" \in bag'
               PROVE  dir = "absent" \/ "removeNew" \in ignored'
    OBVIOUS
  <2>1. Entered(OutputDirAt)
    BY DEF Inv, DirInv
  <2>2. Undone(OutputDirAt) \/ Passes(OutputDirAt)
    BY <1>1, <2>1, InvSound, UndoneFrom
  <2>3. mode = "clean" \/ mode = "ended"
    BY <2>2 DEF Undone, Passes
  <2>4. "halted" \in bag
    BY <2>3 DEF Acts, Notes
  <2>5. ~Passes(OutputDirAt)
    BY <2>4 DEF GivenUp
  <2>6. QED
    BY <2>2, <2>4, <2>5 DEF Inv, DirInv
<1>6. sub' = "make" /\ dir = "old"
        => (force /\ "removeOld" \in ignored') \/ "exists" \in ignored'
  BY DEF Inv, DirInv
<1>7. QED
  BY <1>1, <1>2, <1>3, <1>4, <1>5, <1>6 DEF DirInv, Done, Undone, Entered

\* A machine that is off stays off, whatever VMware still does to its locks.
LEMMA MachineKept ==
  ASSUME Inv, Acts(Entries), kind' = kind, vm' \in {vm, "off"}, locks' = locks \/ locks' # "many",
         "run" \in noted' <=> "run" \in noted, ignored \subseteq ignored', told \subseteq told',
         sub' = "locks" => sub = "locks" \/ Off',
         Passing(ShutdownAt) => Off' /\ NoLock',
         Passes(RunAt) => "run" \notin noted \/ Off' \/ "vm" \in told'
  PROVE  MachineInv'
<1>1. /\ RunAt' = RunAt /\ RunAt \in Nat /\ ShutdownAt' = ShutdownAt /\ ShutdownAt \in Nat
      /\ last \in Nat /\ at \in Nat /\ Moves /\ (mode = "idle" => at = 1) /\ ShutdownAt > 1
  BY DEF RunAt, ShutdownAt, Inv, TypeOK, RunnerTypeOK, Acts, Places, Placed
<1>2. vm \in {"off", "on"}
  BY DEF Inv, TypeOK
<1>3. (Off => Off') /\ (NoLock => NoLock')
  BY DEF Off, NoLock
<1>4. vm' = "on" => "run" \in noted'
  BY DEF Inv, MachineInv
<1>5. "run" \in noted' => Entered(RunAt)'
  BY <1>1, InvSound, EnteredKept DEF Inv, MachineInv, Entered
<1>6. Undone(RunAt)' => Off' \/ "vm" \in told'
  <2>1. CASE "run" \notin noted
    BY <1>2, <1>3, <2>1 DEF Inv, MachineInv, Off
  <2>2. CASE "run" \in noted
    <3>1. Undone(RunAt)' => Undone(RunAt) \/ Passes(RunAt)
      BY <1>1, <2>2, InvSound, UndoneFrom DEF Inv, MachineInv
    <3>2. QED
      BY <1>3, <2>2, <3>1 DEF Inv, MachineInv
  <2>3. QED
    BY <2>1, <2>2
<1>7. sub' = "locks" => Off'
  BY <1>3 DEF Inv, MachineInv
<1>8. mode' \in {"next", "run"} /\ at' > ShutdownAt => Off' /\ NoLock'
  <2>1. mode' \in {"next", "run"} /\ at' > ShutdownAt
          => (mode \in {"next", "run"} /\ at > ShutdownAt) \/ Passing(ShutdownAt)
    BY <1>1 DEF Moves, Passing
  <2>2. QED
    BY <1>3, <2>1 DEF Inv, MachineInv
<1>9. QED
  BY <1>1, <1>4, <1>5, <1>6, <1>7, <1>8 DEF MachineInv, Undone, Entered

\* What is accounted for stays so.
LEMMA ExcusedKept ==
  ASSUME told \subseteq told', ignored \subseteq ignored'
  PROVE  excused \subseteq excused'
BY DEF excused

\* What is held is noted by the step that makes it, or excused, and given back by its Cleanup.
LEMMA HeldKept ==
  ASSUME Inv, Acts(Entries), kind' = kind, told \subseteq told', ignored \subseteq ignored',
         \A r \in Holds :
           /\ r \in noted => r \in noted'
           /\ r \in noted' /\ r \notin noted
                => mode = "run" /\ at = Place(r) /\ (r # "http" => kind # "vmx")
           /\ r \in held' => \/ r \in held
                             \/ r \in excused'
                             \/ r \in noted' /\ mode = "run" /\ at = Place(r)
           /\ Passes(Place(r)) /\ r \in noted => r \notin held' \/ r \in excused'
  PROVE  HeldInv'
<1> SUFFICES ASSUME NEW r \in Holds
             PROVE  /\ r \in held' => r \in noted' \/ r \in excused'
                    /\ r \in noted' => Entered(Place(r))' /\ (r # "http" => kind' # "vmx")
                    /\ Undone(Place(r))' /\ r \in held' => r \in excused'
  BY DEF HeldInv
<1>1. Place(r)' = Place(r) /\ Place(r) \in Nat
  BY DEF Place, CreateVMXAt, HTTPAt, RegisterAt
<1>2. /\ r \in held => r \in noted \/ r \in excused
      /\ r \in noted => Entered(Place(r)) /\ (r # "http" => kind # "vmx")
      /\ Undone(Place(r)) /\ r \in held => r \in excused
      /\ excused \subseteq excused'
  BY ExcusedKept DEF Inv, HeldInv
<1>3. r \in noted' => Entered(Place(r))
  BY <1>1, <1>2 DEF Entered
<1>4. r \in noted' => Entered(Place(r))'
  BY <1>1, <1>3, InvSound, EnteredKept DEF Entered
<1>5. r \in held' => r \in noted' \/ r \in excused'
  BY <1>2
<1>6. Undone(Place(r))' /\ r \in held' => r \in excused'
  <2> SUFFICES ASSUME Undone(Place(r))', r \in held', r \notin excused' PROVE FALSE
    OBVIOUS
  <2>1. Entered(Place(r)) /\ (r \in held \/ mode = "run")
    BY <1>3, <1>5
  <2>2. Undone(Place(r)) \/ Passes(Place(r))
    BY <1>1, <2>1, InvSound, UndoneFrom DEF Undone
  <2>3. r \in held /\ mode # "run"
    BY <2>1, <2>2 DEF Undone, Passes
  <2>4. r \in noted
    BY <1>5, <2>3
  <2>5. QED
    BY <1>2, <2>2, <2>3, <2>4
<1>7. QED
  BY <1>2, <1>4, <1>5, <1>6

LEMMA MediaKept ==
  ASSUME Inv, Acts(Entries), kind' = kind,
         Done(CleanVMXAt) => media' \subseteq media,
         Passing(CleanVMXAt) => kind = "esx" \/ "floppy" \notin media'
  PROVE  MediaInv'
<1>1. CleanVMXAt' = CleanVMXAt
  BY DEF CleanVMXAt
<1>2. Done(CleanVMXAt)' => Done(CleanVMXAt) \/ Passing(CleanVMXAt)
  BY <1>1, InvSound, DoneFrom DEF Done
<1>3. QED
  BY <1>1, <1>2 DEF Inv, MediaInv, Done

\* While the build runs it has no result.
LEMMA ResultKept == ASSUME busy, result' = result PROVE ResultInv'
BY DEF busy, ResultInv

-----------------------------------------------------------------------------
(* Steps that change nothing but the runner                                *)

LEMMA InitInv == Init => Inv
<1> SUFFICES ASSUME Init PROVE Inv
  OBVIOUS
<1>1. Sound(Entries) /\ last = Len(Steps)
  <2>1. Len(Steps) \in Nat \ {0}
    BY StepPlaces, Numbers DEF Init
  <2>2. QED
    BY <2>1, InitSound DEF Init, RunnerInit
<1>2. TypeOK
  BY <1>1 DEF Sound, Entries, Init, TypeOK, Ignorable, MaxTries, Drives
<1>3. Places /\ Reasons /\ Halfway
  BY <1>1 DEF Sound, Places, Halfway, Init, Subs
<1>4. mode = "idle" /\ bag = {}
  BY DEF Init, RunnerInit
<1>5. DirInv /\ MachineInv /\ HeldInv /\ MediaInv /\ ResultInv
  BY <1>4 DEF Init, DirInv, MachineInv, HeldInv, MediaInv, ResultInv, Done, Undone
<1>6. QED
  BY <1>1, <1>2, <1>3, <1>5 DEF Sound, Inv

LEMMA QuietInv ==
  ASSUME Inv, busy, Acts(Entries), UNCHANGED notes, keepWorld, UNCHANGED <<config, result>>,
         tries' \in 0..(MaxTries - 1), Halfway',
         sub' = "make" => sub = "make", sub' = "locks" => sub = "locks" \/ Off,
         ~Passing(OutputDirAt), ~Passing(CleanVMXAt), Passing(ShutdownAt) => Off /\ NoLock,
         Passes(OutputDirAt) => "dir" \notin noted \/ ~GivenUp,
         Passes(RunAt) => "run" \notin noted \/ Off,
         \A r \in Holds : Passes(Place(r)) => r \notin noted
  PROVE  Inv'
<1>1. /\ kind' = kind /\ force' = force /\ portsFree' = portsFree /\ noted' = noted
      /\ told' = told /\ ignored' = ignored /\ held' = held /\ vm' = vm /\ locks' = locks
      /\ dir' = dir /\ media' = media /\ uploaded' = uploaded /\ result' = result
  BY DEF notes, keepWorld, config, machine, files
<1>2. RunnerTypeOK(Entries)' /\ Places' /\ Reasons'
  BY <1>1, RunnerInv
<1>3. TypeOK'
  BY <1>1, <1>2 DEF Inv, TypeOK, Entries, Halfway, Subs
<1>4. DirInv'
  BY <1>1, DirKept
<1>5. MachineInv'
  BY <1>1, MachineKept DEF Off, NoLock
<1>6. HeldInv'
  BY <1>1, HeldKept DEF Inv, HeldInv
<1>7. MediaInv' /\ ResultInv'
  BY <1>1, MediaKept, ResultKept
<1>8. QED
  BY <1>2, <1>3, <1>4, <1>5, <1>6, <1>7 DEF Inv

\* The step's Run goes on in another part of it.
LEMMA GotoInv ==
  ASSUME Inv, busy, NEW s, Goto(s), UNCHANGED notes, keepWorld, UNCHANGED <<config, result>>,
         tries' \in 0..(MaxTries - 1),
         s \in {"start", "command", "off", "stop", "locks"},
         s # "start" => mode = "run" /\ at = ShutdownAt,
         s = "locks" => Off
  PROVE  Inv'
<1>1. Acts(Entries) /\ mode' = mode /\ at' = at /\ sub' = s
  BY InvSound, StayActs DEF Goto
<1>2. Halfway'
  <2>1. kind' = kind /\ ShutdownAt' = ShutdownAt
    BY DEF config, ShutdownAt
  <2>2. QED
    BY <1>1, <2>1 DEF Halfway, Subs
<1>3. QED
  BY <1>1, <1>2, QuietInv DEF Passing, Passes

\* Run continues.
LEMMA ContinueInv ==
  ASSUME Inv, busy, Ret(Continue), UNCHANGED notes, keepWorld, UNCHANGED <<config, result>>,
         tries' = tries, at \notin {OutputDirAt, CleanVMXAt},
         at = ShutdownAt => Off /\ NoLock
  PROVE  Inv'
<1>1. Acts(Entries) /\ mode = "run" /\ sub' = "start"
  BY InvSound, ContinueActs DEF Ret
<1>2. Halfway' /\ tries' \in 0..(MaxTries - 1)
  BY <1>1 DEF Halfway, Subs, Inv, TypeOK
<1>3. QED
  BY <1>1, <1>2, QuietInv DEF Passing, Passes

\* It halts, with or without an error.
LEMMA HaltInv ==
  ASSUME Inv, busy, Ret(Fail) \/ (Ret(HaltQuietly) /\ "cancelled" \in bag),
         UNCHANGED notes, keepWorld, UNCHANGED <<config, result>>, tries' = tries
  PROVE  Inv'
<1>1. Acts(Entries) /\ mode = "run" /\ mode' = "clean" /\ sub' = "start"
  BY InvSound, FailActs, HaltActs DEF Ret, HaltQuietly
<1>2. Halfway' /\ tries' \in 0..(MaxTries - 1)
  BY <1>1 DEF Halfway, Subs, Inv, TypeOK
<1>3. QED
  BY <1>1, <1>2, QuietInv DEF Passing, Passes

\* Cleanup returns.
LEMMA CleanedInv ==
  ASSUME Inv, busy, Ret(Cleaned), UNCHANGED notes, keepWorld, UNCHANGED <<config, result>>,
         tries' \in 0..(MaxTries - 1),
         at = OutputDirAt => "dir" \notin noted \/ ~GivenUp,
         at = RunAt => "run" \notin noted \/ Off,
         \A r \in Holds : at = Place(r) => r \notin noted
  PROVE  Inv'
<1>1. Acts(Entries) /\ mode = "clean" /\ mode' = "clean" /\ sub' = "start"
  BY InvSound, CleanedActs DEF Ret
<1>2. Halfway'
  BY <1>1 DEF Halfway, Subs
<1>3. QED
  BY <1>1, <1>2, QuietInv DEF Passing, Passes

LEMMA PlainStepInv == Inv /\ busy /\ PlainStep => Inv'
BY StepFacts, ContinueInv, HaltInv DEF PlainStep, keepRest, Others

LEMMA CallFailsInv == Inv /\ busy /\ CallFails => Inv'
BY HaltInv DEF CallFails, keepRest

LEMMA ConnectInv == Inv /\ busy /\ (Connect \/ ConnectTimeout) => Inv'
<1>1. ASSUME Inv, busy, Connect PROVE Inv'
  BY <1>1, StepFacts, ContinueInv, HaltInv DEF Connect, Running, keepRest, Others
<1>2. ASSUME Inv, busy, ConnectTimeout PROVE Inv'
  BY <1>2, HaltInv DEF ConnectTimeout, keepRest
<1>3. QED
  BY <1>1, <1>2

LEMMA TypeBootCommandInv == Inv /\ busy /\ TypeBootCommand => Inv'
BY StepFacts, ContinueInv, HaltInv DEF TypeBootCommand, Running, keepRest, Others

LEMMA ConfigureVNCInv == Inv /\ busy /\ ConfigureVNC => Inv'
BY StepFacts, ContinueInv DEF ConfigureVNC, Running, keepRest, Others

\* StepUploadTools may put "error" in the bag and continue.
LEMMA UploadToolsInv == Inv /\ busy /\ UploadTools => Inv'
<1> SUFFICES ASSUME Inv, busy, UploadTools PROVE Inv'
  OBVIOUS
<1>1. /\ at \notin {OutputDirAt, CleanVMXAt, ShutdownAt, RunAt, HTTPAt} /\ mode = "run"
      /\ UNCHANGED notes /\ keepWorld /\ UNCHANGED <<config, tries, result>> /\ sub' = "start"
  BY StepFacts DEF UploadTools, Running, keepRest, Others, Ret
<1>2. Acts(Entries)
  BY InvSound, ContinueActs, ReturnActs DEF UploadTools, Ret
<1>3. Halfway' /\ tries' \in 0..(MaxTries - 1)
  BY <1>1 DEF Halfway, Subs, Inv, TypeOK
<1>4. QED
  BY <1>1, <1>2, <1>3, QuietInv DEF Passing, Passes

LEMMA BootWaitInv == Inv /\ busy /\ BootWait => Inv'
<1> SUFFICES ASSUME Inv, busy, BootWait PROVE Inv'
  OBVIOUS
<1>1. at = RunAt
  BY StepFacts DEF BootWait, Running
<1>2. QED
  BY <1>1, Numbers, ContinueInv, HaltInv DEF BootWait, keepRest

LEMMA SeesStoppedInv == Inv /\ busy /\ SeesStopped => Inv'
<1> SUFFICES ASSUME Inv, busy, SeesStopped PROVE Inv'
  OBVIOUS
<1>1. tries' \in 0..(MaxTries - 1) /\ Off
  BY DEF SeesStopped, keepRest, Inv, TypeOK, Off
<1>2. CASE Running("Shutdown", "off") /\ Goto("locks")
  BY <1>1, <1>2, StepFacts, GotoInv DEF SeesStopped, Running, keepRest
<1>3. CASE Cleaning("Run", "start") /\ Ret(Cleaned)
  <2>1. at = RunAt
    BY <1>3, StepFacts DEF Cleaning
  <2>2. at # OutputDirAt /\ \A r \in Holds : at = Place(r) => r \notin noted
    BY <2>1, Numbers DEF Inv, HeldInv, Place, CreateVMXAt, RegisterAt, RunAt
  <2>3. QED
    BY <1>1, <1>3, <2>1, <2>2, CleanedInv DEF SeesStopped, keepRest
<1>4. QED
  BY <1>2, <1>3 DEF SeesStopped

LEMMA ShutdownInv == Inv /\ busy /\ (Shutdown \/ CommandReturns \/ ShutdownTimeout) => Inv'
<1> SUFFICES ASSUME Inv, busy, Shutdown \/ CommandReturns \/ ShutdownTimeout PROVE Inv'
  OBVIOUS
<1>1. tries' \in 0..(MaxTries - 1) /\ mode = "run" /\ at = ShutdownAt
  BY StepFacts DEF Shutdown, CommandReturns, ShutdownTimeout, Running, keepRest, Inv, TypeOK
<1>2. CASE Shutdown \/ CommandReturns
  BY <1>1, <1>2, GotoInv DEF Shutdown, CommandReturns, keepRest
<1>3. CASE ShutdownTimeout
  BY <1>1, <1>3, HaltInv DEF ShutdownTimeout, keepRest
<1>4. QED
  BY <1>2, <1>3

LEMMA LocksGoneInv == Inv /\ busy /\ LocksGone => Inv'
<1> SUFFICES ASSUME Inv, busy, LocksGone PROVE Inv'
  OBVIOUS
<1>1. at = ShutdownAt /\ Off /\ NoLock
  BY StepFacts DEF LocksGone, Running, Inv, MachineInv, NoLock
<1>2. QED
  BY <1>1, Numbers, ContinueInv DEF LocksGone, keepRest

LEMMA NoCleanupInv == Inv /\ busy /\ NoCleanup => Inv'
<1> SUFFICES ASSUME Inv, busy, NoCleanup PROVE Inv'
  OBVIOUS
<1>1. /\ at = OutputDirAt => "dir" \notin noted \/ ~GivenUp
      /\ at = RunAt => "run" \notin noted \/ Off
  BY StepFacts DEF NoCleanup, GivenUp
<1>2. \A r \in Holds : at = Place(r) => r \notin noted
  <2> SUFFICES ASSUME NEW r \in Holds, at = Place(r), r \in noted PROVE FALSE
    OBVIOUS
  <2>1. r # "http" => kind # "vmx"
    BY DEF Inv, HeldInv
  <2>2. \/ r = "temp" /\ Step = "CreateVMX"
        \/ r = "http" /\ Step = "HTTPServer"
        \/ r = "registered" /\ Step = "Register"
    BY <2>1, StepFacts DEF NoCleanup, Place, Holds
  <2>3. QED
    BY <2>2 DEF NoCleanup, Releases
<1>3. tries' \in 0..(MaxTries - 1)
  BY DEF NoCleanup, keepRest, Inv, TypeOK
<1>4. QED
  BY <1>1, <1>2, <1>3, CleanedInv DEF NoCleanup, keepRest

LEMMA RunnerStepInv == Inv /\ busy /\ (RunnerStep \/ Cancel) => Inv'
<1> SUFFICES ASSUME Inv, busy, RunnerStep \/ Cancel PROVE Inv'
  OBVIOUS
<1>1. /\ UNCHANGED <<sub, notes>> /\ keepWorld /\ UNCHANGED <<config, tries, result>>
      /\ Loop \/ FlagCancelled \/ AskCancel
  BY DEF RunnerStep, Cancel, keepRest
<1>2. /\ Acts(Entries)
      /\ UNCHANGED <<mode, at>> \/ mode \in {"idle", "next"} \/ (mode = "clean" /\ at = 0)
      /\ ~(mode = "run" /\ mode' = "next") /\ ~(mode = "clean" /\ at > 0 /\ at' # at)
  BY <1>1, InvSound, LoopActs
<1>3. sub' = sub /\ tries' \in 0..(MaxTries - 1) /\ kind' = kind
  BY <1>1 DEF Inv, TypeOK, config
<1>4. Halfway'
  BY <1>2, <1>3 DEF Inv, Halfway, Subs, OutputDirAt, RunAt, ShutdownAt
<1>5. \A n \in Nat \ {0} : ~Passes(n) /\ ~Passing(n)
  BY <1>2 DEF Passes, Passing
<1>6. /\ OutputDirAt \in Nat \ {0} /\ RunAt \in Nat \ {0} /\ ShutdownAt \in Nat \ {0}
      /\ CleanVMXAt \in Nat \ {0} /\ \A r \in Holds : Place(r) \in Nat \ {0}
  BY DEF OutputDirAt, RunAt, ShutdownAt, CleanVMXAt, Place, CreateVMXAt, HTTPAt, RegisterAt
<1>7. QED
  BY <1>1, <1>2, <1>3, <1>4, <1>5, <1>6, QuietInv

-----------------------------------------------------------------------------
(* StepOutputDir                                                           *)

\* An action at the place of one step is at no other's.
LEMMA Apart ==
  ASSUME Inv
  PROVE  /\ at = OutputDirAt => at \notin {HTTPAt, RunAt, ShutdownAt, CleanVMXAt}
         /\ at = RunAt => at \notin {OutputDirAt, HTTPAt, ShutdownAt, CleanVMXAt}
         /\ at = ShutdownAt => at \notin {OutputDirAt, HTTPAt, RunAt, CleanVMXAt}
         /\ at = CleanVMXAt => at \notin {OutputDirAt, HTTPAt, RunAt, ShutdownAt}
         /\ at = HTTPAt => at \notin {OutputDirAt, RunAt, ShutdownAt, CleanVMXAt}
         /\ at \in {OutputDirAt, RunAt, ShutdownAt, CleanVMXAt}
              => \A r \in Holds : at = Place(r) => r \notin noted
BY DEF OutputDirAt, HTTPAt, RunAt, ShutdownAt, CleanVMXAt, Place, CreateVMXAt, RegisterAt,
       Holds, Inv, HeldInv

LEMMA CheckDirInv == Inv /\ busy /\ CheckDir => Inv'
<1> SUFFICES ASSUME Inv, busy, CheckDir PROVE Inv'
  OBVIOUS
<1>1. /\ at = OutputDirAt /\ mode = "run"
      /\ kind' = kind /\ force' = force /\ portsFree' = portsFree /\ noted' = noted
      /\ told' = told /\ held' = held /\ vm' = vm /\ locks' = locks /\ tries' = tries
      /\ media' = media /\ uploaded' = uploaded /\ result' = result
  BY StepFacts DEF CheckDir, Running, keepRest, config, machine
<1>2. /\ ignored \subseteq ignored' /\ ignored' \subseteq ignored \cup {"removeOld", "exists"}
      /\ dir' = dir \/ (dir = "old" /\ dir' = "absent")
      /\ \/ UNCHANGED runnerVars /\ sub' = "make"
         \/ Ret(Fail)
      /\ sub' = "make" /\ dir' = "old"
           => (force /\ "removeOld" \in ignored') \/ "exists" \in ignored'
  BY DEF CheckDir, Goto, Ret
<1>3. /\ Acts(Entries) /\ sub' \in {"make", "start"}
      /\ (sub' = "make" => mode' = "run" /\ at' = at) /\ ~(mode = "run" /\ mode' = "next")
  BY <1>1, <1>2, InvSound, StayActs, FailActs DEF Ret
<1>4. Places' /\ Reasons' /\ RunnerTypeOK(Entries)'
  BY <1>1, <1>3, RunnerInv
<1>5. Halfway'
  BY <1>1, <1>3 DEF Halfway, Subs, OutputDirAt
<1>6. TypeOK'
  BY <1>1, <1>2, <1>4, <1>5 DEF Inv, TypeOK, Ignorable, Entries, Halfway, Subs
<1>7. DirInv'
  <2>1. OutputDirAt' = OutputDirAt /\ OutputDirAt \in Nat /\ Entered(OutputDirAt)
    BY <1>1 DEF OutputDirAt, Entered
  <2>2. Entered(OutputDirAt)'
    BY <2>1, <1>3, InvSound, EnteredKept DEF Entered
  <2>3. ~Undone(OutputDirAt)'
    BY <1>1, <1>3, <2>1, InvSound, UndoneFrom DEF Undone, Passes
  <2>4. ~Done(OutputDirAt)'
    BY <1>1, <1>3, <2>1, InvSound, DoneFrom DEF Done, Passing
  <2>5. QED
    BY <1>1, <1>2, <1>3, <2>1, <2>2, <2>3, <2>4, NotGivenUp DEF Inv, DirInv, Undone, Done, Entered
<1>8. MachineInv' /\ HeldInv' /\ MediaInv' /\ ResultInv'
  BY <1>1, <1>2, <1>3, MachineKept, HeldKept, MediaKept, ResultKept
     DEF Passing, Passes, Inv, HeldInv
<1>9. QED
  BY <1>4, <1>5, <1>6, <1>7, <1>8 DEF Inv

LEMMA MakeDirInv == Inv /\ busy /\ MakeDir => Inv'
<1> SUFFICES ASSUME Inv, busy, MakeDir PROVE Inv'
  OBVIOUS
<1>1. /\ at = OutputDirAt /\ mode = "run" /\ Ret(Continue) /\ sub = "make"
      /\ noted' = noted \cup {"dir"} /\ dir' = (IF dir = "old" THEN "mixed" ELSE "new")
      /\ kind' = kind /\ force' = force /\ portsFree' = portsFree /\ ignored' = ignored
      /\ told' = told /\ held' = held /\ vm' = vm /\ locks' = locks /\ tries' = tries
      /\ media' = media /\ uploaded' = uploaded /\ result' = result
  BY StepFacts DEF MakeDir, Running, keepRest, config, machine
<1>2. Acts(Entries) /\ sub' = "start"
  BY <1>1, InvSound, ContinueActs DEF Ret
<1>3. Places' /\ Reasons' /\ RunnerTypeOK(Entries)' /\ Halfway'
  BY <1>1, <1>2, RunnerInv DEF Halfway, Subs
<1>4. TypeOK'
  BY <1>1, <1>3 DEF Inv, TypeOK, Entries, Halfway, Subs
<1>5. DirInv'
  <2>1. OutputDirAt' = OutputDirAt /\ OutputDirAt \in Nat /\ Entered(OutputDirAt)
    BY <1>1 DEF OutputDirAt, Entered
  <2>2. Entered(OutputDirAt)'
    BY <2>1, <1>2, InvSound, EnteredKept DEF Entered
  <2>3. ~Undone(OutputDirAt)'
    BY <1>1, <1>2, <2>1, InvSound, UndoneFrom DEF Undone, Passes
  <2>4. dir' \in {"new", "mixed"} /\ (dir' = "mixed" => ignored \cap {"exists", "removeOld"} # {})
    BY <1>1 DEF Inv, DirInv
  <2>5. QED
    BY <1>1, <1>2, <2>1, <2>2, <2>3, <2>4 DEF DirInv, Undone, Entered
<1>6. MachineInv' /\ HeldInv' /\ MediaInv' /\ ResultInv'
  BY <1>1, <1>2, Apart, MachineKept, HeldKept, MediaKept, ResultKept
     DEF Passing, Passes, Inv, HeldInv, Holds
<1>7. QED
  BY <1>3, <1>4, <1>5, <1>6 DEF Inv

LEMMA MakeDirHalfwayInv == Inv /\ busy /\ MakeDirHalfway => Inv'
<1> SUFFICES ASSUME Inv, busy, MakeDirHalfway PROVE Inv'
  OBVIOUS
<1>1. /\ at = OutputDirAt /\ mode = "run" /\ Ret(Fail) /\ noted' = noted
      /\ dir' \in {"new", "mixed"} /\ ignored' = ignored \cup {"makeDir"}
      /\ kind' = kind /\ force' = force /\ portsFree' = portsFree
      /\ told' = told /\ held' = held /\ vm' = vm /\ locks' = locks /\ tries' = tries
      /\ media' = media /\ uploaded' = uploaded /\ result' = result
  BY StepFacts DEF MakeDirHalfway, Running, keepRest, config, machine
<1>2. Acts(Entries) /\ sub' = "start" /\ mode' = "clean" /\ GivenUp'
  <2>1. Fail
    BY <1>1 DEF Ret
  <2>2. GivenUp' /\ mode' = "clean"
    BY <2>1 DEF Fail, StepReturns, GivenUp
  <2>3. QED
    BY <1>1, <2>1, <2>2, InvSound, FailActs DEF Ret
<1>3. Places' /\ Reasons' /\ RunnerTypeOK(Entries)' /\ Halfway'
  BY <1>1, <1>2, RunnerInv DEF Halfway, Subs
<1>4. TypeOK'
  BY <1>1, <1>3 DEF Inv, TypeOK, Ignorable, Entries, Halfway, Subs
<1>5. DirInv'
  <2>1. OutputDirAt' = OutputDirAt /\ OutputDirAt \in Nat /\ Entered(OutputDirAt)
    BY <1>1 DEF OutputDirAt, Entered
  <2>2. Entered(OutputDirAt)'
    BY <2>1, <1>2, InvSound, EnteredKept DEF Entered
  <2>3. ~Undone(OutputDirAt)'
    BY <1>1, <1>2, <2>1, InvSound, UndoneFrom DEF Undone, Passes
  <2>4. ~Done(OutputDirAt)'
    BY <1>1, <1>2, <2>1, InvSound, DoneFrom DEF Done, Passing, GivenUp
  <2>5. QED
    BY <1>1, <1>2, <2>1, <2>2, <2>3, <2>4 DEF DirInv, Undone, Entered, Done
<1>6. MachineInv' /\ HeldInv' /\ MediaInv' /\ ResultInv'
  BY <1>1, <1>2, Apart, MachineKept, HeldKept, MediaKept, ResultKept
     DEF Passing, Passes, Inv, HeldInv, Holds
<1>7. QED
  BY <1>3, <1>4, <1>5, <1>6 DEF Inv

LEMMA RemoveDirInv == Inv /\ busy /\ RemoveDir => Inv'
<1> SUFFICES ASSUME Inv, busy, RemoveDir PROVE Inv'
  OBVIOUS
<1>1. /\ at = OutputDirAt /\ mode = "clean" /\ sub = "start" /\ GivenUp /\ "dir" \in noted
      /\ noted' = noted
      /\ kind' = kind /\ force' = force /\ portsFree' = portsFree
      /\ told' = told /\ held' = held /\ vm' = vm /\ locks' = locks
      /\ media' = media /\ uploaded' = uploaded /\ result' = result
  BY StepFacts DEF RemoveDir, Cleaning, GivenUp, config, machine
<1>2. /\ ignored \subseteq ignored' /\ ignored' \subseteq ignored \cup {"removeNew"}
      /\ dir' \in {dir, "absent"} /\ tries' \in 0..(MaxTries - 1)
      /\ \/ UNCHANGED runnerVars /\ sub' = "start"
         \/ Ret(Cleaned) /\ (dir' = "absent" \/ "removeNew" \in ignored')
  <2>1. tries' \in 0..(MaxTries - 1)
    BY DEF RemoveDir, Inv, TypeOK, MaxTries
  <2>2. QED
    BY <2>1 DEF RemoveDir, Goto
<1>3. /\ Acts(Entries) /\ sub' = "start" /\ mode' = "clean" /\ bag' = bag
      /\ at' # at => dir' = "absent" \/ "removeNew" \in ignored'
  BY <1>1, <1>2, InvSound, StayActs, CleanedActs DEF Ret
<1>4. Places' /\ Reasons' /\ RunnerTypeOK(Entries)' /\ Halfway'
  BY <1>1, <1>3, RunnerInv DEF Halfway, Subs
<1>5. TypeOK'
  <2>1. /\ ignored' \subseteq Ignorable
        /\ dir' \in {"absent", "old", "new", "mixed"}
    BY <1>2 DEF Inv, TypeOK, Ignorable
  <2>2. QED
    BY <1>1, <1>2, <1>4, <2>1 DEF Inv, TypeOK, Entries, Halfway, Subs
<1>6. DirInv'
  <2>1. OutputDirAt' = OutputDirAt /\ OutputDirAt \in Nat /\ Entered(OutputDirAt) /\ GivenUp'
    BY <1>1, <1>3 DEF OutputDirAt, Entered, GivenUp
  <2>2. Entered(OutputDirAt)'
    BY <2>1, <1>3, InvSound, EnteredKept DEF Entered
  <2>3. Undone(OutputDirAt)' => dir' = "absent" \/ "removeNew" \in ignored'
    BY <1>1, <1>3, <2>1 DEF Undone
  <2>4. dir' # "old"
    BY <1>1, <1>2 DEF Inv, DirInv
  <2>5. QED
    BY <1>1, <1>3, <2>1, <2>2, <2>3, <2>4 DEF DirInv, Undone, Entered
<1>7. MachineInv' /\ HeldInv' /\ MediaInv' /\ ResultInv'
  BY <1>1, <1>2, <1>3, Apart, MachineKept, HeldKept, MediaKept, ResultKept
     DEF Passing, Passes, Inv, HeldInv, Holds
<1>8. QED
  BY <1>4, <1>5, <1>6, <1>7 DEF Inv

-----------------------------------------------------------------------------
(* The VMX file, and what is held                                          *)

\* Run returns, having changed the VMX file, or what is noted and held.
LEMMA FilesInv ==
  ASSUME Inv, busy, Ret(Continue) \/ Ret(Fail), UNCHANGED <<config, tries, result>>,
         UNCHANGED <<told, machine, dir>>, ignored' \in {ignored, ignored \cup {"register"}},
         media' \in SUBSET Drives, uploaded' \in SUBSET Drives,
         noted \subseteq noted', noted' \subseteq noted \cup Holds, held' \subseteq held \cup Holds,
         at \notin {OutputDirAt, ShutdownAt}, at < CleanVMXAt \/ media' \subseteq media,
         at = CleanVMXAt => kind = "esx" \/ "floppy" \notin media',
         \A r \in Holds : r \in noted' /\ r \notin noted
                            => at = Place(r) /\ (r # "http" => kind # "vmx"),
         \A r \in Holds : r \in held' /\ r \notin held
                            => r \in excused' \/ (r \in noted' /\ at = Place(r))
  PROVE  Inv'
<1>1. Acts(Entries) /\ mode = "run" /\ sub' = "start" /\ mode' \in {"next", "clean"}
  BY InvSound, ContinueActs, FailActs DEF Ret
<1>2. /\ kind' = kind /\ force' = force /\ portsFree' = portsFree /\ told' = told
      /\ ignored \subseteq ignored' /\ vm' = vm /\ locks' = locks /\ dir' = dir
      /\ tries' = tries /\ result' = result
  BY DEF config, machine
<1>3. "dir" \in noted' <=> "dir" \in noted
  BY DEF Holds
<1>4. "run" \in noted' <=> "run" \in noted
  BY DEF Holds
<1>5. Places' /\ Reasons' /\ RunnerTypeOK(Entries)' /\ Halfway'
  BY <1>1, <1>2, RunnerInv DEF Halfway, Subs
<1>6. TypeOK'
  <2>1. noted' \subseteq {"dir", "temp", "http", "registered", "run"}
    BY DEF Inv, TypeOK, Holds
  <2>2. held' \subseteq {"temp", "http", "registered"}
    BY DEF Inv, TypeOK, Holds
  <2>3. ignored' \subseteq Ignorable
    BY DEF Inv, TypeOK, Ignorable
  <2>4. QED
    BY <1>2, <1>5, <2>1, <2>2, <2>3 DEF Inv, TypeOK, Entries, Halfway, Subs
<1>7. DirInv'
  BY <1>1, <1>2, <1>3, DirKept DEF Passing, Passes
<1>8. MachineInv'
  BY <1>1, <1>2, <1>4, MachineKept DEF Passing, Passes, Off, NoLock
<1>9. HeldInv'
  <2>1. ASSUME NEW r \in Holds
        PROVE  /\ r \in noted => r \in noted'
               /\ r \in noted' /\ r \notin noted
                    => mode = "run" /\ at = Place(r) /\ (r # "http" => kind # "vmx")
               /\ r \in held' => \/ r \in held
                                 \/ r \in excused'
                                 \/ r \in noted' /\ mode = "run" /\ at = Place(r)
               /\ ~Passes(Place(r))
    BY <1>1 DEF Passes
  <2>2. QED
    BY <1>1, <1>2, <2>1, HeldKept
<1>10. MediaInv'
  <2>1. Done(CleanVMXAt) => at > CleanVMXAt
    BY <1>1 DEF Done
  <2>2. at \in Nat /\ CleanVMXAt \in Nat
    BY Numbers DEF Inv, TypeOK, RunnerTypeOK
  <2>3. Done(CleanVMXAt) => media' \subseteq media
    BY <2>1, <2>2
  <2>4. QED
    BY <1>1, <1>2, <2>3, MediaKept DEF Passing
<1>11. QED
  BY <1>2, <1>5, <1>6, <1>7, <1>8, <1>9, <1>10, ResultKept DEF Inv

LEMMA CreateVMXInv == Inv /\ busy /\ (CreateVMX \/ CreateVMXHalfway) => Inv'
<1> SUFFICES ASSUME Inv, busy, CreateVMX \/ CreateVMXHalfway PROVE Inv'
  OBVIOUS
<1>1. at = CreateVMXAt /\ kind # "vmx" /\ (Ret(Continue) \/ Ret(Fail))
  BY StepFacts DEF CreateVMX, CreateVMXHalfway, Running
<1>2. /\ UNCHANGED <<config, tries, result>> /\ UNCHANGED <<told, ignored, machine, dir>>
      /\ uploaded' = uploaded /\ media' \in {media, {"iso"}}
      /\ \/ noted' = noted /\ held' = held
         \/ noted' = noted \cup {"temp"} /\ held' = held \cup {"temp"}
  BY DEF CreateVMX, CreateVMXHalfway, keepRest, files
<1>3. media' \in SUBSET Drives /\ uploaded' \in SUBSET Drives
  BY <1>2 DEF Inv, TypeOK, Drives
<1>4. noted \subseteq noted' /\ noted' \subseteq noted \cup Holds /\ held' \subseteq held \cup Holds
  BY <1>2 DEF Holds
<1>5. \A r \in Holds :
        /\ r \in noted' /\ r \notin noted => at = Place(r) /\ (r # "http" => kind # "vmx")
        /\ r \in held' /\ r \notin held => r \in excused' \/ (r \in noted' /\ at = Place(r))
  BY <1>1, <1>2 DEF Holds, Place
<1>6. at \notin {OutputDirAt, ShutdownAt} /\ at < CleanVMXAt
  BY <1>1 DEF OutputDirAt, ShutdownAt, CleanVMXAt, CreateVMXAt
<1>7. at # CleanVMXAt
  BY <1>1 DEF CreateVMXAt, CleanVMXAt
<1>8. QED
  BY <1>1, <1>2, <1>3, <1>4, <1>5, <1>6, <1>7, FilesInv

LEMMA WriteVMXInv == Inv /\ busy /\ (CloneVMX \/ ConfigureVMX) => Inv'
<1> SUFFICES ASSUME Inv, busy, CloneVMX \/ ConfigureVMX PROVE Inv'
  OBVIOUS
<1>1. at < HTTPAt /\ at \notin {OutputDirAt, ShutdownAt} /\ Ret(Continue)
  BY StepFacts DEF CloneVMX, ConfigureVMX, Running, Others
<1>2. /\ UNCHANGED <<config, tries, result>> /\ UNCHANGED <<told, ignored, machine, dir>>
      /\ uploaded' = uploaded /\ noted' = noted /\ held' = held
  BY DEF CloneVMX, ConfigureVMX, keepRest, notes
<1>3. media' \in SUBSET Drives /\ uploaded' \in SUBSET Drives
  BY <1>2 DEF CloneVMX, ConfigureVMX, Inv, TypeOK, Drives
<1>4. at < CleanVMXAt /\ at # CleanVMXAt
  <2>1. at \in Nat
    BY DEF Inv, TypeOK, RunnerTypeOK
  <2>2. QED
    BY <1>1, <2>1 DEF HTTPAt, CleanVMXAt
<1>5. QED
  BY <1>1, <1>2, <1>3, <1>4, FilesInv

LEMMA CleanVMXInv == Inv /\ busy /\ CleanVMX => Inv'
<1> SUFFICES ASSUME Inv, busy, CleanVMX PROVE Inv'
  OBVIOUS
<1>1. at = CleanVMXAt /\ Ret(Continue)
  BY StepFacts DEF CleanVMX, Running
<1>2. /\ UNCHANGED <<config, tries, result>> /\ UNCHANGED <<told, ignored, machine, dir>>
      /\ uploaded' = uploaded /\ noted' = noted /\ held' = held
      /\ media' \subseteq media /\ "floppy" \notin media'
  BY DEF CleanVMX, keepRest, notes, Drives
<1>3. media' \in SUBSET Drives /\ uploaded' \in SUBSET Drives
  BY <1>2 DEF Inv, TypeOK
<1>4. at \notin {OutputDirAt, ShutdownAt}
  BY <1>1, Apart
<1>5. QED
  BY <1>1, <1>2, <1>3, <1>4, FilesInv

LEMMA HTTPServerInv == Inv /\ busy /\ HTTPServer => Inv'
<1> SUFFICES ASSUME Inv, busy, HTTPServer PROVE Inv'
  OBVIOUS
<1>1. at = HTTPAt /\ Ret(Continue)
  BY StepFacts DEF HTTPServer, Running
<1>2. /\ UNCHANGED <<config, tries, result>> /\ UNCHANGED <<told, ignored, machine, dir>>
      /\ uploaded' = uploaded /\ media' = media
      /\ \/ noted' = noted /\ held' = held
         \/ noted' = noted \cup {"http"} /\ held' = held \cup {"http"}
  BY DEF HTTPServer, keepRest, files
<1>3. media' \in SUBSET Drives /\ uploaded' \in SUBSET Drives
  BY <1>2 DEF Inv, TypeOK
<1>4. noted \subseteq noted' /\ noted' \subseteq noted \cup Holds /\ held' \subseteq held \cup Holds
  BY <1>2 DEF Holds
<1>5. \A r \in Holds :
        /\ r \in noted' /\ r \notin noted => at = Place(r) /\ (r # "http" => kind # "vmx")
        /\ r \in held' /\ r \notin held => r \in excused' \/ (r \in noted' /\ at = Place(r))
  BY <1>1, <1>2 DEF Holds, Place
<1>6. at \notin {OutputDirAt, ShutdownAt, CleanVMXAt}
  BY <1>1, Apart
<1>7. QED
  BY <1>1, <1>2, <1>3, <1>4, <1>5, <1>6, FilesInv

LEMMA RegisterInv == Inv /\ busy /\ (Register \/ RegisterHalfway) => Inv'
<1> SUFFICES ASSUME Inv, busy, Register \/ RegisterHalfway PROVE Inv'
  OBVIOUS
<1>1. at = RegisterAt /\ kind # "vmx" /\ (Ret(Continue) \/ Ret(Fail))
  BY StepFacts DEF Register, RegisterHalfway, Running
<1>2. /\ UNCHANGED <<config, tries, result>> /\ UNCHANGED <<told, machine, dir>>
      /\ uploaded' \in {uploaded, media} /\ media' = media
      /\ \/ noted' = noted /\ held' = held /\ ignored' = ignored
         \/ /\ noted' = noted \cup {"registered"} /\ held' = held \cup {"registered"}
            /\ ignored' = ignored
         \/ /\ noted' = noted /\ held' = held \cup {"registered"}
            /\ ignored' = ignored \cup {"register"}
  BY DEF Register, RegisterHalfway, keepRest
<1>3. media' \in SUBSET Drives /\ uploaded' \in SUBSET Drives
  BY <1>2 DEF Inv, TypeOK
<1>4. noted \subseteq noted' /\ noted' \subseteq noted \cup Holds /\ held' \subseteq held \cup Holds
  BY <1>2 DEF Holds
<1>5. \A r \in Holds :
        /\ r \in noted' /\ r \notin noted => at = Place(r) /\ (r # "http" => kind # "vmx")
        /\ r \in held' /\ r \notin held => r \in excused' \/ (r \in noted' /\ at = Place(r))
  BY <1>1, <1>2 DEF Holds, Place, excused
<1>6. at \notin {OutputDirAt, ShutdownAt, CleanVMXAt}
  BY <1>1 DEF RegisterAt, OutputDirAt, ShutdownAt, CleanVMXAt
<1>7. QED
  BY <1>1, <1>2, <1>3, <1>4, <1>5, <1>6, FilesInv

-----------------------------------------------------------------------------
(* The machine                                                             *)

\* Where files, and what is noted of them, do not change, only MachineInv is left to see.
LEMMA MachineStepInv ==
  ASSUME Inv, busy, Acts(Entries), UNCHANGED <<config, tries, result>>, UNCHANGED <<held, files>>,
         vm' \in {"off", "on"}, locks' \in {"none", "vmx", "many"},
         noted \subseteq noted', noted' \subseteq noted \cup {"run"},
         told \subseteq told', told' \subseteq told \cup {"vm"},
         ignored \subseteq ignored', ignored' \subseteq ignored \cup {"power", "locks"},
         at \in {RunAt, ShutdownAt}, Halfway', sub' # "make", MachineInv'
  PROVE  Inv'
<1>1. /\ kind' = kind /\ force' = force /\ portsFree' = portsFree /\ held' = held /\ dir' = dir
      /\ media' = media /\ uploaded' = uploaded /\ tries' = tries /\ result' = result
  BY DEF config, files
<1>2. Places' /\ Reasons' /\ RunnerTypeOK(Entries)'
  BY <1>1, RunnerInv
<1>3. TypeOK'
  <2>1. noted' \subseteq {"dir", "temp", "http", "registered", "run"}
    BY DEF Inv, TypeOK
  <2>2. told' \subseteq {"vm", "registered"}
    BY DEF Inv, TypeOK
  <2>3. ignored' \subseteq Ignorable
    BY DEF Inv, TypeOK, Ignorable
  <2>4. QED
    BY <1>1, <1>2, <2>1, <2>2, <2>3 DEF Inv, TypeOK, Entries, Halfway, Subs
<1>4. at \notin {OutputDirAt, CleanVMXAt} /\ \A r \in Holds : at = Place(r) => r \notin noted
  BY Apart
<1>5. DirInv'
  <2>1. "dir" \in noted' <=> "dir" \in noted
    OBVIOUS
  <2>2. QED
    BY <1>1, <1>4, <2>1, DirKept DEF Passing, Passes
<1>6. HeldInv'
  <2>1. \A r \in Holds : r \in noted' <=> r \in noted
    BY DEF Holds
  <2>2. QED
    BY <1>1, <1>4, <2>1, HeldKept DEF Passes
<1>7. MediaInv' /\ ResultInv'
  BY <1>1, <1>4, MediaKept, ResultKept DEF Passing
<1>8. QED
  BY <1>2, <1>3, <1>5, <1>6, <1>7 DEF Inv

LEMMA StartVMInv == Inv /\ busy /\ StartVM => Inv'
<1> SUFFICES ASSUME Inv, busy, StartVM PROVE Inv'
  OBVIOUS
<1>1. /\ at = RunAt /\ mode = "run" /\ noted' = noted \cup {"run"} /\ UNCHANGED <<held, files>>
      /\ told' = told /\ ignored' = ignored /\ UNCHANGED <<config, tries, result>>
  BY StepFacts DEF StartVM, Running, keepRest
<1>2. /\ vm' \in {"off", "on"} /\ locks' \in {"none", "vmx", "many"}
      /\ (UNCHANGED runnerVars /\ sub' = "boot") \/ Ret(Fail)
  BY DEF StartVM, Goto, Inv, TypeOK
<1>3. /\ Acts(Entries)
      /\ \/ sub' = "boot" /\ mode' = "run" /\ at' = at
         \/ sub' = "start" /\ mode' = "clean"
  BY <1>1, <1>2, InvSound, StayActs, FailActs DEF Ret
<1>4. RunAt' = RunAt /\ {RunAt, ShutdownAt} \subseteq Nat /\ ShutdownAt' = ShutdownAt /\ RunAt < ShutdownAt
  BY <1>1 DEF config, RunAt, ShutdownAt
<1>5. Halfway'
  BY <1>1, <1>3, <1>4 DEF Halfway, Subs
<1>6. MachineInv'
  <2>1. Entered(RunAt)
    BY <1>1, <1>4 DEF Entered
  <2>2. Entered(RunAt)' /\ ~Undone(RunAt)'
    BY <1>1, <1>3, <1>4, <2>1, InvSound, EnteredKept, UndoneFrom DEF Entered, Undone, Passes
  <2>3. ~(mode' \in {"next", "run"} /\ at' > ShutdownAt)
    <3>1. CASE mode' = "clean"
      BY <3>1
    <3>2. CASE at' = at
      BY <1>1, <1>4, <3>2
    <3>3. QED
      BY <1>3, <3>1, <3>2
  <2>4. QED
    BY <1>1, <1>3, <1>4, <2>2, <2>3 DEF MachineInv, Entered, Undone
<1>7. QED
  BY <1>1, <1>2, <1>3, <1>5, <1>6, MachineStepInv

\* Cleanup of StepRun, or a part of StepShutdown, finds or takes the machine to be off, or
\* says that it is not.
LEMMA MachineEndsInv ==
  ASSUME Inv, busy, UNCHANGED <<config, tries, result>>, UNCHANGED <<held, files, noted>>,
         vm' \in {vm, "off"}, locks' = locks,
         told \subseteq told', told' \subseteq told \cup {"vm"},
         ignored \subseteq ignored', ignored' \subseteq ignored \cup {"power", "locks"},
         \/ at = RunAt /\ Ret(Cleaned) /\ (Off' \/ "vm" \in told')
         \/ at = ShutdownAt /\ mode = "run" /\ Goto("locks") /\ Off'
         \/ at = ShutdownAt /\ Ret(Continue) /\ Off' /\ NoLock'
  PROVE  Inv'
<1>1. /\ Acts(Entries) /\ sub' \in {"start", "locks"}
      /\ sub' = "locks" => mode' = "run" /\ at' = at /\ at = ShutdownAt
  BY InvSound, CleanedActs, StayActs, ContinueActs DEF Ret, Goto
<1>2. /\ at = RunAt => mode = "clean" /\ mode' = "clean" /\ (Off' \/ "vm" \in told')
      /\ at = ShutdownAt => mode = "run" /\ Off' /\ (mode' = "next" => NoLock')
  BY Apart, InvSound, CleanedActs, StayActs, ContinueActs DEF Ret, Goto
<1>3. /\ kind' = kind /\ ShutdownAt' = ShutdownAt /\ RunAt' = RunAt /\ noted' = noted
      /\ at \in {RunAt, ShutdownAt}
  BY DEF config, ShutdownAt, RunAt
<1>4. Halfway'
  BY <1>1, <1>3 DEF Halfway, Subs
<1>5. sub' = "locks" => Off'
  BY <1>1, <1>2
<1>6. Passing(ShutdownAt) => Off' /\ NoLock'
  BY <1>2 DEF Passing
<1>7. Passes(RunAt) => Off' \/ "vm" \in told'
  BY <1>2 DEF Passes
<1>8. MachineInv'
  BY <1>1, <1>3, <1>5, <1>6, <1>7, MachineKept
<1>9. vm' \in {"off", "on"} /\ locks' \in {"none", "vmx", "many"}
  BY DEF Inv, TypeOK
<1>10. QED
  BY <1>1, <1>3, <1>4, <1>8, <1>9, MachineStepInv

LEMMA AssumesStoppedInv == Inv /\ busy /\ AssumesStopped => Inv'
<1> SUFFICES ASSUME Inv, busy, AssumesStopped PROVE Inv'
  OBVIOUS
<1>1. /\ UNCHANGED <<config, tries, result>> /\ UNCHANGED <<held, files, noted>>
      /\ vm' = vm /\ locks' = locks /\ told' = told /\ ignored' = ignored \cup {"power"}
  BY DEF AssumesStopped, keepWorld, keepRest, machine
<1>2. \/ at = RunAt /\ Ret(Cleaned)
      \/ at = ShutdownAt /\ mode = "run" /\ Goto("locks")
  BY StepFacts DEF AssumesStopped, Running, Cleaning
<1>3. Off'
  BY <1>1 DEF Off
<1>4. QED
  BY <1>1, <1>2, <1>3, MachineEndsInv

LEMMA StopInCleanupInv == Inv /\ busy /\ StopInCleanup => Inv'
<1> SUFFICES ASSUME Inv, busy, StopInCleanup PROVE Inv'
  OBVIOUS
<1>1. /\ UNCHANGED <<config, tries, result>> /\ UNCHANGED <<held, files, noted>>
      /\ locks' = locks /\ ignored' = ignored /\ at = RunAt /\ Ret(Cleaned)
      /\ \/ vm' = "off" /\ told' = told
         \/ vm' = vm /\ told' = told \cup {"vm"}
  BY StepFacts DEF StopInCleanup, Cleaning, keepRest
<1>2. Off' \/ "vm" \in told'
  BY <1>1 DEF Off
<1>3. QED
  BY <1>1, <1>2, MachineEndsInv

LEMMA ForcedStopInv == Inv /\ busy /\ ForcedStop => Inv'
<1> SUFFICES ASSUME Inv, busy, ForcedStop PROVE Inv'
  OBVIOUS
<1>1. /\ UNCHANGED <<config, tries, result>> /\ UNCHANGED <<held, files, noted>> /\ vm' = "off"
      /\ locks' = locks /\ ignored' = ignored /\ told' = told
      /\ at = ShutdownAt /\ mode = "run" /\ Goto("locks")
  BY StepFacts DEF ForcedStop, Running, keepRest, notes
<1>2. Off'
  BY <1>1 DEF Off
<1>3. QED
  BY <1>1, <1>2, MachineEndsInv

LEMMA LocksTimeoutInv == Inv /\ busy /\ LocksTimeout => Inv'
<1> SUFFICES ASSUME Inv, busy, LocksTimeout PROVE Inv'
  OBVIOUS
<1>1. /\ UNCHANGED <<config, tries, result>> /\ UNCHANGED <<held, files, noted>> /\ vm' = vm
      /\ locks' = locks /\ ignored' = ignored \cup {"locks"} /\ told' = told
      /\ at = ShutdownAt /\ Ret(Continue) /\ sub = "locks"
  BY StepFacts DEF LocksTimeout, Running, keepRest, keepWorld, machine
<1>2. Off' /\ NoLock'
  BY <1>1 DEF Off, NoLock, Inv, MachineInv
<1>3. QED
  BY <1>1, <1>2, MachineEndsInv

-----------------------------------------------------------------------------
(* What is given back, the result, and the world                           *)

LEMMA ReleaseInv == Inv /\ busy /\ Release => Inv'
<1> SUFFICES ASSUME Inv, busy, Release PROVE Inv'
  OBVIOUS
<1>1. Step \in {"Register", "HTTPServer", "CreateVMX"} /\ mode = "clean" /\ at > 0
  BY DEF Release, Releases
<1> DEFINE r == Releases[Step]
<1>2. r \in Holds /\ at = Place(r)
  <2>1. CASE Step = "Register"
    BY <1>1, <2>1, StepFacts DEF Releases, Holds, Place
  <2>2. CASE Step = "HTTPServer"
    BY <1>1, <2>2, StepFacts DEF Releases, Holds, Place
  <2>3. CASE Step = "CreateVMX"
    BY <1>1, <2>3, StepFacts DEF Releases, Holds, Place
  <2>4. QED
    BY <1>1, <2>1, <2>2, <2>3
<1>3. /\ Ret(Cleaned) /\ noted' = noted
      /\ vm' = vm /\ locks' = locks /\ dir' = dir /\ media' = media /\ uploaded' = uploaded
      /\ kind' = kind /\ force' = force /\ portsFree' = portsFree /\ tries' = tries
      /\ result' = result
      /\ \/ held' = held \ {r} /\ told' = told /\ ignored' = ignored
         \/ /\ r = "registered" /\ told' = told \cup {r}
            /\ held' = held /\ ignored' = ignored
         \/ /\ r = "temp" /\ ignored' = ignored \cup {"removeTemp"}
            /\ held' = held /\ told' = told
  BY DEF Release, machine, files, keepRest, config
<1> HIDE DEF r
<1>4. Acts(Entries) /\ sub' = "start" /\ mode' = "clean"
  BY <1>3, InvSound, CleanedActs DEF Ret
<1>5. Places' /\ Reasons' /\ RunnerTypeOK(Entries)' /\ Halfway'
  BY <1>3, <1>4, RunnerInv DEF Halfway, Subs
<1>6. TypeOK'
  <2>1. /\ told' \subseteq {"vm", "registered"} /\ held' \subseteq {"temp", "http", "registered"}
        /\ ignored' \subseteq Ignorable
    BY <1>3 DEF Inv, TypeOK, Ignorable
  <2>2. QED
    BY <1>3, <1>5, <2>1 DEF Inv, TypeOK, Entries, Halfway, Subs
<1>7. at \notin {OutputDirAt, RunAt, ShutdownAt, CleanVMXAt}
  BY <1>1, <1>2 DEF Place, CreateVMXAt, HTTPAt, RegisterAt, OutputDirAt, RunAt, ShutdownAt, CleanVMXAt,
                    Holds, Inv, HeldInv, Release, r
<1>8. DirInv'
  BY <1>3, <1>4, <1>7, DirKept DEF Passing, Passes
<1>9. MachineInv'
  BY <1>1, <1>3, <1>4, <1>7, MachineKept DEF Passing, Passes
<1>10. HeldInv'
  <2>1. ASSUME NEW q \in Holds, at = Place(q), q \in noted
        PROVE  q = r
    BY <1>2, <2>1 DEF Place, CreateVMXAt, HTTPAt, RegisterAt, Holds
  <2>2. ASSUME NEW q \in Holds
        PROVE  /\ (q \in noted => q \in noted') /\ (q \in noted' => q \in noted)
               /\ q \in held' => q \in held
               /\ Passes(Place(q)) /\ q \in noted => q \notin held' \/ q \in excused'
    BY <1>3, <2>1 DEF Passes, excused
  <2>3. told \subseteq told' /\ ignored \subseteq ignored'
    BY <1>3
  <2>4. QED
    BY <1>3, <1>4, <2>2, <2>3, HeldKept
<1>11. MediaInv' /\ ResultInv'
  BY <1>1, <1>3, <1>4, MediaKept, ResultKept DEF Passing
<1>12. QED
  BY <1>5, <1>6, <1>8, <1>9, <1>10, <1>11 DEF Inv

\* Only the world moves, or only the result is set.
LEMMA WorldInv ==
  ASSUME Inv, UNCHANGED <<runnerVars, config, sub, tries, notes, held, files>>,
         vm' \in {vm, "off"}, locks' = locks \/ locks' \in {"none", "vmx"},
         result' \in {"none", "error", "cancelled", "halted", "artifact", "panic"}, ResultInv'
  PROVE  Inv'
<1>1. /\ kind' = kind /\ force' = force /\ portsFree' = portsFree /\ noted' = noted
      /\ told' = told /\ ignored' = ignored /\ held' = held /\ dir' = dir /\ media' = media
      /\ uploaded' = uploaded /\ tries' = tries /\ sub' = sub
  BY DEF notes, config, files
<1>2. Acts(Entries) /\ mode' = mode /\ at' = at
  BY InvSound, StayActs
<1>3. Places' /\ Reasons' /\ RunnerTypeOK(Entries)'
  BY <1>1, <1>2, RunnerInv
<1>4. Halfway'
  BY <1>1, <1>2 DEF Inv, Halfway, OutputDirAt, RunAt, ShutdownAt
<1>5. TypeOK'
  BY <1>1, <1>3, <1>4 DEF Inv, TypeOK, Entries
<1>6. DirInv'
  BY <1>1, <1>2, DirKept DEF Passing, Passes
<1>7. MachineInv'
  BY <1>1, <1>2, MachineKept DEF Passing, Passes
<1>8. HeldInv'
  BY <1>1, <1>2, HeldKept DEF Passes
<1>9. MediaInv'
  BY <1>1, <1>2, MediaKept DEF Passing
<1>10. QED
  BY <1>3, <1>4, <1>5, <1>6, <1>7, <1>8, <1>9 DEF Inv

LEMMA EndInv == Inv /\ busy /\ (HostIPPanics \/ NoDriver \/ Report) => Inv'
<1> SUFFICES ASSUME Inv, busy, HostIPPanics \/ NoDriver \/ Report PROVE Inv'
  OBVIOUS
<1>1. /\ UNCHANGED <<runnerVars, config, sub, tries, notes, held, files>>
      /\ vm' = vm /\ locks' = locks
  BY DEF HostIPPanics, NoDriver, Report, keepWorld, machine
<1>2. bag \subseteq {"cancelled", "halted", "error"} /\ bag' = bag /\ mode' = mode
  BY <1>1 DEF runnerVars, Inv, TypeOK, RunnerTypeOK
<1>3. CASE HostIPPanics \/ NoDriver
  <2>1. result' \in {"panic", "error"}
    BY <1>3 DEF HostIPPanics, NoDriver
  <2>2. QED
    BY <1>1, <2>1, WorldInv DEF ResultInv
<1>4. CASE Report
  <2>1. "error" \in bag => result' = "error"
    BY <1>4 DEF Report
  <2>2. "error" \notin bag /\ "cancelled" \in bag => result' = "cancelled"
    BY <1>4 DEF Report
  <2>3. "error" \notin bag /\ "cancelled" \notin bag /\ "halted" \in bag => result' = "halted"
    <3>1. "error" \notin bag /\ "cancelled" \notin bag /\ "halted" \in bag => bag = {"halted"}
      BY <1>2
    <3>2. QED
      BY <1>4, <3>1 DEF Report
  <2>4. bag = {} => result' \in {"artifact", "error"}
    BY <1>4 DEF Report
  <2>5. bag = {} \/ "error" \in bag \/ "cancelled" \in bag \/ "halted" \in bag
    BY <1>2
  <2>6. /\ result' \in {"none", "error", "cancelled", "halted", "artifact", "panic"}
        /\ result' = "artifact" => bag = {}
    BY <2>1, <2>2, <2>3, <2>4, <2>5
  <2>7. ResultInv'
    BY <1>2, <1>4, <2>6 DEF ResultInv, GivenUp, Report
  <2>8. QED
    BY <1>1, <2>6, <2>7, WorldInv
<1>5. QED
  BY <1>3, <1>4

LEMMA OthersInv == Inv /\ (GuestGoesDown \/ UnlockFiles \/ UNCHANGED vars) => Inv'
<1> SUFFICES ASSUME Inv, GuestGoesDown \/ UnlockFiles \/ UNCHANGED vars PROVE Inv'
  OBVIOUS
<1>1. /\ UNCHANGED <<runnerVars, config, sub, tries, notes, held, files>> /\ result' = result
      /\ vm' \in {vm, "off"} /\ (locks' = locks \/ locks' \in {"none", "vmx"})
  BY DEF GuestGoesDown, UnlockFiles, vars, machine, keepRest
<1>2. ResultInv'
  BY <1>1 DEF Inv, ResultInv, GivenUp, runnerVars
<1>3. QED
  BY <1>1, <1>2, WorldInv DEF Inv, TypeOK

-----------------------------------------------------------------------------
(* The theorems                                                            *)

LEMMA NextInv == Inv /\ [Next]_vars => Inv'
<1> SUFFICES ASSUME Inv, [Next]_vars PROVE Inv'
  OBVIOUS
<1>1. CASE busy /\ Code
  BY <1>1, PlainStepInv, ConnectInv, TypeBootCommandInv, UploadToolsInv, CheckDirInv, MakeDirInv,
     RemoveDirInv, CreateVMXInv, WriteVMXInv, CleanVMXInv, HTTPServerInv, ConfigureVNCInv,
     RegisterInv, StartVMInv, BootWaitInv, SeesStoppedInv, StopInCleanupInv, ShutdownInv,
     ForcedStopInv, LocksGoneInv, ReleaseInv, NoCleanupInv, RunnerStepInv, EndInv DEF Code
<1>2. CASE busy /\ (TimersFire \/ CommandReturns)
  BY <1>2, ConnectInv, ShutdownInv, LocksTimeoutInv DEF TimersFire
<1>3. CASE busy /\ (Faults \/ Cancel)
  BY <1>3, CallFailsInv, MakeDirHalfwayInv, CreateVMXInv, RegisterInv, EndInv, AssumesStoppedInv, RunnerStepInv DEF Faults
<1>4. CASE GuestGoesDown \/ UnlockFiles \/ UNCHANGED vars
  BY <1>4, OthersInv
<1>5. QED
  BY <1>1, <1>2, <1>3, <1>4 DEF Next

LEMMA Invariant == Spec => []Inv
<1>1. QED
  BY InitInv, NextInv, PTL DEF Spec

\* Every variable keeps its type, whatever fails and whenever the build is interrupted.
THEOREM TypeCorrect == Spec => []TypeOK
<1>1. Inv => TypeOK
  BY DEF Inv
<1>2. QED
  BY Invariant, <1>1, PTL

\* What follows StepShutdown works on a machine that is off and not locked, unless VMware
\* did not say or took longer than the code waits.
THEOREM WorksAtRest == Spec => []AtRest
<1>1. Inv => AtRest
  <2> SUFFICES ASSUME Inv, mode = "run",
                      Step \in {"CleanFiles", "ConfigureVMXPost", "CleanVMX", "CompactDisk"}
               PROVE  Off /\ NoLock
    BY DEF AtRest, Off, NoLock
  <2>1. at > ShutdownAt
    BY StepFacts, Numbers
  <2>2. QED
    BY <2>1 DEF Inv, MachineInv
<1>2. QED
  BY Invariant, <1>1, PTL

\* An artifact holds nothing of an older build, and a machine built here no floppy.
THEOREM WholeArtifact == Spec => []ArtifactWhole
<1>1. Inv => ArtifactWhole
  <2> SUFFICES ASSUME Inv, result = "artifact" PROVE ArtifactWhole
    BY DEF ArtifactWhole
  <2>1. ~GivenUp /\ Done(OutputDirAt) /\ Done(CleanVMXAt)
    BY DEF Inv, ResultInv, Done, GivenUp
  <2>2. QED
    BY <2>1 DEF Inv, DirInv, MediaInv, ArtifactWhole
<1>2. QED
  BY Invariant, <1>1, PTL

\* Whatever a build holds on the hosts it gives back or accounts for, and a build that a step
\* has halted removes the directory it noted, in five tries at most.
THEOREM IsReleased == Spec => []Released
<1>1. Inv => Released
  <2> SUFFICES ASSUME Inv, mode = "ended"
               PROVE  /\ held \subseteq excused
                      /\ "dir" \in noted /\ "halted" \in bag
                           => dir = "absent" \/ "removeNew" \in ignored
    BY DEF Released
  <2>1. \A n \in Nat \ {0} : Undone(n)
    BY DEF Inv, Places, Placed, Undone
  <2>2. OutputDirAt \in Nat \ {0} /\ \A r \in Holds : Place(r) \in Nat \ {0}
    BY DEF OutputDirAt, Place, CreateVMXAt, HTTPAt, RegisterAt
  <2>3. held \subseteq Holds
    BY DEF Inv, TypeOK, Holds
  <2>4. QED
    BY <2>1, <2>2, <2>3 DEF Inv, HeldInv, DirInv
<1>2. QED
  BY Invariant, <1>1, PTL

\* No step of a build touches what was in its output directory before, unless the user
\* forces it or the directory could not be seen (StepOutputDir).
THEOREM OldDirIsKept == Spec => OldDirKept
<1>1. Inv /\ [Next]_vars => [dir = "old" /\ dir' # "old" => force \/ "exists" \in ignored]_vars
  <2> SUFFICES ASSUME Inv, [Next]_vars, dir = "old", dir' # "old"
               PROVE  force \/ "exists" \in ignored
    OBVIOUS
  <2>1. CASE CheckDir
    BY <2>1 DEF CheckDir
  <2>2. CASE MakeDir
    BY <2>2 DEF MakeDir, Running, Inv, DirInv
  <2>3. CASE MakeDirHalfway
    BY <2>3 DEF MakeDirHalfway, Running, Inv, DirInv
  <2>4. CASE RemoveDir
    BY <2>4 DEF RemoveDir, Inv, DirInv
  <2>5. QED
    BY <2>1, <2>2, <2>3, <2>4 DEF Next, Code, TimersFire, CommandReturns, Faults, Cancel, keepWorld, files,
       PlainStep, Connect, TypeBootCommand, UploadTools, CreateVMX, CloneVMX, ConfigureVMX, CleanVMX,
       HTTPServer, ConfigureVNC, Register, StartVM, BootWait, SeesStopped, StopInCleanup, Shutdown,
       ForcedStop, LocksGone, Release, NoCleanup, RunnerStep, Report, ConnectTimeout,
       ShutdownTimeout, LocksTimeout, CallFails, CreateVMXHalfway, RegisterHalfway, HostIPPanics,
       AssumesStopped, NoDriver, GuestGoesDown, UnlockFiles, vars
<1>2. QED
  BY Invariant, <1>1, PTL DEF Spec, OldDirKept

-----------------------------------------------------------------------------
(* VMwareBuild implements AbstractBuild                                    *)

\* What there is to prove of a step that goes on with the build.
Effect ==
  /\ Acts(Entries) /\ UNCHANGED <<config, result>> /\ excused \subseteq excused'
  /\ \A r \in holds' : r \in holds \/ (mode = "run" /\ r \in Makes(Step))
  /\ mode = "clean" /\ at > 0 /\ at' # at
       => \A r \in holds' \cap Makes(Step) : r \in excused' \/ (r = "dir" /\ "halted" \notin bag)
  /\ \/ UNCHANGED <<holds, excused>>
     \/ asked' = asked /\ (mode = "run" \/ (mode = "clean" /\ at > 0))

LEMMA ListKept ==
  ASSUME Inv, UNCHANGED <<last, config>>
  PROVE  UNCHANGED Build!list
<1>1. Steps' = Steps
  BY DEF config, Steps, IsoSteps, VmxSteps
<1>2. QED
  BY <1>1 DEF Build!list

LEMMA EffectImplements ==
  ASSUME Inv, busy, Effect
  PROVE  [Build!Next]_(Build!bvars)
<1>1. /\ UNCHANGED Build!list /\ result' = result /\ result = "none" /\ last' = last
      /\ excused \subseteq excused'
  BY ListKept DEF Effect, Acts, busy
<1>2. mode = "run" \/ (mode = "clean" /\ at > 0)
        => [n \in 1..last |-> Makes(Steps[n])][at] = Makes(Step) /\ at \in 1..last /\ last \in Nat
  BY StepFacts DEF Step, Inv, TypeOK, RunnerTypeOK
<1>3. \A r \in holds' : r \in holds \/ (mode = "run" /\ r \in Makes(Step))
  BY DEF Effect
<1>4. \/ UNCHANGED <<holds, excused>>
      \/ asked' = asked /\ (mode = "run" \/ (mode = "clean" /\ at > 0))
  BY DEF Effect
<1>5. Sound(Entries) /\ Acts(Entries)
  BY InvSound DEF Effect
<1>6. CASE Still /\ UNCHANGED <<holds, excused>>
  <2>1. CASE asked' = asked
    BY <1>1, <1>6, <2>1 DEF Still, Halted, Build!bvars
  <2>2. CASE asked' # asked
    <3>1. ~asked /\ asked' = TRUE
      BY <2>2 DEF Effect, Acts, Inv, TypeOK, RunnerTypeOK
    <3>2. Build!Ask
      BY <1>1, <1>6, <3>1 DEF Still, Halted, Build!Ask
    <3>3. QED
      BY <1>1, <3>2 DEF Build!Next
  <2>3. QED
    BY <2>1, <2>2
<1>7. CASE Still /\ asked' = asked /\ mode = "run"
  <2>1. buildPhase = "ahead" /\ buildPhase' = "ahead" /\ openSteps = at /\ ~Halted
    BY <1>7 DEF Still, buildPhase, openSteps, Halted, Inv, Reasons
  <2>2. Build!Run
    <3>1. ("halted" \in bag)' \in BOOLEAN
      OBVIOUS
    <3>2. openSteps > 0 /\ \A r \in holds' :
            r \in holds \/ r \in [n \in 1..last |-> Makes(Steps[n])][openSteps]
      BY <1>2, <1>3, <1>7, <2>1 DEF Still
    <3>3. QED
      BY <1>1, <1>7, <2>1, <3>1, <3>2 DEF Still, Halted, Build!Run
  <2>3. QED
    BY <1>1, <2>2 DEF Build!Next
<1>8. CASE Still /\ asked' = asked /\ mode = "clean" /\ at > 0
  <2>1. buildPhase = "back" /\ openSteps = at
    BY <1>8 DEF buildPhase, openSteps
  <2>2. Build!CleaningUp
    BY <1>1, <1>3, <1>8, <2>1 DEF Still, Halted, Build!CleaningUp
  <2>3. QED
    BY <1>1, <2>2 DEF Build!Next
<1>9. CASE Starts
  BY <1>1, <1>4, <1>9 DEF Starts, Halted, Build!bvars
<1>10. CASE Enters
  <2>1. Build!Enter
    BY <1>1, <1>4, <1>10 DEF Enters, Halted, Build!Enter
  <2>2. QED
    BY <1>1, <2>1 DEF Build!Next
<1>11. CASE TurnsBack
  <2>1. Build!TurnBack
    BY <1>1, <1>4, <1>11 DEF TurnsBack, Halted, Build!TurnBack
  <2>2. QED
    BY <1>1, <2>1 DEF Build!Next
<1>12. CASE Returns
  <2>1. openSteps = at
    BY <1>12 DEF Returns, openSteps
  <2>2. Build!Run
    <3>1. ("halted" \in bag)' \in BOOLEAN
      OBVIOUS
    <3>2. openSteps > 0 /\ \A r \in holds' :
            r \in holds \/ r \in [n \in 1..last |-> Makes(Steps[n])][openSteps]
      BY <1>2, <1>3, <1>12, <2>1 DEF Returns
    <3>3. QED
      BY <1>1, <1>12, <2>1, <3>1, <3>2 DEF Returns, Halted, Build!Run
  <2>3. QED
    BY <1>1, <2>2 DEF Build!Next
<1>13. CASE Undoes
  <2>1. \A r \in holds' \cap Makes(Step) : r \in excused' \/ (r = "dir" /\ "halted" \notin bag)
    BY <1>13 DEF Effect, Undoes
  <2>2. Build!CleanedUp
    BY <1>1, <1>2, <1>3, <1>13, <2>1 DEF Undoes, Halted, Build!CleanedUp, Build!Accounts
  <2>3. QED
    BY <1>1, <2>2 DEF Build!Next
<1>14. CASE Ends
  <2>1. Build!End
    BY <1>1, <1>4, <1>14 DEF Ends, Halted, Build!End
  <2>2. QED
    BY <1>1, <2>1 DEF Build!Next
<1>15. QED
  BY <1>4, <1>5, <1>6, <1>7, <1>8, <1>9, <1>10, <1>11, <1>12, <1>13, <1>14, RunnerMoves

\* A Run or a Cleanup that returns, or goes on.
LEMMA RunReturns ==
  ASSUME Inv, \/ Ret(Continue) \/ Ret(Fail)
              \/ Ret(HaltQuietly) /\ "cancelled" \in bag
              \/ Ret(StepReturns("continue", {"error"}))
  PROVE  Acts(Entries) /\ asked' = asked /\ mode = "run"
<1>1. CASE Ret(Continue)
  BY <1>1, InvSound, ContinueActs DEF Ret
<1>2. CASE Ret(Fail)
  BY <1>2, InvSound, FailActs DEF Ret
<1>3. CASE Ret(HaltQuietly) /\ "cancelled" \in bag
  BY <1>3, InvSound, HaltActs DEF Ret, HaltQuietly
<1>4. CASE Ret(StepReturns("continue", {"error"}))
  BY <1>4, InvSound, ReturnActs DEF Ret
<1>5. QED
  BY <1>1, <1>2, <1>3, <1>4

LEMMA CleanupReturns ==
  ASSUME Inv, Ret(Cleaned)
  PROVE  Acts(Entries) /\ asked' = asked /\ mode = "clean" /\ mode' = "clean" /\ at' = at - 1
BY InvSound, CleanedActs DEF Ret

LEMMA GoesOn ==
  ASSUME Inv, NEW s, Goto(s)
  PROVE  Acts(Entries) /\ asked' = asked /\ mode' = mode /\ at' = at
BY InvSound, StayActs DEF Goto

\* A step that changes nothing a build has to give back, and is no Cleanup that returns.
LEMMA QuietEffect ==
  ASSUME Acts(Entries), UNCHANGED notes, keepWorld, keepRest,
         ~(mode = "clean" /\ at > 0 /\ at' # at)
  PROVE  Effect
<1>1. UNCHANGED <<config, result, excused, holds>>
  BY DEF notes, keepWorld, keepRest, machine, files, holds, dirMade, excused
<1>2. QED
  BY <1>1 DEF Effect

\* A part of Run makes only what its step can make.
LEMMA RunEffect ==
  ASSUME Acts(Entries), asked' = asked, mode = "run", UNCHANGED <<config, result>>,
         told \subseteq told', ignored \subseteq ignored',
         held' \subseteq held \cup Makes(Step),
         vm' = "on" => vm = "on" \/ "vm" \in Makes(Step),
         dirMade' => dirMade \/ "dir" \in Makes(Step)
  PROVE  Effect
<1>1. \A r \in holds' : r \in holds \/ r \in Makes(Step)
  BY DEF holds
<1>2. QED
  BY <1>1, ExcusedKept DEF Effect

\* A part of Cleanup makes nothing, and returns only if its step accounts for everything.
LEMMA CleanupEffect ==
  ASSUME Acts(Entries), asked' = asked, mode = "clean", at > 0, UNCHANGED <<config, result>>,
         told \subseteq told', ignored \subseteq ignored', held' \subseteq held, dirMade' => dirMade,
         vm' = "on" => vm = "on",
         at' # at => \A r \in holds' \cap Makes(Step) :
                       r \in excused' \/ (r = "dir" /\ "halted" \notin bag)
  PROVE  Effect
<1>1. \A r \in holds' : r \in holds
  BY DEF holds
<1>2. QED
  BY <1>1, ExcusedKept DEF Effect

\* What a Cleanup has to see to.
LEMMA Held ==
  ASSUME held' \subseteq Holds
  PROVE  /\ \A r \in Holds : r \in holds' <=> r \in held'
         /\ "vm" \in holds' <=> vm' = "on"
         /\ "dir" \in holds' <=> dirMade'
BY DEF holds, Holds

LEMMA QuietStepEffect ==
  ASSUME Inv, busy, \/ PlainStep \/ CallFails \/ Connect \/ ConnectTimeout \/ TypeBootCommand
                    \/ UploadTools \/ ConfigureVNC \/ BootWait \/ Shutdown \/ CommandReturns
                    \/ ShutdownTimeout \/ LocksGone \/ RunnerStep \/ Cancel
  PROVE  Effect
<1>1. CASE PlainStep \/ CallFails \/ Connect \/ ConnectTimeout \/ TypeBootCommand
  BY <1>1, RunReturns, QuietEffect
     DEF PlainStep, CallFails, Connect, ConnectTimeout, TypeBootCommand
<1>2. CASE UploadTools \/ ConfigureVNC \/ BootWait \/ ShutdownTimeout \/ LocksGone
  BY <1>2, RunReturns, QuietEffect DEF UploadTools, ConfigureVNC, BootWait, ShutdownTimeout, LocksGone
<1>3. CASE Shutdown \/ CommandReturns
  BY <1>3, GoesOn, QuietEffect DEF Shutdown, CommandReturns
<1>4. CASE RunnerStep \/ Cancel
  <2>1. Loop \/ FlagCancelled \/ AskCancel
    BY <1>4 DEF RunnerStep, Cancel
  <2>2. Acts(Entries) /\ ~(mode = "clean" /\ at > 0 /\ at' # at)
    BY <2>1, InvSound, LoopActs
  <2>3. QED
    BY <1>4, <2>2, QuietEffect DEF RunnerStep, Cancel
<1>5. QED
  BY <1>1, <1>2, <1>3, <1>4

\* The steps that make something, and those that change what is no concern of a Cleanup.
LEMMA MakingEffect ==
  ASSUME Inv, busy, \/ CheckDir \/ MakeDir \/ MakeDirHalfway \/ CreateVMX \/ CreateVMXHalfway
                    \/ CloneVMX \/ ConfigureVMX \/ CleanVMX \/ HTTPServer \/ Register
                    \/ RegisterHalfway \/ StartVM \/ ForcedStop \/ LocksTimeout
  PROVE  Effect
<1>1. CASE CheckDir \/ MakeDir \/ MakeDirHalfway
  <2>1. mode = "run" /\ "dir" \in Makes(Step) /\ Acts(Entries) /\ asked' = asked
    BY <1>1, RunReturns, GoesOn DEF CheckDir, MakeDir, MakeDirHalfway, Running, Makes
  <2>2. /\ UNCHANGED <<config, result, told, held, vm>> /\ ignored \subseteq ignored'
    BY <1>1 DEF CheckDir, MakeDir, MakeDirHalfway, machine, keepRest
  <2>3. QED
    BY <2>1, <2>2, RunEffect DEF dirMade
<1>2. CASE CreateVMX \/ CreateVMXHalfway
  <2>1. mode = "run" /\ Makes(Step) = {"temp"} /\ Acts(Entries) /\ asked' = asked
    BY <1>2, RunReturns DEF CreateVMX, CreateVMXHalfway, Running, Makes
  <2>2. /\ UNCHANGED <<config, result, told, ignored, vm, dir>> /\ held' \subseteq held \cup {"temp"}
        /\ noted' \subseteq noted \cup {"temp"}
    BY <1>2 DEF CreateVMX, CreateVMXHalfway, machine, files, keepRest
  <2>3. QED
    BY <2>1, <2>2, RunEffect DEF dirMade
<1>3. CASE CloneVMX \/ ConfigureVMX \/ CleanVMX
  BY <1>3, RunReturns, RunEffect
     DEF CloneVMX, ConfigureVMX, CleanVMX, Running, notes, machine, keepRest, dirMade
<1>4. CASE HTTPServer
  <2>1. mode = "run" /\ Makes(Step) = {"http"} /\ Acts(Entries) /\ asked' = asked
    BY <1>4, RunReturns DEF HTTPServer, Running, Makes
  <2>2. /\ UNCHANGED <<config, result, told, ignored, vm, dir>> /\ held' \subseteq held \cup {"http"}
        /\ noted' \subseteq noted \cup {"http"}
    BY <1>4 DEF HTTPServer, machine, files, keepRest
  <2>3. QED
    BY <2>1, <2>2, RunEffect DEF dirMade
<1>5. CASE Register \/ RegisterHalfway
  <2>1. mode = "run" /\ Makes(Step) = {"registered"} /\ Acts(Entries) /\ asked' = asked
    BY <1>5, RunReturns DEF Register, RegisterHalfway, Running, Makes
  <2>2. /\ UNCHANGED <<config, result, told, vm, dir>>
        /\ held' \subseteq held \cup {"registered"} /\ noted' \subseteq noted \cup {"registered"}
        /\ ignored \subseteq ignored' /\ ignored' \subseteq ignored \cup {"register"}
    BY <1>5 DEF Register, RegisterHalfway, machine, files, keepRest
  <2>3. QED
    BY <2>1, <2>2, RunEffect DEF dirMade
<1>6. CASE StartVM
  <2>1. mode = "run" /\ "vm" \in Makes(Step) /\ Acts(Entries) /\ asked' = asked
    BY <1>6, RunReturns, GoesOn DEF StartVM, Running, Makes
  <2>2. /\ UNCHANGED <<config, result, told, ignored, held, dir>> /\ noted' = noted \cup {"run"}
    BY <1>6 DEF StartVM, files, keepRest
  <2>3. QED
    BY <2>1, <2>2, RunEffect DEF dirMade
<1>7. CASE ForcedStop
  BY <1>7, GoesOn, RunEffect DEF ForcedStop, Running, notes, files, keepRest, dirMade
<1>8. CASE LocksTimeout
  BY <1>8, RunReturns, RunEffect DEF LocksTimeout, Running, keepWorld, machine, files, keepRest,
     dirMade
<1>9. QED
  BY <1>1, <1>2, <1>3, <1>4, <1>5, <1>6, <1>7, <1>8

\* StepShutdown goes on, or the Cleanup of StepRun returns.
LEMMA StoppedEffect ==
  ASSUME Inv, busy, SeesStopped \/ AssumesStopped \/ StopInCleanup
  PROVE  Effect
<1>1. /\ UNCHANGED <<config, result, held, noted, dir>> /\ told \subseteq told'
      /\ ignored \subseteq ignored' /\ (vm' = "on" => vm = "on") /\ dirMade' = dirMade
  BY DEF SeesStopped, AssumesStopped, StopInCleanup, notes, keepWorld, machine, files, keepRest,
         dirMade
<1>2. CASE mode = "run"
  <2>1. Acts(Entries) /\ asked' = asked
    BY <1>2, GoesOn DEF SeesStopped, AssumesStopped, StopInCleanup, Running, Cleaning
  <2>2. QED
    BY <1>1, <1>2, <2>1, RunEffect
<1>3. CASE mode # "run"
  <2>1. Acts(Entries) /\ asked' = asked /\ mode = "clean" /\ at > 0 /\ Step = "Run"
    BY <1>3, CleanupReturns DEF SeesStopped, AssumesStopped, StopInCleanup, Running, Cleaning
  <2>2. Makes(Step) = {"vm"}
    BY <2>1 DEF Makes
  <2>3. vm' # "on" \/ "vm" \in excused'
    BY <1>1 DEF SeesStopped, AssumesStopped, StopInCleanup, keepWorld, machine, excused
  <2>4. held' \subseteq Holds
    BY <1>1 DEF Inv, TypeOK, Holds
  <2>5. \A r \in holds' \cap Makes(Step) : r \in excused'
    BY <2>2, <2>3, <2>4, Held
  <2>6. QED
    BY <1>1, <2>1, <2>5, CleanupEffect
<1>4. QED
  BY <1>2, <1>3

LEMMA RemoveDirEffect == ASSUME Inv, busy, RemoveDir PROVE Effect
<1>1. /\ Acts(Entries) /\ asked' = asked /\ mode = "clean" /\ at > 0
      /\ UNCHANGED <<config, result, told, held, noted, vm>> /\ ignored \subseteq ignored'
      /\ dir' \in {dir, "absent"} /\ (dirMade' => dirMade)
  BY CleanupReturns, GoesOn DEF RemoveDir, Cleaning, machine, dirMade
<1>2. Makes(Step) = {"dir"}
  BY DEF RemoveDir, Cleaning, Makes
<1>3. at' # at => dir' = "absent" \/ "removeNew" \in ignored'
  BY GoesOn DEF RemoveDir
<1>4. held' \subseteq Holds
  BY <1>1 DEF Inv, TypeOK, Holds
<1>5. at' # at => \A r \in holds' \cap Makes(Step) : r \in excused'
  BY <1>2, <1>3, <1>4, Held DEF excused, dirMade
<1>6. QED
  BY <1>1, <1>5, CleanupEffect

LEMMA ReleaseEffect == ASSUME Inv, busy, Release PROVE Effect
<1>1. /\ Acts(Entries) /\ asked' = asked /\ mode = "clean" /\ at > 0
      /\ UNCHANGED <<config, result, noted, vm, dir>> /\ told \subseteq told'
      /\ held' \subseteq held /\ ignored \subseteq ignored' /\ dirMade' = dirMade
  BY CleanupReturns DEF Release, machine, files, keepRest, dirMade
<1>2. /\ Step \in {"Register", "HTTPServer", "CreateVMX"}
      /\ Releases[Step] \notin held' \/ Releases[Step] \in excused'
  BY DEF Release, Releases, excused
<1>3. Makes(Step) = {Releases[Step]} /\ Releases[Step] \in Holds
  BY <1>2 DEF Makes, Releases, Holds
<1>4. held' \subseteq Holds
  BY <1>1 DEF Inv, TypeOK, Holds
<1>5. \A r \in holds' \cap Makes(Step) : r \in excused'
  BY <1>2, <1>3, <1>4, Held DEF excused
<1>6. QED
  BY <1>1, <1>5, CleanupEffect

\* A Cleanup has nothing to do only if its Run has noted nothing, and so made nothing but what
\* is excused; or if the directory is to stay.
LEMMA NoCleanupEffect == ASSUME Inv, busy, NoCleanup PROVE Effect
<1>1. /\ Acts(Entries) /\ asked' = asked /\ mode = "clean" /\ at > 0
      /\ UNCHANGED <<config, result, noted, told, ignored, held, vm, dir, dirMade, excused>>
  BY CleanupReturns DEF NoCleanup, notes, keepWorld, machine, files, keepRest, dirMade, excused
<1>2. held' \subseteq Holds
  BY <1>1 DEF Inv, TypeOK, Holds
<1>3. /\ \A r \in Holds : r \in held => r \in noted \/ r \in excused
      /\ vm = "on" => "run" \in noted
  BY DEF Inv, HeldInv, MachineInv
<1>4. ASSUME NEW r \in holds', r \in Makes(Step)
      PROVE  r \in excused' \/ (r = "dir" /\ "halted" \notin bag)
  <2>1. \/ r = "dir" /\ Step = "OutputDir"
        \/ r \in Holds /\ Step \in DOMAIN Releases /\ r = Releases[Step]
        \/ r = "vm" /\ Step = "Run"
    BY <1>4 DEF Makes, Releases, Holds
  <2>2. CASE r = "dir" /\ Step = "OutputDir"
    <3>1. dirMade
      BY <1>1, <1>2, <1>4, <2>2, Held
    <3>2. CASE "dir" \in noted
      BY <2>2, <3>2 DEF NoCleanup
    <3>3. CASE "makeDir" \in ignored
      BY <1>1, <2>2, <3>3 DEF excused
    <3>4. QED
      BY <3>1, <3>2, <3>3 DEF dirMade
  <2>3. CASE r \in Holds /\ Step \in DOMAIN Releases /\ r = Releases[Step]
    BY <1>1, <1>2, <1>3, <1>4, <2>3, Held DEF NoCleanup
  <2>4. CASE r = "vm" /\ Step = "Run"
    BY <1>1, <1>2, <1>3, <1>4, <2>4, Held DEF NoCleanup
  <2>5. QED
    BY <2>1, <2>2, <2>3, <2>4
<1>5. QED
  BY <1>1, <1>4, CleanupEffect

\* Builder.Run returns without a driver, or looks for its results when the runner has ended,
\* or the process panics.
LEMMA EndImplements ==
  ASSUME Inv, busy, HostIPPanics \/ NoDriver \/ Report
  PROVE  [Build!Next]_(Build!bvars)
<1>1. UNCHANGED <<runnerVars, config, notes, held, machine, files>>
  BY DEF HostIPPanics, NoDriver, Report, keepWorld
<1>2. UNCHANGED <<Build!list, buildPhase, openSteps, asked, "halted" \in bag, holds, excused>>
  BY <1>1, ListKept DEF runnerVars, buildPhase, openSteps, holds, dirMade, excused, notes,
     machine, files
<1>3. CASE NoDriver
  <2>1. at = 1 /\ mode = "idle" /\ result' = "error"
    BY <1>3 DEF NoDriver, Inv, Places, Placed
  <2>2. Build!Refuse
    BY <1>2, <2>1 DEF Build!Refuse, buildPhase, openSteps
  <2>3. QED
    BY <2>2 DEF Build!Next, busy
<1>4. CASE HostIPPanics
  <2>1. mode = "run" /\ at \in 1..last /\ last \in Nat /\ result' = "panic"
    BY <1>4, StepFacts DEF HostIPPanics, Running, Inv, TypeOK, RunnerTypeOK
  <2>2. Build!Panic
    BY <1>2, <2>1 DEF Build!Panic, buildPhase, openSteps
  <2>3. QED
    BY <2>2 DEF Build!Next, busy
<1>5. CASE Report
  <2>1. mode = "ended" /\ ("halted" \in bag => "error" \in bag) /\ ("cancelled" \in bag => asked)
    BY <1>5 DEF Report, Inv, Reasons
  <2>2. /\ result' \in Build!Outcomes
        /\ "halted" \in bag => result' = "error"
        /\ ~asked => result' \in {"artifact", "error"}
    <3>1. CASE "error" \in bag
      BY <1>5, <3>1 DEF Report, Build!Outcomes
    <3>2. CASE "error" \notin bag /\ "cancelled" \in bag
      <4>1. result' = "cancelled"
        BY <1>5, <3>2 DEF Report
      <4>2. QED
        BY <2>1, <3>2, <4>1 DEF Build!Outcomes
    <3>3. CASE "error" \notin bag /\ "cancelled" \notin bag
      <4>1. bag # {"halted"} /\ "halted" \notin bag
        BY <2>1, <3>3
      <4>2. result' \in {"artifact", "error"}
        BY <1>5, <3>3, <4>1 DEF Report
      <4>3. QED
        BY <4>1, <4>2 DEF Build!Outcomes
    <3>4. QED
      BY <3>1, <3>2, <3>3
  <2>3. Build!Return(result')
    BY <1>2, <2>1, <2>2 DEF Build!Return, buildPhase
  <2>4. QED
    BY <2>2, <2>3 DEF Build!Next, busy
<1>6. QED
  BY <1>3, <1>4, <1>5

\* A machine that goes down by itself is a thing less; its locks are no concern.
LEMMA WorldImplements ==
  ASSUME Inv, GuestGoesDown \/ UnlockFiles \/ UNCHANGED vars
  PROVE  [Build!Next]_(Build!bvars)
<1>1. UNCHANGED <<runnerVars, config, notes, held, files, result>> /\ vm' \in {vm, "off"}
  BY DEF GuestGoesDown, UnlockFiles, vars, machine, keepRest
<1>2. UNCHANGED <<Build!list, buildPhase, openSteps, asked, "halted" \in bag, excused, result>>
  BY <1>1, ListKept DEF runnerVars, buildPhase, openSteps, excused, notes
<1>3. holds' \subseteq holds
  BY <1>1 DEF holds, dirMade, notes, files
<1>4. Build!Lose
  BY <1>2, <1>3 DEF Build!Lose
<1>5. QED
  BY <1>4 DEF Build!Next

\* The abstract build has not begun.
LEMMA InitImplements == Init => Build!Init
<1> SUFFICES ASSUME Init PROVE Build!Init
  OBVIOUS
<1>1. last \in Nat
  BY StepPlaces DEF Init, RunnerInit
<1>2. [n \in 1..last |-> Makes(Steps[n])]
        \in [1..last -> SUBSET {"dir", "temp", "http", "registered", "vm"}]
  BY DEF Makes
<1>3. /\ holds = {} /\ excused = {} /\ bag = {} /\ asked = FALSE
      /\ buildPhase = "ahead" /\ openSteps = 0
  BY DEF Init, RunnerInit, holds, dirMade, excused, buildPhase, openSteps
<1>4. QED
  BY <1>1, <1>2, <1>3 DEF Init, Build!Init

LEMMA StepImplements == Inv /\ [Next]_vars => [Build!Next]_(Build!bvars)
<1> SUFFICES ASSUME Inv, [Next]_vars PROVE [Build!Next]_(Build!bvars)
  OBVIOUS
<1>1. CASE busy /\ (HostIPPanics \/ NoDriver \/ Report)
  BY <1>1, EndImplements
<1>2. CASE GuestGoesDown \/ UnlockFiles \/ UNCHANGED vars
  BY <1>2, WorldImplements
<1>3. CASE /\ busy /\ ~(HostIPPanics \/ NoDriver \/ Report)
           /\ Code \/ TimersFire \/ CommandReturns \/ Faults \/ Cancel
  <2>1. Effect
    BY <1>3, QuietStepEffect, MakingEffect, StoppedEffect, RemoveDirEffect, ReleaseEffect,
       NoCleanupEffect DEF Code, TimersFire, Faults
  <2>2. QED
    BY <1>3, <2>1, EffectImplements
<1>4. QED
  BY <1>1, <1>2, <1>3 DEF Next

\* Every behaviour of a build of a VMware machine, whatever fails and whenever it is
\* interrupted, is one of the abstract build.
THEOREM Implements == Spec => ImplementsBuild
BY Invariant, InitImplements, StepImplements, PTL DEF Spec, ImplementsBuild, Build!Spec

-----------------------------------------------------------------------------
(* What the abstract build comes to                                        *)

Makers == [n \in 1..last |-> Makes(Steps[n])]

\* Build!Owned, as the proof needs it.
Pending ==
  \A r \in holds :
    \/ r \in excused
    \/ r = "dir" /\ "halted" \notin bag /\ buildPhase # "ahead"
    \/ \E n \in 1..openSteps : r \in Makers[n]

LEMMA PendingKept ==
  ASSUME Inv, Pending, [Build!Next]_(Build!bvars)
  PROVE  Pending'
<1>1. openSteps \in Nat
  BY DEF Inv, TypeOK, RunnerTypeOK, Places, Placed, openSteps
<1>2. CASE UNCHANGED Build!bvars
  <2>1. UNCHANGED <<holds, excused, buildPhase, openSteps, Makers, "halted" \in bag>>
    BY <1>2 DEF Build!bvars, Build!list, Makers
  <2>2. QED
    BY <2>1 DEF Pending
<1>3. CASE Build!Enter
  <2>1. /\ openSteps' = openSteps + 1
        /\ UNCHANGED <<holds, excused, buildPhase, Makers, "halted" \in bag>>
    BY <1>3 DEF Build!Enter, Build!list, Makers
  <2>2. QED
    BY <1>1, <2>1 DEF Pending
<1>4. CASE Build!Run
  <2>1. /\ openSteps > 0 /\ buildPhase = "ahead" /\ excused \subseteq excused'
        /\ UNCHANGED <<openSteps, Makers>>
        /\ \A r \in holds' : r \in holds \/ r \in Makers[openSteps]
    BY <1>4 DEF Build!Run, Build!list, Makers
  <2>2. QED
    BY <1>1, <2>1 DEF Pending
<1>5. CASE Build!TurnBack
  <2>1. UNCHANGED <<holds, excused, openSteps, Makers>> /\ buildPhase = "ahead"
    BY <1>5 DEF Build!TurnBack, Build!list, Makers
  <2>2. QED
    BY <2>1 DEF Pending
<1>6. CASE Build!CleaningUp
  <2>1. /\ holds' \subseteq holds /\ excused \subseteq excused'
        /\ UNCHANGED <<buildPhase, openSteps, Makers, "halted" \in bag>>
    BY <1>6 DEF Build!CleaningUp, Build!list, Makers
  <2>2. QED
    BY <2>1 DEF Pending
<1>7. CASE Build!CleanedUp
  <2>1. /\ openSteps > 0 /\ openSteps' = openSteps - 1
        /\ holds' \subseteq holds /\ excused \subseteq excused' /\ buildPhase = "back"
        /\ UNCHANGED <<buildPhase, Makers, "halted" \in bag>>
        /\ \A r \in holds' : r \in Makers[openSteps]
                               => r \in excused' \/ (r = "dir" /\ "halted" \notin bag)
    BY <1>7 DEF Build!CleanedUp, Build!Accounts, Build!list, Makers
  <2>2. QED
    BY <1>1, <2>1 DEF Pending
<1>8. CASE Build!End
  <2>1. /\ buildPhase' # "ahead"
        /\ UNCHANGED <<holds, excused, openSteps, Makers, "halted" \in bag>>
    BY <1>8 DEF Build!End, Build!list, Makers
  <2>2. QED
    BY <2>1 DEF Pending
<1>9. CASE Build!Ask \/ Build!Refuse \/ Build!Panic \/ \E o \in Build!Outcomes : Build!Return(o)
  <2>1. UNCHANGED <<holds, excused, buildPhase, openSteps, Makers, "halted" \in bag>>
    BY <1>9 DEF Build!Ask, Build!Refuse, Build!Panic, Build!Return, Build!list, Makers
  <2>2. QED
    BY <2>1 DEF Pending
<1>10. CASE Build!Lose
  <2>1. /\ holds' \subseteq holds
        /\ UNCHANGED <<excused, buildPhase, openSteps, Makers, "halted" \in bag>>
    BY <1>10 DEF Build!Lose, Build!list, Makers
  <2>2. QED
    BY <2>1 DEF Pending
<1>11. QED
  BY <1>2, <1>3, <1>4, <1>5, <1>6, <1>7, <1>8, <1>9, <1>10 DEF Build!Next

\* In every state of a build what exists is accounted for, or is delivered, or the Cleanup of
\* the step that made it is still to come.  So when the build is over, whatever has failed and
\* whenever it was interrupted, all that is left of it is what the user was told of or the
\* code could not know of, and the output directory if no step has halted it.
THEOREM EverythingAccounted == Spec => [](Build!Owned /\ Build!AllAccounted)
<1>1. Init => Pending
  BY DEF Init, RunnerInit, Pending, holds, dirMade
<1>2. Inv /\ Pending /\ [Next]_vars => Pending'
  BY StepImplements, PendingKept
<1>3. Pending => Build!Owned
  BY DEF Pending, Makers, Build!Owned
<1>4. Inv /\ Pending => Build!AllAccounted
  <2> SUFFICES ASSUME Inv, Pending, buildPhase = "over"
               PROVE  \A r \in holds : r \in excused \/ (r = "dir" /\ "halted" \notin bag)
    BY DEF Build!AllAccounted, Build!Accounts
  <2>1. openSteps = 0
    BY DEF Inv, TypeOK, RunnerTypeOK, Modes, Places, Placed, buildPhase, openSteps
  <2>2. QED
    BY <2>1 DEF Pending
<1>5. QED
  BY Invariant, <1>1, <1>2, <1>3, <1>4, PTL DEF Spec

-----------------------------------------------------------------------------
(* A build counts down                                                     *)

\* The steps of the build itself and of the calls it waits for, as opposed to the user's
\* and the machine's.
Own == Code \/ TimersFire \/ CommandReturns \/ Faults

\* What is to be done before the runner moves: the parts of a Run, or the tries left, and
\* the note of an interrupt.
Part ==
  IF sub = "start" THEN 4 ELSE IF sub = "command" THEN 3
  ELSE IF sub \in {"off", "stop"} THEN 2 ELSE 1

Inner ==
  (IF "cancelled" \in bag THEN 0 ELSE 1) +
  (IF mode = "run" THEN Part ELSE MaxTries - tries)

\* More than the number of steps a build can still take.
Rank == IF busy THEN 100 * Distance + Inner + 1 ELSE 0

Onward == Rank' <= Rank /\ (busy /\ Own => Rank' < Rank)

LEMMA InnerSmall == ASSUME Inv PROVE Inner \in 0..99
<1>1. tries \in 0..4
  BY DEF Inv, TypeOK, MaxTries
<1>2. QED
  BY <1>1 DEF Inner, Part, MaxTries

LEMMA RankNat == ASSUME Inv PROVE Rank \in Nat /\ (busy => Rank > 0)
<1>1. Distance \in Nat
  BY DEF Inv, TypeOK, RunnerTypeOK, Places, Placed, Modes, Distance
<1>2. QED
  BY <1>1, InnerSmall DEF Rank

LEMMA RankFalls ==
  ASSUME Inv, Inv', busy, Acts(Entries), UNCHANGED result,
         Inner' < Inner \/ ~UNCHANGED <<mode, at>>
  PROVE  Rank' < Rank /\ Rank' <= Rank
<1>1. Inner \in 0..99 /\ Inner' \in 0..99
  <2>1. tries' \in 0..4
    BY DEF Inv, TypeOK, MaxTries
  <2>2. \A t \in 0..4, f \in {0, 1} : \A p \in 1..4 : f + p \in 0..99 /\ f + (5 - t) \in 0..99
    OBVIOUS
  <2>3. Part' \in 1..4
    BY DEF Part
  <2>4. Inner' \in 0..99
    BY <2>1, <2>2, <2>3 DEF Inner, MaxTries
  <2>5. QED
    BY <2>4, InnerSmall
<1>2. /\ Distance \in Nat /\ Distance' \in Nat
      /\ UNCHANGED <<mode, at>> => Distance' = Distance
      /\ ~UNCHANGED <<mode, at>> => Distance' + 1 <= Distance
  BY InvSound, Nearer
<1>3. /\ Rank = 100 * Distance + Inner + 1
      /\ Rank' = 100 * Distance' + Inner' + 1
  BY DEF Rank, busy
<1>4. CASE ~UNCHANGED <<mode, at>>
  <2>1. Distance \in Nat /\ Distance' \in Nat /\ Distance' + 1 <= Distance
    BY <1>2, <1>4
  <2>2. /\ 100 * Distance' + Inner' + 1 < 100 * Distance + Inner + 1
        /\ 100 * Distance' + Inner' + 1 <= 100 * Distance + Inner + 1
    BY <1>1, <2>1, FirstDigit, Zenon
  <2>3. QED
    BY <1>3, <2>2
<1>5. CASE UNCHANGED <<mode, at>>
  <2>1. Distance' = Distance /\ Inner' < Inner
    BY <1>2, <1>5
  <2>2. /\ 100 * Distance + Inner' + 1 < 100 * Distance + Inner + 1
        /\ 100 * Distance + Inner' + 1 <= 100 * Distance + Inner + 1
    BY <1>1, <1>2, <2>1, SecondDigit
  <2>3. QED
    BY <1>3, <2>1, <2>2
<1>6. QED
  BY <1>4, <1>5

\* A Run or a Cleanup returns, ...
LEMMA Returning ==
  ASSUME Inv, \/ Ret(Continue) \/ Ret(Fail) \/ Ret(HaltQuietly)
              \/ Ret(StepReturns("continue", {"error"})) \/ Ret(Cleaned)
  PROVE  ~UNCHANGED <<mode, at>>
<1>1. at \in Nat
  BY DEF Inv, TypeOK, RunnerTypeOK
<1>2. CASE Ret(Continue) \/ Ret(Fail) \/ Ret(HaltQuietly) \/ Ret(StepReturns("continue", {"error"}))
  BY <1>2 DEF Ret, Continue, Fail, HaltQuietly, StepReturns
<1>3. CASE Ret(Cleaned)
  BY <1>1, <1>3 DEF Ret, Cleaned
<1>4. QED
  BY <1>2, <1>3

\* ... a Run goes on to a part of it that comes later, ...
LEMMA OnwardInRun ==
  ASSUME Inv, mode = "run", UNCHANGED runnerVars,
         \/ sub = "start" /\ sub' \in Subs \ {"start"}
         \/ sub = "command" /\ sub' = "off"
         \/ sub \in {"off", "stop"} /\ sub' = "locks"
  PROVE  Inner' < Inner
<1>1. Inner = (IF "cancelled" \in bag THEN 0 ELSE 1) + Part
  BY DEF Inner
<1>2. Inner' = (IF "cancelled" \in bag THEN 0 ELSE 1) + Part'
  BY DEF Inner, runnerVars
<1>3. Part \in Nat /\ Part' \in Nat /\ Part' < Part
  BY DEF Part, Subs
<1>4. \A p, q \in Nat, f \in {0, 1} : q < p => f + q < f + p
  OBVIOUS
<1>5. QED
  BY <1>1, <1>2, <1>3, <1>4

\* ... or a Cleanup tries again.
LEMMA TryingAgain ==
  ASSUME Inv, mode = "clean", UNCHANGED runnerVars, tries' = tries + 1
  PROVE  Inner' < Inner
<1>1. tries \in 0..4
  BY DEF Inv, TypeOK, MaxTries
<1>2. QED
  BY <1>1 DEF Inner, MaxTries, runnerVars

LEMMA ReturningSteps ==
  ASSUME Inv, busy, \/ PlainStep \/ CallFails \/ Connect \/ ConnectTimeout \/ TypeBootCommand
                    \/ UploadTools \/ MakeDir \/ MakeDirHalfway \/ CreateVMX
                    \/ CreateVMXHalfway \/ CloneVMX \/ ConfigureVMX \/ CleanVMX \/ HTTPServer
                    \/ ConfigureVNC \/ Register \/ RegisterHalfway \/ BootWait \/ StopInCleanup \/ ShutdownTimeout \/ LocksGone
                    \/ LocksTimeout \/ Release \/ NoCleanup
  PROVE  ~UNCHANGED <<mode, at>>
<1>1. CASE \/ PlainStep \/ CallFails \/ Connect \/ ConnectTimeout \/ TypeBootCommand
           \/ UploadTools \/ MakeDir \/ MakeDirHalfway \/ CreateVMX \/ CreateVMXHalfway
           \/ CloneVMX \/ RegisterHalfway
  BY <1>1, Returning DEF PlainStep, CallFails, Connect, ConnectTimeout, TypeBootCommand,
     UploadTools, MakeDir, MakeDirHalfway, CreateVMX, CreateVMXHalfway, CloneVMX, RegisterHalfway
<1>2. CASE \/ ConfigureVMX \/ CleanVMX \/ HTTPServer \/ ConfigureVNC \/ Register \/ BootWait
           \/ StopInCleanup \/ ShutdownTimeout \/ LocksGone \/ LocksTimeout \/ Release \/ NoCleanup
  BY <1>2, Returning DEF ConfigureVMX, CleanVMX, HTTPServer, ConfigureVNC, Register, BootWait,
     StopInCleanup, ShutdownTimeout, LocksGone, LocksTimeout, Release, NoCleanup
<1>3. QED
  BY <1>1, <1>2

LEMMA OtherSteps ==
  ASSUME Inv, busy, \/ CheckDir \/ StartVM \/ SeesStopped \/ AssumesStopped \/ RemoveDir
                    \/ Shutdown \/ CommandReturns \/ ForcedStop
  PROVE  Inner' < Inner \/ ~UNCHANGED <<mode, at>>
<1>1. CASE CheckDir
  BY <1>1, Returning, OnwardInRun DEF CheckDir, Running, Goto, Subs
<1>2. CASE StartVM
  BY <1>2, Returning, OnwardInRun DEF StartVM, Running, Goto, Subs
<1>3. CASE SeesStopped \/ AssumesStopped
  BY <1>3, Returning, OnwardInRun DEF SeesStopped, AssumesStopped, Running, Goto
<1>4. CASE RemoveDir
  BY <1>4, Returning, TryingAgain DEF RemoveDir, Cleaning, Goto
<1>5. CASE Shutdown \/ CommandReturns \/ ForcedStop
  BY <1>5, OnwardInRun DEF Shutdown, CommandReturns, ForcedStop, Running, Goto, Subs
<1>6. QED
  BY <1>1, <1>2, <1>3, <1>4, <1>5

LEMMA RunnerOnward ==
  ASSUME Inv, busy, RunnerStep
  PROVE  Inner' < Inner \/ ~UNCHANGED <<mode, at>>
<1>1. tries \in 0..4 /\ at \in Nat
  BY DEF Inv, TypeOK, RunnerTypeOK, MaxTries
<1>2. CASE FlagCancelled
  <2>1. Part \in Nat /\ Part' = Part
    BY <1>2 DEF RunnerStep, Part
  <2>2. QED
    BY <1>1, <1>2, <2>1 DEF RunnerStep, keepRest, FlagCancelled, Inner, MaxTries
<1>3. CASE Loop
  BY <1>1, <1>3 DEF Loop, StartRunner, EnterStep, LeaveLoop, EndRunner
<1>4. QED
  BY <1>2, <1>3 DEF RunnerStep

\* Builder.Run returns, or the process panics.
LEMMA EndReturns ==
  ASSUME busy, HostIPPanics \/ NoDriver \/ Report
  PROVE  result' # "none"
<1>1. CASE HostIPPanics \/ NoDriver
  BY <1>1 DEF HostIPPanics, NoDriver
<1>2. CASE Report
  <2>1. CASE "error" \in bag
    BY <1>2, <2>1 DEF Report
  <2>2. CASE "error" \notin bag /\ "cancelled" \in bag
    BY <1>2, <2>2 DEF Report
  <2>3. CASE "error" \notin bag /\ "cancelled" \notin bag
    BY <1>2, <2>3 DEF Report
  <2>4. QED
    BY <2>1, <2>2, <2>3
<1>3. QED
  BY <1>1, <1>2

\* What others do leaves the rank as it is.
LEMMA WorldOnward ==
  ASSUME Inv, (busy /\ Cancel) \/ GuestGoesDown \/ UnlockFiles
  PROVE  Rank' <= Rank
<1>1. UNCHANGED <<mode, at, last, bag, sub, tries, result>>
  BY DEF Cancel, AskCancel, GuestGoesDown, UnlockFiles, runnerVars, keepRest
<1>2. Rank' = Rank
  BY <1>1 DEF Rank, busy, Inner, Part, Distance
<1>3. QED
  BY <1>2, RankNat

LEMMA StepOnward == Inv /\ Inv' /\ [Next]_vars => [Onward]_vars
<1> SUFFICES ASSUME Inv, Inv', Next PROVE Onward
  OBVIOUS
<1>1. CASE busy /\ (HostIPPanics \/ NoDriver \/ Report)
  <2>1. result' # "none"
    BY <1>1, EndReturns
  <2>2. Rank' = 0 /\ Rank \in Nat /\ Rank > 0
    BY <1>1, <2>1, RankNat DEF Rank, busy
  <2>3. QED
    BY <2>2 DEF Onward
<1>2. CASE busy /\ Own /\ ~(HostIPPanics \/ NoDriver \/ Report)
  <2>1. Effect
    BY <1>2, QuietStepEffect, MakingEffect, StoppedEffect, RemoveDirEffect, ReleaseEffect,
       NoCleanupEffect DEF Own, Code, TimersFire, Faults
  <2>2. Inner' < Inner \/ ~UNCHANGED <<mode, at>>
    BY <1>2, ReturningSteps, OtherSteps, RunnerOnward DEF Own, Code, TimersFire, Faults
  <2>3. Rank' < Rank /\ Rank' <= Rank
    BY <1>2, <2>1, <2>2, RankFalls DEF Effect
  <2>4. QED
    BY <2>3 DEF Onward
<1>3. CASE ~(busy /\ Own)
  BY <1>3, WorldOnward DEF Next, Own, Onward
<1>4. QED
  BY <1>1, <1>2, <1>3

\* Every step of the build itself brings it nearer its end, and nothing that others do takes
\* it back: the runner goes back to no step it has left, and removing the directory is no
\* endless loop.  A poll that finds nothing new is no step of the module: that a wait comes
\* to an end is what InterruptEnds assumes fairness for.
THEOREM CountsDown == Spec => [][Onward]_vars
BY Invariant, StepOnward, PTL DEF Spec

=============================================================================
