-------------------------- MODULE DesktopBuildProofs --------------------------
(***************************************************************************)
(* Proofs about DesktopBuild: its type invariant and the invariants of the *)
(* run of the same name.                                                   *)
(*                                                                         *)
(* As in VMwareBuildProofs, what a step makes is followed from the Run     *)
(* that makes it to the Cleanup that takes it away, or to the later Run    *)
(* that does, as it is with the medium of VirtualBox and the forwarding    *)
(* rule.                                                                   *)
(***************************************************************************)
EXTENDS DesktopBuild, StepRunnerProofs

Entries == {"cancelled", "halted", "error"}

\* The places of the steps that make or end something.
OutputDirAt == IF kind = "vbox-ovf" THEN 1 ELSE IF kind = "prl-pvm" THEN 2 ELSE 3
MakeAt      == IF kind = "vbox-iso" THEN 7 ELSE IF kind = "prl-pvm" THEN 4 ELSE 6
AttachAt    == 9
HTTPAt      == 5
RemoveAt    == IF kind = "vbox-iso" THEN 21 ELSE 18
ExportAt    == IF kind = "vbox-iso" THEN 23 ELSE 20

Places == last = Len(Steps) /\ Placed

DirInv == dir = "removed" => Undone(OutputDirAt)

\* What Cleanup takes away, and the step whose Cleanup does.
Things   == {"vm", "iso", "http"}
Place(r) == IF r = "vm" THEN MakeAt ELSE IF r = "iso" THEN AttachAt ELSE HTTPAt
Has(r)   == /\ r = "iso" => kind \in {"vbox-iso", "prl-iso"}
            /\ r = "http" => kind = "prl-iso"

\* The medium of Parallels: the one of VirtualBox is taken away by a Run.
Kept == held \cup (IF VBox THEN {} ELSE parts \cap {"iso"})

HeldInv ==
  \A r \in Things :
    /\ r \in Kept => r \in noted \/ r \in excused
    /\ r \in noted => Has(r) /\ Entered(Place(r))
    /\ Undone(Place(r)) /\ r \in Kept => r \in excused

PartsInv ==
  /\ VBox /\ mode \in {"next", "run"} /\ RemoveAt < at => "iso" \notin parts
  /\ sub = "export" => "rule" \notin parts
  /\ ~VBox => "rule" \notin parts
  /\ exported \cap {"rule", "iso"} = {}

ResultInv == result = "artifact" => mode = "ended"

Inv ==
  /\ TypeOK /\ Places /\ Reasons
  /\ DirInv /\ HeldInv /\ PartsInv /\ ResultInv

-----------------------------------------------------------------------------
(* The lists of steps                                                      *)

\* Steps that neither make nor take away anything the invariant speaks of.
Others == LibrarySteps \cup {"CreateDisk", "SetBootOrder", "Run", "Connect", "Shutdown"}

LEMMA Numbers ==
  /\ OutputDirAt \in Nat /\ MakeAt \in Nat /\ AttachAt \in Nat /\ HTTPAt \in Nat
  /\ RemoveAt \in Nat /\ ExportAt \in Nat
  /\ 0 < OutputDirAt /\ OutputDirAt < MakeAt /\ MakeAt < RemoveAt /\ RemoveAt < ExportAt
BY DEF OutputDirAt, MakeAt, AttachAt, HTTPAt, RemoveAt, ExportAt

\* What the proofs need to know of a list of steps.
Listed(steps) ==
  /\ DOMAIN steps = 1..Len(steps) /\ Len(steps) \in Nat \ {0}
  /\ VBox => Len(steps) = ExportAt
  /\ \A n \in 1..Len(steps) :
       /\ steps[n] = "OutputDir" <=> n = OutputDirAt
       /\ steps[n] \in {"CreateVM", "LibImport", "Import"} <=> n = MakeAt
       /\ steps[n] = "AttachISO" => n = AttachAt /\ Has("iso")
       /\ steps[n] = "HTTPServer" => n = HTTPAt /\ Has("http")
       /\ n = AttachAt /\ Has("iso") => steps[n] = "AttachISO"
       /\ n = HTTPAt /\ Has("http") => steps[n] = "HTTPServer"
       /\ steps[n] = "ForwardWinRM" => VBox
       /\ steps[n] = "RemoveDevices" <=> n = RemoveAt /\ VBox
       /\ steps[n] = "Export" <=> n = ExportAt /\ VBox

LEMMA VBoxIsoListed == kind = "vbox-iso" => Listed(VBoxIsoSteps)
BY DEF Listed, VBoxIsoSteps, VBox, Has, OutputDirAt, MakeAt, AttachAt, HTTPAt,
       RemoveAt, ExportAt

LEMMA VBoxOvfListed == kind = "vbox-ovf" => Listed(VBoxOvfSteps)
BY DEF Listed, VBoxOvfSteps, VBox, Has, OutputDirAt, MakeAt, AttachAt, HTTPAt,
       RemoveAt, ExportAt

LEMMA PrlIsoListed == kind = "prl-iso" => Listed(PrlIsoSteps)
BY DEF Listed, PrlIsoSteps, VBox, Has, OutputDirAt, MakeAt, AttachAt, HTTPAt,
       RemoveAt, ExportAt

LEMMA PrlPvmListed == kind = "prl-pvm" => Listed(PrlPvmSteps)
BY DEF Listed, PrlPvmSteps, VBox, Has, OutputDirAt, MakeAt, AttachAt, HTTPAt,
       RemoveAt, ExportAt

LEMMA StepsListed ==
  ASSUME kind \in {"vbox-iso", "vbox-ovf", "prl-iso", "prl-pvm"}
  PROVE  Listed(Steps)
<1>1. CASE kind = "vbox-iso"
  <2>1. Steps = VBoxIsoSteps
    BY <1>1 DEF Steps
  <2>2. QED
    BY <1>1, <2>1, VBoxIsoListed
<1>2. CASE kind = "vbox-ovf"
  <2>1. Steps = VBoxOvfSteps
    BY <1>2 DEF Steps
  <2>2. QED
    BY <1>2, <2>1, VBoxOvfListed
<1>3. CASE kind = "prl-iso"
  <2>1. Steps = PrlIsoSteps
    BY <1>3 DEF Steps
  <2>2. QED
    BY <1>3, <2>1, PrlIsoListed
<1>4. CASE kind = "prl-pvm"
  <2>1. Steps = PrlPvmSteps
    BY <1>4 DEF Steps
  <2>2. QED
    BY <1>4, <2>1, PrlPvmListed
<1>5. QED
  BY <1>1, <1>2, <1>3, <1>4

LEMMA StepFacts ==
  ASSUME Inv, mode = "run" \/ (mode = "clean" /\ at > 0)
  PROVE  /\ at \in 1..last
         /\ Step = "OutputDir" <=> at = OutputDirAt
         /\ Step \in {"CreateVM", "LibImport", "Import"} <=> at = MakeAt
         /\ Step = "AttachISO" => at = AttachAt /\ Has("iso")
         /\ Step = "HTTPServer" => at = HTTPAt /\ Has("http")
         /\ at = AttachAt /\ Has("iso") => Step = "AttachISO"
         /\ at = HTTPAt /\ Has("http") => Step = "HTTPServer"
         /\ Step = "ForwardWinRM" => VBox
         /\ Step = "RemoveDevices" <=> at = RemoveAt /\ VBox
         /\ Step = "Export" <=> at = ExportAt /\ VBox
<1>1. at \in 1..last /\ last = Len(Steps)
  BY DEF Inv, TypeOK, RunnerTypeOK, Places, Placed
<1>2. Listed(Steps)
  BY StepsListed DEF Inv, TypeOK
<1>3. QED
  BY <1>1, <1>2 DEF Listed, Step

-----------------------------------------------------------------------------
(* The runner                                                              *)

LEMMA InvSound ==
  ASSUME Inv
  PROVE  Sound(Entries) /\ {"halted", "error", "cancelled"} \subseteq Entries
BY DEF Inv, TypeOK, Places, Entries, Sound

LEMMA RunnerInv ==
  ASSUME Inv, Acts(Entries), kind' = kind
  PROVE  RunnerTypeOK(Entries)' /\ Places' /\ Reasons'
<1>1. Sound(Entries)'
  BY InvSound, ActsSound
<1>2. Steps' = Steps
  BY DEF Steps, VBoxIsoSteps, VBoxOvfSteps, PrlIsoSteps, PrlPvmSteps
<1>3. last' = Len(Steps)'
  BY <1>2 DEF Acts, Inv, Places
<1>4. QED
  BY <1>1, <1>3 DEF Sound, Places

-----------------------------------------------------------------------------
(* What a step must keep to, and what keeps the parts of the invariant     *)

KeepsTypes ==
  /\ sub \in {"start", "settings", "attach", "rule", "export"}
  /\ tries \in 0..(MaxTries - 1)
  /\ noted \subseteq Things /\ held \subseteq {"vm", "http"}
  /\ told \subseteq {"vm", "iso", "power"} /\ ignored \subseteq {"vm", "power", "dir"}
  /\ parts \in SUBSET Parts /\ exported \in SUBSET Parts
  /\ power \in {"off", "on"} /\ port \in {"free", "step", "machine", "other"}
  /\ dir \in {"absent", "there", "removed"}

KeepsDir == dir' = "removed" => dir = "removed" \/ Passes(OutputDirAt)

KeepsHeld ==
  /\ told \subseteq told' /\ ignored \subseteq ignored'
  /\ \A r \in Things :
       /\ r \in noted => r \in noted'
       /\ r \in noted' /\ r \notin noted => mode = "run" /\ at = Place(r) /\ Has(r)
       /\ \/ r \in Kept' => r \in Kept \/ (r \in noted' /\ mode = "run" /\ at = Place(r))
          \/ r \in excused'
       /\ Passes(Place(r)) /\ r \in noted => r \notin Kept' \/ r \in excused'

KeepsParts ==
  /\ "iso" \in parts' => "iso" \in parts \/ (mode = "run" /\ at = AttachAt)
  /\ "rule" \in parts' => "rule" \in parts \/ VBox
  /\ Passing(RemoveAt) /\ VBox => "iso" \notin parts'
  /\ sub' = "export" => "rule" \notin parts'
  /\ exported' \cap {"rule", "iso"} = {}

LEMMA DirKept == ASSUME Inv, Acts(Entries), kind' = kind, KeepsDir PROVE DirInv'
<1>1. OutputDirAt' = OutputDirAt /\ OutputDirAt \in Nat \ {0}
  BY DEF OutputDirAt
<1>2. Moves /\ at \in Nat
  BY DEF Acts, Inv, TypeOK, RunnerTypeOK
<1>3. Undone(OutputDirAt) \/ Passes(OutputDirAt) => Undone(OutputDirAt)'
  BY <1>1, <1>2 DEF Undone, Passes, Moves
<1>4. QED
  BY <1>1, <1>3 DEF KeepsDir, Inv, DirInv

LEMMA HeldKept == ASSUME Inv, Acts(Entries), kind' = kind, KeepsHeld PROVE HeldInv'
<1> SUFFICES ASSUME NEW r \in Things
             PROVE  /\ r \in Kept' => r \in noted' \/ r \in excused'
                    /\ r \in noted' => Has(r)' /\ Entered(Place(r))'
                    /\ Undone(Place(r))' /\ r \in Kept' => r \in excused'
  BY DEF HeldInv
<1>1. Place(r)' = Place(r) /\ Place(r) \in Nat /\ Has(r)' = Has(r)
  BY DEF Place, MakeAt, AttachAt, HTTPAt, Has
<1>2. /\ r \in Kept => r \in noted \/ r \in excused
      /\ r \in noted => Has(r) /\ Entered(Place(r))
      /\ Undone(Place(r)) /\ r \in Kept => r \in excused
  BY DEF Inv, HeldInv
<1>3. /\ r \in noted => r \in noted'
      /\ r \in noted' /\ r \notin noted => mode = "run" /\ at = Place(r) /\ Has(r)
      /\ \/ r \in Kept' => r \in Kept \/ (r \in noted' /\ mode = "run" /\ at = Place(r))
         \/ r \in excused'
      /\ Passes(Place(r)) /\ r \in noted => r \notin Kept' \/ r \in excused'
      /\ excused \subseteq excused'
  BY DEF KeepsHeld, excused
<1>4. r \in noted' => Has(r) /\ Entered(Place(r))
  BY <1>1, <1>2, <1>3 DEF Entered
<1>5. r \in noted' => Entered(Place(r))'
  BY <1>1, <1>4, InvSound, EnteredKept DEF Entered
<1>6. Undone(Place(r))' /\ r \in Kept' => r \in excused'
  <2> SUFFICES ASSUME Undone(Place(r))', r \in Kept', r \notin excused' PROVE FALSE
    OBVIOUS
  <2>1. Entered(Place(r)) /\ (r \in Kept \/ mode = "run")
    BY <1>2, <1>3, <1>4
  <2>2. Undone(Place(r)) \/ Passes(Place(r))
    BY <1>1, <2>1, InvSound, UndoneFrom DEF Undone
  <2>3. r \in Kept /\ mode # "run"
    BY <2>1, <2>2 DEF Undone, Passes
  <2>4. QED
    BY <1>2, <1>3, <2>2, <2>3
<1>7. QED
  BY <1>1, <1>2, <1>3, <1>4, <1>5, <1>6

LEMMA PartsKept == ASSUME Inv, Acts(Entries), kind' = kind, KeepsParts PROVE PartsInv'
<1>1. VBox' = VBox /\ RemoveAt' = RemoveAt
  BY DEF VBox, RemoveAt
<1>2. Moves /\ at \in Nat /\ (mode = "idle" => at = 1)
  BY DEF Acts, Inv, TypeOK, RunnerTypeOK, Places, Placed
<1>3. \A n \in Nat \ {0} : mode' \in {"next", "run"} /\ n < at'
                             => (mode \in {"next", "run"} /\ n < at) \/ Passing(n)
  BY <1>2 DEF Moves, Passing
<1>4. VBox /\ mode' \in {"next", "run"} /\ RemoveAt < at' => "iso" \notin parts'
  BY <1>2, <1>3, Numbers DEF KeepsParts, Inv, PartsInv, Moves, Passing, RemoveAt, AttachAt
<1>5. QED
  BY <1>1, <1>4 DEF KeepsParts, Inv, PartsInv

\* A step of the build that keeps to all of it.
LEMMA StepInv ==
  ASSUME Inv, busy, Acts(Entries), UNCHANGED <<config, result>>, KeepsTypes',
         KeepsDir, KeepsHeld, KeepsParts
  PROVE  Inv'
<1>1. kind' = kind /\ http' = http /\ result' = result
  BY DEF config
<1>2. RunnerTypeOK(Entries)' /\ Places' /\ Reasons'
  BY <1>1, RunnerInv
<1>3. TypeOK'
  BY <1>1, <1>2 DEF Inv, TypeOK, KeepsTypes, Entries, Things
<1>4. ResultInv'
  BY <1>1 DEF busy, ResultInv
<1>5. QED
  BY <1>1, <1>2, <1>3, <1>4, DirKept, HeldKept, PartsKept DEF Inv

-----------------------------------------------------------------------------
(* The steps                                                               *)

LEMMA InitInv == Init => Inv
<1> SUFFICES ASSUME Init PROVE Inv
  OBVIOUS
<1>1. Len(Steps) \in Nat \ {0}
  BY StepsListed DEF Init, Listed
<1>2. Sound(Entries) /\ last = Len(Steps) /\ mode = "idle"
  BY <1>1, InitSound DEF Init, RunnerInit
<1>3. TypeOK
  <2>1. RunnerTypeOK({"cancelled", "halted", "error"})
    BY <1>2 DEF Sound, Entries
  <2>2. tries \in 0..(MaxTries - 1)
    BY DEF Init, MaxTries
  <2>3. QED
    BY <2>1, <2>2 DEF Init, TypeOK
<1>4. Kept = {}
  BY DEF Init, Kept
<1>5. DirInv /\ HeldInv /\ PartsInv /\ ResultInv
  BY <1>2, <1>4 DEF Init, DirInv, HeldInv, PartsInv, ResultInv
<1>6. QED
  BY <1>2, <1>3, <1>5 DEF Sound, Places, Inv

LEMMA Types == ASSUME Inv PROVE KeepsTypes
BY DEF Inv, TypeOK, KeepsTypes, Things

\* A step that changes nothing but the runner.
LEMMA QuietInv ==
  ASSUME Inv, busy, Acts(Entries), UNCHANGED <<notes, host>>, keepRest,
         sub' = "start" \/ sub' = sub,
         ~Passing(RemoveAt) \/ ~VBox,
         \A r \in Things : Passes(Place(r)) => r \notin noted
  PROVE  Inv'
<1>1. /\ kind' = kind /\ tries' = tries /\ noted' = noted /\ held' = held
      /\ told' = told /\ ignored' = ignored
      /\ parts' = parts /\ exported' = exported /\ power' = power /\ port' = port
      /\ dir' = dir
  BY DEF notes, host, keepRest, config
<1>2. Kept' = Kept
  BY <1>1 DEF Kept, VBox
<1>3. KeepsTypes'
  BY <1>1, Types DEF KeepsTypes
<1>4. KeepsHeld
  BY <1>1, <1>2 DEF KeepsHeld
<1>5. KeepsDir
  BY <1>1 DEF KeepsDir
<1>6. KeepsParts
  BY <1>1 DEF KeepsParts, Inv, PartsInv
<1>7. QED
  BY <1>3, <1>4, <1>5, <1>6, StepInv DEF keepRest

LEMMA ContinueInv ==
  ASSUME Inv, busy, Ret(Continue), UNCHANGED <<notes, host>>, keepRest,
         at # RemoveAt \/ ~VBox
  PROVE  Inv'
<1>1. Acts(Entries) /\ mode = "run" /\ sub' = "start"
  BY InvSound, ContinueActs DEF Ret
<1>2. QED
  BY <1>1, QuietInv DEF Passing, Passes

LEMMA HaltInv ==
  ASSUME Inv, busy, UNCHANGED <<notes, host>>, keepRest,
         \/ Ret(Fail)
         \/ Ret(StepReturns("halt", {})) /\ "cancelled" \in bag
         \/ Ret(StepReturns("halt", {"error"}))
  PROVE  Inv'
<1>1. Ret(Fail) \/ (Ret(StepReturns("halt", {})) /\ "cancelled" \in bag)
  BY DEF Ret, Fail
<1>2. Acts(Entries) /\ mode = "run" /\ mode' = "clean" /\ sub' = "start"
  BY <1>1, InvSound, FailActs, HaltActs DEF Ret
<1>3. QED
  BY <1>2, QuietInv DEF Passing, Passes

LEMMA LibraryStepInv == Inv /\ busy /\ LibraryStep => Inv'
<1> SUFFICES ASSUME Inv, busy, LibraryStep PROVE Inv'
  OBVIOUS
<1>1. at # RemoveAt \/ ~VBox
  BY StepFacts DEF LibraryStep, LibrarySteps
<1>2. QED
  BY <1>1, ContinueInv, HaltInv DEF LibraryStep

LEMMA CallFailsInv == Inv /\ busy /\ (CallFails \/ ConnectTimeout) => Inv'
BY HaltInv DEF CallFails, ConnectTimeout

LEMMA SetBootOrderInv == Inv /\ busy /\ SetBootOrder => Inv'
<1> SUFFICES ASSUME Inv, busy, SetBootOrder PROVE Inv'
  OBVIOUS
<1>1. at # RemoveAt \/ ~VBox
  BY StepFacts DEF SetBootOrder, Running
<1>2. QED
  BY <1>1, ContinueInv DEF SetBootOrder

LEMMA NoCleanupInv == Inv /\ busy /\ NoCleanup => Inv'
<1> SUFFICES ASSUME Inv, busy, NoCleanup PROVE Inv'
  OBVIOUS
<1>1. Acts(Entries) /\ mode = "clean" /\ mode' = "clean" /\ sub' = "start"
  BY InvSound, CleanedActs DEF NoCleanup, Ret
<1>2. \A r \in Things : at = Place(r) => r \notin noted
  <2> SUFFICES ASSUME NEW r \in Things, at = Place(r), r \in noted PROVE FALSE
    OBVIOUS
  <2>1. Has(r)
    BY DEF Inv, HeldInv
  <2>2. \/ r = "vm" /\ Step \in {"CreateVM", "LibImport", "Import"}
        \/ r = "iso" /\ Step = "AttachISO"
        \/ r = "http" /\ Step = "HTTPServer"
    BY <2>1, StepFacts DEF NoCleanup, Place, Things
  <2>3. QED
    BY <2>2 DEF NoCleanup
<1>3. QED
  BY <1>1, <1>2, QuietInv DEF NoCleanup, Passing, Passes

LEMMA RunnerStepInv == Inv /\ busy /\ (RunnerStep \/ Cancel) => Inv'
<1> SUFFICES ASSUME Inv, busy, RunnerStep \/ Cancel PROVE Inv'
  OBVIOUS
<1>1. Loop \/ FlagCancelled \/ AskCancel
  BY DEF RunnerStep, Cancel
<1>2. Acts(Entries) /\ ~(mode = "run" /\ mode' = "next") /\ ~(mode = "clean" /\ at > 0 /\ at' # at)
  BY <1>1, InvSound, LoopActs
<1>3. \A n \in Nat \ {0} : ~Passing(n) /\ ~Passes(n)
  BY <1>2 DEF Passing, Passes
<1>4. RemoveAt \in Nat \ {0} /\ \A r \in Things : Place(r) \in Nat \ {0}
  BY DEF RemoveAt, Place, MakeAt, AttachAt, HTTPAt
<1>5. QED
  BY <1>2, <1>3, <1>4, QuietInv DEF RunnerStep, Cancel

-----------------------------------------------------------------------------
(* The steps that change the machine, its parts or its port                *)

LEMMA RunReturns ==
  ASSUME Inv, \/ Ret(Continue) \/ Ret(Fail)
              \/ Ret(StepReturns("halt", {})) /\ "cancelled" \in bag
  PROVE  /\ Acts(Entries) /\ mode = "run" /\ mode' \in {"next", "clean"} /\ sub' = "start"
         /\ asked' = asked
<1>1. CASE Ret(Continue)
  BY <1>1, InvSound, ContinueActs DEF Ret
<1>2. CASE Ret(Fail)
  BY <1>2, InvSound, FailActs DEF Ret
<1>3. CASE Ret(StepReturns("halt", {})) /\ "cancelled" \in bag
  BY <1>3, InvSound, HaltActs DEF Ret
<1>4. QED
  BY <1>1, <1>2, <1>3

LEMMA CleanupReturns ==
  ASSUME Inv, Ret(Cleaned)
  PROVE  /\ Acts(Entries) /\ mode = "clean" /\ mode' = "clean" /\ sub' = "start" /\ at' = at - 1
         /\ asked' = asked
BY InvSound, CleanedActs DEF Ret

LEMMA GoesOn ==
  ASSUME Inv, NEW s, Goto(s)
  PROVE  Acts(Entries) /\ mode' = mode /\ at' = at /\ asked' = asked /\ sub' = s
BY InvSound, StayActs DEF Goto

\* A Run or Cleanup that only starts or stops the machine, or makes or removes the directory.
LEMMA PowerInv ==
  ASSUME Inv, busy, Acts(Entries), UNCHANGED <<noted, held, parts>>, keepRest,
         told' \in SUBSET {"vm", "iso", "power"}, told \subseteq told', sub' = "start",
         ignored' \in SUBSET {"vm", "power", "dir"}, ignored \subseteq ignored',
         power' \in {"off", "on"}, port' \in {port, "free", "machine"},
         dir' \in {"absent", "there", "removed"}, KeepsDir,
         ~Passing(RemoveAt) \/ ~VBox,
         \A r \in Things : Passes(Place(r)) => r \notin noted
  PROVE  Inv'
<1>1. /\ kind' = kind /\ tries' = tries /\ noted' = noted /\ held' = held /\ parts' = parts
      /\ exported' = exported
  BY DEF keepRest, config
<1>2. Kept' = Kept
  BY <1>1 DEF Kept, VBox
<1>3. KeepsTypes'
  <2>1. KeepsTypes
    BY Types
  <2>2. port' \in {"free", "step", "machine", "other"}
    BY <2>1 DEF KeepsTypes
  <2>3. QED
    BY <1>1, <2>1, <2>2 DEF KeepsTypes
<1>4. KeepsHeld
  BY <1>1, <1>2 DEF KeepsHeld
<1>5. KeepsParts
  BY <1>1 DEF KeepsParts, Inv, PartsInv
<1>6. QED
  BY <1>3, <1>4, <1>5, StepInv DEF keepRest

LEMMA OutputDirInv == Inv /\ busy /\ OutputDir => Inv'
<1> SUFFICES ASSUME Inv, busy, OutputDir PROVE Inv'
  OBVIOUS
<1>1. at = OutputDirAt /\ told' = told /\ power' = power /\ port' = port
  BY StepFacts DEF OutputDir, Running, Cleaning, notes
<1>2. /\ Acts(Entries) /\ sub' = "start"
      /\ (mode = "run" /\ dir' = "there") \/ (mode = "clean" /\ at' = at - 1 /\ dir' \in {dir, "removed"})
  BY RunReturns, CleanupReturns DEF OutputDir
<1>3. at \in Nat /\ told \in SUBSET {"vm", "iso", "power"} /\ dir \in {"absent", "there", "removed"}
      /\ ignored' \in SUBSET {"vm", "power", "dir"} /\ ignored \subseteq ignored'
      /\ power \in {"off", "on"}
  <2>1. ignored' = ignored \/ ignored' = ignored \cup {"dir"}
    BY DEF OutputDir
  <2>2. at \in Nat
    BY DEF Inv, TypeOK, RunnerTypeOK
  <2>3. QED
    BY <2>1, <2>2, Types DEF KeepsTypes
<1>4. KeepsDir
  BY <1>1, <1>2, <1>3 DEF KeepsDir, Passes
<1>5. ~Passing(RemoveAt) \/ ~VBox
  BY <1>1, Numbers DEF Passing
<1>6. \A r \in Things : Passes(Place(r)) => r \notin noted
  <2> SUFFICES ASSUME NEW r \in Things, at = Place(r), r \in noted PROVE FALSE
    BY DEF Passes
  <2>1. Has(r)
    BY DEF Inv, HeldInv
  <2>2. QED
    BY <1>1, <2>1 DEF Has, Place, Things, OutputDirAt, MakeAt, AttachAt, HTTPAt
<1>7. QED
  BY <1>1, <1>2, <1>3, <1>4, <1>5, <1>6, PowerInv DEF OutputDir, notes

LEMMA PlacesOfThings ==
  ASSUME Inv, mode = "run" \/ (mode = "clean" /\ at > 0), NEW r \in Things, at = Place(r), r \in noted
  PROVE  \/ r = "vm" /\ Step \in {"CreateVM", "LibImport", "Import"}
         \/ r = "iso" /\ Step = "AttachISO"
         \/ r = "http" /\ Step = "HTTPServer"
<1>1. Has(r)
  BY DEF Inv, HeldInv
<1>2. QED
  BY <1>1, StepFacts DEF Place, Things

LEMMA RunMachineInv == Inv /\ busy /\ RunMachine => Inv'
<1> SUFFICES ASSUME Inv, busy, RunMachine PROVE Inv'
  OBVIOUS
<1>1. /\ Acts(Entries) /\ mode = "run" /\ sub' = "start" /\ Step = "Run"
      /\ UNCHANGED <<noted, told, ignored, held, parts, dir>> /\ keepRest
      /\ power' = "on" /\ port' \in {port, "machine"}
  BY RunReturns DEF RunMachine, Running, notes
<1>2. ~Passing(RemoveAt) \/ ~VBox
  BY <1>1, StepFacts DEF Passing
<1>3. told \in SUBSET {"vm", "iso", "power"} /\ ignored \in SUBSET {"vm", "power", "dir"}
      /\ dir \in {"absent", "there", "removed"}
  BY DEF Inv, TypeOK
<1>4. QED
  BY <1>1, <1>2, <1>3, PowerInv DEF Passes, KeepsDir

LEMMA ShutdownInv == Inv /\ busy /\ Shutdown => Inv'
<1> SUFFICES ASSUME Inv, busy, Shutdown PROVE Inv'
  OBVIOUS
<1>1. /\ Acts(Entries) /\ mode = "run" /\ sub' = "start" /\ Step = "Shutdown"
      /\ UNCHANGED <<noted, told, ignored, held, parts, dir>> /\ keepRest
      /\ power' = "off" /\ port' \in {port, "free"}
  BY RunReturns DEF Shutdown, Running, notes, PowerOff
<1>2. ~Passing(RemoveAt) \/ ~VBox
  BY <1>1, StepFacts DEF Passing
<1>3. told \in SUBSET {"vm", "iso", "power"} /\ ignored \in SUBSET {"vm", "power", "dir"}
      /\ dir \in {"absent", "there", "removed"}
  BY DEF Inv, TypeOK
<1>4. QED
  BY <1>1, <1>2, <1>3, PowerInv DEF Passes, KeepsDir

LEMMA StopMachineInv == Inv /\ busy /\ StopMachine => Inv'
<1> SUFFICES ASSUME Inv, busy, StopMachine PROVE Inv'
  OBVIOUS
<1>1. /\ Acts(Entries) /\ mode = "clean" /\ at > 0 /\ sub' = "start" /\ Step = "Run"
      /\ UNCHANGED <<noted, held, parts, dir>> /\ keepRest
      /\ power' \in {power, "off"} /\ port' \in {port, "free"}
  BY CleanupReturns DEF StopMachine, Cleaning, PowerOff
<1>2. /\ told' = told \/ told' = told \cup {"power"}
      /\ ignored' = ignored \/ ignored' = ignored \cup {"power"}
  BY DEF StopMachine
<1>3. /\ told' \in SUBSET {"vm", "iso", "power"} /\ told \subseteq told'
      /\ ignored' \in SUBSET {"vm", "power", "dir"} /\ ignored \subseteq ignored'
  BY <1>2 DEF Inv, TypeOK
<1>4. power' \in {"off", "on"} /\ dir' \in {"absent", "there", "removed"}
  BY <1>1 DEF Inv, TypeOK
<1>5. \A r \in Things : Passes(Place(r)) => r \notin noted
  BY <1>1, PlacesOfThings DEF Passes
<1>6. QED
  BY <1>1, <1>3, <1>4, <1>5, PowerInv DEF Passing, KeepsDir

\* A Run that gives the machine a part, or takes one away.
LEMMA PartsInvStep ==
  ASSUME Inv, busy, Acts(Entries), mode = "run",
         UNCHANGED <<noted, told, ignored, held, power, dir>>,
         keepRest, sub' \in {"start", "attach"}, parts' \in SUBSET Parts, port' \in {port, "free"},
         "iso" \in parts' => "iso" \in parts, KeepsParts
  PROVE  Inv'
<1>1. /\ kind' = kind /\ tries' = tries /\ noted' = noted /\ held' = held
      /\ told' = told /\ ignored' = ignored
      /\ power' = power /\ exported' = exported
      /\ dir' = dir
  BY DEF keepRest, config
<1>2. KeepsTypes'
  BY <1>1, Types DEF KeepsTypes
<1>3. Kept' \subseteq Kept
  BY <1>1 DEF Kept, VBox
<1>4. KeepsHeld /\ KeepsDir
  BY <1>1, <1>3 DEF KeepsHeld, KeepsDir, Passes
<1>5. QED
  BY <1>2, <1>4, StepInv DEF keepRest

LEMMA RemoveDevicesInv == Inv /\ busy /\ RemoveDevices => Inv'
<1> SUFFICES ASSUME Inv, busy, RemoveDevices PROVE Inv'
  OBVIOUS
<1>1. /\ Acts(Entries) /\ mode = "run" /\ sub' = "start" /\ at = RemoveAt /\ VBox
      /\ UNCHANGED <<noted, told, ignored, held, power, port, dir>> /\ keepRest
      /\ parts' = parts \ {"iso"}
  BY RunReturns, StepFacts DEF RemoveDevices, Running, notes
<1>2. parts' \in SUBSET Parts
  BY <1>1 DEF Inv, TypeOK
<1>3. KeepsParts
  BY <1>1, Numbers DEF KeepsParts, Passing, Inv, PartsInv, keepRest
<1>4. QED
  BY <1>1, <1>2, <1>3, PartsInvStep

LEMMA CreateDiskInv == Inv /\ busy /\ CreateDisk => Inv'
<1> SUFFICES ASSUME Inv, busy, CreateDisk PROVE Inv'
  OBVIOUS
<1>1. /\ Acts(Entries) /\ mode = "run" /\ sub' \in {"start", "attach"}
      /\ UNCHANGED <<noted, told, ignored, held, power, port, dir>> /\ keepRest
      /\ parts' \in {{"disk"}, {"looseDisk"}} /\ VBox
  BY RunReturns, GoesOn DEF CreateDisk, Running, notes
<1>2. parts' \in SUBSET Parts /\ "iso" \notin parts' /\ "rule" \notin parts'
  BY <1>1 DEF Parts
<1>3. KeepsParts
  BY <1>1, <1>2 DEF KeepsParts, Passing, Inv, PartsInv, keepRest
<1>4. QED
  BY <1>1, <1>2, <1>3, PartsInvStep

LEMMA AddDiskInv == Inv /\ busy /\ AddDisk => Inv'
<1> SUFFICES ASSUME Inv, busy, AddDisk PROVE Inv'
  OBVIOUS
<1>1. /\ Acts(Entries) /\ mode = "run" /\ sub' = "start" /\ ~VBox
      /\ UNCHANGED <<noted, told, ignored, held, power, port, dir>> /\ keepRest
      /\ parts' = parts \cup {"disk"}
  BY RunReturns DEF AddDisk, Running, notes
<1>2. parts' \in SUBSET Parts
  BY <1>1 DEF Inv, TypeOK, Parts
<1>3. KeepsParts
  BY <1>1 DEF KeepsParts, Inv, PartsInv, keepRest
<1>4. QED
  BY <1>1, <1>2, <1>3, PartsInvStep

LEMMA AddRuleInv == Inv /\ busy /\ AddRule => Inv'
<1> SUFFICES ASSUME Inv, busy, AddRule PROVE Inv'
  OBVIOUS
<1>1. /\ Acts(Entries) /\ mode = "run" /\ sub' = "start" /\ VBox /\ at # RemoveAt
      /\ UNCHANGED <<noted, told, ignored, held, power, dir>> /\ keepRest
      /\ port' \in {port, "free"} /\ parts' \in {parts, parts \cup {"rule"}}
  BY RunReturns, StepFacts DEF AddRule, Running, notes
<1>2. parts' \in SUBSET Parts
  BY <1>1 DEF Inv, TypeOK, Parts
<1>3. KeepsParts
  BY <1>1 DEF KeepsParts, Passing, Inv, PartsInv, keepRest
<1>4. QED
  BY <1>1, <1>2, <1>3, PartsInvStep

LEMMA TryPortInv == Inv /\ busy /\ TryPort => Inv'
<1> SUFFICES ASSUME Inv, busy, TryPort PROVE Inv'
  OBVIOUS
<1>1. /\ Acts(Entries) /\ mode = "run" /\ mode' = mode /\ sub' = "rule"
      /\ UNCHANGED <<noted, told, ignored, held, parts, power, dir>> /\ keepRest /\ port' = "step"
  BY GoesOn DEF TryPort, Running, notes
<1>2. /\ kind' = kind /\ tries' = tries /\ noted' = noted /\ held' = held
      /\ told' = told /\ ignored' = ignored
      /\ parts' = parts /\ power' = power /\ exported' = exported /\ dir' = dir
  BY <1>1 DEF keepRest, config
<1>3. KeepsTypes'
  BY <1>1, <1>2, Types DEF KeepsTypes
<1>4. Kept' = Kept
  BY <1>2 DEF Kept, VBox
<1>5. KeepsHeld /\ KeepsDir
  BY <1>1, <1>2, <1>4 DEF KeepsHeld, KeepsDir, Passes
<1>6. KeepsParts
  BY <1>1, <1>2 DEF KeepsParts, Passing, Inv, PartsInv
<1>7. QED
  BY <1>1, <1>3, <1>5, <1>6, StepInv DEF keepRest

LEMMA ConnectInv == Inv /\ busy /\ Connect => Inv'
<1> SUFFICES ASSUME Inv, busy, Connect PROVE Inv'
  OBVIOUS
<1>1. at # RemoveAt \/ ~VBox
  BY StepFacts DEF Connect, Running
<1>2. QED
  BY <1>1, ContinueInv, HaltInv DEF Connect

LEMMA ExportInv == Inv /\ busy /\ Export => Inv'
<1> SUFFICES ASSUME Inv, busy, Export PROVE Inv'
  OBVIOUS
<1>1. /\ Acts(Entries) /\ mode = "run" /\ at = ExportAt /\ VBox
      /\ UNCHANGED <<config, tries, noted, told, ignored, held, power, port, dir, result>>
  BY RunReturns, GoesOn, StepFacts DEF Export, Running, notes
<1>2. \/ sub' = "export" /\ parts' = parts \ {"rule"} /\ exported' = exported
      \/ sub' = "start" /\ parts' = parts /\ exported' = parts /\ sub = "export"
  BY RunReturns, GoesOn DEF Export, Running
<1>3. parts' \in SUBSET Parts /\ exported' \in SUBSET Parts
  BY <1>2 DEF Inv, TypeOK
<1>4. KeepsTypes'
  <2>1. sub' \in {"start", "export"}
    BY <1>2
  <2>2. QED
    BY <1>1, <1>3, <2>1, Types DEF KeepsTypes
<1>5. Kept' = Kept
  BY <1>1 DEF Kept, VBox, config
<1>6. KeepsHeld /\ KeepsDir
  BY <1>1, <1>5 DEF KeepsHeld, KeepsDir, Passes
<1>7. KeepsParts
  <2>1. "iso" \notin parts
    BY <1>1, Numbers DEF Inv, PartsInv
  <2>2. at # RemoveAt
    BY <1>1, Numbers
  <2>3. exported' \cap {"rule", "iso"} = {} /\ (sub' = "export" => "rule" \notin parts')
    BY <1>2, <2>1 DEF Inv, PartsInv
  <2>4. QED
    BY <1>1, <1>2, <2>1, <2>2, <2>3 DEF KeepsParts, Passing
<1>8. QED
  BY <1>1, <1>4, <1>6, <1>7, StepInv

-----------------------------------------------------------------------------
(* The steps that make and take away                                       *)

\* Run of the step whose Cleanup takes it away makes a thing, and notes it.
LEMMA MakerInv ==
  ASSUME Inv, busy, Acts(Entries), mode = "run", UNCHANGED <<told, power, port, dir>>,
         ignored' \in SUBSET {"vm", "power", "dir"}, ignored \subseteq ignored',
         keepRest, sub' \in {"start", "settings"}, parts' \in SUBSET Parts,
         NEW r \in Things, at = Place(r), Has(r),
         \/ noted' = noted \cup {r}
         \/ noted' = noted /\ r \notin Kept' \ Kept
         \/ noted' = noted /\ r \in excused',
         held' = held \/ (r # "iso" /\ held' = held \cup {r}),
         "iso" \in parts' => "iso" \in parts \/ r = "iso",
         "rule" \in parts' => "rule" \in parts
  PROVE  Inv'
<1>1. /\ kind' = kind /\ tries' = tries /\ told' = told /\ power' = power /\ port' = port
      /\ exported' = exported /\ dir' = dir
  BY DEF keepRest, config
<1>2. held' \subseteq {"vm", "http"} /\ noted' \subseteq Things
  BY Types DEF KeepsTypes, Things
<1>3. KeepsTypes'
  BY <1>1, <1>2, Types DEF KeepsTypes
<1>4. Kept' \subseteq Kept \cup {r}
  BY <1>1 DEF Kept, VBox, Things
<1>5. KeepsHeld
  BY <1>1, <1>4 DEF KeepsHeld, Passes
<1>6. at # RemoveAt \/ ~VBox
  BY DEF Place, Has, Things, VBox, RemoveAt, MakeAt, AttachAt, HTTPAt
<1>7. KeepsParts
  <2>1. "iso" \in parts' => "iso" \in parts \/ at = AttachAt
    BY DEF Place
  <2>2. QED
    BY <1>1, <1>6, <2>1 DEF KeepsParts, Passing, Inv, PartsInv
<1>8. KeepsDir
  BY <1>1 DEF KeepsDir
<1>9. QED
  BY <1>3, <1>5, <1>7, <1>8, StepInv DEF keepRest

LEMMA CreateVMInv == Inv /\ busy /\ CreateVM => Inv'
<1> SUFFICES ASSUME Inv, busy, CreateVM PROVE Inv'
  OBVIOUS
<1>1. /\ Acts(Entries) /\ mode = "run" /\ at = Place("vm") /\ sub' \in {"start", "settings"}
      /\ UNCHANGED <<told, ignored, parts, power, port, dir>> /\ keepRest
  BY RunReturns, GoesOn, StepFacts DEF CreateVM, Running, Place
<1>2. \/ noted' = noted \cup {"vm"} /\ held' = held \cup {"vm"}
      \/ noted' = noted /\ held' = held
  BY DEF CreateVM
<1>3. noted' = noted /\ held' = held => Kept' = Kept
  BY <1>1 DEF Kept, VBox, keepRest, config
<1>4. ignored' \in SUBSET {"vm", "power", "dir"} /\ parts' \in SUBSET Parts /\ "vm" \in Things /\ Has("vm")
  BY <1>1, Types DEF KeepsTypes, Things, Has
<1>5. QED
  BY <1>1, <1>2, <1>3, <1>4, MakerInv

LEMMA ImportInv == Inv /\ busy /\ (Import \/ ImportHalfway) => Inv'
<1> SUFFICES ASSUME Inv, busy, Import \/ ImportHalfway PROVE Inv'
  OBVIOUS
<1>1. /\ Acts(Entries) /\ mode = "run" /\ at = Place("vm") /\ sub' = "start"
      /\ UNCHANGED <<told, power, port, dir>> /\ keepRest
      /\ held' = held \cup {"vm"} /\ parts' = {"disk"}
  BY RunReturns, StepFacts DEF Import, ImportHalfway, Running, Place
<1>2. \/ noted' = noted \cup {"vm"} /\ ignored' = ignored
      \/ noted' = noted /\ ignored' = ignored \cup {"vm"}
  BY DEF Import, ImportHalfway
<1>3. ignored' \in SUBSET {"vm", "power", "dir"} /\ ignored \subseteq ignored'
  BY <1>2, Types DEF KeepsTypes
<1>4. noted' = noted \cup {"vm"} \/ (noted' = noted /\ "vm" \in excused')
  BY <1>2 DEF excused
<1>5. /\ parts' \in SUBSET Parts /\ "iso" \notin parts' /\ "rule" \notin parts'
      /\ "vm" \in Things /\ Has("vm")
  BY <1>1 DEF Parts, Things, Has
<1>6. QED
  BY <1>1, <1>3, <1>4, <1>5, MakerInv

LEMMA AttachISOInv == Inv /\ busy /\ AttachISO => Inv'
<1> SUFFICES ASSUME Inv, busy, AttachISO PROVE Inv'
  OBVIOUS
<1>1. /\ Acts(Entries) /\ mode = "run" /\ at = Place("iso") /\ Has("iso") /\ sub' = "start"
      /\ UNCHANGED <<told, ignored, held, power, port, dir>> /\ keepRest
      /\ noted' = noted \cup {"iso"} /\ parts' = parts \cup {"iso"}
  BY RunReturns, StepFacts DEF AttachISO, Running, Place
<1>2. ignored' \in SUBSET {"vm", "power", "dir"} /\ parts' \in SUBSET Parts /\ "iso" \in Things
  BY <1>1, Types DEF KeepsTypes, Things, Parts
<1>3. "rule" \in parts' <=> "rule" \in parts
  BY <1>1
<1>4. QED
  BY <1>1, <1>2, <1>3, MakerInv

LEMMA HTTPServerInv == Inv /\ busy /\ HTTPServer => Inv'
<1> SUFFICES ASSUME Inv, busy, HTTPServer PROVE Inv'
  OBVIOUS
<1>1. /\ Acts(Entries) /\ mode = "run" /\ at = Place("http") /\ Has("http") /\ sub' = "start"
      /\ UNCHANGED <<told, ignored, parts, power, port, dir>> /\ keepRest
  BY RunReturns, StepFacts DEF HTTPServer, Running, Place
<1>2. \/ noted' = noted \cup {"http"} /\ held' = held \cup {"http"}
      \/ noted' = noted /\ held' = held
  BY DEF HTTPServer
<1>3. noted' = noted /\ held' = held => Kept' = Kept
  BY <1>1 DEF Kept, VBox, keepRest, config
<1>4. ignored' \in SUBSET {"vm", "power", "dir"} /\ parts' \in SUBSET Parts /\ "http" \in Things
  BY <1>1, Types DEF KeepsTypes, Things
<1>5. QED
  BY <1>1, <1>2, <1>3, <1>4, MakerInv

\* Cleanup takes a thing away, or tells the user, or does not return yet.
LEMMA TakerInv ==
  ASSUME Inv, busy, Acts(Entries), mode = "clean", mode' = "clean", sub' = "start",
         UNCHANGED <<config, noted, ignored, power, port, dir, exported, result>>,
         tries' \in 0..(MaxTries - 1), NEW r \in Things, at = Place(r), at > 0, r \in noted,
         held' \subseteq held, parts' \subseteq parts,
         told' = told \/ (r # "http" /\ told' = told \cup {r}),
         at' = at \/ r \notin Kept' \/ r \in excused'
  PROVE  Inv'
<1>1. /\ kind' = kind /\ noted' = noted /\ ignored' = ignored /\ power' = power /\ port' = port
      /\ exported' = exported /\ dir' = dir
  BY DEF config
<1>2. /\ held' \subseteq {"vm", "http"} /\ parts' \in SUBSET Parts
      /\ told' = told \/ told' = told \cup {r}
  BY Types DEF KeepsTypes
<1>3. Kept' \subseteq Kept
  BY <1>1 DEF Kept, VBox
<1>4. \A q \in Things : Passes(Place(q)) /\ q \in noted => q = r /\ at' # at
  <2> SUFFICES ASSUME NEW q \in Things, at = Place(q), at' # at, q \in noted PROVE q = r
    BY DEF Passes
  <2>1. \A t \in Things : at = Place(t) /\ t \in noted
          => \/ t = "vm" /\ Step \in {"CreateVM", "LibImport", "Import"}
             \/ t = "iso" /\ Step = "AttachISO"
             \/ t = "http" /\ Step = "HTTPServer"
    BY PlacesOfThings
  <2>2. QED
    BY <2>1
<1>5. KeepsHeld
  BY <1>1, <1>2, <1>3, <1>4 DEF KeepsHeld
<1>6. KeepsParts
  BY <1>1 DEF KeepsParts, Passing, Inv, PartsInv
<1>7. KeepsDir
  BY <1>1 DEF KeepsDir
<1>8. told' \subseteq {"vm", "iso", "power"}
  BY <1>2, Types DEF KeepsTypes, Things
<1>9. KeepsTypes'
  BY <1>1, <1>2, <1>8, Types DEF KeepsTypes
<1>10. QED
  BY <1>5, <1>6, <1>7, <1>9, StepInv

LEMMA UnregisterInv == Inv /\ busy /\ Unregister => Inv'
<1> SUFFICES ASSUME Inv, busy, Unregister PROVE Inv'
  OBVIOUS
<1>1. /\ Acts(Entries) /\ mode = "clean" /\ mode' = "clean" /\ sub' = "start" /\ at > 0
      /\ at = Place("vm") /\ "vm" \in Things /\ "vm" \in noted
      /\ UNCHANGED <<config, noted, ignored, power, port, dir, exported, result>>
  BY CleanupReturns, GoesOn, StepFacts DEF Unregister, Cleaning, Place, Things
<1>2. held' \subseteq held /\ parts' \subseteq parts
  BY DEF Unregister
<1>3. tries' \in 0..(MaxTries - 1)
  BY DEF Unregister, Inv, TypeOK, MaxTries
<1>4. \/ told' = told /\ at' = at
      \/ told' = told /\ held' = held \ {"vm"}
      \/ told' = told \cup {"vm"} /\ "vm" \in excused'
  BY GoesOn DEF Unregister, excused
<1>5. QED
  BY <1>1, <1>2, <1>3, <1>4, TakerInv DEF Kept

LEMMA DetachISOInv == Inv /\ busy /\ DetachISO => Inv'
<1> SUFFICES ASSUME Inv, busy, DetachISO PROVE Inv'
  OBVIOUS
<1>1. /\ Acts(Entries) /\ mode = "clean" /\ mode' = "clean" /\ sub' = "start" /\ at > 0
      /\ at = Place("iso") /\ "iso" \in Things /\ "iso" \in noted
      /\ UNCHANGED <<config, tries, noted, ignored, held, power, port, dir, exported,
                     result>>
  BY CleanupReturns, StepFacts DEF DetachISO, Cleaning, Place, Things, keepRest
<1>2. tries' \in 0..(MaxTries - 1) /\ VBox' = VBox /\ held \subseteq {"vm", "http"}
  BY <1>1 DEF Inv, TypeOK, VBox, config
<1>3. \/ parts' = parts \ {"iso"} /\ told' = told /\ ignored' = ignored
      \/ parts' = parts /\ told' = told \cup {"iso"}
      \/ parts' = parts /\ told' = told /\ VBox
  BY DEF DetachISO
<1>4. "iso" \notin Kept' \/ "iso" \in excused'
  BY <1>1, <1>2, <1>3 DEF Kept, excused
<1>5. QED
  BY <1>1, <1>2, <1>3, <1>4, TakerInv

LEMMA CloseHTTPServerInv == Inv /\ busy /\ CloseHTTPServer => Inv'
<1> SUFFICES ASSUME Inv, busy, CloseHTTPServer PROVE Inv'
  OBVIOUS
<1>1. /\ Acts(Entries) /\ mode = "clean" /\ mode' = "clean" /\ sub' = "start" /\ at > 0
      /\ at = Place("http") /\ "http" \in Things /\ "http" \in noted
      /\ UNCHANGED <<config, tries, noted, told, ignored, parts, power, port, dir, exported,
                     result>>
      /\ held' = held \ {"http"}
  BY CleanupReturns, StepFacts DEF CloseHTTPServer, Cleaning, Place, Things, keepRest, notes
<1>2. tries' \in 0..(MaxTries - 1)
  BY <1>1 DEF Inv, TypeOK
<1>3. "http" \notin Kept'
  BY <1>1 DEF Kept
<1>4. QED
  BY <1>1, <1>2, <1>3, TakerInv

-----------------------------------------------------------------------------
(* The end of the build, and the world                                     *)

LEMMA WorldInv ==
  ASSUME Inv, UNCHANGED <<runnerVars, config, sub, tries, noted, told, ignored, held, parts,
                          exported, dir>>,
         power' \in {"off", "on"}, port' \in {"free", "step", "machine", "other"},
         result' \in {"none", "error", "cancelled", "halted", "artifact"}, ResultInv'
  PROVE  Inv'
<1>1. /\ kind' = kind /\ http' = http /\ tries' = tries /\ sub' = sub /\ noted' = noted
      /\ told' = told /\ ignored' = ignored /\ held' = held /\ parts' = parts
      /\ exported' = exported /\ dir' = dir
  BY DEF config
<1>2. Acts(Entries) /\ mode' = mode /\ at' = at
  BY InvSound, StayActs
<1>3. RunnerTypeOK(Entries)' /\ Places' /\ Reasons'
  BY <1>1, <1>2, RunnerInv
<1>4. TypeOK'
  BY <1>1, <1>3 DEF Inv, TypeOK, Entries
<1>5. Kept' = Kept
  BY <1>1 DEF Kept, VBox
<1>6. KeepsDir /\ KeepsHeld
  BY <1>1, <1>2, <1>5 DEF KeepsDir, KeepsHeld, Passes
<1>7. KeepsParts
  BY <1>1, <1>2 DEF KeepsParts, Passing, Inv, PartsInv
<1>8. QED
  BY <1>1, <1>2, <1>3, <1>4, <1>6, <1>7, DirKept, HeldKept, PartsKept DEF Inv

LEMMA EndInv == Inv /\ busy /\ (NoDriver \/ Report) => Inv'
<1> SUFFICES ASSUME Inv, busy, NoDriver \/ Report PROVE Inv'
  OBVIOUS
<1>1. UNCHANGED <<runnerVars, config, sub, tries, noted, told, ignored, held, parts, power, port,
                  exported, dir>>
  BY DEF NoDriver, Report, notes, host
<1>2. power' \in {"off", "on"} /\ port' \in {"free", "step", "machine", "other"}
  BY <1>1 DEF Inv, TypeOK
<1>3. result' \in {"none", "error", "cancelled", "halted", "artifact"}
  <2>1. CASE NoDriver
    BY <2>1 DEF NoDriver
  <2>2. CASE Report
    <3>1. CASE "error" \in bag
      BY <2>2, <3>1 DEF Report
    <3>2. CASE "error" \notin bag /\ "cancelled" \in bag
      BY <2>2, <3>2 DEF Report
    <3>3. CASE "error" \notin bag /\ "cancelled" \notin bag /\ bag = {"halted"}
      BY <2>2, <3>3 DEF Report
    <3>4. CASE "error" \notin bag /\ "cancelled" \notin bag /\ bag # {"halted"}
      BY <2>2, <3>4 DEF Report
    <3>5. QED
      BY <3>1, <3>2, <3>3, <3>4
  <2>3. QED
    BY <2>1, <2>2
<1>4. ResultInv'
  BY <1>1 DEF NoDriver, Report, ResultInv, runnerVars
<1>5. QED
  BY <1>1, <1>2, <1>3, <1>4, WorldInv

LEMMA OthersInv == Inv /\ (GuestGoesDown \/ OthersListen \/ UNCHANGED vars) => Inv'
<1> SUFFICES ASSUME Inv, GuestGoesDown \/ OthersListen \/ UNCHANGED vars PROVE Inv'
  OBVIOUS
<1>1. /\ UNCHANGED <<runnerVars, config, sub, tries, noted, told, ignored, held, parts, exported,
                     dir>>
      /\ result' = result
  BY DEF GuestGoesDown, OthersListen, vars, notes, host, keepRest
<1>2. power' \in {"off", "on"} /\ port' \in {"free", "step", "machine", "other"}
  BY DEF GuestGoesDown, OthersListen, vars, host, PowerOff, Inv, TypeOK
<1>3. ResultInv'
  BY <1>1 DEF Inv, ResultInv, runnerVars
<1>4. QED
  BY <1>1, <1>2, <1>3, WorldInv DEF Inv, TypeOK

-----------------------------------------------------------------------------
(* The theorems                                                            *)

LEMMA NextInv == Inv /\ [Next]_vars => Inv'
<1> SUFFICES ASSUME Inv, [Next]_vars PROVE Inv'
  OBVIOUS
<1>1. CASE busy /\ Code
  BY <1>1, LibraryStepInv, OutputDirInv, RunMachineInv, StopMachineInv, ShutdownInv,
     RemoveDevicesInv, CreateVMInv, ImportInv, CreateDiskInv, AddDiskInv, SetBootOrderInv,
     UnregisterInv, AttachISOInv, DetachISOInv, HTTPServerInv, CloseHTTPServerInv, TryPortInv,
     AddRuleInv, ConnectInv, ExportInv, NoCleanupInv, RunnerStepInv, EndInv DEF Code
<1>2. CASE busy /\ (ConnectTimeout \/ CallFails \/ ImportHalfway \/ NoDriver \/ Cancel)
  BY <1>2, CallFailsInv, ImportInv, EndInv, RunnerStepInv
<1>3. CASE GuestGoesDown \/ OthersListen \/ UNCHANGED vars
  BY <1>3, OthersInv
<1>4. QED
  BY <1>1, <1>2, <1>3 DEF Next

LEMMA Invariant == Spec => []Inv
<1>1. QED
  BY InitInv, NextInv, PTL DEF Spec

\* Every variable keeps its type, whatever fails and whenever the build is interrupted.
THEOREM TypeCorrect == Spec => []TypeOK
<1>1. Inv => TypeOK
  BY DEF Inv
<1>2. QED
  BY Invariant, <1>1, PTL

\* The machine and the listener of the HTTP server are given back, the machine before the
\* directory that holds its files, or the user was told, or Parallels' import failed half done
\* (Cleanup of stepCreateVM, StepImport and stepHTTPServer, in the order of the lists).
THEOREM IsReleased == Spec => []Released
<1>1. Inv => Released
  <2> SUFFICES ASSUME Inv PROVE Released
    OBVIOUS
  <2>1. mode = "ended" => \A r \in Things : Undone(Place(r))
    BY DEF Inv, Places, Placed, Undone, Place, MakeAt, AttachAt, HTTPAt
  <2>2. held \subseteq Things /\ held \subseteq Kept
    BY DEF Inv, TypeOK, Things, Kept
  <2>3. mode = "ended" => held \subseteq excused
    BY <2>1, <2>2 DEF Inv, HeldInv
  <2>4. dir = "removed" => Undone(Place("vm"))
    <3>1. OutputDirAt < MakeAt /\ OutputDirAt \in Nat /\ MakeAt \in Nat /\ at \in Nat
      BY Numbers DEF Inv, TypeOK, RunnerTypeOK
    <3>2. QED
      BY <3>1 DEF Inv, DirInv, Undone, Place
  <2>5. dir = "removed" /\ "vm" \in held => "vm" \in excused
    BY <2>2, <2>4 DEF Inv, HeldInv, Things
  <2>6. QED
    BY <2>3, <2>5 DEF Released
<1>2. QED
  BY Invariant, <1>1, PTL

\* What is delivered names neither a port of this host nor an installation medium: they are
\* taken out by steps that run before StepExport, or by a Cleanup that reports its failure.
THEOREM CleanArtifact == Spec => []ArtifactClean
<1>1. Inv => ArtifactClean
  <2> SUFFICES ASSUME Inv, result = "artifact" PROVE ArtifactClean
    BY DEF ArtifactClean
  <2>1. Undone(AttachAt)
    BY DEF Inv, ResultInv, Places, Placed, Undone, AttachAt
  <2>2. CASE VBox
    BY <2>2 DEF ArtifactClean, Inv, PartsInv
  <2>3. CASE ~VBox
    <3>1. "iso" \in parts => "iso" \in told
      BY <2>1, <2>3 DEF Inv, TypeOK, HeldInv, Kept, Things, Place, excused
    <3>2. "rule" \notin parts
      BY <2>3 DEF Inv, PartsInv
    <3>3. QED
      BY <2>3, <3>1, <3>2 DEF ArtifactClean
  <2>4. QED
    BY <2>2, <2>3
<1>2. QED
  BY Invariant, <1>1, PTL

-----------------------------------------------------------------------------
(* DesktopBuild implements AbstractBuild                                   *)

\* What there is to prove of a step that goes on with the build.
Effect ==
  /\ Acts(Entries) /\ UNCHANGED <<config, result>> /\ excused \subseteq excused'
  /\ \A r \in holds' : r \in holds \/ (mode = "run" /\ r \in Makes(Step))
  /\ mode = "clean" /\ at > 0 /\ at' # at
       => \A r \in holds' \cap Makes(Step) : r \in excused' \/ (r = "dir" /\ "halted" \notin bag)
  /\ \/ UNCHANGED <<holds, excused>>
     \/ asked' = asked /\ (mode = "run" \/ (mode = "clean" /\ at > 0))

LEMMA ExcusedKept ==
  ASSUME told \subseteq told', ignored \subseteq ignored'
  PROVE  excused \subseteq excused'
BY DEF excused

LEMMA ListKept ==
  ASSUME Inv, UNCHANGED <<last, config>>
  PROVE  UNCHANGED Build!list
<1>1. Steps' = Steps
  BY DEF config, Steps, VBoxIsoSteps, VBoxOvfSteps, PrlIsoSteps, PrlPvmSteps
<1>2. QED
  BY <1>1 DEF Build!list

LEMMA EffectImplements ==
  ASSUME Inv, busy, Effect
  PROVE  [Build!Next]_(Build!bvars)
<1>1. /\ UNCHANGED Build!list /\ result' = result /\ result = "none" /\ last' = last
      /\ excused \subseteq excused'
  BY ListKept DEF Effect, Acts, busy
<1>2. mode = "run" \/ (mode = "clean" /\ at > 0)
        => [n \in 1..last |-> Makes(Steps[n])][at] = Makes(Step) /\ at \in 1..last /\ last \in Nat
  BY StepFacts DEF Step, Inv, TypeOK, RunnerTypeOK
<1>3. \A r \in holds' : r \in holds \/ (mode = "run" /\ r \in Makes(Step))
  BY DEF Effect
<1>4. \/ UNCHANGED <<holds, excused>>
      \/ asked' = asked /\ (mode = "run" \/ (mode = "clean" /\ at > 0))
  BY DEF Effect
<1>5. Sound(Entries) /\ Acts(Entries)
  BY InvSound DEF Effect
<1>6. CASE Still /\ UNCHANGED <<holds, excused>>
  <2>1. CASE asked' = asked
    BY <1>1, <1>6, <2>1 DEF Still, Halted, Build!bvars
  <2>2. CASE asked' # asked
    <3>1. ~asked /\ asked' = TRUE
      BY <2>2 DEF Effect, Acts, Inv, TypeOK, RunnerTypeOK
    <3>2. Build!Ask
      BY <1>1, <1>6, <3>1 DEF Still, Halted, Build!Ask
    <3>3. QED
      BY <1>1, <3>2 DEF Build!Next
  <2>3. QED
    BY <2>1, <2>2
<1>7. CASE Still /\ asked' = asked /\ mode = "run"
  <2>1. buildPhase = "ahead" /\ buildPhase' = "ahead" /\ openSteps = at /\ ~Halted
    BY <1>7 DEF Still, buildPhase, openSteps, Halted, Inv, Reasons
  <2>2. Build!Run
    <3>1. ("halted" \in bag)' \in BOOLEAN
      OBVIOUS
    <3>2. openSteps > 0 /\ \A r \in holds' :
            r \in holds \/ r \in [n \in 1..last |-> Makes(Steps[n])][openSteps]
      BY <1>2, <1>3, <1>7, <2>1 DEF Still
    <3>3. QED
      BY <1>1, <1>7, <2>1, <3>1, <3>2 DEF Still, Halted, Build!Run
  <2>3. QED
    BY <1>1, <2>2 DEF Build!Next
<1>8. CASE Still /\ asked' = asked /\ mode = "clean" /\ at > 0
  <2>1. buildPhase = "back" /\ openSteps = at
    BY <1>8 DEF buildPhase, openSteps
  <2>2. Build!CleaningUp
    BY <1>1, <1>3, <1>8, <2>1 DEF Still, Halted, Build!CleaningUp
  <2>3. QED
    BY <1>1, <2>2 DEF Build!Next
<1>9. CASE Starts
  BY <1>1, <1>4, <1>9 DEF Starts, Halted, Build!bvars
<1>10. CASE Enters
  <2>1. Build!Enter
    BY <1>1, <1>4, <1>10 DEF Enters, Halted, Build!Enter
  <2>2. QED
    BY <1>1, <2>1 DEF Build!Next
<1>11. CASE TurnsBack
  <2>1. Build!TurnBack
    BY <1>1, <1>4, <1>11 DEF TurnsBack, Halted, Build!TurnBack
  <2>2. QED
    BY <1>1, <2>1 DEF Build!Next
<1>12. CASE Returns
  <2>1. openSteps = at
    BY <1>12 DEF Returns, openSteps
  <2>2. Build!Run
    <3>1. ("halted" \in bag)' \in BOOLEAN
      OBVIOUS
    <3>2. openSteps > 0 /\ \A r \in holds' :
            r \in holds \/ r \in [n \in 1..last |-> Makes(Steps[n])][openSteps]
      BY <1>2, <1>3, <1>12, <2>1 DEF Returns
    <3>3. QED
      BY <1>1, <1>12, <2>1, <3>1, <3>2 DEF Returns, Halted, Build!Run
  <2>3. QED
    BY <1>1, <2>2 DEF Build!Next
<1>13. CASE Undoes
  <2>1. \A r \in holds' \cap Makes(Step) : r \in excused' \/ (r = "dir" /\ "halted" \notin bag)
    BY <1>13 DEF Effect, Undoes
  <2>2. Build!CleanedUp
    BY <1>1, <1>2, <1>3, <1>13, <2>1 DEF Undoes, Halted, Build!CleanedUp, Build!Accounts
  <2>3. QED
    BY <1>1, <2>2 DEF Build!Next
<1>14. CASE Ends
  <2>1. Build!End
    BY <1>1, <1>4, <1>14 DEF Ends, Halted, Build!End
  <2>2. QED
    BY <1>1, <2>1 DEF Build!Next
<1>15. QED
  BY <1>4, <1>5, <1>6, <1>7, <1>8, <1>9, <1>10, <1>11, <1>12, <1>13, <1>14, RunnerMoves

\* A step that changes nothing a build has to give back, and is no Cleanup that returns.
LEMMA QuietEffect ==
  ASSUME Acts(Entries), UNCHANGED <<notes, host>>, keepRest,
         ~(mode = "clean" /\ at > 0 /\ at' # at)
  PROVE  Effect
<1>1. UNCHANGED <<config, result, excused, holds>>
  BY DEF notes, host, keepRest, config, holds, VBox, excused
<1>2. QED
  BY <1>1 DEF Effect

\* A part of Run makes only what its step can make.
LEMMA RunEffect ==
  ASSUME Acts(Entries), asked' = asked, mode = "run", UNCHANGED <<config, result>>,
         told \subseteq told', ignored \subseteq ignored', held' \subseteq held \cup Makes(Step),
         "iso" \in parts' => "iso" \in parts \cup Makes(Step),
         power' = "on" => power = "on" \/ "power" \in Makes(Step),
         dir' = "there" => dir = "there" \/ "dir" \in Makes(Step)
  PROVE  Effect
<1>1. VBox' = VBox
  BY DEF config, VBox
<1>2. \A r \in holds' : r \in holds \/ r \in Makes(Step)
  BY <1>1 DEF holds
<1>3. QED
  BY <1>2, ExcusedKept DEF Effect

\* A part of Cleanup makes nothing, and returns only if its step accounts for everything.
LEMMA CleanupEffect ==
  ASSUME Acts(Entries), asked' = asked, mode = "clean", at > 0, UNCHANGED <<config, result>>,
         told \subseteq told', ignored \subseteq ignored', held' \subseteq held, parts' \subseteq parts,
         power' = "on" => power = "on", dir' = "there" => dir = "there",
         at' # at => \A r \in holds' \cap Makes(Step) :
                       r \in excused' \/ (r = "dir" /\ "halted" \notin bag)
  PROVE  Effect
<1>1. VBox' = VBox
  BY DEF config, VBox
<1>2. \A r \in holds' : r \in holds
  BY <1>1 DEF holds
<1>3. QED
  BY <1>2, ExcusedKept DEF Effect

\* What a Cleanup has to see to.
LEMMA Held ==
  ASSUME held' \subseteq {"vm", "http"}
  PROVE  /\ "vm" \in holds' <=> "vm" \in held'
         /\ "http" \in holds' <=> "http" \in held'
         /\ "iso" \in holds' <=> ~VBox' /\ "iso" \in parts'
         /\ "power" \in holds' <=> power' = "on"
         /\ "dir" \in holds' <=> dir' = "there"
BY DEF holds

LEMMA QuietStepEffect ==
  ASSUME Inv, busy, \/ LibraryStep \/ CallFails \/ ConnectTimeout \/ SetBootOrder
                    \/ RunnerStep \/ Cancel
  PROVE  Effect
<1>1. CASE LibraryStep \/ CallFails \/ SetBootOrder
  BY <1>1, RunReturns, QuietEffect DEF LibraryStep, CallFails, SetBootOrder
<1>2. CASE ConnectTimeout
  <2>1. Ret(Fail)
    BY <1>2 DEF ConnectTimeout, Ret, Fail
  <2>2. QED
    BY <1>2, <2>1, RunReturns, QuietEffect DEF ConnectTimeout
<1>3. CASE RunnerStep \/ Cancel
  <2>1. Loop \/ FlagCancelled \/ AskCancel
    BY <1>3 DEF RunnerStep, Cancel
  <2>2. Acts(Entries) /\ ~(mode = "clean" /\ at > 0 /\ at' # at)
    BY <2>1, InvSound, LoopActs
  <2>3. QED
    BY <1>3, <2>2, QuietEffect DEF RunnerStep, Cancel
<1>4. QED
  BY <1>1, <1>2, <1>3

\* The steps that make something, and those that change what is no concern of a Cleanup.
LEMMA MakingEffect ==
  ASSUME Inv, busy, \/ RunMachine \/ Shutdown \/ RemoveDevices \/ CreateVM \/ Import \/ ImportHalfway
                    \/ CreateDisk \/ AddDisk \/ AttachISO \/ HTTPServer \/ TryPort \/ AddRule
                    \/ Connect \/ Export
  PROVE  Effect
<1>1. CASE RunMachine \/ Shutdown
  BY <1>1, RunReturns, RunEffect
     DEF RunMachine, Shutdown, Running, PowerOff, Makes, notes, keepRest
<1>2. CASE RemoveDevices \/ AddDisk \/ AddRule
  BY <1>2, RunReturns, RunEffect DEF RemoveDevices, AddDisk, AddRule, Running, notes, keepRest
<1>3. CASE CreateVM
  BY <1>3, RunReturns, GoesOn, RunEffect DEF CreateVM, Running, Makes, keepRest
<1>4. CASE Import \/ ImportHalfway
  BY <1>4, RunReturns, RunEffect DEF Import, ImportHalfway, Running, Makes, keepRest
<1>5. CASE CreateDisk \/ TryPort
  BY <1>5, RunReturns, GoesOn, RunEffect DEF CreateDisk, TryPort, Running, notes, keepRest
<1>6. CASE AttachISO
  BY <1>6, RunReturns, RunEffect DEF AttachISO, Running, Makes, keepRest
<1>7. CASE HTTPServer
  BY <1>7, RunReturns, RunEffect DEF HTTPServer, Running, Makes, keepRest
<1>8. CASE Connect
  BY <1>8, RunReturns, RunEffect DEF Connect, Running, notes, host, keepRest
<1>9. CASE Export
  BY <1>9, RunReturns, GoesOn, RunEffect DEF Export, Running, notes
<1>10. QED
  BY <1>1, <1>2, <1>3, <1>4, <1>5, <1>6, <1>7, <1>8, <1>9

\* The directory is made by Run, and removed by a Cleanup that finds the build halted.
LEMMA OutputDirEffect == ASSUME Inv, busy, OutputDir PROVE Effect
<1>1. CASE Running("OutputDir", "start")
  <2>1. Ret(Continue)
    BY <1>1 DEF OutputDir, Running, Cleaning
  <2>2. "dir" \in Makes(Step)
    BY <1>1 DEF Running, Makes
  <2>3. QED
    BY <1>1, <2>1, <2>2, RunReturns, RunEffect DEF OutputDir, Running, notes, keepRest
<1>2. CASE Cleaning("OutputDir")
  <2>1. /\ Acts(Entries) /\ asked' = asked /\ mode = "clean" /\ at > 0 /\ Step = "OutputDir"
        /\ UNCHANGED <<config, result>> /\ told' = told /\ held' = held /\ parts' = parts
        /\ power' = power /\ ignored \subseteq ignored' /\ (dir' = "there" => dir = "there")
    BY <1>2, CleanupReturns DEF OutputDir, Running, Cleaning, keepRest
  <2>2. dir' = "there" => "halted" \notin bag \/ "dir" \in ignored'
    BY <1>2 DEF OutputDir, Running, Cleaning
  <2>3. \A r \in holds' \cap Makes(Step) : r \in excused' \/ (r = "dir" /\ "halted" \notin bag)
    <3>1. Makes(Step) = {"dir"}
      BY <2>1 DEF Makes
    <3>2. held' \subseteq {"vm", "http"}
      BY <2>1 DEF Inv, TypeOK
    <3>3. QED
      BY <2>2, <3>1, <3>2, Held DEF excused
  <2>4. QED
    BY <2>1, <2>3, CleanupEffect
<1>3. QED
  BY <1>1, <1>2 DEF OutputDir

LEMMA UnregisterEffect == ASSUME Inv, busy, Unregister PROVE Effect
<1>1. /\ Acts(Entries) /\ asked' = asked /\ mode = "clean" /\ at > 0
      /\ UNCHANGED <<config, result>> /\ told \subseteq told' /\ ignored' = ignored /\ held' \subseteq held
      /\ parts' \subseteq parts /\ power' = power /\ dir' = dir
  BY CleanupReturns, GoesOn DEF Unregister, Cleaning
<1>2. Makes(Step) = {"vm"}
  BY DEF Unregister, Cleaning, Makes
<1>3. held' \subseteq {"vm", "http"}
  BY <1>1 DEF Inv, TypeOK
<1>4. at' # at => "vm" \notin held' \/ "vm" \in excused'
  BY GoesOn DEF Unregister, excused
<1>5. at' # at => \A r \in holds' \cap Makes(Step) :
                    r \in excused' \/ (r = "dir" /\ "halted" \notin bag)
  BY <1>2, <1>3, <1>4, Held
<1>6. QED
  BY <1>1, <1>5, CleanupEffect

LEMMA OtherCleanupEffect ==
  ASSUME Inv, busy, StopMachine \/ DetachISO \/ CloseHTTPServer
  PROVE  Effect
<1>1. /\ Acts(Entries) /\ asked' = asked /\ mode = "clean" /\ at > 0
      /\ UNCHANGED <<config, result>> /\ told \subseteq told' /\ ignored \subseteq ignored'
      /\ held' \subseteq held
      /\ parts' \subseteq parts /\ (power' = "on" => power = "on") /\ dir' = dir
  BY CleanupReturns
     DEF StopMachine, DetachISO, CloseHTTPServer, Cleaning, PowerOff, keepRest, notes
<1>2. held' \subseteq {"vm", "http"} /\ VBox' = VBox
  BY <1>1 DEF Inv, TypeOK, VBox, config
<1>3. \A r \in holds' \cap Makes(Step) : r \in excused'
  <2>1. CASE StopMachine
    <3>1. Makes(Step) = {"power"} /\ (power' # "on" \/ "power" \in excused')
      BY <2>1 DEF StopMachine, Cleaning, Makes, PowerOff, excused
    <3>2. QED
      BY <1>2, <3>1, Held
  <2>2. CASE DetachISO
    <3>1. Makes(Step) = {"iso"} /\ ("iso" \notin parts' \/ VBox \/ "iso" \in excused')
      BY <2>2 DEF DetachISO, Cleaning, Makes, excused
    <3>2. QED
      BY <1>2, <3>1, Held
  <2>3. CASE CloseHTTPServer
    <3>1. Makes(Step) = {"http"} /\ "http" \notin held'
      BY <2>3 DEF CloseHTTPServer, Cleaning, Makes
    <3>2. QED
      BY <1>2, <3>1, Held
  <2>4. QED
    BY <2>1, <2>2, <2>3
<1>4. QED
  BY <1>1, <1>3, CleanupEffect

\* A Cleanup has nothing to do only if its Run has noted nothing, and so made nothing that is
\* not excused.
LEMMA NoCleanupEffect == ASSUME Inv, busy, NoCleanup PROVE Effect
<1>1. /\ Acts(Entries) /\ asked' = asked /\ mode = "clean" /\ at > 0
      /\ UNCHANGED <<config, result, told, ignored, excused>> /\ held' = held
      /\ parts' = parts /\ power' = power /\ dir' = dir
  BY CleanupReturns DEF NoCleanup, keepRest, notes, host, excused
<1>2. held' \subseteq {"vm", "http"} /\ VBox' = VBox
  BY <1>1 DEF Inv, TypeOK, VBox, config
<1>3. /\ "vm" \in held => "vm" \in noted \/ "vm" \in excused
      /\ "http" \in held => "http" \in noted \/ "http" \in excused
      /\ "iso" \in parts /\ ~VBox => "iso" \in noted \/ "iso" \in excused
  BY DEF Inv, HeldInv, Kept, Things
<1>4. ASSUME NEW r \in holds', r \in Makes(Step) PROVE r \in excused'
  <2>1. \/ r = "vm" /\ Step \in {"CreateVM", "Import", "LibImport"}
        \/ r = "iso" /\ Step = "AttachISO"
        \/ r = "http" /\ Step = "HTTPServer"
        \/ r = "power" /\ Step = "Run"
    BY <1>4 DEF NoCleanup, Makes
  <2>2. QED
    BY <1>1, <1>2, <1>3, <1>4, <2>1, Held DEF NoCleanup
<1>5. QED
  BY <1>1, <1>4, CleanupEffect

\* Builder.Run looks for its results when the runner has ended.
LEMMA EndImplements ==
  ASSUME Inv, busy, NoDriver \/ Report
  PROVE  [Build!Next]_(Build!bvars)
<1>1. UNCHANGED <<runnerVars, config, noted, excused, host>>
  BY DEF NoDriver, Report, notes, excused
<1>2. UNCHANGED <<Build!list, buildPhase, openSteps, asked, "halted" \in bag, holds, excused>>
  BY <1>1, ListKept DEF runnerVars, buildPhase, openSteps, holds, VBox, config, host
<1>3. CASE NoDriver
  <2>1. at = 1 /\ mode = "idle" /\ result' = "error"
    BY <1>3 DEF NoDriver, Inv, Places, Placed
  <2>2. Build!Refuse
    BY <1>2, <2>1 DEF Build!Refuse, buildPhase, openSteps
  <2>3. QED
    BY <2>2 DEF Build!Next, busy
<1>4. CASE Report
  <2>1. mode = "ended" /\ ("halted" \in bag => "error" \in bag) /\ ("cancelled" \in bag => asked)
    BY <1>4 DEF Report, Inv, Reasons
  <2>2. /\ result' \in Build!Outcomes
        /\ "halted" \in bag => result' = "error"
        /\ ~asked => result' \in {"artifact", "error"}
    <3>1. CASE "error" \in bag
      BY <1>4, <3>1 DEF Report, Build!Outcomes
    <3>2. CASE "error" \notin bag /\ "cancelled" \in bag
      <4>1. result' = "cancelled"
        BY <1>4, <3>2 DEF Report
      <4>2. QED
        BY <2>1, <3>2, <4>1 DEF Build!Outcomes
    <3>3. CASE "error" \notin bag /\ "cancelled" \notin bag
      <4>1. bag # {"halted"} /\ "halted" \notin bag
        BY <2>1, <3>3
      <4>2. result' \in {"artifact", "error"}
        BY <1>4, <3>3, <4>1 DEF Report
      <4>3. QED
        BY <4>1, <4>2 DEF Build!Outcomes
    <3>4. QED
      BY <3>1, <3>2, <3>3
  <2>3. Build!Return(result')
    BY <1>2, <2>1, <2>2 DEF Build!Return, buildPhase
  <2>4. QED
    BY <2>2, <2>3 DEF Build!Next, busy
<1>5. QED
  BY <1>3, <1>4

\* A machine that goes down by itself is a thing less; other processes are no concern.
LEMMA WorldImplements ==
  ASSUME Inv, GuestGoesDown \/ OthersListen \/ UNCHANGED vars
  PROVE  [Build!Next]_(Build!bvars)
<1>1. UNCHANGED <<runnerVars, config, excused, held, parts, dir, result>> /\ power' \in {power, "off"}
  BY DEF GuestGoesDown, OthersListen, PowerOff, vars, notes, host, keepRest, excused
<1>2. UNCHANGED <<Build!list, buildPhase, openSteps, asked, "halted" \in bag, excused, result>>
  BY <1>1, ListKept DEF runnerVars, buildPhase, openSteps
<1>3. holds' \subseteq holds
  BY <1>1 DEF holds, VBox, config
<1>4. Build!Lose
  BY <1>2, <1>3 DEF Build!Lose
<1>5. QED
  BY <1>4 DEF Build!Next

\* The abstract build has not begun.
LEMMA InitImplements == Init => Build!Init
<1> SUFFICES ASSUME Init PROVE Build!Init
  OBVIOUS
<1>1. last \in Nat /\ last = Len(Steps)
  BY StepsListed DEF Init, RunnerInit, Listed
<1>2. [n \in 1..last |-> Makes(Steps[n])] \in [1..last -> SUBSET {"vm", "iso", "http", "power", "dir"}]
  BY DEF Makes
<1>3. /\ holds = {} /\ excused = {} /\ buildPhase = "ahead" /\ openSteps = 0
      /\ bag = {} /\ asked = FALSE
  BY DEF Init, RunnerInit, holds, excused, buildPhase, openSteps
<1>4. QED
  BY <1>1, <1>2, <1>3 DEF Init, Build!Init

LEMMA StepImplements == Inv /\ [Next]_vars => [Build!Next]_(Build!bvars)
<1> SUFFICES ASSUME Inv, [Next]_vars PROVE [Build!Next]_(Build!bvars)
  OBVIOUS
<1>1. CASE busy /\ (NoDriver \/ Report)
  BY <1>1, EndImplements
<1>2. CASE GuestGoesDown \/ OthersListen \/ UNCHANGED vars
  BY <1>2, WorldImplements
<1>3. CASE busy /\ (Code \/ ConnectTimeout \/ CallFails \/ ImportHalfway \/ Cancel) /\ ~Report
  <2>1. Effect
    BY <1>3, QuietStepEffect, MakingEffect, OutputDirEffect, UnregisterEffect,
       OtherCleanupEffect, NoCleanupEffect DEF Code
  <2>2. QED
    BY <1>3, <2>1, EffectImplements
<1>4. QED
  BY <1>1, <1>2, <1>3 DEF Next

\* Every behaviour of a build by VirtualBox or by Parallels, whatever fails and whenever it
\* is interrupted, is one of the abstract build.
THEOREM Implements == Spec => ImplementsBuild
BY Invariant, InitImplements, StepImplements, PTL DEF Spec, ImplementsBuild, Build!Spec

-----------------------------------------------------------------------------
(* What the abstract build comes to                                        *)

Makers == [n \in 1..last |-> Makes(Steps[n])]

\* Build!Owned, as the proof needs it.
Pending ==
  \A r \in holds :
    \/ r \in excused
    \/ r = "dir" /\ "halted" \notin bag /\ buildPhase # "ahead"
    \/ \E n \in 1..openSteps : r \in Makers[n]

LEMMA PendingKept ==
  ASSUME Inv, Pending, [Build!Next]_(Build!bvars)
  PROVE  Pending'
<1>1. openSteps \in Nat
  BY DEF Inv, TypeOK, RunnerTypeOK, Places, Placed, openSteps
<1>2. CASE UNCHANGED Build!bvars
  <2>1. UNCHANGED <<holds, excused, buildPhase, openSteps, Makers, "halted" \in bag>>
    BY <1>2 DEF Build!bvars, Build!list, Makers
  <2>2. QED
    BY <2>1 DEF Pending
<1>3. CASE Build!Enter
  <2>1. /\ openSteps' = openSteps + 1
        /\ UNCHANGED <<holds, excused, buildPhase, Makers, "halted" \in bag>>
    BY <1>3 DEF Build!Enter, Build!list, Makers
  <2>2. QED
    BY <1>1, <2>1 DEF Pending
<1>4. CASE Build!Run
  <2>1. /\ openSteps > 0 /\ buildPhase = "ahead" /\ excused \subseteq excused'
        /\ UNCHANGED <<openSteps, Makers>>
        /\ \A r \in holds' : r \in holds \/ r \in Makers[openSteps]
    BY <1>4 DEF Build!Run, Build!list, Makers
  <2>2. QED
    BY <1>1, <2>1 DEF Pending
<1>5. CASE Build!TurnBack
  <2>1. UNCHANGED <<holds, excused, openSteps, Makers>> /\ buildPhase = "ahead"
    BY <1>5 DEF Build!TurnBack, Build!list, Makers
  <2>2. QED
    BY <2>1 DEF Pending
<1>6. CASE Build!CleaningUp
  <2>1. /\ holds' \subseteq holds /\ excused \subseteq excused'
        /\ UNCHANGED <<buildPhase, openSteps, Makers, "halted" \in bag>>
    BY <1>6 DEF Build!CleaningUp, Build!list, Makers
  <2>2. QED
    BY <2>1 DEF Pending
<1>7. CASE Build!CleanedUp
  <2>1. /\ openSteps > 0 /\ openSteps' = openSteps - 1
        /\ holds' \subseteq holds /\ excused \subseteq excused' /\ buildPhase = "back"
        /\ UNCHANGED <<buildPhase, Makers, "halted" \in bag>>
        /\ \A r \in holds' : r \in Makers[openSteps]
                               => r \in excused' \/ (r = "dir" /\ "halted" \notin bag)
    BY <1>7 DEF Build!CleanedUp, Build!Accounts, Build!list, Makers
  <2>2. QED
    BY <1>1, <2>1 DEF Pending
<1>8. CASE Build!End
  <2>1. /\ buildPhase' # "ahead"
        /\ UNCHANGED <<holds, excused, openSteps, Makers, "halted" \in bag>>
    BY <1>8 DEF Build!End, Build!list, Makers
  <2>2. QED
    BY <2>1 DEF Pending
<1>9. CASE Build!Ask \/ Build!Refuse \/ Build!Panic \/ \E o \in Build!Outcomes : Build!Return(o)
  <2>1. UNCHANGED <<holds, excused, buildPhase, openSteps, Makers, "halted" \in bag>>
    BY <1>9 DEF Build!Ask, Build!Refuse, Build!Panic, Build!Return, Build!list, Makers
  <2>2. QED
    BY <2>1 DEF Pending
<1>10. CASE Build!Lose
  <2>1. /\ holds' \subseteq holds
        /\ UNCHANGED <<excused, buildPhase, openSteps, Makers, "halted" \in bag>>
    BY <1>10 DEF Build!Lose, Build!list, Makers
  <2>2. QED
    BY <2>1 DEF Pending
<1>11. QED
  BY <1>2, <1>3, <1>4, <1>5, <1>6, <1>7, <1>8, <1>9, <1>10 DEF Build!Next

\* In every state of a build what exists is accounted for, or is delivered, or the Cleanup of
\* the step that made it is still to come.  So when the build is over, whatever has failed and
\* whenever it was interrupted, all that is left of it is what the user was told of, what
\* `ignored` names, and the output directory if no step has halted it.
THEOREM EverythingAccounted == Spec => [](Build!Owned /\ Build!AllAccounted)
<1>1. Init => Pending
  BY DEF Init, RunnerInit, Pending, holds
<1>2. Inv /\ Pending /\ [Next]_vars => Pending'
  BY StepImplements, PendingKept
<1>3. Pending => Build!Owned
  BY DEF Pending, Makers, Build!Owned
<1>4. Inv /\ Pending => Build!AllAccounted
  <2> SUFFICES ASSUME Inv, Pending, buildPhase = "over"
               PROVE  \A r \in holds : r \in excused \/ (r = "dir" /\ "halted" \notin bag)
    BY DEF Build!AllAccounted, Build!Accounts
  <2>1. openSteps = 0
    BY DEF Inv, TypeOK, RunnerTypeOK, Modes, Places, Placed, buildPhase, openSteps
  <2>2. QED
    BY <2>1 DEF Pending
<1>5. QED
  BY Invariant, <1>1, <1>2, <1>3, <1>4, PTL DEF Spec

-----------------------------------------------------------------------------
(* A build counts down                                                     *)

\* The steps of the build itself, as opposed to the user's, the machine's and those of
\* other processes.
Own == Code \/ ConnectTimeout \/ CallFails \/ ImportHalfway \/ NoDriver

\* What is to be done before the runner moves: the tries left, or the second half of a
\* Run, and the note of an interrupt.
Inner ==
  (IF "cancelled" \in bag THEN 0 ELSE 1) +
  (IF mode = "run" /\ sub # "start" THEN 0 ELSE MaxTries - tries)

\* More than the number of steps a build can still take.
Rank == IF busy THEN 100 * Distance + Inner + 1 ELSE 0

Onward == Rank' <= Rank /\ (busy /\ Own => Rank' < Rank)

LEMMA InnerSmall == ASSUME Inv PROVE Inner \in 0..99
<1>1. tries \in 0..4
  BY DEF Inv, TypeOK, MaxTries
<1>2. QED
  BY <1>1 DEF Inner, MaxTries

LEMMA RankFalls ==
  ASSUME Inv, Inv', busy, Acts(Entries), UNCHANGED result,
         Inner' < Inner \/ ~UNCHANGED <<mode, at>>
  PROVE  Rank' < Rank /\ Rank' <= Rank
<1>1. Inner \in 0..99 /\ Inner' \in 0..99
  <2>1. tries' \in 0..4
    BY DEF Inv, TypeOK, MaxTries
  <2>2. \A t \in 0..4, f \in {0, 1} : f \in 0..99 /\ f + 0 \in 0..99 /\ f + (5 - t) \in 0..99
    OBVIOUS
  <2>3. Inner' \in 0..99
    BY <2>1, <2>2 DEF Inner, MaxTries
  <2>4. QED
    BY <2>3, InnerSmall
<1>2. /\ Distance \in Nat /\ Distance' \in Nat
      /\ UNCHANGED <<mode, at>> => Distance' = Distance
      /\ ~UNCHANGED <<mode, at>> => Distance' + 1 <= Distance
  BY InvSound, Nearer
<1>3. /\ Rank = 100 * Distance + Inner + 1
      /\ Rank' = 100 * Distance' + Inner' + 1
  BY DEF Rank, busy
<1>4. CASE ~UNCHANGED <<mode, at>>
  <2>1. Distance \in Nat /\ Distance' \in Nat /\ Distance' + 1 <= Distance
    BY <1>2, <1>4
  <2>2. /\ 100 * Distance' + Inner' + 1 < 100 * Distance + Inner + 1
        /\ 100 * Distance' + Inner' + 1 <= 100 * Distance + Inner + 1
    BY <1>1, <2>1, FirstDigit, Zenon
  <2>3. QED
    BY <1>3, <2>2
<1>5. CASE UNCHANGED <<mode, at>>
  <2>1. Distance' = Distance /\ Inner' < Inner
    BY <1>2, <1>5
  <2>2. /\ 100 * Distance + Inner' + 1 < 100 * Distance + Inner + 1
        /\ 100 * Distance + Inner' + 1 <= 100 * Distance + Inner + 1
    BY <1>1, <1>2, <2>1, SecondDigit
  <2>3. QED
    BY <1>3, <2>1, <2>2
<1>6. QED
  BY <1>4, <1>5

\* Most steps are a Run or a Cleanup that returns.
LEMMA Returning ==
  ASSUME Inv, busy, \/ LibraryStep \/ CallFails \/ ConnectTimeout \/ SetBootOrder
                    \/ OutputDir \/ RunMachine \/ StopMachine \/ Shutdown \/ RemoveDevices
                    \/ Import \/ ImportHalfway \/ AddDisk \/ AttachISO \/ DetachISO \/ HTTPServer
                    \/ CloseHTTPServer \/ AddRule \/ Connect \/ NoCleanup
  PROVE  ~UNCHANGED <<mode, at>>
<1>1. at \in Nat
  BY DEF Inv, TypeOK, RunnerTypeOK
<1>2. CASE \/ Ret(Continue) \/ Ret(Fail)
           \/ Ret(StepReturns("halt", {})) /\ "cancelled" \in bag
  BY <1>2, RunReturns
<1>3. CASE Ret(Cleaned)
  BY <1>1, <1>3, CleanupReturns
<1>4. CASE ConnectTimeout
  <2>1. Ret(Fail)
    BY <1>4 DEF ConnectTimeout, Ret, Fail
  <2>2. QED
    BY <1>2, <2>1
<1>5. CASE \/ LibraryStep \/ CallFails \/ SetBootOrder \/ OutputDir \/ RunMachine
           \/ StopMachine \/ Shutdown \/ RemoveDevices \/ Import \/ ImportHalfway
  BY <1>2, <1>3, <1>5 DEF LibraryStep, CallFails, SetBootOrder, OutputDir, RunMachine,
                          StopMachine, Shutdown, RemoveDevices, Import, ImportHalfway
<1>6. CASE \/ AddDisk \/ AttachISO \/ DetachISO \/ HTTPServer \/ CloseHTTPServer \/ AddRule
           \/ Connect \/ NoCleanup
  BY <1>2, <1>3, <1>6 DEF AddDisk, AttachISO, DetachISO, HTTPServer, CloseHTTPServer, AddRule,
                          Connect, NoCleanup
<1>7. QED
  BY <1>4, <1>5, <1>6

\* The others may go on to a part of the same Run or Cleanup that comes later, or try again.
LEMMA GoingOn ==
  ASSUME Inv, busy, CreateVM \/ CreateDisk \/ TryPort \/ Export \/ Unregister
  PROVE  Inner' < Inner \/ ~UNCHANGED <<mode, at>>
<1>1. at \in Nat /\ tries \in 0..4
  BY DEF Inv, TypeOK, RunnerTypeOK, MaxTries
<1>2. CASE Ret(Continue) \/ Ret(Cleaned)
  BY <1>1, <1>2, RunReturns, CleanupReturns
<1>3. CASE mode = "run" /\ sub = "start" /\ tries' = tries
           /\ (Goto("settings") \/ Goto("attach") \/ Goto("rule") \/ Goto("export"))
  BY <1>1, <1>3, GoesOn DEF Inner, MaxTries, Goto, runnerVars
<1>4. CASE mode = "clean" /\ tries' = tries + 1 /\ Goto("start")
  BY <1>1, <1>4 DEF Inner, MaxTries, Goto, runnerVars
<1>5. QED
  BY <1>2, <1>3, <1>4
     DEF CreateVM, CreateDisk, TryPort, Export, Unregister, Running, Cleaning, keepRest

LEMMA RunnerOnward ==
  ASSUME Inv, busy, RunnerStep
  PROVE  Inner' < Inner \/ ~UNCHANGED <<mode, at>>
<1>1. tries \in 0..4 /\ at \in Nat
  BY DEF Inv, TypeOK, RunnerTypeOK, MaxTries
<1>2. CASE FlagCancelled
  BY <1>1, <1>2 DEF RunnerStep, keepRest, FlagCancelled, Inner, MaxTries
<1>3. CASE Loop
  BY <1>1, <1>3 DEF Loop, StartRunner, EnterStep, LeaveLoop, EndRunner
<1>4. QED
  BY <1>2, <1>3 DEF RunnerStep

LEMMA RankNat == ASSUME Inv PROVE Rank \in Nat /\ (busy => Rank > 0)
<1>1. Distance \in Nat
  BY DEF Inv, TypeOK, RunnerTypeOK, Places, Placed, Modes, Distance
<1>2. QED
  BY <1>1, InnerSmall DEF Rank

\* Builder.Run returns.
LEMMA EndReturns ==
  ASSUME busy, NoDriver \/ Report
  PROVE  result' # "none"
<1>1. CASE NoDriver
  BY <1>1 DEF NoDriver
<1>2. CASE Report
  <2>1. CASE "error" \in bag
    BY <1>2, <2>1 DEF Report
  <2>2. CASE "error" \notin bag /\ "cancelled" \in bag
    BY <1>2, <2>2 DEF Report
  <2>3. CASE "error" \notin bag /\ "cancelled" \notin bag
    BY <1>2, <2>3 DEF Report
  <2>4. QED
    BY <2>1, <2>2, <2>3
<1>3. QED
  BY <1>1, <1>2

\* What others do leaves the rank as it is.
LEMMA WorldOnward ==
  ASSUME Inv, (busy /\ Cancel) \/ GuestGoesDown \/ OthersListen
  PROVE  Rank' <= Rank
<1>1. UNCHANGED <<mode, at, last, bag, sub, tries, result>>
  BY DEF Cancel, AskCancel, GuestGoesDown, OthersListen, runnerVars, keepRest
<1>2. Rank' = Rank
  BY <1>1 DEF Rank, busy, Inner, Distance
<1>3. QED
  BY <1>2, RankNat

LEMMA StepOnward == Inv /\ Inv' /\ [Next]_vars => [Onward]_vars
<1> SUFFICES ASSUME Inv, Inv', Next PROVE Onward
  OBVIOUS
<1>1. CASE busy /\ (NoDriver \/ Report)
  <2>1. result' # "none"
    BY <1>1, EndReturns
  <2>2. Rank' = 0 /\ Rank \in Nat /\ Rank > 0
    BY <1>1, <2>1, RankNat DEF Rank, busy
  <2>3. QED
    BY <2>2 DEF Onward
<1>2. CASE busy /\ Own /\ ~(NoDriver \/ Report)
  <2>1. Effect
    BY <1>2, QuietStepEffect, MakingEffect, OutputDirEffect, UnregisterEffect,
       OtherCleanupEffect, NoCleanupEffect DEF Own, Code
  <2>2. Inner' < Inner \/ ~UNCHANGED <<mode, at>>
    BY <1>2, Returning, GoingOn, RunnerOnward DEF Own, Code
  <2>3. Rank' < Rank /\ Rank' <= Rank
    BY <1>2, <2>1, <2>2, RankFalls DEF Effect
  <2>4. QED
    BY <2>3 DEF Onward
<1>3. CASE ~(busy /\ Own)
  BY <1>3, WorldOnward DEF Next, Own, Onward
<1>4. QED
  BY <1>1, <1>2, <1>3

\* Every step of the build itself brings it nearer its end, and nothing that others do takes
\* it back: the runner goes back to no step it has left, and unregistering the machine is no
\* endless loop.  A port drawn that is not free is no step of the module: that one is found
\* in the end is what InterruptEnds assumes.
THEOREM CountsDown == Spec => [][Onward]_vars
BY Invariant, StepOnward, PTL DEF Spec

=============================================================================
