----------------------- MODULE ScriptProvisionerProofs -----------------------
(***************************************************************************)
(* Proofs about ScriptProvisioner, for any number of scripts, any set of   *)
(* exit statuses and any number of lost shells: its type invariant and the *)
(* four safety properties of the run of the same name.                     *)
(*                                                                         *)
(* The phases of Provision and of its last command go together: a command  *)
(* is under way exactly while Provision awaits it.  On that rest the count *)
(* of the shells, what a command runs, and what its exit status means.     *)
(***************************************************************************)
EXTENDS ScriptProvisioner, TLAPS

Pending == cmd \in {"running", "ended", "cut"}

\* Where Provision is, unless the plugin is gone, and where its last command is.
Phases ==
  /\ pc = "done" <=> result # "none"
  /\ result # "exited" /\ Pending => pc = "await"
  /\ result # "exited" /\ shell => Pending
  /\ pc \in {"await", "check"} => cmd # "none"
  /\ i <= config.count

\* Every shell is that of the pending command, waits to be closed, or was given up.
Shells == result # "exited" => shells = (IF shell THEN 1 ELSE 0) + closing + leaks

\* After an upload the remote path holds the script, unless the guest went down since.
Remote ==
  /\ pc = "start" => remote = i \/ (remote = 0 /\ shaken)
  /\ RunsItsScript

\* A try or a command that something happened to is remembered as disturbed; of
\* any other command a valid exit status means that the script has run.
Outcomes ==
  /\ pc \in {"start", "await"} /\ shaken => i \in disturbed
  /\ pc \in {"upload", "start", "retry"} /\ config.elevated => wrapper \/ i \in disturbed
  /\ pc = "await" /\ cmd \in {"running", "ended"} => content = i \/ i \in disturbed
  /\ pc = "await" /\ cmd = "cut" => i \in disturbed
  /\ pc \in {"await", "check"} /\ cmd \in {"ended", "exited"} /\ code \in config.valid
       => i \in ran \cup disturbed
  /\ 1..(i - 1) \subseteq ran \cup disturbed
  /\ SuccessMeansRan

\* What was awaited to its end is behind Provision, and nothing else is.  A script that
\* has begun was awaited, is being awaited, or was begun by an Execute with a lost reply.
Awaited ==
  /\ over = 1..(i - 1) \/ (pc \in {"check", "done"} /\ over = 1..i)
  /\ pc = "check" => over = 1..i
  /\ result # "exited" =>
       begun \subseteq over \cup strays \cup (IF pc = "await" THEN {i} ELSE {})

Inv == TypeOK /\ Phases /\ Shells /\ Remote /\ Outcomes /\ Awaited

-----------------------------------------------------------------------------
(* Inv is inductive                                                        *)

\* What Prepare accepts it turns into a configuration with something to run.
LEMMA PreparedConfig ==
  ASSUME NEW t \in Templates, Accepts(t)
  PROVE  Prepared(t) \in Configs
<1>1. /\ t.kind \in {"powershell", "shell"} /\ t.scripts \in 0..Scripts
      /\ t.script \in BOOLEAN /\ t.inline \in BOOLEAN /\ t.user \in BOOLEAN
      /\ t.var \in VarForms /\ t.valid \in SUBSET Codes
  BY DEF Templates
<1>2. (IF t.script \/ t.inline THEN 1 ELSE t.scripts) \in 1..Scripts
  BY <1>1, CommunicatorAssumption DEF Accepts
<1>3. QED
  BY <1>1, <1>2 DEF Prepared, Configs

LEMMA InitInv == Init => Inv
<1> SUFFICES ASSUME Init PROVE Inv
  OBVIOUS
<1>1. config \in Configs
  BY PreparedConfig DEF Init
<1>2. config.count \in 1..Scripts
  BY <1>1 DEF Configs
<1>3. TypeOK
  <2>1. /\ up \in BOOLEAN /\ wrapper \in BOOLEAN /\ shell \in BOOLEAN
        /\ atStart \in BOOLEAN /\ shaken \in BOOLEAN
    BY DEF Init, CommInit
  <2>2. remote \in 0..Scripts /\ content \in 0..Scripts /\ i \in 1..Scripts /\ leaks \in 0..MaxLeaks
    BY CommunicatorAssumption DEF Init, CommInit
  <2>3. QED
    BY <1>1, <2>1, <2>2, CommunicatorAssumption
       DEF Init, CommInit, TypeOK, CommTypeOK, CmdStates, PCs, Failures
<1>4. Phases /\ Shells /\ Remote /\ Outcomes /\ Awaited
  BY <1>2 DEF Init, CommInit, Phases, Pending, Shells, Remote, RunsItsScript, Outcomes,
              SuccessMeansRan, Awaited
<1>5. QED
  BY <1>3, <1>4 DEF Inv

\* Before anything is started: the inline file, the local file, the environment.
LEMMA PreparationInv ==
  Inv /\ (Extract \/ OpenScript \/ CreateCommand \/ UploadRunner) => Inv'
<1> SUFFICES ASSUME Inv, Extract \/ OpenScript \/ CreateCommand \/ UploadRunner
             PROVE  Inv'
  OBVIOUS
<1> USE DEF Inv, Goto, Return, commVars, guestVars, cmdVars, shellVars, history
<1>1. /\ pc \in {"extract", "open", "openNothing", "command", "wrap"}
      /\ UNCHANGED <<up, remote, shells, cmd, content, code, shell, closing, leaks, strays,
                     config, i, ran, begun, over, disturbed, shaken>>
  BY DEF Extract, Inline, OpenScript, CreateCommand, UploadRunner, UploadWrapper
<1>2. /\ pc' \in {"open", "openNothing", "command", "wrap", "upload", "done"}
      /\ (pc' = "done") <=> (result' # "none")
      /\ result' \in {"none"} \cup Failures
      /\ wrapper' \in BOOLEAN /\ atStart' \in BOOLEAN /\ timer' \in {"off", "armed", "fired"}
      /\ pc' = "upload" /\ config.elevated => wrapper'
  BY DEF Extract, Inline, OpenScript, CreateCommand, UploadRunner, UploadWrapper, Failures,
         TypeOK, CommTypeOK, Phases
<1>3. TypeOK'
  BY <1>1, <1>2 DEF TypeOK, CommTypeOK, PCs, Failures
<1>4. Phases' /\ Shells'
  BY <1>1, <1>2 DEF Phases, Shells, Pending, Failures
<1>5. Remote' /\ Outcomes'
  BY <1>1, <1>2 DEF Remote, RunsItsScript, Outcomes, SuccessMeansRan, Failures
<1>6. Awaited'
  <2>1. result = "none" /\ pc # "await" /\ pc' \notin {"await", "check"}
    BY <1>1, <1>2 DEF Phases
  <2>2. QED
    BY <1>1, <2>1 DEF Awaited
<1>7. QED
  BY <1>3, <1>4, <1>5, <1>6

\* A try: the script is uploaded and started, or the timer is polled.
LEMMA UploadInv == Inv /\ UploadScript => Inv'
<1> SUFFICES ASSUME Inv, UploadScript PROVE Inv'
  OBVIOUS
<1> USE DEF Inv
<1>1. /\ pc = "upload" /\ result = "none" /\ shaken' = FALSE /\ atStart' = FALSE
      /\ \/ pc' = "start" /\ remote' = i
         \/ pc' = "retry" /\ remote' \in {remote, 0, i}
      /\ UNCHANGED <<up, wrapper, shells, cmd, content, code, shell, closing, leaks, strays,
                     config, i, timer, result, ran, begun, over, disturbed>>
  BY DEF UploadScript, Upload, UploadFails, Goto, cmdVars, shellVars, Phases
<1>2. TypeOK'
  <2>1. shaken' \in BOOLEAN /\ atStart' \in BOOLEAN
    BY <1>1
  <2>2. remote' \in 0..Scripts
    BY <1>1, CommunicatorAssumption DEF TypeOK, CommTypeOK
  <2>3. QED
    BY <1>1, <2>1, <2>2 DEF TypeOK, CommTypeOK, PCs
<1>3. Phases' /\ Shells'
  BY <1>1 DEF Phases, Shells, Pending
<1>4. Remote' /\ Outcomes' /\ Awaited'
  BY <1>1 DEF Phases, Pending, Remote, RunsItsScript, Outcomes, SuccessMeansRan, Awaited
<1>5. QED
  BY <1>2, <1>3, <1>4

LEMMA StartInv == Inv /\ StartScript => Inv'
<1> SUFFICES ASSUME Inv, StartScript PROVE Inv'
  OBVIOUS
<1> USE DEF Inv
<1>1. /\ pc = "start" /\ result = "none" /\ ~shell /\ cmd \in {"none", "exited"}
      /\ UNCHANGED <<up, remote, wrapper, code, closing, config, i, atStart, timer, result,
                     ran, over, disturbed, shaken>>
  BY DEF StartScript, Start, StartRefused, LoseShell, ExecuteFails, Goto, commVars,
         guestVars, cmdVars, shellVars, history, Phases, Pending, TypeOK, CommTypeOK, CmdStates
<1>2. CASE /\ pc' = "await" /\ cmd' = "running" /\ content' = Runnable
           /\ shells' = shells + 1 /\ shell' = TRUE /\ leaks' = leaks
           /\ strays' = strays /\ begun' = begun \cup ({Runnable} \ {0})
  <2>1. /\ content' \in {i, 0}
        /\ content' = 0 => i \in disturbed
        /\ content' = 0 => shaken \/ config.elevated
    BY <1>1, <1>2 DEF Runnable, Remote, Outcomes, TypeOK
  <2>2. TypeOK'
    <3>1. shell' \in BOOLEAN
      BY <1>2
    <3>2. /\ content' \in 0..Scripts /\ shells' \in Nat /\ leaks' \in 0..MaxLeaks
          /\ begun' \subseteq 1..Scripts
      BY <1>2, <2>1, CommunicatorAssumption DEF TypeOK, CommTypeOK
    <3>3. QED
      BY <1>1, <1>2, <3>1, <3>2 DEF TypeOK, CommTypeOK, CmdStates, PCs
  <2>3. Phases' /\ Shells'
    BY <1>1, <1>2 DEF Phases, Shells, Pending, TypeOK, CommTypeOK
  <2>4. Remote' /\ Outcomes' /\ Awaited'
    BY <1>1, <1>2, <2>1 DEF Remote, RunsItsScript, Outcomes, SuccessMeansRan, Awaited
  <2>5. QED
    BY <2>2, <2>3, <2>4
<1>3. CASE /\ pc' = "retry"
           /\ \/ leaks < MaxLeaks /\ shells' = shells + 1 /\ leaks' = leaks + 1
              \/ UNCHANGED <<shells, leaks>>
           /\ strays' \in {strays, strays \cup ({Runnable} \ {0})}
           /\ begun' = begun \cup strays'
           /\ UNCHANGED <<cmd, content, shell>>
  <2>1. TypeOK'
    <3>1. Runnable \in 0..Scripts
      BY CommunicatorAssumption DEF Runnable, TypeOK, CommTypeOK
    <3>2. strays' \subseteq 1..Scripts /\ begun' \subseteq 1..Scripts
      BY <1>3, <3>1, CommunicatorAssumption DEF TypeOK, CommTypeOK
    <3>3. QED
      BY <1>1, <1>3, <3>2, CommunicatorAssumption DEF TypeOK, CommTypeOK, PCs
  <2>2. Phases' /\ Shells'
    BY <1>1, <1>3 DEF Phases, Shells, Pending, TypeOK, CommTypeOK
  <2>3. Remote' /\ Outcomes' /\ Awaited'
    BY <1>1, <1>3 DEF Remote, RunsItsScript, Outcomes, SuccessMeansRan, Awaited
  <2>4. QED
    BY <2>1, <2>2, <2>3
<1>4. QED
  BY <1>2, <1>3 DEF StartScript, Start, StartRefused, LoseShell, ExecuteFails, Goto, commVars,
                    guestVars, cmdVars, shellVars

LEMMA RetryInv == Inv /\ Retry => Inv'
<1> SUFFICES ASSUME Inv, Retry PROVE Inv'
  OBVIOUS
<1> USE DEF Inv
<1>1. /\ pc = "retry" /\ result = "none"
      /\ \/ pc' = "done" /\ result' = "notStarted"
         \/ pc' = "upload" /\ result' = result
      /\ UNCHANGED <<commVars, config, i, atStart, timer, history>>
  BY DEF Retry, Goto, Return, Phases
<1> USE DEF commVars, guestVars, cmdVars, shellVars, history
<1>2. TypeOK'
  BY <1>1 DEF TypeOK, CommTypeOK, PCs, Failures
<1>3. Phases' /\ Shells'
  BY <1>1 DEF Phases, Shells, Pending
<1>4. Remote' /\ Outcomes' /\ Awaited'
  BY <1>1 DEF Phases, Remote, RunsItsScript, Outcomes, SuccessMeansRan, Awaited
<1>5. QED
  BY <1>2, <1>3, <1>4

\* The command is over, and its exit status decides what comes next.
LEMMA ReturnsInv == Inv /\ StartReturns => Inv'
<1> SUFFICES ASSUME Inv, StartReturns PROVE Inv'
  OBVIOUS
<1> USE DEF Inv
<1>1. /\ pc = "await" /\ cmd = "exited" /\ pc' = "check" /\ over' = over \cup {i}
      /\ result = "none" /\ result' = result
      /\ UNCHANGED <<commVars, config, i, atStart, timer, ran, begun, disturbed, shaken>>
  BY DEF StartReturns, Goto, Phases
<1> USE DEF commVars, guestVars, cmdVars, shellVars
<1>2. TypeOK'
  BY <1>1 DEF TypeOK, CommTypeOK, PCs
<1>3. Phases' /\ Shells'
  BY <1>1 DEF Phases, Shells, Pending
<1>4. Remote' /\ Outcomes'
  BY <1>1 DEF Remote, RunsItsScript, Outcomes, SuccessMeansRan
<1>5. Awaited'
  BY <1>1 DEF Awaited, TypeOK
<1>6. QED
  BY <1>2, <1>3, <1>4, <1>5

LEMMA CheckInv == Inv /\ CheckExit => Inv'
<1> SUFFICES ASSUME Inv, CheckExit PROVE Inv'
  OBVIOUS
<1> USE DEF Inv, commVars, guestVars, cmdVars, shellVars, history
<1>1. /\ pc = "check" /\ result = "none" /\ cmd = "exited" /\ ~shell /\ timer' = "off"
      /\ UNCHANGED <<commVars, config, atStart, history>>
  BY DEF CheckExit, Phases, Pending, TypeOK, CommTypeOK, CmdStates
<1>2. i \in 1..config.count /\ config.count \in 1..Scripts
  BY DEF TypeOK, Configs, Phases
<1>3. CASE i < config.count /\ i' = i + 1 /\ pc' = "open" /\ result' = result
           /\ code \in config.valid
  <2>1. i' \in 2..config.count /\ i' \in 1..Scripts
    BY <1>2, <1>3, CommunicatorAssumption
  <2>2. TypeOK'
    BY <1>1, <1>3, <2>1 DEF TypeOK, CommTypeOK, PCs
  <2>3. Phases' /\ Shells'
    BY <1>1, <1>3, <2>1 DEF Phases, Shells, Pending
  <2>4. 1..(i' - 1) \subseteq ran \cup disturbed
    BY <1>1, <1>2, <1>3 DEF Outcomes
  <2>5. Remote' /\ Outcomes'
    BY <1>1, <1>3, <2>4 DEF Remote, RunsItsScript, Outcomes, SuccessMeansRan
  <2>6. Awaited'
    BY <1>1, <1>2, <1>3 DEF Awaited
  <2>7. QED
    BY <2>2, <2>3, <2>5, <2>6
<1>4. CASE /\ pc' = "done" /\ i' = i
           /\ \/ result' = "badExit"
              \/ result' = "ok" /\ i = config.count /\ code \in config.valid
  <2>1. TypeOK'
    BY <1>1, <1>4 DEF TypeOK, CommTypeOK, PCs, Failures
  <2>2. Phases' /\ Shells'
    BY <1>1, <1>4 DEF Phases, Shells, Pending
  <2>3. SuccessMeansRan'
    BY <1>1, <1>2, <1>4 DEF Outcomes, SuccessMeansRan
  <2>4. Remote' /\ Outcomes' /\ Awaited'
    BY <1>1, <1>4, <2>3 DEF Remote, RunsItsScript, Outcomes, Awaited
  <2>5. QED
    BY <2>1, <2>2, <2>4
<1>5. QED
  BY <1>1, <1>2, <1>3, <1>4 DEF CheckExit, NextScript, Goto, Return

\* runCommand: the status is set while Provision awaits it; the shell is closed later.
LEMMA RunCommandInv == Inv /\ RunCommand => Inv'
<1> SUFFICES ASSUME Inv, RunCommand PROVE Inv'
  OBVIOUS
<1> USE DEF Inv, provVars, history, guestVars, cmdVars
<1>1. CASE SetExited
  <2>1. /\ cmd \in {"ended", "cut"} /\ cmd' = "exited" /\ pc = "await" /\ result = "none"
        /\ code' \in Codes /\ (cmd = "ended" => code' = code)
        /\ shell' = FALSE /\ closing' = IF shell THEN closing + 1 ELSE closing
        /\ UNCHANGED <<up, remote, wrapper, shells, content, leaks, strays, config, pc, i, atStart,
                       timer, result, ran, begun, over, disturbed, shaken>>
    BY <1>1 DEF RunCommand, SetExited, Phases, Pending, TypeOK, CommTypeOK
  <2>2. TypeOK'
    <3>1. shell' \in BOOLEAN
      BY <2>1
    <3>2. closing' \in Nat
      BY <2>1 DEF TypeOK, CommTypeOK
    <3>3. QED
      BY <2>1, <3>1, <3>2 DEF TypeOK, CommTypeOK, CmdStates
  <2>3. Phases' /\ Shells'
    BY <2>1 DEF Phases, Shells, Pending, TypeOK, CommTypeOK
  <2>4. Remote' /\ Outcomes' /\ Awaited'
    BY <2>1 DEF Remote, RunsItsScript, Outcomes, SuccessMeansRan, Awaited
  <2>5. QED
    BY <2>2, <2>3, <2>4
<1>2. CASE CloseShell
  <2>1. /\ result # "exited" /\ closing > 0 /\ closing' = closing - 1
        /\ \/ shells' = shells - 1 /\ leaks' = leaks
           \/ leaks < MaxLeaks /\ leaks' = leaks + 1 /\ shells' = shells
        /\ UNCHANGED <<up, remote, wrapper, cmd, content, code, shell, strays, config, pc, i, atStart,
                       timer, result, ran, begun, over, disturbed, shaken>>
    BY <1>2 DEF RunCommand, CloseShell
  <2>2. shells' \in Nat /\ closing' \in Nat /\ leaks' \in 0..MaxLeaks
    BY <2>1, CommunicatorAssumption DEF Shells, TypeOK, CommTypeOK
  <2>3. TypeOK'
    BY <2>1, <2>2 DEF TypeOK, CommTypeOK
  <2>4. Phases' /\ Shells'
    BY <2>1 DEF Phases, Shells, Pending, TypeOK, CommTypeOK
  <2>5. Remote' /\ Outcomes' /\ Awaited'
    BY <2>1 DEF Remote, RunsItsScript, Outcomes, SuccessMeansRan, Awaited
  <2>6. QED
    BY <2>3, <2>4, <2>5
<1>3. QED
  BY <1>1, <1>2 DEF RunCommand

LEMMA CancelInv == Inv /\ Cancel => Inv'
<1> SUFFICES ASSUME Inv, Cancel PROVE Inv'
  OBVIOUS
<1> USE DEF Inv, history, guestVars, cmdVars
<1>1. /\ pc' = "done" /\ result' = "exited" /\ closing' = 0
      /\ UNCHANGED <<up, remote, wrapper, shells, cmd, content, code, shell, leaks, strays,
                     config, i, atStart, timer, ran, begun, over, disturbed, shaken>>
  BY DEF Cancel, Return
<1>2. TypeOK'
  BY <1>1 DEF TypeOK, CommTypeOK, PCs
<1>3. Phases' /\ Shells'
  BY <1>1 DEF Phases, Shells
<1>4. Remote' /\ Outcomes' /\ Awaited'
  BY <1>1 DEF Remote, RunsItsScript, Outcomes, SuccessMeansRan, Awaited
<1>5. QED
  BY <1>2, <1>3, <1>4

\* The guest runs the command to its end, ...
LEMMA ScriptEndsInv == Inv /\ ScriptEnds => Inv'
<1> SUFFICES ASSUME Inv, ScriptEnds PROVE Inv'
  OBVIOUS
<1> USE DEF Inv, provVars, guestVars, shellVars
<1>1. /\ cmd = "running" /\ cmd' = "ended" /\ code' \in Codes
      /\ ran' = IF content = i /\ code' \in config.valid THEN ran \cup {i} ELSE ran
      /\ UNCHANGED <<up, remote, wrapper, shells, content, shell, closing, leaks, strays,
                     config, pc, i, atStart, timer, result, begun, over, disturbed, shaken>>
  BY DEF ScriptEnds, CommandEnds
<1>2. TypeOK'
  BY <1>1 DEF TypeOK, CommTypeOK, CmdStates
<1>3. Phases' /\ Shells'
  BY <1>1 DEF Phases, Shells, Pending
<1>4. Remote' /\ Outcomes' /\ Awaited'
  BY <1>1 DEF Phases, Pending, Remote, RunsItsScript, Outcomes, SuccessMeansRan, Awaited
<1>5. QED
  BY <1>2, <1>3, <1>4

\* ... or goes down, or the plugin loses the command: that is remembered.
LEMMA DisturbInv == Inv /\ Disturb => Inv'
<1> SUFFICES ASSUME Inv, Disturb PROVE Inv'
  OBVIOUS
<1> USE DEF Inv, provVars, guestVars, shellVars
<1>1. /\ disturbed' = disturbed \cup {i}
      /\ UNCHANGED <<content, code, strays, config, pc, i, atStart, timer, result, ran, begun,
                     over>>
      /\ cmd' = IF cmd = "running" THEN "cut" ELSE cmd
    BY DEF Disturb, GuestGoesDown, CommandLost
<1>2. CASE GuestGoesDown /\ shaken' = TRUE
  <2>1. /\ remote' \in {remote, 0} /\ wrapper' \in {wrapper, FALSE}
        /\ shells' = 0 /\ shell' = FALSE /\ closing' = 0 /\ leaks' = 0
    BY <1>2 DEF GuestGoesDown
  <2>2. TypeOK'
    <3>1. shell' \in BOOLEAN /\ shaken' \in BOOLEAN /\ up' \in BOOLEAN
      BY <1>2 DEF GuestGoesDown
    <3>2. wrapper' \in BOOLEAN
      BY <2>1 DEF TypeOK, CommTypeOK
    <3>3. QED
      BY <1>1, <2>1, <3>1, <3>2, CommunicatorAssumption DEF TypeOK, CommTypeOK, CmdStates
  <2>3. Phases' /\ Shells'
    BY <1>1, <2>1 DEF Phases, Shells, Pending
  <2>4. Remote' /\ Outcomes' /\ Awaited'
    BY <1>1, <1>2, <2>1 DEF Remote, RunsItsScript, Outcomes, SuccessMeansRan, Awaited
  <2>5. QED
    BY <2>2, <2>3, <2>4
<1>3. CASE CommandLost /\ shaken' = shaken
  <2>1. UNCHANGED <<up, remote, wrapper, shells, shell, closing, leaks, shaken>>
    BY <1>3 DEF CommandLost
  <2>2. TypeOK'
    BY <1>1, <2>1 DEF TypeOK, CommTypeOK, CmdStates
  <2>3. Phases' /\ Shells'
    BY <1>1, <2>1 DEF Phases, Shells, Pending
  <2>4. Remote' /\ Outcomes' /\ Awaited'
    BY <1>1, <2>1 DEF Remote, RunsItsScript, Outcomes, SuccessMeansRan, Awaited
  <2>5. QED
    BY <2>2, <2>3, <2>4
<1>4. QED
  BY <1>2, <1>3 DEF Disturb

\* A timer fires, the guest comes up, or nothing happens.
LEMMA RestInv == Inv /\ (Expire \/ Boot \/ UNCHANGED vars) => Inv'
<1> SUFFICES ASSUME Inv, Expire \/ Boot \/ UNCHANGED vars PROVE Inv'
  OBVIOUS
<1> USE DEF Inv, vars, provVars, commVars, guestVars, cmdVars, shellVars, history
<1>1. /\ up' \in BOOLEAN /\ timer' \in {"off", "armed", "fired"}
      /\ UNCHANGED <<remote, wrapper, shells, cmdVars, shellVars, strays, config, pc, i, atStart,
                     result, history>>
  BY DEF Expire, Boot, GuestComesUp, TypeOK, CommTypeOK
<1>2. TypeOK'
  BY <1>1 DEF TypeOK, CommTypeOK
<1>3. Phases' /\ Shells'
  BY <1>1 DEF Phases, Shells, Pending
<1>4. Remote' /\ Outcomes' /\ Awaited'
  BY <1>1 DEF Remote, RunsItsScript, Outcomes, SuccessMeansRan, Awaited
<1>5. QED
  BY <1>2, <1>3, <1>4

LEMMA NextInv == Inv /\ [Next]_vars => Inv'
BY PreparationInv, UploadInv, StartInv, RetryInv, ReturnsInv, CheckInv, RunCommandInv,
   CancelInv, ScriptEndsInv, DisturbInv, RestInv DEF Next, Provision

LEMMA Inductive == Spec => []Inv
BY InitInv, NextInv, PTL DEF Spec

-----------------------------------------------------------------------------
(* Theorems                                                                *)

\* The variables of Provision and of the communicator keep their types; in particular
\* the counts of shells never fall below zero.
THEOREM TypeCorrect == Spec => []TypeOK
<1>1. Inv => TypeOK
  BY DEF Inv
<1>2. QED
  BY <1>1, Inductive, PTL

\* Provision returns no error only if every script has run to a valid exit status,
\* except those at whose turn the guest or the connection was disturbed.
THEOREM SuccessIsRan == Spec => []SuccessMeansRan
<1>1. Inv => SuccessMeansRan
  BY DEF Inv, Outcomes
<1>2. QED
  BY <1>1, Inductive, PTL

\* A retry never runs an older script, nor a part of one, unless the guest went down.
THEOREM OwnScript == Spec => []RunsItsScript
<1>1. Inv => RunsItsScript
  BY DEF Inv, Remote
<1>2. QED
  BY <1>1, Inductive, PTL

\* When Provision has returned, the shells still open are those that are being closed
\* and those whose CreateShell, Execute or Close failed.
THEOREM ShellsAreAccounted == Spec => []ShellsAccounted
<1>1. Inv => ShellsAccounted
  BY DEF Inv, Phases, Pending, Shells, ShellsAccounted, TypeOK, CommTypeOK
<1>2. QED
  BY <1>1, Inductive, PTL

\* retryable never starts a command for a script of which one was awaited to its end, and
\* NextScript never goes on before that; a script is begun a second time only if the first
\* was an Execute that lost its reply.
THEOREM InTurn == Spec => RunsInTurn
<1>1. ASSUME Inv, Next, cmd' = "running", cmd # "running"
      PROVE  /\ over = 1..(i - 1)
             /\ content' \in begun => content' \in strays
  <2>1. StartScript
    BY <1>1 DEF Next, Provision, Extract, OpenScript, CreateCommand, UploadRunner,
           UploadWrapper, UploadScript, Upload, UploadFails, StartReturns, Retry, CheckExit,
           RunCommand, SetExited, CloseShell, Cancel, Expire, ScriptEnds, CommandEnds,
           Disturb, GuestGoesDown, CommandLost, Boot, GuestComesUp, commVars, guestVars,
           cmdVars
  <2>2. pc = "start" /\ content' = Runnable
    BY <1>1, <2>1 DEF StartScript, Start, StartRefused, LoseShell, ExecuteFails, commVars,
           cmdVars
  <2>3. content' \in {i, 0}
    BY <1>1, <2>2 DEF Inv, Remote, Runnable
  <2>4. over = 1..(i - 1) /\ begun \subseteq over \cup strays
    BY <1>1, <2>2 DEF Inv, Phases, Awaited
  <2>5. content' \notin over
    BY <1>1, <2>3, <2>4 DEF Inv, TypeOK
  <2>6. QED
    BY <2>4, <2>5
<1>2. Inv /\ [Next]_vars => [cmd' = "running" /\ cmd # "running" =>
                               /\ over = 1..(i - 1)
                               /\ content' \in begun => content' \in strays]_vars
  BY <1>1
<1>3. QED
  BY <1>2, Inductive, PTL DEF Spec, RunsInTurn

=============================================================================
