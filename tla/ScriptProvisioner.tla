-------------------------- MODULE ScriptProvisioner --------------------------
(***************************************************************************)
(* provisioner/powershell and provisioner/windows-shell: Prepare,          *)
(* Provision with its retryable, and Cancel, over the WinRM communicator.  *)
(*                                                                         *)
(* Provision takes the scripts one after another.  Each is uploaded to the *)
(* same remote path and its command started, both inside retryable; then   *)
(* the command is awaited and its exit status compared with the valid      *)
(* ones.  With an elevated user the command runs a wrapper, uploaded       *)
(* before retryable is entered, that runs the script as a scheduled task.  *)
(***************************************************************************)
EXTENDS Communicator

VARIABLES
  config,     \* what Prepare has made of the template
  pc,         \* where Provision is
  i,          \* the script it is at
  atStart,    \* the script's local file is positioned at its start
  timer,      \* startTimeout of the current retryable
  result,     \* what Provision returned
  ran,        \* scripts that ran whole on the guest and exited with a valid status
  begun,      \* scripts that a command on the guest has begun to run, awaited or not
  over,       \* scripts of which a command was awaited and is over
  disturbed,  \* scripts at whose turn the guest went down or a command was cut off
  shaken      \* the guest went down since the current try began

provVars == <<config, pc, i, atStart, timer, result>>
history  == <<ran, begun, over, disturbed, shaken>>
vars     == <<commVars, provVars, history>>

-----------------------------------------------------------------------------
(* Prepare                                                                 *)

\* An environment variable: "FOO=bar", "FOOBAR", "=bar" or "FOO=a=b".
VarForms == {"plain", "noEquals", "noName", "twoEquals"}

\* The keys of a template.  windows-shell knows neither an elevated user nor
\* valid_exit_codes ({0} stands for their absence).
Templates ==
  { t \in [kind: {"powershell", "shell"}, script: BOOLEAN, scripts: 0..Scripts,
           inline: BOOLEAN, user: BOOLEAN, password: BOOLEAN, var: VarForms,
           valid: SUBSET Codes] :
    t.kind = "shell" => ~t.user /\ ~t.password /\ t.valid = {0} }

\* SplitN(kv, "=", 2) yields two parts, the first not empty.
GoodVariable(var) == var \in {"plain", "twoEquals"}

\* elevated_user and elevated_password come together.
ElevationComplete(t) == t.user <=> t.password

\* Prepare returns no error.
Accepts(t) ==
  /\ ~(t.script /\ t.scripts > 0)
  /\ ElevationComplete(t)
  /\ (t.script \/ t.scripts > 0) # t.inline
  /\ GoodVariable(t.var)

Prepared(t) ==
  [kind |-> t.kind, elevated |-> t.user, inline |-> t.inline, var |-> t.var,
   valid |-> t.valid, count |-> IF t.script \/ t.inline THEN 1 ELSE t.scripts]

Configs == [kind: {"powershell", "shell"}, elevated: BOOLEAN, inline: BOOLEAN,
            var: VarForms, valid: SUBSET Codes, count: 1..Scripts]

-----------------------------------------------------------------------------

PCs == {"extract", "open", "openNothing", "command", "wrap", "upload", "start",
        "await", "check", "retry", "done"}

Failures == {"noScript", "badVariables", "noWrapper", "notStarted", "badExit"}

TypeOK ==
  /\ CommTypeOK
  /\ config \in Configs
  /\ pc \in PCs
  /\ i \in 1..Scripts
  /\ atStart \in BOOLEAN
  /\ timer \in {"off", "armed", "fired"}
  /\ result \in {"none", "ok", "exited"} \cup Failures
  /\ ran \subseteq 1..Scripts /\ begun \subseteq 1..Scripts /\ over \subseteq 1..Scripts
  /\ disturbed \subseteq 1..Scripts
  /\ shaken \in BOOLEAN

Init ==
  /\ CommInit
  /\ \E t \in Templates : Accepts(t) /\ config = Prepared(t)
  /\ pc = "extract" /\ i = 1 /\ atStart = TRUE /\ timer = "off" /\ result = "none"
  /\ ran = {} /\ begun = {} /\ over = {} /\ disturbed = {} /\ shaken = FALSE

-----------------------------------------------------------------------------
(* Provision                                                               *)

Goto(p)   == pc' = p /\ UNCHANGED result
Return(r) == pc' = "done" /\ result' = r

\* extractScript.  If it fails the user is told, and "" takes the place of the file.
Inline == Goto("open") \/ Goto("openNothing")

Extract ==
  /\ pc = "extract"
  /\ IF config.inline THEN Inline ELSE Goto("open")
  /\ UNCHANGED <<commVars, config, i, atStart, timer, history>>

\* os.Open of the next script.
OpenScript ==
  /\ \/ pc = "open" /\ Goto("command")
     \/ pc \in {"open", "openNothing"} /\ Return("noScript")
  /\ atStart' = TRUE
  /\ UNCHANGED <<commVars, config, i, timer, history>>

\* Split(kv, "=") yields two parts: neither fewer nor, unlike in Prepare, more.
TwoParts(var) == var \in {"plain", "noName"}

\* createFlattenedEnvVars, and the template of the command.  The wrapper of each
\* script has a name of its own.
CreateCommand ==
  /\ pc = "command"
  /\ IF TwoParts(config.var)
       THEN Goto(IF config.elevated THEN "wrap" ELSE "upload")
       ELSE Return("badVariables")
  /\ wrapper' = FALSE
  /\ timer' = "armed"
  /\ UNCHANGED <<up, remote, shells, cmdVars, shellVars, strays, config, i, atStart, history>>

\* generateElevatedRunner: one upload, whose failure ends Provision.
UploadRunner ==
  /\ pc = "wrap"
  /\ \/ UploadWrapper /\ Goto("upload")
     \/ UNCHANGED commVars /\ Return("noWrapper")
  /\ UNCHANGED <<config, i, atStart, timer, history>>

\* Slip: the file is not rewound.
SlipNoSeek ==
  /\ pc = "upload"
  /\ \/ Upload(IF atStart THEN i ELSE 0) /\ Goto("start")
     \/ UploadFails(IF atStart THEN i ELSE 0) /\ Goto("retry")
  /\ atStart' = FALSE
  /\ shaken' = FALSE
  /\ UNCHANGED <<config, i, timer, ran, begun, over, disturbed>>

\* f.Seek and comm.Upload, the first half of the function that is retried.
UploadScript ==
  /\ pc = "upload"
  /\ \/ Upload(i) /\ Goto("start")
     \/ UploadFails(i) /\ Goto("retry")
  /\ atStart' = FALSE
  /\ shaken' = FALSE
  /\ UNCHANGED <<config, i, timer, ran, begun, over, disturbed>>

\* The command line names the remote path, or the wrapper, which names it in turn.
Runnable == IF config.elevated /\ ~wrapper THEN 0 ELSE remote

\* Its second half, cmd.StartWithUi, as far as comm.Start.
StartScript ==
  /\ pc = "start"
  /\ \/ /\ Start(Runnable)
        /\ begun' = begun \cup ({Runnable} \ {0})
        /\ Goto("await")
     \/ /\ StartRefused \/ ExecuteFails(Runnable)
        /\ begun' = begun \cup strays'
        /\ Goto("retry")
  /\ UNCHANGED <<config, i, atStart, timer, ran, over, disturbed, shaken>>

\* StartWithUi returns once the exit status is set.
StartReturns ==
  /\ pc = "await"
  /\ cmd = "exited"
  /\ over' = over \cup {i}
  /\ Goto("check")
  /\ UNCHANGED <<commVars, config, i, atStart, timer, ran, begun, disturbed, shaken>>

\* Slip: a new timer is polled each time.
SlipRearms ==
  /\ pc = "retry"
  /\ Goto("upload")
  /\ timer' = "armed"
  /\ UNCHANGED <<commVars, config, i, atStart, history>>

\* retryable after an error: the timer is polled, and a sleep precedes the next try.
Retry ==
  /\ pc = "retry"
  /\ IF timer = "fired" THEN Return("notStarted") ELSE Goto("upload")
  /\ UNCHANGED <<commVars, config, i, atStart, timer, history>>

\* Slip: one script too many.
SlipOneMore ==
  IF i <= config.count THEN Goto("open") /\ i' = i + 1
                       ELSE Return("ok") /\ UNCHANGED i

NextScript ==
  /\ IF i < config.count THEN Goto("open") /\ i' = i + 1
                         ELSE Return("ok") /\ UNCHANGED i

\* Slip: an exit status that is not valid is retried like a failed start.
SlipRetriesExit ==
  /\ pc = "check"
  /\ IF code \in config.valid THEN NextScript /\ timer' = "off"
                              ELSE Goto("retry") /\ UNCHANGED <<i, timer>>
  /\ UNCHANGED <<commVars, config, atStart, history>>

\* Slip: 0 is valid whatever valid_exit_codes says.
SlipZeroIsValid ==
  /\ pc = "check"
  /\ IF code \in config.valid \cup {0} THEN NextScript ELSE Return("badExit") /\ UNCHANGED i
  /\ timer' = "off"
  /\ UNCHANGED <<commVars, config, atStart, history>>

CheckExit ==
  /\ pc = "check"
  /\ IF code \in config.valid THEN NextScript ELSE Return("badExit") /\ UNCHANGED i
  /\ timer' = "off"
  /\ UNCHANGED <<commVars, config, atStart, history>>

\* os.Exit(0) from another goroutine: the plugin is gone, runCommands and all.
Cancel ==
  /\ result = "none"
  /\ Return("exited")
  /\ closing' = 0
  /\ UNCHANGED <<guestVars, cmdVars, shell, leaks, strays, config, i, atStart, timer, history>>

-----------------------------------------------------------------------------
(* The rest of the world                                                   *)

Expire ==
  /\ timer = "armed"
  /\ timer' = "fired"
  /\ UNCHANGED <<commVars, config, pc, i, atStart, result, history>>

RunCommand ==
  /\ result # "exited"
  /\ SetExited \/ CloseShell
  /\ UNCHANGED <<provVars, history>>

ScriptEnds ==
  /\ CommandEnds
  /\ ran' = IF content = i /\ code' \in config.valid THEN ran \cup {i} ELSE ran
  /\ UNCHANGED <<provVars, begun, over, disturbed, shaken>>

Disturb ==
  /\ \/ GuestGoesDown /\ shaken' = TRUE
     \/ CommandLost /\ UNCHANGED shaken
  /\ disturbed' = disturbed \cup {i}
  /\ UNCHANGED <<provVars, ran, begun, over>>

Boot == GuestComesUp /\ UNCHANGED <<provVars, history>>

Provision ==
  \/ Extract \/ OpenScript \/ CreateCommand \/ UploadRunner \/ UploadScript
  \/ StartScript \/ StartReturns \/ Retry \/ CheckExit

Next == Provision \/ RunCommand \/ Cancel \/ Expire \/ ScriptEnds \/ Disturb \/ Boot

\* The plugin runs, its calls to the guest return, timers fire and scripts end.
Spec ==
  /\ Init /\ [][Next]_vars
  /\ WF_vars(Provision) /\ WF_vars(RunCommand) /\ WF_vars(Expire) /\ WF_vars(ScriptEnds)

-----------------------------------------------------------------------------
(* Properties                                                              *)

\* Provision succeeds only if every script has run whole and exited with a valid
\* status, except those at whose turn the guest went down or a command was cut off:
\* of them the exit status says nothing.
SuccessMeansRan == result = "ok" => 1..config.count \subseteq ran \cup disturbed

\* A command runs its own script, whole, never what an earlier script or a failed
\* upload left at the remote path, unless the guest went down after the upload.  The
\* wrapper of an elevated command may have gone in an earlier try.
RunsItsScript ==
  cmd = "running" => \/ content = i
                     \/ content = 0 /\ (shaken \/ config.elevated)

\* Scripts run in turn: when a command is started, those of which a command has been
\* awaited to its end, whatever its exit status, are the scripts before this one, every
\* one of them and never this one itself.  And no script is begun twice, except one that an
\* Execute with a lost reply has begun: retryable takes every error of Start for a command
\* that has not started, and this one it cannot tell from the others.
RunsInTurn ==
  [][cmd' = "running" /\ cmd # "running" =>
       /\ over = 1..(i - 1)
       /\ content' \in begun => content' \in strays]_vars

\* Every shell is closed, except those whose CreateShell, Execute or Close failed.
ShellsAccounted ==
  result \notin {"none", "exited"} => shells <= closing + leaks

\* Provision returns, however often a start fails.
ProvisionEnds == <>(result # "none")

=============================================================================
