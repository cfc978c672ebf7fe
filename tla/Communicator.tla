---------------------------- MODULE Communicator ----------------------------
(***************************************************************************)
(* communicator/winrm: Upload, Start and the goroutine runCommand, against *)
(* a Windows guest that may go down and come up again at any time.         *)
(*                                                                         *)
(* Start opens a shell on the guest, executes the command in it and leaves *)
(* the rest to runCommand, which awaits the end of the command, reports    *)
(* the exit status and then closes the shell.  The caller may be told of   *)
(* the exit while the shell is still open, and may start the next command. *)
(*                                                                         *)
(* A command runs what the file at the remote path holds when it starts: a *)
(* script, by its number, or 0 if the file is missing or not whole.        *)
(***************************************************************************)
EXTENDS Naturals

CONSTANTS
  Scripts,   \* the largest number of scripts
  Codes,     \* exit statuses
  MaxLeaks   \* bound: how many shells may be lost

ASSUME CommunicatorAssumption ==
  /\ Scripts \in Nat \ {0}
  /\ 0 \in Codes
  /\ MaxLeaks \in Nat

VARIABLES
  up,       \* the guest answers
  remote,   \* what is at the remote path of the guest
  wrapper,  \* the elevated wrapper is in the guest's directory for temporary files
  shells,   \* shells open on the guest
  cmd,      \* the last command that was started
  content,  \* what it runs
  code,     \* its exit status, for the guest and then for the plugin
  shell,    \* the shell of this command is open, and its runCommand has not reported
  closing,  \* runCommands that have reported an exit and have an open shell to close
  leaks,    \* open shells that were given up with an error
  strays    \* scripts that were run by a command whose Execute returned an error

guestVars == <<up, remote, wrapper, shells>>
cmdVars   == <<cmd, content, code>>
shellVars == <<shell, closing, leaks>>
commVars  == <<guestVars, cmdVars, shellVars, strays>>

\* "running" on the guest; "ended" there, or "cut" off from the plugin, which
\* runCommand has still to notice; "exited" for the caller.
CmdStates == {"none", "running", "ended", "cut", "exited"}

CommTypeOK ==
  /\ up \in BOOLEAN
  /\ remote \in 0..Scripts
  /\ wrapper \in BOOLEAN
  /\ shells \in Nat
  /\ cmd \in CmdStates
  /\ content \in 0..Scripts
  /\ code \in Codes
  /\ shell \in BOOLEAN
  /\ closing \in Nat
  /\ leaks \in 0..MaxLeaks
  /\ strays \subseteq 1..Scripts

CommInit ==
  /\ up = TRUE /\ remote = 0 /\ wrapper = FALSE /\ shells = 0
  /\ cmd = "none" /\ content = 0 /\ code = 0
  /\ shell = FALSE /\ closing = 0 /\ leaks = 0 /\ strays = {}

-----------------------------------------------------------------------------
(* Upload                                                                  *)

\* The file is written and the reply has arrived.
Upload(file) ==
  /\ up
  /\ remote' = file
  /\ UNCHANGED <<up, wrapper, shells, cmdVars, shellVars, strays>>

\* An error: nothing was written, a part of it, or everything and the reply is lost.
UploadFails(file) ==
  /\ remote' \in IF up THEN {remote, 0, file} ELSE {remote}
  /\ UNCHANGED <<up, wrapper, shells, cmdVars, shellVars, strays>>

UploadWrapper ==
  /\ up
  /\ wrapper' = TRUE
  /\ UNCHANGED <<up, remote, shells, cmdVars, shellVars, strays>>

-----------------------------------------------------------------------------
(* Start and runCommand                                                    *)

\* The shell is created, the command runs `what`, and runCommand has been started.
Start(what) ==
  /\ up
  /\ shells' = shells + 1 /\ shell' = TRUE
  /\ cmd' = "running" /\ content' = what
  /\ UNCHANGED <<up, remote, wrapper, code, closing, leaks, strays>>

\* An open shell that Start gives up with its error.
LoseShell ==
  /\ up /\ leaks < MaxLeaks
  /\ shells' = shells + 1 /\ leaks' = leaks + 1
  /\ UNCHANGED <<up, remote, wrapper, cmdVars, shell, closing>>

\* NewClientWithParameters or CreateShell fails, the latter perhaps because its reply is
\* lost: nobody knows of the shell then.
StartRefused == UNCHANGED commVars \/ (LoseShell /\ UNCHANGED strays)

\* Execute fails.  If it is the reply that was lost the guest has started the command,
\* and runs it with nobody to await it.
ExecuteFails(what) ==
  /\ LoseShell
  /\ strays' \in {strays, strays \cup ({what} \ {0})}

\* cmd.Wait returns and the exit status is set.  Of a command that was cut off it
\* is whatever the library holds; nobody asks whether there was an error.
SetExited ==
  /\ \/ cmd = "ended" /\ UNCHANGED code
     \/ cmd = "cut" /\ code' \in Codes
  /\ cmd' = "exited"
  /\ shell' = FALSE
  /\ closing' = IF shell THEN closing + 1 ELSE closing
  /\ UNCHANGED <<guestVars, content, leaks, strays>>

\* Slip: the shell is left to the guest.
SlipKeepsShell ==
  /\ closing > 0
  /\ closing' = closing - 1
  /\ UNCHANGED <<guestVars, cmdVars, shell, leaks, strays>>

\* The deferred shell.Close; its error is not looked at.
CloseShell ==
  /\ closing > 0
  /\ closing' = closing - 1
  /\ \/ shells' = shells - 1 /\ UNCHANGED leaks
     \/ leaks < MaxLeaks /\ leaks' = leaks + 1 /\ UNCHANGED shells
  /\ UNCHANGED <<up, remote, wrapper, cmdVars, shell, strays>>

-----------------------------------------------------------------------------
(* The guest                                                               *)

CommandEnds ==
  /\ cmd = "running"
  /\ cmd' = "ended"
  /\ code' \in Codes
  /\ UNCHANGED <<guestVars, content, shellVars, strays>>

\* The plugin loses the command, which may go on running.
CommandLost ==
  /\ cmd = "running"
  /\ cmd' = "cut"
  /\ UNCHANGED <<guestVars, content, code, shellVars, strays>>

\* Shells and commands are gone; uploaded files may be.
GuestGoesDown ==
  /\ up
  /\ up' = FALSE
  /\ remote' \in {remote, 0}
  /\ wrapper' \in {wrapper, FALSE}
  /\ cmd' = IF cmd = "running" THEN "cut" ELSE cmd
  /\ shells' = 0 /\ shell' = FALSE /\ closing' = 0 /\ leaks' = 0
  /\ UNCHANGED <<content, code, strays>>

GuestComesUp ==
  /\ ~up
  /\ up' = TRUE
  /\ UNCHANGED <<remote, wrapper, shells, cmdVars, shellVars, strays>>

=============================================================================
