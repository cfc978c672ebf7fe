# A formal model of the Packer Windows plugins

This directory holds TLA+ modules that model `src/`, the TLC configurations that
check them, and TLAPS proofs about them. `PROJECT.json` lists every run, every
mutant, the source lines each definition stands for, the findings, the hazards
and the theorems.

## 1. The system

The plugins let Packer build Windows machine images: a *builder* makes a machine,
a *communicator* talks to it over WinRM, *provisioners* run scripts on it, and the
builder turns the result into an artifact. Packer core calls each plugin over RPC:
`Prepare`, `Run`, `Provision`, and `Cancel` from another goroutine at any time.

| component | state it keeps | operations | hard behaviour | what makes it correct |
|---|---|---|---|---|
| `common/step_connect_winrm.go` | `comm`, `cancel`, the state bag | `Run`, the goroutine it starts, `waitForWinRM` | `Run` selects among waiter, timer and a poll for "cancelled", and returns without awaiting the waiter | it continues only when connected, halts only with an explanation, always returns; the waiter it abandons ends |
| `provisioner/restart` | `p.cancel`, local `waitDone`, `err` | `Provision`, `waitForRestart`, `waitForCommunicator`, `retryable`, `Cancel` | three goroutines close and send on two channels | no panic unless `Cancel` is called, no success that is none unless a command was cut off, it ends even if the guest does not come back |
| `builder/amazon-windows/common/state.go` | `notfoundTick` | `WaitForState`, the refresh functions | EC2 loses and finds resources; transient errors | gives up only after the timeout; sees an interrupt |
| `builder/amazon-windows/ebs` (with `common/step_*`) | state bag, what each step remembers, EC2 itself | 11 steps, each `Run` + `Cleanup`, `Builder.Run`, `Cancel` | any call may fail, any wait may end badly, an interrupt at any point | nothing is left in the account without a word; the artifact exists |
| `multistep` runner (library) | runner state, bag entries `cancelled`, `halted` | `Run`, `Cancel` | `Cancel` races the end of a step | every step that ran is cleaned up, in reverse order |
| `builder/vmware-windows` | the machine, its directory, its registration, its lock files, the VMX | 23 (iso) or 18 (vmx) steps, `Builder.Run`, `Cancel`, three drivers | `IsRunning` may fail; lock files outlive the machine; cleanup of a partly made directory | the machine is off and unregistered at the end, its directory is removed on failure, an existing one only with `packer_force` |
| `builder/virtualbox-windows`, `builder/parallels-windows` | the machine's registration, its disk, media and forwarding rule, its directory | the steps of this repository between Packer's, `Builder.Run`, `Cancel` | half-made machines; a forwarded port other processes compete for; what is attached when the artifact is written | what the Cleanups can give back is given back or reported; the artifact names nothing of this host |
| `builder/amazon-windows/instance` | as `ebs` | steps shared with `ebs`, bundling by Packer's steps | as `ebs` | as `ebs` |
| `provisioner/powershell`, `provisioner/windows-shell` | none between calls; the scripts' remote path is on the guest | `Prepare`, `Provision`, `retryable`, elevated runner, `Cancel` | a retry of a command that may have run; several scripts at one remote path; a guest that restarts between two tries | every script runs whole to a valid status, none is run for another, none twice except after a start whose reply was lost |
| `communicator/winrm` | the WinRM client, one shell per command | `Start`, `Upload`, `UploadDir` | the shell is closed by a goroutine nobody awaits; a lost command has an exit status too | shells are closed, except those nobody knows of |
| configuration (`*_config.go`) | none | `Prepare` | — | defaults and validation |
| `plugin/*` | none | `main` | — | registration with Packer's RPC server |

Interaction: Packer → `Builder.Run` → the multistep runner → steps, which share
one *state bag* and one *driver* (EC2 connection, VMware driver). The connect step
hands a communicator to `StepProvision`, which runs provisioners; `Builder.Cancel`
reaches steps only as the bag's entry "cancelled", which each wait must poll.
Provisioners get `Cancel` directly.

## 2. The modules

| module | models | kind |
|---|---|---|
| `BoundedWait` | what a wait with a timeout and an interrupt promises | abstract specification |
| `AbstractBuild` | what every builder promises: what a step makes is gone when its Cleanup returns, or accounted for | abstract specification |
| `WinRMConnect` | `common/step_connect_winrm.go` with the Amazon address function | detailed; refines `BoundedWait` |
| `RestartProvisioner` | `provisioner/restart/provisioner.go` | detailed; refines `BoundedWait` |
| `WaitForState` | `builder/amazon-windows/common/state.go` | detailed |
| `StepRunner` | multistep's `BasicRunner`, external, as the builders use it | extended by builders |
| `AmazonBuild` | `builder/amazon-windows/ebs` and `instance` with their steps, and EC2 | composition of `StepRunner`, the steps and EC2; uses the contract of `WaitForState` and of `WinRMConnect`; refines `AbstractBuild` |
| `VMwareBuild` | `builder/vmware-windows`: iso, iso on ESXi, vmx | composition of `StepRunner`, the steps and the hosts; refines `AbstractBuild` |
| `DesktopBuild` | `builder/virtualbox-windows` (iso, ovf), `builder/parallels-windows` (iso, pvm) | composition of `StepRunner`, the steps, the hypervisor and the port; refines `AbstractBuild` |
| `Communicator` | `communicator/winrm` with the guest underneath | detailed; extended by `ScriptProvisioner` |
| `ScriptProvisioner` | `provisioner/powershell`, `provisioner/windows-shell` | composition with `Communicator` |
| `StepRunnerProofs` | lemmas about the runner | proofs, extended by those of the builders |
| `WinRMConnectProofs`, `RestartProvisionerProofs`, `WaitForStateProofs`, `ScriptProvisionerProofs`, `AmazonBuildProofs`, `VMwareBuildProofs`, `DesktopBuildProofs` | theorems | proofs |
| `MC*` | instances for TLC | model checking |

Conventions. One variable per variable of the code that matters, with the code's
name (`cancel`, `waitDone`, `notfoundTick`); a program counter per goroutine whose
values name the blocking points; one action per atomic stretch between two such
points, in the code's order. The environment (Packer's cancel, timers, the guest,
EC2) is separate actions, conjoined in `Next` by name. An operator whose name
begins with `Slip` is *not* part of a specification: it is a variant of the action
below it with one plausible mistake (a dropped guard, an early return, a missing
reset), kept so that one can check that the properties notice it.

### WinRMConnect
`pc` is `Run`'s place in its select loop, `waiter` the goroutine's. `Run` can
receive from `waitDone` (`ReceiveDone`), time out (`TimedOut`) or notice
"cancelled" at its one-second poll (`PollCancelled`); the waiter sleeps, asks for the
address, connects, sends. A query of the address by a waiter that outlived `Run`
is counted (`late` queries), because `WinRMAddress` of the Amazon builder writes the
bag's "instance" entry.

### RestartProvisioner
`cancel` is the channel `p.cancel` (nil, open, closed), `waitDone` and `doneClosed`
the buffered channel. A close of a nil or closed channel and a send on a closed one set
`crash`, after which nothing moves. `command` is how far the restart command has come in
the guest (running, its shutdown part accepted, done), `guest` what it has done to it: the
guest accepts the restart, may stop its WinRM, goes down, takes what still runs with it, and
boots. `pc = "commanding"` is `Provision` awaiting the exit status (`CommandReturns`). It may
arrive at any time with 0, also of a command that was cut off, by its own `net stop winrm`, by
the guest going down or by the network: the communicator reports 0 then, and `cutOff`
remembers it. The reply of the start may be lost too, and the retry starts a second command.
`stopsWinRM` says whether the restart command takes WinRM down, as the default one does.
`MaxCancels` bounds the calls of `Cancel`: two are enough for
"before `Provision`", "during" and "twice", and a third adds nothing since the second
close already panics.

### WaitForState
`NotFound` and `Found` are the two halves of the loop body, `Sleep` the two-second sleep;
`resource` moves as EC2 likes. `unseen`, `waited`, `lateFinds` are history variables
for the properties. Bounds: `waited` stops counting at `WaitCap` (more than twice the
timeout), `lateFinds` at `LateCap`; `TimeoutSeconds = 5` in the run, which is not
a multiple of the sleep, so that the rounding of `maxTicks` shows.

### StepRunner and AmazonBuild
`mode`, `at` say which step runs or is cleaned up; `sub` is the place inside a `Run` or
`Cleanup` at which it waits for EC2. `created` is what the steps remember (`s.instance`,
`createdGroupId`, `s.spotRequest`, `s.image`); the difference between `created` and
EC2's own `group`, `spot`, `inst`, `ami` is what the module is about. `told` collects the
"may still be around" messages. `asked` and the bag's "cancelled" are two events, as in the
library. `builder` says which of the two lists of steps the runner was given. A build of
`instance` gets no further than `StepRunSourceInstance`, which asserts the type of a bag
entry, "keyPair", that only the other builder puts: the action `NoKeyPair` is that panic, a
result of its own. `ReplyLost` is a call that fails although EC2 has done what it asks: the
step notes nothing, and what was made is an orphan that no property counts. `EmptyReply` is a
reply without an entry, whose first entry the steps take unseen, a panic as well. No bound is
needed besides the code's own five tries.

### VMwareBuild
One build of one of three kinds: the iso builder on this host, the iso builder with
`remote_type` esx5, the vmx builder. `Steps` is the list `Builder.Run` hands to the
runner. `noted` is what the steps remember for their Cleanup (`s.success`, `s.vmxPath`,
`s.registeredPath`, `s.tempDir`, `s.l`), `held` what the hosts hold for the build,
`dir` whose files are in the output directory, `media` what the VMX file at `vmx_path`
attaches and `uploaded` what the copy on the ESXi host attaches. The code drops six
failures: of `DirExists` (no implementation returns an error), of the `RemoveAll` under
`packer_force`, of the last `RemoveAll` of the output directory in Cleanup, of the `RemoveAll`
of the temporary directory, of `IsRunning`, and the timeout of the wait for lock files. Two
calls may fail although they took effect, `mkdir` on ESXi (`MakeDirHalfway`) and the
registration of the machine (`RegisterHalfway`); the step then notes nothing to undo. `ignored`
records each of these eight, so that a property can say what holds *unless* it happened. A
panic of `HostIP` is a result of its own. Which
optional parts of a step are configured (tools, HTTP directory, shutdown command, boot
wait) is left open at the step. No bound is needed besides the code's own five tries.

### DesktopBuild
One build of one of four kinds; `Steps` is again the builder's list, in which
`LibrarySteps` are Packer's (they continue, fail, or notice the interrupt). `held` is what
the hypervisor and the host hold, `noted` what the steps remember (`s.vmName`, `s.diskPath`,
`s.l`), `parts` what is attached to the machine or set in its configuration, `exported` the
parts at the time of `StepExport`. `port` is who listens on the one forwarded port that
`StepForwardWinRM` draws: nobody, the step itself while it tries the port, the machine, or
another process. `told` is what the user was told could not be undone, `ignored` what may be
left without a word: the machine of a Parallels import that failed after its registration
(`ImportHalfway`), a machine that runs when the hypervisor does not answer whether it does, and
an output directory of which only the log is told that it could not be removed (both in
Cleanups of Packer's library). `http` is a configuration of its own because two of the servers search a port in a
loop that cannot be interrupted. What a hypervisor does of its own accord (it refuses to
unregister a machine that runs, VirtualBox starts a machine whose port is in use) is
external, and stated at the action.

### Communicator and ScriptProvisioner
`Communicator` has the guest (`up`, what is at the `remote` path, its open `shells`), the
last command (`cmd`, what it runs, its status) and the goroutines `runCommand`: one that has
not reported yet (`shell`) and those that have and must still close their shell (`closing`).
An upload may fail with nothing, a part or everything written; a command may be lost on the
way, its status is then whatever the library holds. The replies of `CreateShell`
(`StartRefused`) and of `Execute` (`ExecuteFails`) may be lost too: the guest then has a shell
nobody knows of, or runs a command nobody awaits, whose script is remembered in `strays`.
`ScriptProvisioner` starts from the template: `Init` chooses any template that `Prepare`
accepts (`Accepts`, `Prepared`), so that what `Prepare` lets through is exactly what
`Provision` meets. `pc` is the place in `Provision`, `i` the script, `atStart` the position
in the script's local file, `timer` the `start_retry_timeout` of the current `retryable`.
`ran`, `begun`, `over`, `disturbed` and `shaken` are history for the properties. Bounds: three
scripts (an older, a current and a later one), exit statuses `{0, 1}` (one that succeeds and
one that does not; any subset of them may be valid), `MaxLeaks = 2` shells lost.
`windows-shell` is the same code without elevation and exit codes.

### AbstractBuild and its implementations
`AbstractBuild` knows steps by number only, and of each the things it can make. A thing
appears during the `Run` of the step that makes it, and when the `Cleanup` of that step has
returned it is gone or accounted for; what is to be delivered may stay if no step halted
the build. A build that was halted is reported as an error, one that nobody interrupted
returns an artifact or an error.

Each of the three build modules is mapped to it by `Build`, and `ImplementsBuild` says that
it implements it. `buildPhase` and `openSteps` (StepRunner) read the abstract phase and the
number of entered steps off `mode` and `at`; `makes` is the module's `Makes` of each step of
its list; `holds` and `excused` are its own:

| module | things | excused without a word to the user |
|---|---|---|
| `AmazonBuild` | group, spot request, instance, image (may stay) | an instance whose spot request the user was told of |
| `VMwareBuild` | machine that runs, registration, listener, temporary directory, output directory (may stay) | a machine VMware did not say runs; a registration that took effect though it failed; a temporary directory whose removal failed; an output directory whose last removal was only logged, or that was made though `mkdir` failed |
| `DesktopBuild` | machine, machine that runs, Parallels' installation medium, listener, output directory (may stay) | the machine of an import that failed half done; a machine the hypervisor did not say runs; a directory whose removal was only logged |

The excuses are flaws of the code, or of the library, that the properties step around and do
not catch: each is a hazard in `PROJECT.json` with a note that says so.

An instance or an image of EC2 counts from when the build knows of it, an orphan never: what is
lost before that is the finding of `amazon_leak`, and the hazard at `step_create_ami.go:66`. The medium of
a VirtualBox machine is taken out by a step of its own (`StepRemoveDevices`), not by a
Cleanup, and is left to `ArtifactClean`.

## 3. The runs

| run | question | result |
|---|---|---|
| `winrm_connect` | every interleaving of `Run`, the waiter, the timer, an interrupt | holds |
| `restart` | `Provision`, its waiter, two `Cancel`s, both timers, the guest | holds |
| `restart_cancel` | does a `Cancel` during the wait give an error (`TestProvision_Cancel`)? | **violated** |
| `wait_for_state` | when is a resource given up, and is an interrupt seen? | holds |
| `wait_too_long` | is a wait bounded by `AWS_TIMEOUT_SECONDS`? | **violated** |
| `amazon_build` | what does a build leave in EC2 and what does it return? | holds |
| `amazon_leak` | is every launched instance terminated or reported? | **violated** |
| `amazon_artifact` | does an artifact name a registered image? | **violated** |
| `vmware_build` | what happens to the machine, its directory, its registration, and to what was there before | holds |
| `vmware_floppy` | is the floppy of the machine in the artifact unmounted? | **violated** |
| `desktop_build` | what is given back and what is delivered | holds |
| `scripts` | what success means, what is run and retried, which shells stay open | holds |

The passing runs are exhaustive: WinRMConnect 170 states, RestartProvisioner 8,217,
WaitForState 604, AmazonBuild 11,156, VMwareBuild 609,262, DesktopBuild 30,548,
ScriptProvisioner 1,557,700. The four builds have no constants: their instances are all there
is, one build against every fault.

What the properties say, in one line each.

- WinRMConnect: `Run` halts with a reason in the bag (`HaltExplained`), leaves a waiter that
  queries at most once more (`OneLateQuery`) and ends (`WaiterEnds`), returns within its timeout
  (`RunReturns`) and implements the abstract wait (`ImplementsWait`).
- RestartProvisioner: no panic unless `Cancel` is called (`NoCrashUnasked`); an interrupted
  `Provision` never succeeds (`InterruptNeverSucceeds`); success means that the guest is back
  from its restart, if the command stops WinRM and was not cut off (`SuccessMeansRestarted`);
  `Provision` ends if the calls for the restart command do (`ProvisionEnds`); the wait for the
  guest implements the abstract wait.
- WaitForState: a resource is given up only when it was missing for the whole timeout
  (`MissingForTimeout`); the next poll that finds it sees an interrupt (`PromptInterrupt`), which
  ends the wait (`InterruptEnds`).
- AmazonBuild: it implements the abstract build (`ImplementsBuild`), so the group, the spot
  request and the instance the step knows of are gone or reported; an uninterrupted artifact is usable, and a build that
  failed deregisters the image it had made (`ImageAccounted`); the image is of a stopped
  disk (`ImageFromStopped`); an interrupt ends the build (`InterruptEnds`).
- VMwareBuild: the machine is off when its files are cleaned and compacted (`AtRest`); an old
  directory is safe without force (`OldDirKept`); an artifact is all of this build
  (`ArtifactWhole`); a machine that
  runs is stopped, and listener, temporary directory and registration are given back, by the
  Cleanup of the step that made them, and a build that a step halted removes its directory, but
  for the excuses of section 2 (`ImplementsBuild`); an interrupt ends the build.
- DesktopBuild: a machine however far `CreateVM` made it, Parallels' medium and the listener are
  given back, or the user is told, but for the same kind of excuses (`ImplementsBuild`); what is
  delivered has no forwarding rule and no medium (`ArtifactClean`); an interrupt ends the build if the drawn port is ever free.
- ScriptProvisioner: success means that every script ran whole to a valid status, except
  where the guest or the connection was disturbed (`SuccessMeansRan`); a command runs its
  own script (`RunsItsScript`); when a command is started, the scripts whose
  commands were awaited to their end are exactly those before it, and it begins a script a second
  time only if the reply of an `Execute` that had begun it was lost (`RunsInTurn`); every shell is
  closed unless its `CreateShell`, `Execute` or `Close` failed (`ShellsAccounted`); `Provision` returns (`ProvisionEnds`).

Deadlock checking is off throughout: every system here stops when the call it models has
returned, or when the process has panicked.

### Fairness
The goroutines of the plugin run and its timers fire; that is all that is assumed of
every module. A call of a waiter (to the guest, to the address function) may hang, so the
waiters have no fairness; where a property needs the waiter to finish (`WaiterEnds`)
that is its explicit premise. Nor have the calls by which the restart provisioner starts its
command and awaits its end, which have no timeout: that they return is the explicit premise of
its `ProvisionEnds`. The guest need not come back. Polls of `WaitForState` return,
with whatever result. EC2 may leave everything pending for ever; it is only assumed
to finish a termination it has accepted, because Cleanup's wait for it has no interrupt.
Calls to the hosts' VMware tools return. The shutdown command on the guest is awaited
without a timeout, and `InterruptEnds` of VMwareBuild has its end as an explicit premise, as
it has a free port in the configured ranges: the loops that look for one never give up. The
same premise stands in DesktopBuild, for the HTTP port and for the one drawn WinRM port.
A script that the guest runs is assumed to end: `Provision` awaits it without a timeout.
Packer's own steps (`StepDownload`, `StepProvision`) are assumed to return.
Nobody need call `Cancel`.

### Findings
1. `restart_cancel`: an interrupt makes `waitForRestart` close `waitDone`
   (`provisioner.go:141`) while the waiter is about to send on it (`:116`): a
   send on a closed channel panics. `TestProvision_Cancel` expects an error.
2. `wait_too_long`: `WaitForState` bounds only consecutive misses. A resource that stays
   pending is waited for without limit though the log says "Allowing %ds to complete".
3. `amazon_leak`: `s.instance` is set only after the wait for "running" succeeded, so a
   launch whose wait fails leaves its instance running, without a word.
4. `amazon_artifact`: a build cancelled after the image was made deregisters it in Cleanup
   and returns it as its artifact, since `Builder.Run` looks only for "error" and "amis".
5. `vmware_floppy`: on ESXi the VMX file is uploaded by `StepRegister`; `StepCleanVMX` and
   the second `StepConfigureVMX` edit the local temporary copy afterwards, so the machine in
   the artifact keeps its floppy, its ISO and the settings `vmx_data_post` should change.

Further flaws the models have, for which the repository states nothing that a run could
refute; each is a hazard in `PROJECT.json`. The elevated wrapper is uploaded once, outside
`retryable`, so `start_retry_timeout` does not hold with an elevated user. The environment
variable `FOO=a=b` passes `Prepare` and fails `Provision` (`GoodVariable`, `TwoParts`). The
instance-store builder panics for want of "keyPair". A VirtualBox disk stays in the media
registry if the controller for it cannot be made. Between the return of `StepForwardWinRM`
and the start of the machine nobody holds the drawn port. `HostIP` of the ESXi driver
panics when its host does not answer. A restart command that was cut off before it was done is
taken for a success, because its status is reported as 0. A `Cancel` of the restart provisioner
before `Provision`, or a second one, panics, and so do the EC2 steps when a reply is empty.
`retryable` of the script provisioners takes every error of a start to be "safe to retry"
(`powershell/provisioner.go:331`), and starts a script a second time when only the reply of
`Execute` was lost. `StepUploadTools` of VMware puts "error" and continues: such a build
fails and keeps its output directory. A failure to remove the temporary directory of the VMX
file is dropped; a registration on ESXi, or an import of Parallels, that fails after it took
effect leaves its machine registered.

## 4. The proofs

All theorems are of `Spec`, for every value of the constants, under the named assumptions
of the modules only (`MaxCancels \in Nat`; `TimeoutSeconds \in Nat`, `Pending`, `Target`,
`Successors` typed; `Scripts` positive, `0 \in Codes`). Each module proves one inductive
invariant `Inv` (`Init => Inv`, `Inv /\ [Next]_vars => Inv'`), which TLC also confirmed, and
reads the rest off it. Every safety property of a passing run is proved.

- `WinRMConnectProofs`. `Inv` adds to the types: which stages of `Run` and of the waiter go
  together, what each outcome has left in the bag, and that a query after `Run`'s end can
  only be the one that was under way. From it: `HaltIsExplained`, `ContinueIsConnected`,
  `AtMostOneLateQuery`, and `Implements` (every step of the connect step is a step or a
  stutter of the abstract wait).
- `RestartProvisionerProofs`. The properties are about `cancels` and `crash`, which say
  nothing of each other by themselves; `Inv` ties the two channels to the stage of
  `Provision` (`Channels`), the buffered value to the stage of the waiter (`Deliveries`)
  and the result to the first cancel (`Results`), and says that a command that was done has
  stopped WinRM, so that an answer to the check comes from a restarted guest (`Confirmed`). From it: `CrashIsAskedFor`,
  `InterruptIsAskedFor`, `InterruptedIsNoSuccess`, `SuccessIsRestarted`, `Implements`.
- `WaitForStateProofs`. `Inv` says `unseen` is twice the number of sleeps since the
  last sighting, which `notfoundTick` counts; the lemma `Rounding` bounds the integer
  division. From it `MissingIsForTimeout`, for every timeout, and `InterruptIsPrompt`.
- `ScriptProvisionerProofs`. `Inv` ties the place in `Provision` to the last command
  (`Phases`), counts the shells that must be open (`Shells`), says what the remote path can
  hold between upload and start (`Remote`) and which scripts are behind, or were begun by an
  `Execute` whose reply was lost (`Outcomes`, `Awaited`). From it `SuccessIsRan`, `OwnScript`, `ShellsAreAccounted`, `InTurn`, for
  any number of scripts.
- `StepRunnerProofs`. Lemmas on what every step of a builder has in common: `Acts` says where
  the runner may go and what may be put in the bag, `Sound` that it stays within its list and
  that the bag explains why it turned back. For a place `n` in the list, `Entered(n)`,
  `Undone(n)` and `Done(n)` say that step `n` was entered, was passed on the way back, or
  continued; `EnteredKept`, `UndoneFrom` and `DoneFrom` say that nothing but the step's own
  `Run` and `Cleanup` can change that. They are the reason the runner's reverse order works,
  proved once.
- `AmazonBuildProofs`, `VMwareBuildProofs`, `DesktopBuildProofs`. The properties speak of the
  end of a build and are far from inductive. For each thing a step makes, `Inv` says: if it
  exists, the step has noted it; if it is noted, the step was entered; if the step is undone
  and the thing is there, the user was told. What a `Run` later in the list relies on (the
  instance has stopped, the machine is off and unlocked, the medium is gone) is said of the runner's places past the `Run` that brings it about. In
  VMwareBuild and DesktopBuild the places of the steps are computed from the lists by lemmas
  of their own (`StepPlaces`, `StepsListed`): a step moved in a list shows there.

- The refinement, in the same three modules (`Implements`). `RunnerMoves` (StepRunnerProofs)
  shows once what a move of the runner is in the abstract build: entering, turning back, part
  of a `Run`, of a `Cleanup`, or the end. `Effect` says of each action of a build module what
  it does to `holds` and `excused`: a `Run` adds only what its own step makes, a `Cleanup` adds
  nothing and takes no excuse back. What is left is the return of a Cleanup, which must
  account for what its step made: the parts of `Inv` about undone steps say so. `AmazonBuild`
  needs a second inductive invariant for it, `More`: which builder gets as far as a launch,
  that an image's step has put "amis" in the bag, and that a spot request that exists is
  remembered and is cancelled before the instance is terminated. From `Implements` alone follows `EverythingAccounted`:
  whatever exists is accounted for, is delivered, or the Cleanup of the step that made it is
  still to come. Its induction is over the steps of the *abstract* build, so it is the same
  argument in the three modules.
- The invariants `GroupAccounted` (AmazonBuild) and `Released` (VMwareBuild, DesktopBuild) are
  not checked by runs, whose `ImplementsBuild` says more of the same; they are proved, as
  `GroupIsAccounted` and `IsReleased`, up to the same excuses. `IsReleased` of VMwareBuild speaks
  of the directory of a build that a step halted: one that has only an "error" keeps it. That of
  DesktopBuild also says that the machine goes before its directory.
- Counting down (`CountsDown`, in the same three modules). `Rank` has two digits: `Distance`, how far
  the runner is from its end (lemma `Nearer`: it never goes back to a step), and `Inner`, what
  a step has still to do before the runner moves: its remaining parts, its remaining tries,
  and the note of an interrupt. Every step of the build itself (`Own`) lowers `Rank`, and no
  step of anyone else raises it. This is the part of `InterruptEnds` that needs no fairness: a
  build takes at most `Rank` steps, whatever fails and however often it retries. It does not
  say that the next step comes: a poll that finds nothing new, or a drawn port that is taken,
  is no step of the models, and that those loops end is what `InterruptEnds` assumes or
  checks.

Only model-checked: liveness (`RunReturns`, `ProvisionEnds`, `WaiterEnds`,
`InterruptEnds`), which is out of the prover's reach; and the findings, which are
counterexamples.

## 5. Not modelled, and why
- Configuration: `Prepare` functions set defaults and validate records; no state.
- `plugin/*`: registration with an RPC server, no state.
- Packer's library steps (source AMI, provision, copy, attributes, tags, floppy, ISO
  download): external; they appear as steps that continue or fail.
- The contents of scripts, user data, VMX values, addresses and credentials: data that no
  property tells apart.
- A negative `AWS_TIMEOUT_SECONDS`: assumed away (`TimeoutAssumption`).
- VMware's command lines, the lookup of a guest's address (`guest_ip.go`, DHCP leases, the
  address the ESXi driver caches in the bag), the parsing and encoding of VMX files, and the
  search for an installation of VMware: functions of files and processes of the host. In
  VMwareBuild a machine is reached or not. This is why the VMware builders are "partly".
- The multistep runner is a library: modelled as far as the builders rely on it.
- `builder/virtualbox-windows/iso/step_http_server.go`: no builder uses it.
- `UploadDir` and `Download` of the communicator: nothing in the repository calls the first,
  the second is a panic. The copies of the output streams: no property is about the output.
- What the elevated wrapper does on the guest (`elevated.go` is a PowerShell text): it runs
  the script or it does not.
- `Prepare` of the builders: validation of records.

## 6. Plan

Done, in this order: the two waits with goroutines, their abstract specification and its
refinement; polling EC2, and the EBS build under the step runner; the VMware builds; the
script provisioners over the communicator; the desktop builds; the instance-store builder as
a second kind of AmazonBuild; the proofs of every safety property; the abstract build, and the
proofs that the three build modules implement it and count down.

What is left, most important first.

1. Addresses: the address functions of the other builders in `WinRMConnect` (forwarded
   port, DHCP leases, the address cached by the ESXi driver).
2. Pure algorithms as operators: the choice of a DHCP lease, the VNC port scan of ESXi, the
   parsing and encoding of VMX data (a round trip), against reference definitions.
3. An abstract provisioner (each script run once, in turn, and its failure reported) that
   `ScriptProvisioner` implements.
4. `UploadDir`, if a provisioner comes to use it.
