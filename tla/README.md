# GoWSL in TLA+

GoWSL is a Go wrapper around the Windows Subsystem for Linux: it registers, configures, lists,
starts and removes distros, and runs commands inside them with an interface in the manner of
`os/exec`. It talks to WSL through a back-end. One back-end calls `wslapi.dll`, `wsl.exe` and the
Windows registry; the other is a mock that keeps a registry and the running state of the distros
in memory and starts Linux processes.

This directory models what of that has state that several goroutines or programs share, and the
pure parts they rely on, checks it with TLC and proves its safety with TLAPS. Paths below are relative to `src/`.

## 1. Inventory

| Component | State | Operations | Interacts with |
|---|---|---|---|
| `Cmd` (`exec.go`) | streams, lists of descriptors to close after start and after wait, copier goroutines and `errch`, `waitDone`, `finished`, the process | `Command`, `StdinPipe`, `StdoutPipe`, `StderrPipe`, `Start`, `Wait`, `Run`, `Output`, `CombinedOutput` | copiers, the watcher of the context, the process and its descendants, the context, `IsRegistered` |
| `prefixSuffixSaver` (`exec.go:524`) | first and last N bytes, a ring offset, a count | `Write`, `Bytes` | `Output` |
| `DistroState` (`mock/internal/distrostate`) | `running`, `uninstalled`, `terminateTimer`, `processes`, `shells`, one mutex | `Touch`, `Terminate`, `MarkUninstalled`, `AttachProcess`, `NewShell`, `IsRunning`, the callback of the timer | mock Win32 API, `Shutdown`, processes |
| Mock registry (`mock/registry.go`, `mock/backend.go`) | the Lxss key and one key per distro, each a map with a `sync.RWMutex` | `OpenLxssRegistry`, `Close`, `Field`, `SubkeyNames` | everything that names a distro |
| Mock Win32 API (`mock/win32.go`) | none of its own | register, unregister, configure, get configuration, launch, launch interactively | registry, `DistroState` |
| Mock `wsl.exe` (`mock/wslexe.go`) | none of its own | `Shutdown`, `Terminate`, `SetAsDefault`, `State`, `Install`, `Import` | registry, `DistroState` |
| Distro (`distro.go`) | a name | `SetAsDefault`, `DefaultDistro`, `GUID`, `State`, `Terminate`, `GetConfiguration` and its setters | back-end |
| Registration (`registration.go`) | none | `Register`, `RegisteredDistros`, `IsRegistered`, `Unregister`, `Uninstall`, `Import`, `Install` | back-end |
| Shell (`shell.go`) | options | `Distro.Shell` | back-end (`WslLaunchInteractive`) |
| Flags (`internal/flags`), state names (`internal/state`) | none: pure | pack, unpack, parse | configuration, `wsl.exe` |
| Windows back-end (`internal/backend/windows`) | none | listing of the Lxss key, calls of `wslapi.dll` and `wsl.exe`, the parser of a listing, the copy of the environment block | WSL, and through it every other program that uses WSL |

How they meet. Every method of a `Distro` first lists the registered distros, which opens the Lxss
key and all its sub-keys, and then calls the back-end, which looks the distro up once more, by
name. `Cmd.Start` asks whether the distro is registered and then calls `WslLaunch`, which finds
the sub-key under the lock of the Lxss key, releases it, starts a process and only then attaches
it to the `DistroState` of the sub-key. `WslLaunchInteractive` touches the `DistroState` and opens
a shell, and its caller waits until somebody stops the distro: `Terminate`, `Shutdown`,
unregistration or the terminate timer.

What is hard, and what makes each part correct:

- **Cmd.** Five kinds of actors: caller, copiers, watcher, process tree, context. `Start` can fail
  at any of its steps with descriptors open; `Wait` must join the copiers before it closes their
  pipes, must not wait for ever on a descendant or on a reader once the context is done, and must
  close `waitDone` once. Correct: nothing leaks, `nil` is only returned for work that was done,
  `Wait` returns when it should, and no goroutine stays behind.
- **DistroState.** Its methods are atomic, their callers are not: a stop, an expired timer or the
  unregistration may come between the lookup, the start of a process and its attachment, and
  between `Touch` and `NewShell`; `time.Timer.Stop` may come too late. Correct: no process and no
  waiting client is forgotten, an uninstalled distro is quiet, and one that
  nobody uses goes down by itself.
- **Registry.** Two levels of read-write locks, taken and given back in many steps, by calls that
  check first and act later. Correct: the registry changes as if each call were one step; names
  stay unique, the default is registered, a listing is of one moment, a configuration is never
  torn, and no lock is left behind on any return.
- **Windows back-end.** There is no lock: between any two steps of a call other programs may
  register, remove, start, stop and configure distros. Correct: a listing makes nothing up, an
  answer was true at some moment of the call, success means that the effect is there, a setter
  changes one field only, and a process found by its pid is the right one.
- **Pure parts** (saver, flags, parser, environment block): boundaries and round trips.

The full list, with the line of each hazard and the property about it, is `hazards` in
`PROJECT.json`.

## 2. Plan

| Step | Modules | State |
|---|---|---|
| 1. Commands | `Cmd`, `CmdInv`, `CmdProofs`, `PlumbingProofs`, `MCCmd` | modelled, checked, safety proved |
| 2. Running state | `DistroState`, `DistroStateProofs` | modelled, checked, safety proved |
| 3. Registry and the calls through it | `RegistryTypes`, `Distros` (what it promises), `Registry` (its locks), `RegistryInv`, `RegistryProofs`, `RegistryRefinement`, `MCRegistry` | modelled, checked, safety and the refinement proved |
| 4. What a `Cmd` promises | `CmdContract` | checked, and proved to be implemented by `Cmd` |
| 5. Windows back-end | `WslFlags`, `Windows` (environment), `WindowsBackend`, `WindowsInv`, `WindowsProofs`, `WindowsAnswers`, `MCWindows` | modelled, checked, safety proved |
| 6. Pure algorithms | `PrefixSuffixSaver`, `PrefixSuffixSaverProofs` against "first N, last N, and how many between"; flags, parser and environment block inside step 5 | modelled, checked, proved |
| 7. Further | `DefaultDistro` on Windows | open |

`Registry` composes the API (`Registration`, `Distro`) with the mock's Win32 and registry code;
`DistroState` composes the running state with the launching half of the Win32 code. The two meet
in the lookup of a sub-key alone: `DistroState` models it as "not uninstalled, now", and in
`Registry` a call that launches is the phase that finds the sub-key.

## 3. Modules

### Cmd

| Variable | Code |
|---|---|
| `io` | `Stdin`, `Stdout`, `Stderr`, by kind: nil, a stream that needs a copier, a pipe handed over directly, the pipe of an `XPipe` method, or the very value of `Stdout` |
| `open`, `closeAfterStart`, `closeAfterWait` | the descriptors that are open in this program, and the two lists. A descriptor is (stream, generation, end); generation 0 is a `StdinPipe`, generation n was opened by the n-th call of `Start` |
| `goroutine`, `gen` | `c.goroutine`, and how often descriptors were set up |
| `copier`, `copyErr`, `undelivered` | where each copier is ("taken": its result was received from `errch`), `copyError`, and the outputs whose bytes are still on their way |
| `proc`, `exitOK`, `child` | `c.Process`, its status, and the streams the process or a descendant holds open |
| `waitFailed`, `finished`, `waitDone`, `watcher`, `ctxDone` | the error of `Process.Wait`, the fields, the goroutine of `exec.go:141`, the context |
| `pc`, `run`, `ret`, `outcome` | where the caller is, whether inside `Run`, what its last call and the `Wait` that did the work returned |

`Start` is `Start`, `Setup` or `SetupFails`, `Launch` or `LaunchFails`, `Spawn`. `Wait` is `Wait`
(claiming the right to wait), `ProcessWait`, `SignalWaitDone`, `DrainReceive` and `DrainEnds` (the
loop over `errch`), `CloseAfterWait`, `WaitReturns`. `Run`, `Output` and `CombinedOutput` set the
streams up and go on to the same steps. `CopyIn` and `CopyOut` are the copiers, `Kill` and
`WatcherStops` the watcher; the rest is the environment.

Simplifications: setting up the descriptors of one `Start` is one step, since nobody else can see
it half done, but it may fail after any number of streams. A write to a closed pipe (EPIPE) is one
of the ways in which a copier fails. Fields are not assigned again between two starts. A call
refused before it touches a field is a stuttering step.

`CmdInv` holds the inductive invariant, `CmdProofs` and `PlumbingProofs` the proofs, `MCCmd` the instances.

### CmdContract

What a caller may rely on without knowing of streams and goroutines: a command is new, started,
waited for (a `Wait` is under way), done with; the process is launched once; one `Wait` does the
work, after which the outcome never changes; every error that a method returns fits the state it
is returned in; and the outcome is the context's if that is done, else that of the process. `Cmd`
implements it with `state <- Progress`; all that copiers, watcher and descriptors do is stuttering.

### PrefixSuffixSaver

The writer that `Output` puts into `Stderr`. A byte is its position in all that was written, so
that "the first N and the last N" is an expression (`Expected`) and the slices of the code are
functions from slots to positions. `Write` is the steps of the method: `FillPrefix`, `DropOverage`,
`FillSuffix`, `Overwrite` once per iteration of the loop, `Return`.

### DistroState

`running`, `uninstalled`, `processes`, `shells` are the fields. `timer` is `terminateTimer`, where
"expired" is a timer that has fired and is still in the field, and `callbacks` counts the
goroutines of fired timers that have not called `Terminate` yet: `Stop` does not reach them. Each
method holds the mutex throughout and is one action: `Touch`, `NewShell`, `AttachProcess`,
`Terminate`, `MarkUninstalled`, `TimerCallback`. `FindToLaunch`, `StartProcess` and
`FindToInteract` are the unprotected steps of `WslLaunch` and `WslLaunchInteractive`, in `launch`
and `client`. `alive` is external: the processes that have not exited. `IsRunning` only reads.

Simplifications: the eight seconds are left out, so a ticking timer may fire at any time; each
process is launched once; a distro that is registered again gets a new `DistroState`, that is,
another instance.

### RegistryTypes, Distros, Registry

`Distros` says what the registry promises: a set of distros with unique names and a
configuration, and a default, all changed by one-step calls. Its `Spec` has the default after a
removal as the comment in the code has it: the distro with the lowest GUID, and none only when there
are none left. `Registry` breaks that (`ImplementsDistros`, §5), so `SpecAnySuccessor` leaves open
which distro follows a removed default one and promises everything else; that one `Registry` keeps
(`CallsAreAtomic`). `Registry` is the code at the level of its locks.

| Variable | Code |
|---|---|
| `registered`, `default`, `name`, `conf` | the sub-keys of the Lxss key, its value `DefaultDistribution`, the values of the sub-keys; `used` are the GUIDs drawn so far |
| `readers`, `writer` | the `sync.RWMutex` of each key: who has the read lock, who has or waits for the write lock. A waiting writer keeps new readers out |
| `call`, `phase`, `at` | what each goroutine was asked to do, and how far it is: a call is a sequence of phases (`Program`), a phase a sequence of places |
| `key`, `subkeys`, `got` | its local variables: the sub-key it looks at, those of a listing still to be opened, the configuration it has read |

A phase is one of: list (`registeredDistros`), find (`findDistroKey`), get
(`WslGetDistributionConfiguration`), put (`WslConfigureDistribution`), open
(`Uninstall`'s second opening), default (`DefaultDistro`), and the three that write under the lock
of the Lxss key. What happens under one lock without taking another is one step, except where
somebody else could see the half of it: the flags and the user of a configuration are two reads
and two writes. `OpenLxssRegistry` takes the read lock of the Lxss key once more even if its caller
has it; no step leaves a goroutine with two read locks of one key, so that readers are a set and
the second lock is a guard (`MayRead`).

Simplifications: error injectors and names that are refused make a call fail before it has
locked anything and are stuttering steps; the values of a removed sub-key can be written to but no
longer read, and are left out; of the Appx package's cached key nothing is modelled, since the
mock ignores the package. A GUID is a number, in the order of the strings; a
new one has not been drawn before.

### WslFlags, Windows, WindowsBackend

`WslFlags` is `internal/flags`, bit by bit. `Windows` is environment: the distros that WSL has
(`name`, `word` for the state, `conf`, `default`), and `OthersAct`, by which other programs change
them. Its history variables say which states the call's subject has had since the call began, and
whether anybody registered, removed or configured a distro in between. A removed GUID is never
drawn again (`used`).

`WindowsBackend` is one call of the public API, begun in any state of Windows. The back-end keeps
nothing from one call to the next, so that one call stands for any sequence of them, and a
concurrent call of the same program is one more other program.

| Variable | Code |
|---|---|
| `call`, `pc`, `ret` | the method with its argument, its next step, what it returned |
| `count`, `keys`, `distros` | `keyInfo.SubKeyCount`, the sub-keys of `SubkeyNames` still to be opened, the map of `registeredDistros` |
| `got`, `env` | the configuration that was read, and how far `processEnvVariables` has come: its block, the entry that is next, and the map so far |
| `process`, `found` | the process of `WslLaunch` with its handle and pid, and what `os.FindProcess` opened |

A listing is `Stat`, `Enumerate` once per sub-key, `ReadName` once per sub-key, and `Listed`, where
the methods part. Windows may refuse any request of a listing (an access denied, a sub-key without a
name), which then fails at once (`ListingFails`); a request for a sub-key that has gone always fails. `GetState` parses the listing of `wsl.exe`; `WslExe` and `CallDll` are requests
that WSL serves at some moment, or that fail, also after they were served (a timeout kills
`wsl.exe`, not WSL). Starting a process is `CallWslLaunch`, `GetProcessId`, `FindProcess`, against
`ProcessExits`. `processEnvVariables` is a step per entry of the block.

Simplifications: a name stands for all its casings, which the code compares without regard to
case; opening a sub-key and reading its value is one step, since both fail in the same way;
`RegisteredDistros` stands for `IsRegistered` and `GUID` too, which only look into the listing;
`Uninstall`'s package is left out. `Nth` is the order of
enumeration, with keys that are no GUIDs anywhere in it.

## 4. Runs

| Run | Instance | What it shows |
|---|---|---|
| `cmd_safety` | two starts, five choices of streams, `Output` and `CombinedOutput` | no leak, no unearned nil, no early return without a cancellation, `waitDone` closed once, nobody held up by the `Cmd` itself, the inductive invariant, and that `Cmd` implements `CmdContract` |
| `cmd_liveness` | one start, three choices of streams, with fairness | a cancelled `Wait` returns; so does one whose process has exited and whose pipes nobody holds; no goroutine stays behind |
| `cmd_release` | one start, three choices of streams | violated: `Wait` releases the descriptors also of a failed `Start` |
| `distro_state` | two processes, three clients, two callbacks | no orphan, no lost client, an uninstalled distro is quiet and, with fairness, lets everybody go; a distro that was only touched goes down by itself, unless it is touched for ever |
| `distro_idle` | one process, one client, with fairness | violated: a distro without shells goes down once its processes have exited |
| `distro_timer` | one process, one client | violated: the terminate timer kills no process |
| `registry` | two goroutines, two names, two GUIDs, one flag and the user | unique names, a registered default, listings of one moment, untorn configurations, locks returned, and that every call is one step of `Distros`, with any successor of a removed default |
| `registry_default` | as above | violated: a removed default distro is followed by the one with the lowest GUID |
| `registry_stuck` | as above | violated: of the calls under way one can go on |
| `registry_race` | as above | violated: no map is read and written at once |
| `saver` | N = 4, 26 bytes in writes of any size | what is kept is what should be, at most two copies a write, and `Write` comes back |
| `windows` | two distros, one key that is no GUID, two changes by others, every method | sound listings, true answers, effects that are there, setters that keep the rest, the right process, and the inductive invariant |

Bounds. `MaxStarts = 2` is the smallest bound at which copiers and descriptors of a failed start
meet those of the next one; a third start adds nothing new, since only the last generation and
"older ones" are told apart. `IOs` are chosen so that each kind of field occurs next to one it
interacts with (`Stderr` equal to `Stdout`, a stream beside a null device, fields left nil for
the `XPipe` methods, and for `Output` and `CombinedOutput`); the proofs cover every other choice.
In `distro_state` two processes and three clients let a stop overtake any of two launches and of
two clients while a third has a shell, and two callbacks let an old timer fire after a new one was
set. In `registry` two goroutines suffice for every race of a check with an act and for a writer
between two readers of one call; two names and GUIDs let a name be registered again under a new
GUID and a default have a successor. `Settings` are two, one for a flag and one
for the user, so that two setters of one distro write different things; both are of the same name,
since the configurations of two distros do not meet. Goroutines are interchangeable, hence the
symmetry; GUIDs, which are ordered, are not. `MayRegister` only lets a
registration begin while there is a fresh GUID for it.

In `saver` N = 4 leaves room for offsets at, before and after the wrap, and 26 bytes for a full
prefix, a full ring and more than two turns of it. In `windows` two changes by others
let a distro go and a namesake come during one call, and a key that is no GUID lies between two that
are; one block of variables has one twice and one an entry without an equals sign. The two
configurations have complementary bits, of the four that GoWSL knows: a bit unknown to it, which its
setters would drop, is outside the model.

Deadlock is not checked: a `Cmd` may have been waited for, an uninstalled distro whose callers
have gone has nothing left to do, and all goroutines may be idle. In the registry
calls really can block each other for ever; `NotStuck` denies that, and is violated. Two goroutines
are enough for the shorter cycle, at `mock/registry.go:44`; the longer one at `registration.go:76`
takes four.

Fairness. The Go scheduler runs every goroutine that is not blocked: hence weak fairness on what a
caller does inside a call it has made, on copiers, on the watcher, on the callback of a timer.
A ticking timer fires unless `Touch` restarts it, which it may do for ever: hence the one weak fairness
on `TimerExpires` and `Touched` together, and the exception in `UnusedDistroStops` and `IdleDistroStops`.
`Process.Wait` returns once the process has exited. Writers in `Stdout` and `Stderr` are assumed
not to block, a reader in `Stdin` may (a terminal does), and its copier gets no fairness.
Nothing makes a caller call, a process exit, a descendant close its pipes or a context end.
The registry has no liveness property: it deadlocks. The saver waits for nobody, so its steps inside
`Write` are fair. A call on Windows ends when WSL answers, which nothing guarantees; its
listing, unlike the rest, has no other bound than the number of sub-keys. No liveness is claimed
for it.

## 5. What was found

Each of the violated properties quotes a comment, doc or test of the repository and is explained
under `findings` in `PROJECT.json`:

- Pipes made before a `Start` that the registration check refuses are closed neither by it nor by
  the `Wait` that follows.
- `Touch` starts the terminate timer with processes attached, and the timer kills them.
- A listing holds the read lock of the Lxss key and asks for it again: with a writer
  waiting in between, all wait for ever.
- A lookup by name reads the map of a sub-key that a configuration call may be writing to.
- A distro of the mock whose last process exits stays up for ever, since `AttachProcess` has
  cancelled the timer (`distro_state_tracker.go:123`), and nothing starts it again. One that was
  only touched does go down (`UnusedDistroStops`).
- Unregistering the mock's default distro leaves none, also when distros remain: the search for the
  lowest GUID starts with the empty string (`mock/win32.go:297`), which `FirstGuid` models.

Seen while modelling, without a run of its own:

- `Wait` on a cancelled command returns with its copiers running (`exec.go:485`), although its doc says
  that it waits for them (`exec.go:457-458`); `Output` then reads a buffer they write to.
  `JoinedUnlessCancelled` says that this is the only case.
- A stop between `Touch` and `NewShell` leaves an open shell in a distro that reports to be stopped,
  against "The distro will be kept running so long as the shell is open."
  (`distro_state_tracker.go:35`). Its client is still woken by the next stop (`WaitersKnown`).
- Entries of the environment block without an equals sign are skipped before they are freed
  (`win32_windows.go:266`), although the doc says "It also deallocates each of the *char strings as
  well as the **char array." (`win32_windows.go:256-257`).
- A distro that comes or goes between the count of the sub-keys and their enumeration
  (`registry_windows.go:64-68`) can make another, existing one be reported missing: hence `resized`
  in `AnswersAreTrue` and `ListingIsSound`. It can also make the whole listing fail, as can one
  sub-key that cannot be read.
- `errWslTimeout` (`wslexe_windows.go:20`) is set as the cause of the context, which nothing reads:
  a call of `wsl.exe` that was too slow returns the error of the killed process.
- If `GetProcessId` or `FindProcess` fails, the process that `WslLaunch` started runs on unattended.
  The handle of `WslLaunch` is never closed; that is what makes `LaunchFindsItsProcess` hold.

## 6. Proofs

All theorems hold for every value of the constants, under the assumptions named in the modules.
Each component has one inductive invariant; a lemma shows that every action keeps it, one step
per action, and the theorems follow.

- **Cmd** (`CmdProofs`; `MaxStarts` a positive number, `IOs` any streams without pipes of the
  `XPipe` methods). `IInv` adds to the properties: where the caller is determines which of process,
  claim and `waitDone` exist (`Phases`); every open descriptor is in a list, and which list has been
  closed (`Descriptors`); leaving the loop means having joined everybody or a done context
  (`Joins`); a copier that ended well has nothing left in its pipe and nobody who could write to
  it (`Copies`). None of the properties is inductive alone: `NilIsEarned`, say, needs that a joined
  copier has drained its pipe, and that needs that nobody else writes to it.
- **DistroState** (`DistroStateProofs`; any processes and clients). The conjunction of its safety
  properties is inductive as it stands.
- **Registry** (`RegistryProofs`; any goroutines, names, GUIDs and flags; GUIDs are positive
  numbers, no name is the one that stands for none, no goroutine is `NoThread`). `IInv` says of
  each goroutine where it can be in the phase it is in (`Control`), which read locks it has there
  (`Reads`), when it has or waits for a write lock (`Writes`) and what it knows of its sub-key
  (`Knows`); of the data that the default is registered and names are unique. `ListsAreSnapshots`
  and `NoTornRead` are not inductive alone: that others leave alone what a goroutine has seen
  follows from its read lock (`Stable`), and that a reader is kept out while a configuration is
  half written from the writer having it for itself (`NoNewReader`).
- **Registry implements Distros** but for the successor of a removed default (`RegistryRefinement`,
  `CallsAreAtomic`; the same assumptions). A configuration
  takes effect when its flags are written: from then on the write lock hides the sub-key until the
  user is written too (`View`). `RInv` adds to `IInv` what that takes: the flags stay as written
  until then, and a sub-key that was removed under a writer is not drawn again, so that the new
  distro of that moment is not the one written to (`Written`). Five actions change what `Distros`
  shows, one step lemma each; all others stutter (`Quiet`).

- **Cmd implements CmdContract** (`CmdProofs`, `Refinement`). Every action of `Cmd` is an action of
  the contract or a stuttering step of it, given `IInv`: where the caller is tells `Progress`, and
  what `WaitReturns` reports is earned.
- **The plumbing is silent** (`PlumbingProofs`, `PlumbingStaysSilent`). `PInv` adds to `IInv` that
  what a setup opens bears its number (`Numbered`), that the pipes of the `XPipe` methods are intact
  at the first setup (`PipesIntact`), and that our ends are open until `Wait` closes them
  (`EndsAreOpen`); a copier without a stream of the caller's can therefore not fail before
  (`NoFailures`).
- **Nobody is stuck in a `Cmd`** (`PlumbingProofs`, `NobodyIsStuck`). `Started` says that the
  process's end of each copier's pipe is in the list that `Start` closes, and that `Start` starts
  every copier, those of a failed start included. A copier that runs has not sent, so that the
  others cannot have filled `errch`, whose room is the number of copiers (`RoomInErrch`).
- **PrefixSuffixSaver** (`PrefixSuffixSaverProofs`; N any positive number, writes of any sizes). The
  invariant says, at each step of `Write`, which byte each slot holds: in the ring, slots before the
  offset hold the bytes of this turn and those after it the bytes of the last one, except the slots
  that what is left of p will overwrite (`SuffixKept`); what was neither kept nor is left was counted
  (`Counted`). `KeepsBothEnds` follows by reading the ring from its offset.
- **Windows back-end, effects** (`WindowsProofs`; any distros, users, configurations, blocks, and any number
  of changes by others). `IInv` (`WindowsInv`) says what a call knows while others act: a GUID in the
  listing keeps its name or is gone for good (`Listings`), what a setter has read is current
  unless somebody wrote (`Fresh`), a pid is its own under a handle (`Handled`). With the lemmas
  on flags (`RoundTrip`, `OneBit`) `SetterKeepsRest` follows for every combination of bits.

- **Windows back-end, answers** (`WindowsAnswers`; the same, and any finite set of other sub-keys).
  `AInv` adds to `IInv` what a call is told while it finds out: the history has the present state
  (`Told`); while no distro comes or goes, the keys read are the first ones in the order of
  enumeration (`Enumerated`), and each distro is in the listing or its key is still to be opened
  (`Pending`); the map has what the loop has passed (`Copied`). `ListingIsSound` and
  `AnswersAreTrue` are not inductive without them: that a full count of keys means all keys needs
  that every place in the order has its key. `NthIs` shows that without an induction: the rank of a
  member is an injection of a finite set of n members into 1..n, hence onto. `ParseIs` says what the
  parser finds in the listing of `wsl.exe`, asterisk or not: the word of the distro that has the
  name. `EnvCopied` is the invariant of the loop at its end, one step per entry
  (`EntryCopied`), so that it holds for blocks of any length.

Every invariant and every action property of the passing runs is thereby a theorem, and so are the
refinements of `CmdContract` and of `Distros` with any successor. `IInv` of `CmdInv`, `RegistryInv` and `WindowsInv` is checked by TLC as a part of
`PInv`, `RInv` and `AInv`. Only model-checked is liveness (`CancelUnblocksWait`,
`WaitReturnsAfterExit`, `NoGoroutineLeft`, `UninstallReleasesAll`, `UnusedDistroStops`,
`WriteReturns`), which needs ENABLED, out of the prover's reach. The safety under it is proved: what a waiting party needs
is there (`NoneIsStuck`; `NoOrphans`, `WaitersKnown` and `UninstalledIsQuiet`), and the loop of
`Write` ends (`AtMostTwoCopies`).

## 7. Not modelled

`Install` and the removal of an Appx package (one external command each), `IsPipe`, the conversion
to UTF-16, the raw memory of C strings and its deallocation, the mock's table of shell commands (`mock/command.go`)
and its error injectors, the Linux stubs, the choice of a back-end, the example program and all
wording, names and paths: no state that anybody shares. `DefaultDistro` is modelled on the mock only.
