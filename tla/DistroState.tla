----------------------------- MODULE DistroState -----------------------------
(***************************************************************************)
(* The mock's view of whether one distro runs (DistroState, in             *)
(* mock/internal/distrostate), together with the calls of the mock's       *)
(* backend that use it from many goroutines: WslLaunch, which starts a     *)
(* process and then attaches it, WslLaunchInteractive, which touches the   *)
(* distro and then opens a shell, Terminate and Shutdown, unregistration,  *)
(* and the terminate timer.                                                *)
(*                                                                         *)
(* Every method of DistroState holds its mutex throughout and is one       *)
(* action; what the backend does between two methods is not protected.     *)
(* The 8 seconds of the timer are left out: a ticking timer may expire at  *)
(* any time.  When it does, a goroutine of its own calls Terminate, and    *)
(* the Stop of time.Timer comes too late for it.                           *)
(***************************************************************************)
EXTENDS Integers

CONSTANTS
    Procs,          \* the processes WslLaunch may start, each of them once
    Clients,        \* the callers of WslLaunchInteractive
    MaxCallbacks    \* bound: expired timers that have not called Terminate yet

ASSUME MaxCallbacksAssumption == MaxCallbacks \in Nat \ {0}

VARIABLES
    running, uninstalled,
    timer,          \* terminateTimer: nil, ticking, or expired and not yet nil
    callbacks,      \* goroutines of expired timers on their way to Terminate
    processes,      \* the attached processes
    shells,         \* the open shells, by the client that waits for each
    alive,          \* the processes that have not exited
    launch,         \* where WslLaunch is with each process
    client          \* where each WslLaunchInteractive is

state == <<running, uninstalled, timer, callbacks, processes, shells>>
vars == <<state, alive, launch, client>>

TypeOK ==
    /\ running \in BOOLEAN /\ uninstalled \in BOOLEAN
    /\ timer \in {"nil", "ticking", "expired"}
    /\ callbacks \in 0..MaxCallbacks
    /\ processes \subseteq Procs /\ shells \subseteq Clients /\ alive \subseteq Procs
    /\ launch \in [Procs -> {"none", "found", "started", "attached", "failed"}]
    /\ client \in [Clients -> {"idle", "found", "touched", "waiting", "closed"}]

Init ==
    /\ running = FALSE /\ uninstalled = FALSE
    /\ timer = "nil" /\ callbacks = 0
    /\ processes = {} /\ shells = {} /\ alive = {}
    /\ launch = [p \in Procs |-> "none"]
    /\ client = [c \in Clients |-> "idle"]
-----------------------------------------------------------------------------
(***************************************************************************)
(* The helpers that run under the mutex.                                   *)
(***************************************************************************)
StopTimer == timer' = "stopped"     \* mutant: the field is not reset

CancelTimer == timer' = "nil"

\* Mutant: looks at the flag before Touch has set it.
RefreshBefore == IF running /\ shells = {} THEN timer' = "ticking" ELSE CancelTimer

\* refresh, after Touch cancelled the timer.  The shells it collects as closed
\* are none: only terminate closes a shell, and it empties the set.
Refresh == IF shells = {} THEN timer' = "ticking" ELSE CancelTimer

\* Mutant: the shells are dropped without being closed.
DropShells ==
    /\ CancelTimer /\ running' = FALSE
    /\ alive' = alive \ processes /\ processes' = {}
    /\ shells' = {} /\ UNCHANGED client

\* terminate, of a distro that is not uninstalled.
Stop ==
    /\ CancelTimer /\ running' = FALSE
    /\ alive' = alive \ processes /\ processes' = {}
    /\ client' = [c \in Clients |-> IF c \in shells THEN "closed" ELSE client[c]]
    /\ shells' = {}

(***************************************************************************)
(* Terminate, from Backend.Terminate and Backend.Shutdown or from an       *)
(* expired timer, and MarkUninstalled.                                     *)
(***************************************************************************)
Terminate ==
    /\ ~uninstalled /\ Stop
    /\ UNCHANGED <<uninstalled, callbacks, launch>>

MarkUninstalled ==
    /\ ~uninstalled /\ Stop
    /\ uninstalled' = TRUE
    /\ UNCHANGED <<callbacks, launch>>

TimerExpires ==
    /\ timer = "ticking" /\ callbacks < MaxCallbacks
    /\ timer' = "expired" /\ callbacks' = callbacks + 1
    /\ UNCHANGED <<running, uninstalled, processes, shells, alive, launch, client>>

TimerCallback ==
    /\ callbacks > 0 /\ callbacks' = callbacks - 1
    /\ IF uninstalled
         THEN UNCHANGED <<running, timer, processes, shells, alive, client>>
         ELSE Stop
    /\ UNCHANGED <<uninstalled, launch>>

(***************************************************************************)
(* WslLaunch: the key of the distro is looked up under the lock of the     *)
(* root key, from which an uninstalled distro is gone, and used after it.  *)
(***************************************************************************)
Move(p, where) == launch' = [launch EXCEPT ![p] = where]

FindToLaunch(p) ==
    /\ launch[p] = "none" /\ ~uninstalled
    /\ Move(p, "found")
    /\ UNCHANGED <<state, alive, client>>

StartProcess(p) ==
    /\ launch[p] = "found"
    /\ \/ Move(p, "started") /\ alive' = alive \cup {p}
       \/ Move(p, "failed") /\ UNCHANGED alive
    /\ UNCHANGED <<state, client>>

\* Mutant: the flag is not looked at; mutant: the process is not killed.
AttachRegardless(p) ==
    /\ launch[p] = "started"
    /\ Move(p, "attached") /\ CancelTimer
    /\ processes' = processes \cup {p} /\ running' = TRUE
    /\ UNCHANGED <<uninstalled, callbacks, shells, alive, client>>

AttachOrForget(p) ==
    /\ launch[p] = "started"
    /\ IF uninstalled
         THEN Move(p, "failed") /\ UNCHANGED <<timer, processes, running>>
         ELSE /\ Move(p, "attached") /\ CancelTimer
              /\ processes' = processes \cup {p} /\ running' = TRUE
    /\ UNCHANGED <<uninstalled, callbacks, shells, alive, client>>

AttachProcess(p) ==
    /\ launch[p] = "started"
    /\ IF uninstalled
         THEN /\ Move(p, "failed") /\ alive' = alive \ {p}
              /\ UNCHANGED <<timer, processes, running>>
         ELSE /\ Move(p, "attached") /\ CancelTimer
              /\ processes' = processes \cup {p} /\ running' = TRUE
              /\ UNCHANGED alive
    /\ UNCHANGED <<uninstalled, callbacks, shells, client>>

ProcessExits(p) ==
    /\ p \in alive
    /\ alive' = alive \ {p}
    /\ UNCHANGED <<state, launch, client>>

(***************************************************************************)
(* WslLaunchInteractive: Touch, and then, unless a command was given, a    *)
(* shell that the client waits for.                                        *)
(***************************************************************************)
Go(c, where) == client' = [client EXCEPT ![c] = where]

FindToInteract(c) ==
    /\ client[c] = "idle" /\ ~uninstalled
    /\ Go(c, "found")
    /\ UNCHANGED <<state, alive, launch>>

Touch(c) ==
    /\ client[c] = "found"
    /\ IF uninstalled
         THEN Go(c, "idle") /\ UNCHANGED <<running, timer>>
         ELSE /\ running' = TRUE /\ Refresh
              /\ Go(c, "idle") \/ Go(c, "touched")
    /\ UNCHANGED <<uninstalled, callbacks, processes, shells, alive, launch>>

\* Mutants: the timer keeps ticking; the flag is not looked at.
NewShellTicking(c) ==
    /\ client[c] = "touched"
    /\ IF uninstalled
         THEN Go(c, "idle") /\ UNCHANGED shells
         ELSE Go(c, "waiting") /\ shells' = shells \cup {c}
    /\ UNCHANGED <<timer, running, uninstalled, callbacks, processes, alive, launch>>

NewShellRegardless(c) ==
    /\ client[c] = "touched"
    /\ CancelTimer /\ Go(c, "waiting") /\ shells' = shells \cup {c}
    /\ UNCHANGED <<running, uninstalled, callbacks, processes, alive, launch>>

NewShell(c) ==
    /\ client[c] = "touched"
    /\ IF uninstalled
         THEN Go(c, "idle") /\ UNCHANGED <<timer, shells>>
         ELSE CancelTimer /\ Go(c, "waiting") /\ shells' = shells \cup {c}
    /\ UNCHANGED <<running, uninstalled, callbacks, processes, alive, launch>>

\* Shell.Wait returns once the shell is closed.
ShellReturns(c) ==
    /\ client[c] = "closed"
    /\ Go(c, "idle")
    /\ UNCHANGED <<state, alive, launch>>
-----------------------------------------------------------------------------
LaunchStep(p) == StartProcess(p) \/ AttachProcess(p)
ClientStep(c) == Touch(c) \/ NewShell(c) \/ ShellReturns(c)

Next ==
    \/ Terminate \/ MarkUninstalled \/ TimerExpires \/ TimerCallback
    \/ \E p \in Procs : FindToLaunch(p) \/ LaunchStep(p) \/ ProcessExits(p)
    \/ \E c \in Clients : FindToInteract(c) \/ ClientStep(c)

Spec == Init /\ [][Next]_vars

\* Calls that were made go on, and a timer fires and calls back, unless it is
\* restarted by Touch again and again; nobody is bound to make a call, and processes
\* need not exit.
Touched == \E c \in Clients : Touch(c)

FairSpec ==
    /\ Spec
    /\ \A p \in Procs : WF_vars(LaunchStep(p))
    /\ \A c \in Clients : WF_vars(ClientStep(c))
    /\ WF_vars(TimerExpires \/ Touched) /\ WF_vars(TimerCallback)
-----------------------------------------------------------------------------
(***************************************************************************)
(* Properties.                                                             *)
(***************************************************************************)
\* No process outlives the distro: one that is alive is attached, so that
\* terminate will kill it, or its launch has yet to find out.
NoOrphans == \A p \in alive : p \in processes \/ launch[p] = "started"

\* A client that waits for its shell is known to terminate, and the other way
\* round: no wake-up is lost when a stop comes between Touch and NewShell.
WaitersKnown == \A c \in Clients : client[c] = "waiting" <=> c \in shells

\* Nothing happens to an uninstalled distro any more, whatever was under way
\* when it was unregistered: launches, shells or an expired timer.
UninstalledIsQuiet ==
    uninstalled => ~running /\ timer = "nil" /\ processes = {} /\ shells = {}

\* The timer is only set on a running distro without shells.
TimerOnlyWhenIdle == timer # "nil" => running /\ shells = {}

\* After unregistration every caller gets an answer and every process is gone.
UninstallReleasesAll ==
    uninstalled ~> (alive = {} /\ \A c \in Clients : client[c] = "idle")

\* A distro that was only touched goes down by itself, however shells, stops and
\* timers that came late have cancelled its timer: it does not stay up for ever
\* without a shell and without any process attached, unless it is touched for ever
\* (distro_state_tracker.go:77-86, 192-198).
Unused == running /\ processes = {} /\ shells = {}
UnusedDistroStops == []<><<Touched>>_vars \/ (Unused ~> ~Unused)

(***************************************************************************)
(* What the comments promise and the code does not keep.                   *)
(***************************************************************************)
\* "terminateTimer stops the distro 8 seconds after no processes are left"
\* (distro_state_tracker.go:18): so it kills none.  Touch starts the timer
\* whether processes are attached or not.
TimerSparesProcesses == [][TimerCallback => alive' = alive]_vars

\* "terminateTimer stops the distro 8 seconds after no processes are left"
\* (distro_state_tracker.go:18).  AttachProcess cancels the timer, and the exit
\* of the process does not start it again.
Idle == running /\ processes \cap alive = {} /\ shells = {}
IdleDistroStops == []<><<Touched>>_vars \/ (Idle ~> ~Idle)
=============================================================================
