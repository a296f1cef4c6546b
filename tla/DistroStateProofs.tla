------------------------- MODULE DistroStateProofs -------------------------
(***************************************************************************)
(* The safety properties of DistroState, for any sets of processes and     *)
(* clients.                                                                *)
(***************************************************************************)
EXTENDS DistroState, TLAPS

\* The properties need each other: a shell may only be dropped with its waiter
\* woken, a process only be forgotten when killed.
IInv ==
    /\ TypeOK /\ NoOrphans /\ WaitersKnown
    /\ UninstalledIsQuiet /\ TimerOnlyWhenIdle

\* No step leaves the types.
LEMMA TypeStep == TypeOK /\ [Next]_vars => TypeOK'
<1> SUFFICES ASSUME TypeOK, [Next]_vars PROVE TypeOK'
  OBVIOUS
<1> USE DEF TypeOK, state, vars
<1>1. CASE Terminate
  BY <1>1 DEF Terminate, Stop, CancelTimer
<1>2. CASE MarkUninstalled
  BY <1>2 DEF MarkUninstalled, Stop, CancelTimer
<1>3. CASE TimerExpires
  BY <1>3, MaxCallbacksAssumption DEF TimerExpires
<1>4. CASE TimerCallback
  <2>1. callbacks' \in 0..MaxCallbacks
    BY <1>4, MaxCallbacksAssumption DEF TimerCallback
  <2>2. CASE uninstalled
    BY <1>4, <2>1, <2>2 DEF TimerCallback
  <2>3. CASE ~uninstalled
    BY <1>4, <2>1, <2>3 DEF TimerCallback, Stop, CancelTimer
  <2> QED
    BY <2>2, <2>3
<1>5. ASSUME NEW p \in Procs, FindToLaunch(p) PROVE TypeOK'
  BY <1>5 DEF FindToLaunch, Move
<1>6. ASSUME NEW p \in Procs, StartProcess(p) PROVE TypeOK'
  BY <1>6 DEF StartProcess, Move
<1>7. ASSUME NEW p \in Procs, AttachProcess(p) PROVE TypeOK'
  BY <1>7 DEF AttachProcess, Move, CancelTimer
<1>8. ASSUME NEW p \in Procs, ProcessExits(p) PROVE TypeOK'
  BY <1>8 DEF ProcessExits
<1>9. ASSUME NEW c \in Clients, FindToInteract(c) PROVE TypeOK'
  BY <1>9 DEF FindToInteract, Go
<1>10. ASSUME NEW c \in Clients, Touch(c) PROVE TypeOK'
  BY <1>10 DEF Touch, Go, Refresh, CancelTimer
<1>11. ASSUME NEW c \in Clients, NewShell(c) PROVE TypeOK'
  BY <1>11 DEF NewShell, Go, CancelTimer
<1>12. ASSUME NEW c \in Clients, ShellReturns(c) PROVE TypeOK'
  BY <1>12 DEF ShellReturns, Go
<1>13. CASE UNCHANGED vars
  BY <1>13
<1> QED
  BY <1>1, <1>2, <1>3, <1>4, <1>5, <1>6, <1>7, <1>8, <1>9, <1>10, <1>11, <1>12, <1>13
     DEF Next, LaunchStep, ClientStep

\* Terminate kills what is attached; a refused launch kills its process.
LEMMA ProcessStep == TypeOK /\ NoOrphans /\ [Next]_vars => NoOrphans'
<1> SUFFICES ASSUME TypeOK, NoOrphans, [Next]_vars PROVE NoOrphans'
  OBVIOUS
<1> USE DEF TypeOK, NoOrphans, state, vars
<1>1. CASE Terminate
  BY <1>1 DEF Terminate, Stop, CancelTimer
<1>2. CASE MarkUninstalled
  BY <1>2 DEF MarkUninstalled, Stop, CancelTimer
<1>3. CASE TimerExpires
  BY <1>3 DEF TimerExpires
<1>4. CASE TimerCallback
  BY <1>4 DEF TimerCallback, Stop, CancelTimer
<1>5. ASSUME NEW p \in Procs, FindToLaunch(p) PROVE NoOrphans'
  BY <1>5 DEF FindToLaunch, Move
<1>6. ASSUME NEW p \in Procs, StartProcess(p) PROVE NoOrphans'
  BY <1>6 DEF StartProcess, Move
<1>7. ASSUME NEW p \in Procs, AttachProcess(p) PROVE NoOrphans'
  BY <1>7 DEF AttachProcess, Move, CancelTimer
<1>8. ASSUME NEW p \in Procs, ProcessExits(p) PROVE NoOrphans'
  BY <1>8 DEF ProcessExits
<1>9. ASSUME NEW c \in Clients, FindToInteract(c) PROVE NoOrphans'
  BY <1>9 DEF FindToInteract, Go
<1>10. ASSUME NEW c \in Clients, Touch(c) PROVE NoOrphans'
  BY <1>10 DEF Touch, Go, Refresh, CancelTimer
<1>11. ASSUME NEW c \in Clients, NewShell(c) PROVE NoOrphans'
  BY <1>11 DEF NewShell, Go, CancelTimer
<1>12. ASSUME NEW c \in Clients, ShellReturns(c) PROVE NoOrphans'
  BY <1>12 DEF ShellReturns, Go
<1>13. CASE UNCHANGED vars
  BY <1>13
<1> QED
  BY <1>1, <1>2, <1>3, <1>4, <1>5, <1>6, <1>7, <1>8, <1>9, <1>10, <1>11, <1>12, <1>13
     DEF Next, LaunchStep, ClientStep

\* Terminate closes every shell it drops.
LEMMA ShellStep == TypeOK /\ WaitersKnown /\ [Next]_vars => WaitersKnown'
<1> SUFFICES ASSUME TypeOK, WaitersKnown, [Next]_vars PROVE WaitersKnown'
  OBVIOUS
<1> USE DEF TypeOK, WaitersKnown, state, vars
<1>1. CASE Terminate
  BY <1>1 DEF Terminate, Stop, CancelTimer
<1>2. CASE MarkUninstalled
  BY <1>2 DEF MarkUninstalled, Stop, CancelTimer
<1>3. CASE TimerExpires
  BY <1>3 DEF TimerExpires
<1>4. CASE TimerCallback
  BY <1>4 DEF TimerCallback, Stop, CancelTimer
<1>5. ASSUME NEW p \in Procs, FindToLaunch(p) PROVE WaitersKnown'
  BY <1>5 DEF FindToLaunch, Move
<1>6. ASSUME NEW p \in Procs, StartProcess(p) PROVE WaitersKnown'
  BY <1>6 DEF StartProcess, Move
<1>7. ASSUME NEW p \in Procs, AttachProcess(p) PROVE WaitersKnown'
  BY <1>7 DEF AttachProcess, Move, CancelTimer
<1>8. ASSUME NEW p \in Procs, ProcessExits(p) PROVE WaitersKnown'
  BY <1>8 DEF ProcessExits
<1>9. ASSUME NEW c \in Clients, FindToInteract(c) PROVE WaitersKnown'
  BY <1>9 DEF FindToInteract, Go
<1>10. ASSUME NEW c \in Clients, Touch(c) PROVE WaitersKnown'
  BY <1>10 DEF Touch, Go, Refresh, CancelTimer
<1>11. ASSUME NEW c \in Clients, NewShell(c) PROVE WaitersKnown'
  BY <1>11 DEF NewShell, Go, CancelTimer
<1>12. ASSUME NEW c \in Clients, ShellReturns(c) PROVE WaitersKnown'
  BY <1>12 DEF ShellReturns, Go
<1>13. CASE UNCHANGED vars
  BY <1>13
<1> QED
  BY <1>1, <1>2, <1>3, <1>4, <1>5, <1>6, <1>7, <1>8, <1>9, <1>10, <1>11, <1>12, <1>13
     DEF Next, LaunchStep, ClientStep

\* Every method checks the uninstalled flag first.
LEMMA QuietStep == UninstalledIsQuiet /\ [Next]_vars => UninstalledIsQuiet'
<1> SUFFICES ASSUME UninstalledIsQuiet, [Next]_vars PROVE UninstalledIsQuiet'
  OBVIOUS
<1> USE DEF UninstalledIsQuiet, state, vars
<1>1. CASE Terminate
  BY <1>1 DEF Terminate, Stop, CancelTimer
<1>2. CASE MarkUninstalled
  BY <1>2 DEF MarkUninstalled, Stop, CancelTimer
<1>3. CASE TimerExpires
  BY <1>3 DEF TimerExpires
<1>4. CASE TimerCallback
  BY <1>4 DEF TimerCallback, Stop, CancelTimer
<1>5. ASSUME NEW p \in Procs, FindToLaunch(p) PROVE UninstalledIsQuiet'
  BY <1>5 DEF FindToLaunch, Move
<1>6. ASSUME NEW p \in Procs, StartProcess(p) PROVE UninstalledIsQuiet'
  BY <1>6 DEF StartProcess, Move
<1>7. ASSUME NEW p \in Procs, AttachProcess(p) PROVE UninstalledIsQuiet'
  BY <1>7 DEF AttachProcess, Move, CancelTimer
<1>8. ASSUME NEW p \in Procs, ProcessExits(p) PROVE UninstalledIsQuiet'
  BY <1>8 DEF ProcessExits
<1>9. ASSUME NEW c \in Clients, FindToInteract(c) PROVE UninstalledIsQuiet'
  BY <1>9 DEF FindToInteract, Go
<1>10. ASSUME NEW c \in Clients, Touch(c) PROVE UninstalledIsQuiet'
  BY <1>10 DEF Touch, Go, Refresh, CancelTimer
<1>11. ASSUME NEW c \in Clients, NewShell(c) PROVE UninstalledIsQuiet'
  BY <1>11 DEF NewShell, Go, CancelTimer
<1>12. ASSUME NEW c \in Clients, ShellReturns(c) PROVE UninstalledIsQuiet'
  BY <1>12 DEF ShellReturns, Go
<1>13. CASE UNCHANGED vars
  BY <1>13
<1> QED
  BY <1>1, <1>2, <1>3, <1>4, <1>5, <1>6, <1>7, <1>8, <1>9, <1>10, <1>11, <1>12, <1>13
     DEF Next, LaunchStep, ClientStep

\* The timer is started by Touch only, and stopped by all else.
LEMMA TimerStep == TimerOnlyWhenIdle /\ [Next]_vars => TimerOnlyWhenIdle'
<1> SUFFICES ASSUME TimerOnlyWhenIdle, [Next]_vars PROVE TimerOnlyWhenIdle'
  OBVIOUS
<1> USE DEF TimerOnlyWhenIdle, state, vars
<1>1. CASE Terminate
  BY <1>1 DEF Terminate, Stop, CancelTimer
<1>2. CASE MarkUninstalled
  BY <1>2 DEF MarkUninstalled, Stop, CancelTimer
<1>3. CASE TimerExpires
  BY <1>3 DEF TimerExpires
<1>4. CASE TimerCallback
  BY <1>4 DEF TimerCallback, Stop, CancelTimer
<1>5. ASSUME NEW p \in Procs, FindToLaunch(p) PROVE TimerOnlyWhenIdle'
  BY <1>5 DEF FindToLaunch, Move
<1>6. ASSUME NEW p \in Procs, StartProcess(p) PROVE TimerOnlyWhenIdle'
  BY <1>6 DEF StartProcess, Move
<1>7. ASSUME NEW p \in Procs, AttachProcess(p) PROVE TimerOnlyWhenIdle'
  BY <1>7 DEF AttachProcess, Move, CancelTimer
<1>8. ASSUME NEW p \in Procs, ProcessExits(p) PROVE TimerOnlyWhenIdle'
  BY <1>8 DEF ProcessExits
<1>9. ASSUME NEW c \in Clients, FindToInteract(c) PROVE TimerOnlyWhenIdle'
  BY <1>9 DEF FindToInteract, Go
<1>10. ASSUME NEW c \in Clients, Touch(c) PROVE TimerOnlyWhenIdle'
  BY <1>10 DEF Touch, Go, Refresh, CancelTimer
<1>11. ASSUME NEW c \in Clients, NewShell(c) PROVE TimerOnlyWhenIdle'
  BY <1>11 DEF NewShell, Go, CancelTimer
<1>12. ASSUME NEW c \in Clients, ShellReturns(c) PROVE TimerOnlyWhenIdle'
  BY <1>12 DEF ShellReturns, Go
<1>13. CASE UNCHANGED vars
  BY <1>13
<1> QED
  BY <1>1, <1>2, <1>3, <1>4, <1>5, <1>6, <1>7, <1>8, <1>9, <1>10, <1>11, <1>12, <1>13
     DEF Next, LaunchStep, ClientStep

\* The invariant holds in every reachable state.
THEOREM Invariance == Spec => []IInv
<1>1. Init => IInv
  <2> SUFFICES ASSUME Init PROVE IInv
    OBVIOUS
  <2>1. TypeOK
    <3>1. running \in BOOLEAN /\ uninstalled \in BOOLEAN
      BY Zenon DEF Init
    <3> QED
      BY <3>1, MaxCallbacksAssumption DEF Init, TypeOK
  <2>2. NoOrphans /\ WaitersKnown
    BY Zenon DEF Init, NoOrphans, WaitersKnown
  <2>3. UninstalledIsQuiet /\ TimerOnlyWhenIdle
    BY DEF Init, UninstalledIsQuiet, TimerOnlyWhenIdle
  <2> QED
    BY <2>1, <2>2, <2>3 DEF IInv
<1>2. IInv /\ [Next]_vars => IInv'
  BY TypeStep, ProcessStep, ShellStep, QuietStep, TimerStep DEF IInv
<1> QED
  BY <1>1, <1>2, PTL DEF Spec

\* Every state of a DistroState is well typed (distro_state_tracker.go:14-32).
THEOREM TypeCorrect == Spec => []TypeOK
<1>1. IInv => TypeOK
  BY DEF IInv
<1> QED
  BY <1>1, Invariance, PTL

\* Whatever the order of launches and unregistration, no process escapes
\* (win32.go:133-143, distro_state_tracker.go:115-129).
THEOREM NoOrphan == Spec => []NoOrphans
<1>1. IInv => NoOrphans
  BY DEF IInv
<1> QED
  BY <1>1, Invariance, PTL

\* No client waits for a shell that terminate does not know of
\* (distro_state_tracker.go:133-171).
THEOREM NoLostShell == Spec => []WaitersKnown
<1>1. IInv => WaitersKnown
  BY DEF IInv
<1> QED
  BY <1>1, Invariance, PTL

\* An uninstalled distro stays quiet (distro_state_tracker.go:99-111).
THEOREM Quiet == Spec => []UninstalledIsQuiet
<1>1. IInv => UninstalledIsQuiet
  BY DEF IInv
<1> QED
  BY <1>1, Invariance, PTL

\* A timer that is set belongs to a running distro without shells
\* (distro_state_tracker.go:180-208).
THEOREM TimerIdle == Spec => []TimerOnlyWhenIdle
<1>1. IInv => TimerOnlyWhenIdle
  BY DEF IInv
<1> QED
  BY <1>1, Invariance, PTL
=============================================================================
