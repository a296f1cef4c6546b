------------------------------- MODULE CmdInv -------------------------------
(***************************************************************************)
(* The inductive invariant behind the safety properties of Cmd.            *)
(***************************************************************************)
EXTENDS Cmd

\* Where the caller is determines what exists: no process before the launch, a
\* claimed Wait from then to its outcome, and the state of waitDone.
Phases ==
    /\ pc \in {"setup", "launch"} => proc = "none"
    /\ pc \in {"spawn", "wait"} => proc # "none" /\ ~finished
    /\ pc \in WaitSteps => finished /\ outcome = "none"
    /\ finished => proc # "none" /\ (pc \in WaitSteps \/ outcome # "none")
    /\ outcome # "none" => finished
    /\ pc \in WaitSteps \ {"pwait"} \/ outcome # "none" => waitFailed \/ proc = "reaped"
    /\ pc = "spawn" \/ proc = "none" => waitDone = "nil"
    /\ proc # "none" /\ pc # "spawn" /\ (finished => pc \in {"pwait", "signal"})
         => waitDone = "open"

\* Every open descriptor is in a list; the first list is closed once the
\* command has started, the second once Wait is about to return.
Descriptors ==
    /\ open \subseteq closeAfterStart \cup closeAfterWait
    /\ proc # "none" /\ pc # "spawn" => open \cap closeAfterStart = {}
    /\ pc = "return" \/ outcome # "none" => open \cap closeAfterWait = {}
    /\ ResourcesReleased

\* Leaving the loop without a context means having joined every copier.
Joins ==
    /\ pc \in {"close", "return"} => ctxDone \/ Joined
    /\ JoinedUnlessCancelled

\* A copier that ended without an error left nothing in its pipe, and nobody
\* who could write to it.
Copied(s, n) ==
    copier[<<s, n>>] = "ok" \/ (copier[<<s, n>>] = "taken" /\ ~copyErr)
        => s \notin child /\ s \notin undelivered

Copies ==
    /\ \A s \in child \cup undelivered : <<s, gen>> \in goroutine
    /\ proc = "none" => child = {} /\ undelivered = {}
    /\ proc = "none" \/ pc = "spawn" => \A g \in Copiers : copier[g] = "none"
    /\ \A s \in Outputs, n \in 1..MaxStarts : Copied(s, n)
    /\ NilIsEarned

\* The conjunction is inductive.
IInv == TypeOK /\ Phases /\ Descriptors /\ Joins /\ Copies
-----------------------------------------------------------------------------
(***************************************************************************)
(* What PlumbingIsSilent and NoneIsStuck need besides.  What the n-th      *)
(* setup opens bears the number n, only copiers that were set up run, and  *)
(* no end of ours is in the list that Start closes.                        *)
(***************************************************************************)
Numbered ==
    /\ pc = "launch" \/ proc # "none" => gen # 0
    /\ \A g \in goroutine : g[2] \in 1..gen
    /\ \A f \in closeAfterStart \cup closeAfterWait : f[2] \in 0..gen
    /\ \A g \in Copiers : copier[g] # "none" => g \in goroutine
    /\ \A s \in Streams, n \in 0..MaxStarts : OurEnd(s, n) \notin closeAfterStart

\* The first descriptor setup was launched.
FirstStart == gen = 1 /\ (pc = "launch" \/ proc # "none")

NoStreams == \A s \in Streams : io[s] # "stream"

\* Before the first setup, the pipes of the XPipe methods are intact, so that
\* they need no copier.
PipesIntact ==
    gen = 0 /\ (pc = "setup" \/ ~ctxDone) =>
        \A s \in Streams : io[s] = "xpipe" => ChildEnd(s, 0) \in open

\* Until Wait closes them, our ends are there for the copiers, none of which
\* serves a pipe of the caller's.
EndsAreOpen ==
    FirstStart => \A g \in goroutine :
        /\ io[g[1]] # "xpipe"
        /\ pc # "return" /\ outcome = "none" /\ copier[g] \in {"none", "running"}
             => OurEnd(g[1], g[2]) \in open

\* So that no copier fails before that, and no failure is received ever.
NoFailures ==
    /\ proc = "none" => ~copyErr
    /\ FirstStart /\ NoStreams =>
          /\ ~copyErr
          /\ pc # "return" /\ outcome = "none" => \A g \in Copiers : copier[g] # "failed"

Silent ==
    /\ outcome \notin {"none", "ctx", "wait"} => proc = "reaped"
    /\ PlumbingIsSilent

\* What keeps anybody from being stuck: Start closes the process's end of every
\* copier's pipe and starts every copier, and Wait signals before its loop.
Started ==
    /\ \A g \in goroutine : ChildEnd(g[1], g[2]) \in closeAfterStart
    /\ proc # "none" /\ pc # "spawn" => \A g \in goroutine : copier[g] # "none"
    /\ pc \in {"drain", "close", "return"} \/ outcome # "none" => waitDone = "closed"

PInv == IInv /\ Numbered /\ PipesIntact /\ EndsAreOpen /\ NoFailures /\ Silent /\ Started
=============================================================================
