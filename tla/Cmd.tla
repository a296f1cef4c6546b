-------------------------------- MODULE Cmd --------------------------------
(***************************************************************************)
(* The life of one Cmd (exec.go): a command started inside a WSL distro,   *)
(* its standard streams, and everything that runs beside the caller:       *)
(*                                                                         *)
(*   - the caller, who invokes the methods one after the other;            *)
(*   - one copier goroutine per stream that is not handed to the process   *)
(*     directly;                                                           *)
(*   - the watcher goroutine that kills the process when the context is    *)
(*     done;                                                               *)
(*   - the process, and the descendants that inherited its streams;        *)
(*   - the context, which may become done at any moment.                   *)
(*                                                                         *)
(* A call that returns an error before it touches any field is a           *)
(* stuttering step and has no action, except where a property looks at the *)
(* error (Start and Wait).                                                 *)
(***************************************************************************)
EXTENDS Integers, FiniteSets

CONSTANTS
    MaxStarts,  \* bound: descriptor setups (calls of Start that reach line 103)
    IOs         \* the assignments of Cmd.Stdin, .Stdout and .Stderr considered

Streams == {"stdin", "stdout", "stderr"}
Outputs == {"stdout", "stderr"}

(***************************************************************************)
(* What a field holds: nothing ("null"), a reader or writer that is not a  *)
(* pipe ("stream"), a pipe of the caller's ("pipe"), the pipe that         *)
(* StdinPipe, StdoutPipe or StderrPipe made ("xpipe") or, for Stderr, the  *)
(* very value of Stdout ("same").                                          *)
(***************************************************************************)
Kinds == {"null", "stream", "pipe", "xpipe", "same"}

ValidIO == {f \in [Streams -> Kinds] :
               /\ f["stdin"] # "same" /\ f["stdout"] # "same"
               /\ f["stderr"] = "same" => f["stdout"] # "null"}

ASSUME MaxStartsAssumption == MaxStarts \in Nat \ {0}
ASSUME IOsAssumption == IOs \subseteq {f \in ValidIO : \A s \in Streams : f[s] # "xpipe"}

(***************************************************************************)
(* A descriptor is <<stream, generation, end>>.  Generation 0 is the pipe  *)
(* of an XPipe method, generation n what the n-th setup opened.  "null" is *)
(* the null device, opened when the field is nil.                          *)
(***************************************************************************)
Copiers == Streams \X (1..MaxStarts)
Fds == Streams \X (0..MaxStarts) \X {"r", "w", "null"}

ChildEnd(s, n) == <<s, n, IF s = "stdin" THEN "r" ELSE "w">>
OurEnd(s, n)   == <<s, n, IF s = "stdin" THEN "w" ELSE "r">>

VARIABLES
    io,             \* c.Stdin, c.Stdout, c.Stderr
    open,           \* descriptors of the Cmd that are open in this program
    closeAfterStart, closeAfterWait,
    goroutine,      \* copiers in c.goroutine
    gen,            \* descriptor setups so far
    copier,         \* where each copier goroutine is
    copyErr,        \* copyError # nil
    child,          \* streams whose copy pipe the process or a descendant holds
    undelivered,    \* outputs with bytes that have not reached their writer
    proc,           \* the process; "none" is c.Process = nil
    exitOK,         \* it exited with status zero
    waitFailed,     \* c.Process.Wait returned an error
    finished, waitDone, watcher, ctxDone,
    pc,             \* where the caller is
    run,            \* the caller is inside Run, which calls Wait next
    ret,            \* what the last call returned ("ok" also before any)
    outcome         \* what the Wait that did its work returned

lists == <<closeAfterStart, closeAfterWait, goroutine, gen>>
copying == <<copier, copyErr, undelivered>>
process == <<proc, exitOK, child>>
waiting == <<waitFailed, finished, waitDone, outcome>>
vars == <<io, open, lists, copying, process, waiting, watcher, ctxDone, pc, run, ret>>

\* From claiming the right to wait to the return.
WaitSteps == {"pwait", "signal", "drain", "close", "return"}

FlagsOK ==
    /\ copyErr \in BOOLEAN /\ exitOK \in BOOLEAN /\ waitFailed \in BOOLEAN
    /\ finished \in BOOLEAN /\ ctxDone \in BOOLEAN /\ run \in BOOLEAN

DataOK ==
    /\ io \in ValidIO
    /\ open \subseteq Fds
    /\ closeAfterStart \subseteq Fds /\ closeAfterWait \subseteq Fds
    /\ goroutine \subseteq Copiers
    /\ gen \in 0..MaxStarts /\ (pc = "setup" => gen < MaxStarts)
    /\ copier \in [Copiers -> {"none", "running", "ok", "failed", "taken"}]
    /\ child \subseteq Streams /\ undelivered \subseteq Outputs
    /\ proc \in {"none", "running", "exited", "reaped"}
    /\ waitDone \in {"nil", "open", "closed"}
    /\ watcher \in {"none", "watching", "done"}
    /\ pc \in {"idle", "setup", "launch", "spawn", "wait"} \cup WaitSteps
    /\ ret \in {"ok", "notRegistered", "alreadyStarted", "ctx", "setup", "launch",
                "notStarted", "alreadyWaited"}
    /\ outcome \in {"none", "nil", "ctx", "wait", "exit", "copy"}

TypeOK == DataOK /\ FlagsOK

Init ==
    /\ io \in IOs
    /\ open = {} /\ closeAfterStart = {} /\ closeAfterWait = {}
    /\ goroutine = {} /\ gen = 0
    /\ copier = [g \in Copiers |-> "none"]
    /\ copyErr = FALSE /\ child = {} /\ undelivered = {}
    /\ proc = "none" /\ exitOK = FALSE /\ waitFailed = FALSE
    /\ finished = FALSE /\ waitDone = "nil" /\ watcher = "none" /\ ctxDone = FALSE
    /\ pc = "idle" /\ run = FALSE /\ ret = "ok" /\ outcome = "none"
-----------------------------------------------------------------------------
(***************************************************************************)
(* StdinPipe, StdoutPipe, StderrPipe, and the caller closing its end.      *)
(***************************************************************************)
XPipe(s) ==
    /\ pc = "idle" /\ io[s] = "null" /\ proc = "none"
    /\ io' = [io EXCEPT ![s] = "xpipe"]
    /\ open' = open \cup {ChildEnd(s, 0), OurEnd(s, 0)}
    /\ closeAfterStart' = closeAfterStart \cup {ChildEnd(s, 0)}
    /\ closeAfterWait' = closeAfterWait \cup {OurEnd(s, 0)}
    /\ ret' = "ok"
    /\ UNCHANGED <<goroutine, gen, copying, process, waiting, watcher, ctxDone, pc, run>>

CallerCloses(s) ==
    /\ OurEnd(s, 0) \in open
    /\ open' = open \ {OurEnd(s, 0)}
    /\ UNCHANGED <<io, lists, copying, process, waiting, watcher, ctxDone, pc, run, ret>>

(***************************************************************************)
(* Start.  Registration is looked up in the registry, which others change: *)
(* either answer is possible at any time.                                  *)
(***************************************************************************)
\* Mutant: only the first list is closed.
CloseFirst == open' = open \ closeAfterStart

CloseBoth == open' = open \ (closeAfterStart \cup closeAfterWait)

\* Start returns an error: so does the Run it may be part of.
FailStart(err) == ret' = err /\ pc' = "idle" /\ run' = FALSE

Check(thenWait) ==
    /\ pc = "idle"
    /\ \/ FailStart("notRegistered") /\ UNCHANGED open
       \/ proc # "none" /\ FailStart("alreadyStarted") /\ UNCHANGED open
       \/ proc = "none" /\ ctxDone /\ FailStart("ctx") /\ CloseBoth
       \/ /\ proc = "none" /\ ~ctxDone /\ gen < MaxStarts
          /\ pc' = "setup" /\ run' = thenWait
          /\ UNCHANGED <<open, ret>>
    /\ UNCHANGED <<lists, copying, process, waiting, watcher, ctxDone>>

Start == Check(FALSE) /\ UNCHANGED io
Run   == Check(TRUE) /\ UNCHANGED io

Output ==
    /\ io["stdout"] = "null"
    /\ io' = [io EXCEPT !["stdout"] = "stream",
                        !["stderr"] = IF @ = "null" THEN "stream" ELSE @]
    /\ Check(TRUE)

\* Mutant: c.Stdout is left nil.
CombinedErrOnly ==
    /\ io["stdout"] = "null" /\ io["stderr"] = "null"
    /\ io' = [io EXCEPT !["stderr"] = "same"]
    /\ Check(TRUE)

CombinedOutput ==
    /\ io["stdout"] = "null" /\ io["stderr"] = "null"
    /\ io' = [io EXCEPT !["stdout"] = "stream", !["stderr"] = "same"]
    /\ Check(TRUE)

\* The field is an open pipe: its descriptor goes to the process as it is.
IsPipe(s) ==
    \/ io[s] = "pipe"
    \/ io[s] = "xpipe" /\ ChildEnd(s, 0) \in open

NeedsCopier(s) == io[s] # "same" /\ ~IsPipe(s)

\* Descriptors for the streams of S were set up, as the n-th generation.
Describe(S, n) ==
    LET new == {s \in S : NeedsCopier(s)} IN
    /\ gen' = n
    /\ goroutine' = goroutine \cup (new \X {n})
    /\ closeAfterStart' = closeAfterStart \cup {ChildEnd(s, n) : s \in new}
    /\ closeAfterWait' = closeAfterWait \cup {OurEnd(s, n) : s \in new}
                           \cup {<<s, n, "null">> : s \in {t \in new : io[t] = "null"}}

Setup ==
    /\ pc = "setup"
    /\ Describe(Streams, gen + 1)
    /\ open' = open \cup (closeAfterStart' \ closeAfterStart)
                    \cup (closeAfterWait' \ closeAfterWait)
    /\ pc' = "launch"
    /\ UNCHANGED <<io, copying, process, waiting, watcher, ctxDone, run, ret>>

\* One stream cannot be set up, after those of S were.
SetupFails ==
    /\ pc = "setup"
    /\ \E S \in {{}, {"stdin"}, {"stdin", "stdout"}} :
          /\ NeedsCopier(CASE S = {} -> "stdin"
                           [] S = {"stdin"} -> "stdout"
                           [] OTHER -> "stderr")
          /\ Describe(S, gen + 1)
    /\ CloseBoth
    /\ FailStart("setup")
    /\ UNCHANGED <<io, copying, process, waiting, watcher, ctxDone>>

LaunchFails ==
    /\ pc = "launch"
    /\ CloseBoth
    /\ FailStart("launch")
    /\ UNCHANGED <<io, lists, copying, process, waiting, watcher, ctxDone>>

Launch ==
    /\ pc = "launch"
    /\ proc' = "running"
    /\ child' = {s \in Streams : <<s, gen>> \in goroutine}
    /\ pc' = "spawn"
    /\ UNCHANGED <<io, open, lists, copying, exitOK, waiting, watcher, ctxDone, run, ret>>

\* Mutant: the ends meant for the process stay open here.
KeepChildEnds == open' = open

CloseChildEnds == open' = open \ closeAfterStart

Spawn ==
    /\ pc = "spawn"
    /\ CloseChildEnds
    /\ copier' = [g \in Copiers |-> IF g \in goroutine THEN "running" ELSE "none"]
    /\ waitDone' = "open" /\ watcher' = "watching"
    /\ ret' = "ok"
    /\ pc' = IF run THEN "wait" ELSE "idle"
    /\ run' = FALSE
    /\ UNCHANGED <<io, lists, copyErr, undelivered, process, waitFailed, finished, outcome,
                   ctxDone>>
-----------------------------------------------------------------------------
(***************************************************************************)
(* Wait.                                                                   *)
(***************************************************************************)
\* Mutant: the flag is not looked at.
MayWaitAgain == proc # "none"

MayWait == proc # "none" /\ ~finished

Wait ==
    /\ pc \in {"idle", "wait"}
    /\ \/ /\ proc = "none"
          /\ ret' = "notStarted" /\ pc' = "idle" /\ UNCHANGED finished
       \/ /\ proc # "none" /\ finished
          /\ ret' = "alreadyWaited" /\ pc' = "idle" /\ UNCHANGED finished
       \/ /\ MayWait
          /\ finished' = TRUE /\ pc' = "pwait" /\ UNCHANGED ret
    /\ UNCHANGED <<io, open, lists, copying, process, waitFailed, waitDone, outcome, watcher,
                   ctxDone, run>>

\* c.Process.Wait returns: the process was reaped, or the call failed.
ProcessWait ==
    /\ pc = "pwait"
    /\ \/ proc \in {"exited", "reaped"} /\ proc' = "reaped" /\ UNCHANGED waitFailed
       \/ waitFailed' = TRUE /\ UNCHANGED proc
    /\ pc' = "signal"
    /\ UNCHANGED <<io, open, lists, copying, exitOK, child, finished, waitDone, outcome,
                   watcher, ctxDone, run, ret>>

\* Mutant: our ends are closed before the copiers are done with them.
SignalAndClose ==
    /\ pc = "signal"
    /\ waitDone' = "closed"
    /\ open' = open \ closeAfterWait
    /\ pc' = "drain"
    /\ UNCHANGED <<io, lists, copying, process, waitFailed, finished, outcome, watcher,
                   ctxDone, run, ret>>

SignalWaitDone ==
    /\ pc = "signal"
    /\ waitDone' = "closed"
    /\ pc' = "drain"
    /\ UNCHANGED <<io, open, lists, copying, process, waitFailed, finished, outcome, watcher,
                   ctxDone, run, ret>>

\* errch: the values sent and not received yet, in a channel of this capacity.
Errch == {g \in Copiers : copier[g] \in {"ok", "failed"}}
ErrchCapOne == 1    \* mutant: room for one value only
ErrchCap == Cardinality(goroutine)

DrainReceive ==
    /\ pc = "drain"
    /\ \E g \in Errch :
          /\ copier' = [copier EXCEPT ![g] = "taken"]
          /\ copyErr' = (copyErr \/ copier[g] = "failed")
    /\ UNCHANGED <<io, open, lists, undelivered, process, waiting, watcher, ctxDone, pc, run,
                   ret>>

\* Mutants: the context is not selected on; one value is enough; an error of
\* Process.Wait skips the loop.
DrainedFully == \A g \in goroutine : copier[g] = "taken"
DrainedOnce == ctxDone \/ \E g \in goroutine : copier[g] = "taken"
DrainedOrFailed == ctxDone \/ waitFailed \/ \A g \in goroutine : copier[g] = "taken"

\* The loop ends: one value per goroutine was received, or the context is done.
Drained == ctxDone \/ \A g \in goroutine : copier[g] = "taken"

DrainEnds ==
    /\ pc = "drain"
    /\ Drained
    /\ pc' = "close"
    /\ UNCHANGED <<io, open, lists, copying, process, waiting, watcher, ctxDone, run, ret>>

CloseAfterWait ==
    /\ pc = "close"
    /\ open' = open \ closeAfterWait
    /\ pc' = "return"
    /\ UNCHANGED <<io, lists, copying, process, waiting, watcher, ctxDone, run, ret>>

WaitReturns ==
    /\ pc = "return"
    /\ outcome' = IF ctxDone THEN "ctx"
                  ELSE IF waitFailed THEN "wait"
                  ELSE IF ~exitOK THEN "exit"
                  ELSE IF copyErr THEN "copy" ELSE "nil"
    /\ ret' = "ok"
    /\ pc' = "idle"
    /\ UNCHANGED <<io, open, lists, copying, process, waitFailed, finished, waitDone, watcher,
                   ctxDone, run>>
-----------------------------------------------------------------------------
(***************************************************************************)
(* A copier runs io.Copy, closes its end of the pipe and sends the error,  *)
(* or nil, down errch.  The channel holds one value per copier, so the     *)
(* send belongs to the step that ends the copy.                            *)
(***************************************************************************)
Finish(g, result) ==
    /\ Cardinality(Errch) < ErrchCap
    /\ copier' = [copier EXCEPT ![g] = result]
    /\ open' = open \ {OurEnd(g[1], g[2])}

\* The reader in c.Stdin is drained; closing the pipe a second time is an
\* error, and a reader may fail, or write to a pipe nobody reads any more.
CopyIn(n) ==
    LET g == <<"stdin", n>> IN
    /\ copier[g] = "running"
    /\ \/ OurEnd("stdin", n) \in open /\ io["stdin"] # "xpipe" /\ Finish(g, "ok")
       \/ /\ OurEnd("stdin", n) \notin open \/ io["stdin"] \in {"stream", "xpipe"}
          /\ Finish(g, "failed")
    /\ UNCHANGED <<io, lists, copyErr, undelivered, process, waiting, watcher, ctxDone, pc, run,
                   ret>>

\* What was written goes to the writer in c.Stdout or c.Stderr ...
Deliver(s, n) ==
    /\ OurEnd(s, n) \in open /\ s \in undelivered /\ io[s] # "xpipe"
    /\ undelivered' = undelivered \ {s}
    /\ UNCHANGED <<copier, open>>

\* ... until that writer fails, nobody holds the other end, or ours is closed.
CopyEnds(s, n) ==
    /\ \/ OurEnd(s, n) \notin open /\ Finish(<<s, n>>, "failed")
       \/ /\ OurEnd(s, n) \in open /\ s \in undelivered /\ io[s] \in {"stream", "xpipe"}
          /\ Finish(<<s, n>>, "failed")
       \/ /\ OurEnd(s, n) \in open /\ s \notin undelivered
          /\ ChildEnd(s, n) \notin open /\ s \notin child
          /\ Finish(<<s, n>>, "ok")
    /\ UNCHANGED undelivered

CopyOut(s, n) ==
    /\ copier[<<s, n>>] = "running"
    /\ Deliver(s, n) \/ CopyEnds(s, n)
    /\ UNCHANGED <<io, lists, copyErr, process, waiting, watcher, ctxDone, pc, run, ret>>

(***************************************************************************)
(* The watcher: select on the context and on waitDone.                     *)
(***************************************************************************)
Exit(ok) == proc' = "exited" /\ exitOK' = ok /\ child' \in SUBSET child

Kill ==
    /\ watcher = "watching" /\ ctxDone
    /\ watcher' = "done"
    /\ IF proc = "running" THEN Exit(FALSE) ELSE UNCHANGED process
    /\ UNCHANGED <<io, open, lists, copying, waiting, ctxDone, pc, run, ret>>

WatcherStops ==
    /\ watcher = "watching" /\ waitDone = "closed"
    /\ watcher' = "done"
    /\ UNCHANGED <<io, open, lists, copying, process, waiting, ctxDone, pc, run, ret>>

(***************************************************************************)
(* The environment: the process tree and the context.                      *)
(***************************************************************************)
ProcessExits ==
    /\ proc = "running"
    /\ \E ok \in BOOLEAN : Exit(ok)
    /\ UNCHANGED <<io, open, lists, copying, waiting, watcher, ctxDone, pc, run, ret>>

\* The process, or the last descendant holding it, closes a stream.
ChildCloses(s) ==
    /\ s \in child
    /\ child' = child \ {s}
    /\ UNCHANGED <<io, open, lists, copying, proc, exitOK, waiting, watcher, ctxDone, pc, run,
                   ret>>

ChildWrites(s) ==
    /\ s \in child \ undelivered /\ OurEnd(s, gen) \in open
    /\ undelivered' = undelivered \cup {s}
    /\ UNCHANGED <<io, open, lists, copier, copyErr, process, waiting, watcher, ctxDone, pc,
                   run, ret>>

ContextDone ==
    /\ ~ctxDone /\ ctxDone' = TRUE
    /\ UNCHANGED <<io, open, lists, copying, process, waiting, watcher, pc, run, ret>>
-----------------------------------------------------------------------------
Caller ==
    \/ \E s \in Streams : XPipe(s)
    \/ Start \/ Run \/ Output \/ CombinedOutput \/ Wait

\* What the caller does inside a call, once it has made it.
CallerStep ==
    \/ Setup \/ SetupFails \/ Launch \/ LaunchFails \/ Spawn
    \/ (pc = "wait" /\ Wait)
    \/ SignalWaitDone \/ DrainReceive \/ DrainEnds \/ CloseAfterWait \/ WaitReturns

Environment ==
    \/ \E s \in Streams : CallerCloses(s) \/ ChildCloses(s)
    \/ \E s \in Outputs : ChildWrites(s)
    \/ ProcessExits \/ ContextDone

Next ==
    \/ Caller \/ CallerStep \/ ProcessWait
    \/ \E n \in 1..MaxStarts : CopyIn(n) \/ \E s \in Outputs : CopyOut(s, n)
    \/ Kill \/ WatcherStops
    \/ Environment

Spec == Init /\ [][Next]_vars

(***************************************************************************)
(* Fairness: the Go scheduler runs every goroutine that is not blocked.    *)
(* Process.Wait returns once the process has exited.  The writers in       *)
(* c.Stdout and c.Stderr are assumed not to block; a reader in c.Stdin may *)
(* (a terminal does), so its copier is only fair when it is the null       *)
(* device or an already closed pipe.  Nothing makes the process exit or    *)
(* the context end.                                                        *)
(***************************************************************************)
Fairness ==
    /\ WF_vars(CallerStep)
    /\ WF_vars(proc # "running" /\ ProcessWait)
    /\ WF_vars(Kill) /\ WF_vars(WatcherStops)
    /\ \A n \in 1..MaxStarts :
          /\ WF_vars(io["stdin"] # "stream" /\ CopyIn(n))
          /\ \A s \in Outputs : WF_vars(CopyOut(s, n))

FairSpec == Spec /\ Fairness
-----------------------------------------------------------------------------
(***************************************************************************)
(* Properties.                                                             *)
(***************************************************************************)
Joined == \A g \in goroutine : copier[g] = "taken"

\* Wait releases every descriptor of the Cmd, whichever way it returns, and so
\* does a Start that fails once it got past the registration check: the two
\* lists between them never miss a descriptor that a method, a setup or a
\* failed launch left open.
ResourcesReleased ==
    pc = "idle" /\ (outcome # "none" \/ ret \in {"ctx", "setup", "launch"}) => open = {}

\* Wait returns nil only when the process was reaped with status zero, every
\* copier was joined without an error, and every byte the process tree wrote
\* reached its writer: closing our ends cannot cut a copy short.
NilIsEarned ==
    outcome = "nil" =>
        proc = "reaped" /\ exitOK /\ Joined /\ ~copyErr /\ undelivered = {}

\* Unless the context is done, Wait never returns while a copier still uses the
\* caller's reader or writers.  exec.go:457 promises it of every Wait; but a done
\* context breaks the loop that joins them, and Output reads buffers still in use.
JoinedUnlessCancelled == outcome \notin {"none", "ctx"} => Joined

\* A command on null devices and pipes, started once, that exits with status
\* zero makes Wait return nil: the plumbing GoWSL puts between WSL and the null
\* device never turns into an error of its own.
PlumbingIsSilent ==
    /\ outcome \notin {"none", "ctx", "wait"} /\ exitOK /\ gen = 1
    /\ \A s \in Streams : io[s] # "stream"
    => outcome = "nil"

\* waitDone is closed once: closing it again, or closing it before Start has
\* made it, would panic.
WaitDoneClosedOnce == pc = "signal" => waitDone = "open"

\* Nothing of the Cmd itself holds anybody up.  Every copier in the list was
\* started, those left by a Start that failed too, has a pipe whose other end
\* only processes hold, and finds room in errch even when nobody receives any
\* more; once Wait has returned the watcher has its signal.
NoneIsStuck ==
    proc # "none" /\ pc # "spawn" =>
        /\ \A g \in goroutine :
              /\ copier[g] # "none"
              /\ ChildEnd(g[1], g[2]) \notin open
              /\ copier[g] = "running" => Cardinality(Errch) < ErrchCap
        /\ outcome # "none" => waitDone = "closed"

\* Cmd implements CmdContract: whatever the copiers, the watcher and the callers
\* of a refused method do in between, the process is launched once, one Wait
\* does the work and gives one outcome, no call is answered out of turn.
Progress ==
    IF outcome # "none" THEN "waited"
    ELSE IF finished THEN "waiting"
    ELSE IF proc # "none" /\ pc # "spawn" THEN "started" ELSE "new"

Contract == INSTANCE CmdContract WITH state <- Progress

ImplementsContract == Contract!Spec

\* exec.go:460 says that Wait releases the resources of the Cmd, and the tests
\* (exec_test.go:327) call it after a failed Start to that end.  After a Start
\* refused by the registration check neither call does.
WaitAfterFailedStartReleases ==
    [][(ret \in {"notRegistered", "ctx", "setup", "launch"} /\ ret' = "notStarted")
         => open' = {}]_vars

\* A Wait on a command whose context is done returns, even though a reader in
\* c.Stdin blocks for ever or a descendant keeps a pipe open.
CancelUnblocksWait == (ctxDone /\ pc \in WaitSteps) ~> (pc = "idle")

\* Without a cancellation Wait returns once the process has exited, nobody
\* holds its pipes and no copier is blocked in the caller's reader.
ReaderBlocks ==
    io["stdin"] = "stream" /\ \E n \in 1..MaxStarts : copier[<<"stdin", n>>] = "running"

WaitReturnsAfterExit ==
    (finished /\ proc # "running" /\ child = {} /\ ~ReaderBlocks) ~> (pc = "idle")

\* A Wait that did its work leaves no goroutine behind, a reader's excepted:
\* the watcher ends and every output copier does, also those it did not join.
NoGoroutineLeft ==
    (outcome # "none") ~>
        /\ watcher = "done"
        /\ \A g \in goroutine : g[1] \in Outputs => copier[g] # "running"
=============================================================================
