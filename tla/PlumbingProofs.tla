--------------------------- MODULE PlumbingProofs ---------------------------
(***************************************************************************)
(* The plumbing between WSL and the null device adds no error of its own:  *)
(* a copier fails only if it finds its end closed, and until the copiers   *)
(* are joined nothing closes the ends of the first setup but the context.  *)
(***************************************************************************)
EXTENDS CmdProofs, FiniteSetTheorems

\* An end of ours is none of the process's, and each copier has one of its own.
LEMMA EndFacts ==
    ASSUME NEW s \in Streams, NEW t \in Streams, NEW n \in 0..MaxStarts, NEW m \in 0..MaxStarts
    PROVE  /\ OurEnd(s, n) # ChildEnd(t, m)
           /\ OurEnd(s, n) = OurEnd(t, m) => s = t /\ n = m
           /\ OurEnd(s, n)[2] = n /\ ChildEnd(s, n)[2] = n
  BY DEF OurEnd, ChildEnd, Streams

\* What is set up bears the number of its setup.
LEMMA NumberedStep ==
    ASSUME DataOK, Phases, Numbered, [Next]_vars
    PROVE  Numbered'
<1> USE DEF DataOK, Phases, Numbered, WaitSteps, lists, copying, process, waiting, vars
<1>1. CASE Start
  BY <1>1 DEF Start, Check, FailStart, CloseBoth
<1>2. CASE Run
  BY <1>2 DEF Run, Check, FailStart, CloseBoth
<1>3. CASE Output
  BY <1>3 DEF Output, Check, FailStart, CloseBoth
<1>4. CASE CombinedOutput
  BY <1>4 DEF CombinedOutput, Check, FailStart, CloseBoth
<1>5. CASE Wait
  BY <1>5 DEF Wait, MayWait
<1>6. CASE Setup
  <2>1. gen \in Nat /\ gen' = gen + 1 /\ gen' \in 1..MaxStarts /\ proc = "none"
    BY <1>6, MaxStartsAssumption DEF Setup, Describe
  <2>2. /\ \A g \in goroutine' : g \in goroutine \/ g[2] = gen'
        /\ goroutine \subseteq goroutine'
        /\ \A f \in closeAfterStart' :
              f \in closeAfterStart \/ \E t \in Streams : f = ChildEnd(t, gen')
        /\ \A f \in closeAfterWait' : f \in closeAfterWait \/ f[2] = gen'
    BY <1>6 DEF Setup, Describe, ChildEnd, OurEnd
  <2>3. \A i \in 0..gen : i \in 0..gen' /\ (i # 0 => i \in 1..gen')
    BY <2>1
  <2>4. gen' \in 1..gen' /\ gen' \in 0..gen' /\ gen' \in 0..MaxStarts
    BY <2>1
  <2>5. \A g \in goroutine' : g[2] \in 1..gen'
    BY <2>1, <2>2, <2>3, <2>4
  <2>6. \A f \in closeAfterStart' \cup closeAfterWait' : f[2] \in 0..gen'
    BY <2>2, <2>3, <2>4, EndFacts
  <2>7. \A s \in Streams, n \in 0..MaxStarts : OurEnd(s, n) \notin closeAfterStart'
    BY <2>2, <2>4, EndFacts
  <2> QED
    BY <1>6, <2>1, <2>2, <2>5, <2>6, <2>7 DEF Setup, FailStart
<1>7. CASE SetupFails
  <2>1. gen \in Nat /\ gen' = gen + 1 /\ gen' \in 1..MaxStarts /\ proc = "none"
    BY <1>7, MaxStartsAssumption DEF SetupFails, Describe
  <2>2. /\ \A g \in goroutine' : g \in goroutine \/ g[2] = gen'
        /\ goroutine \subseteq goroutine'
        /\ \A f \in closeAfterStart' :
              f \in closeAfterStart \/ \E t \in Streams : f = ChildEnd(t, gen')
        /\ \A f \in closeAfterWait' : f \in closeAfterWait \/ f[2] = gen'
    <3>1. PICK S \in {{}, {"stdin"}, {"stdin", "stdout"}} : Describe(S, gen + 1)
      BY <1>7 DEF SetupFails
    <3>2. S \subseteq Streams
      BY DEF Streams
    <3> QED
      BY <2>1, <3>1, <3>2 DEF Describe, ChildEnd, OurEnd
  <2>3. \A i \in 0..gen : i \in 0..gen' /\ (i # 0 => i \in 1..gen')
    BY <2>1
  <2>4. gen' \in 1..gen' /\ gen' \in 0..gen' /\ gen' \in 0..MaxStarts
    BY <2>1
  <2>5. \A g \in goroutine' : g[2] \in 1..gen'
    BY <2>1, <2>2, <2>3, <2>4
  <2>6. \A f \in closeAfterStart' \cup closeAfterWait' : f[2] \in 0..gen'
    BY <2>2, <2>3, <2>4, EndFacts
  <2>7. \A s \in Streams, n \in 0..MaxStarts : OurEnd(s, n) \notin closeAfterStart'
    BY <2>2, <2>4, EndFacts
  <2> QED
    BY <1>7, <2>1, <2>2, <2>5, <2>6, <2>7 DEF SetupFails, FailStart
<1>8. CASE Launch
  BY <1>8 DEF Launch
<1>9. CASE LaunchFails
  BY <1>9 DEF LaunchFails, FailStart, CloseBoth
<1>10. CASE Spawn
  <2>1. \A g \in Copiers : copier'[g] # "none" => g \in goroutine'
    BY <1>10 DEF Spawn
  <2> QED
    BY <1>10, <2>1 DEF Spawn
<1>11. CASE SignalWaitDone
  BY <1>11 DEF SignalWaitDone
<1>12. CASE DrainReceive
  BY <1>12 DEF DrainReceive, Errch
<1>13. CASE DrainEnds
  BY <1>13 DEF DrainEnds, Drained
<1>14. CASE CloseAfterWait
  BY <1>14 DEF CloseAfterWait
<1>15. CASE WaitReturns
  BY <1>15 DEF WaitReturns
<1>16. CASE ProcessWait
  BY <1>16 DEF ProcessWait
<1>17. CASE Kill
  BY <1>17 DEF Kill, Exit
<1>18. CASE WatcherStops
  BY <1>18 DEF WatcherStops
<1>19. CASE ProcessExits
  BY <1>19 DEF ProcessExits, Exit
<1>20. CASE ContextDone
  BY <1>20 DEF ContextDone
<1>21. ASSUME NEW s \in Streams, XPipe(s)
      PROVE  Numbered'
  <2>1. 0 \in 0..gen /\ 0 \in 0..MaxStarts
    BY MaxStartsAssumption
  <2>2. \A t \in Streams, n \in 0..MaxStarts : OurEnd(t, n) # ChildEnd(s, 0)
    BY <2>1, EndFacts
  <2>3. ChildEnd(s, 0)[2] \in 0..gen /\ OurEnd(s, 0)[2] \in 0..gen
    BY <2>1, EndFacts
  <2> QED
    BY <1>21, <2>2, <2>3 DEF XPipe
<1>22. ASSUME NEW s \in Streams, CallerCloses(s)
      PROVE  Numbered'
  BY <1>22 DEF CallerCloses
<1>23. ASSUME NEW s \in Streams, ChildCloses(s)
      PROVE  Numbered'
  BY <1>23 DEF ChildCloses
<1>24. ASSUME NEW s \in Outputs, ChildWrites(s)
      PROVE  Numbered'
  BY <1>24 DEF ChildWrites
<1>25. ASSUME NEW n \in 1..MaxStarts, CopyIn(n)
      PROVE  Numbered'
  BY <1>25 DEF CopyIn, Finish
<1>26. ASSUME NEW s \in Outputs, NEW n \in 1..MaxStarts, CopyOut(s, n)
      PROVE  Numbered'
  BY <1>26 DEF CopyOut, Deliver, CopyEnds, Finish
<1>27. CASE UNCHANGED vars
  BY <1>27
<1> QED
  BY <1>1, <1>2, <1>3, <1>4, <1>5, <1>6, <1>7, <1>8, <1>9, <1>10, <1>11, <1>12, <1>13, <1>14,
     <1>15, <1>16, <1>17, <1>18, <1>19, <1>20, <1>21, <1>22, <1>23, <1>24, <1>25, <1>26, <1>27
     DEF Next, Caller, CallerStep, Environment

\* The first setup finds the pipes of the XPipe methods as they were made.
LEMMA PipesIntactStep ==
    ASSUME DataOK, Phases, Numbered, PipesIntact, [Next]_vars
    PROVE  PipesIntact'
<1> USE DEF DataOK, Phases, PipesIntact, lists, copying, process, waiting, vars
<1>1. CASE Output
  BY <1>1 DEF Output, Check, FailStart, CloseBoth, ValidIO
<1>2. CASE CombinedOutput
  BY <1>2 DEF CombinedOutput, Check, FailStart, CloseBoth, ValidIO
<1>3. CASE Setup
  <2>1. gen' # 0
    BY <1>3 DEF Setup, Describe
  <2> QED
    BY <2>1
<1>4. CASE SetupFails
  <2>1. gen' # 0
    BY <1>4 DEF SetupFails, Describe
  <2> QED
    BY <2>1
<1>5. CASE LaunchFails
  BY <1>5 DEF LaunchFails, Numbered
<1>6. CASE Spawn
  BY <1>6 DEF Spawn, Numbered
<1>7. CASE CloseAfterWait
  BY <1>7 DEF CloseAfterWait, Numbered, WaitSteps
<1>8. ASSUME NEW s \in Streams, XPipe(s)
      PROVE  PipesIntact'
  BY <1>8 DEF XPipe, ValidIO
<1>9. ASSUME NEW s \in Streams, CallerCloses(s)
      PROVE  PipesIntact'
  <2>1. \A t \in Streams : OurEnd(s, 0) # ChildEnd(t, 0)
    BY DEF OurEnd, ChildEnd, Streams
  <2> QED
    BY <1>9, <2>1 DEF CallerCloses
<1>10. ASSUME NEW s \in Streams, ChildCloses(s)
      PROVE  PipesIntact'
  BY <1>10 DEF ChildCloses
<1>11. ASSUME NEW s \in Outputs, ChildWrites(s)
      PROVE  PipesIntact'
  BY <1>11 DEF ChildWrites
<1>12. ASSUME NEW n \in 1..MaxStarts, CopyIn(n)
      PROVE  PipesIntact'
  <2>1. <<"stdin", n>> \in goroutine
    BY <1>12 DEF CopyIn, Numbered, Copiers, Streams
  <2>2. gen # 0
    BY <2>1 DEF Numbered
  <2> QED
    BY <1>12, <2>2 DEF CopyIn
<1>13. ASSUME NEW s \in Outputs, NEW n \in 1..MaxStarts, CopyOut(s, n)
      PROVE  PipesIntact'
  <2>1. <<s, n>> \in goroutine
    BY <1>13 DEF CopyOut, Numbered, Copiers, Streams, Outputs
  <2>2. gen # 0
    BY <2>1 DEF Numbered
  <2> QED
    BY <1>13, <2>2 DEF CopyOut
<1>14. CASE Start \/ Run \/ Wait \/ Launch \/ SignalWaitDone \/ DrainReceive \/ DrainEnds \/
   WaitReturns \/ ProcessWait \/ Kill \/ WatcherStops \/ ProcessExits \/ ContextDone
  BY <1>14 DEF Start, Check, FailStart, CloseBoth, Run, Wait, MayWait, Launch, SignalWaitDone,
     DrainReceive, Errch, DrainEnds, Drained, WaitReturns, ProcessWait, Kill, Exit,
     WatcherStops, ProcessExits, ContextDone
<1>15. CASE UNCHANGED vars
  BY <1>15
<1> QED
  BY <1>1, <1>2, <1>3, <1>4, <1>5, <1>6, <1>7, <1>8, <1>9, <1>10, <1>11, <1>12, <1>13, <1>14,
     <1>15 DEF Next, Caller, CallerStep, Environment

\* Our ends of the first setup are open until Wait closes them.
LEMMA EndsAreOpenStep ==
    ASSUME DataOK, Phases, Numbered, PipesIntact, Copies, EndsAreOpen, [Next]_vars
    PROVE  EndsAreOpen'
<1> USE DEF DataOK, Phases, EndsAreOpen, FirstStart, WaitSteps, lists, copying, process,
   waiting, vars
<1>1. CASE Output
  <2>1. \A g \in goroutine : io'[g[1]] = "xpipe" => io[g[1]] = "xpipe"
    BY <1>1 DEF Output, ValidIO, Copiers
  <2>2. /\ pc = "idle" /\ pc' \in {"idle", "setup"} /\ proc' = proc
        /\ proc = "none" \/ open' = open
        /\ UNCHANGED <<gen, goroutine, copier, outcome>>
    BY <1>1 DEF Output, Check, FailStart
  <2> QED
    BY <2>1, <2>2
<1>2. CASE CombinedOutput
  <2>1. \A g \in goroutine : io'[g[1]] = "xpipe" => io[g[1]] = "xpipe"
    BY <1>2 DEF CombinedOutput, ValidIO, Copiers
  <2>2. /\ pc = "idle" /\ pc' \in {"idle", "setup"} /\ proc' = proc
        /\ proc = "none" \/ open' = open
        /\ UNCHANGED <<gen, goroutine, copier, outcome>>
    BY <1>2 DEF CombinedOutput, Check, FailStart
  <2> QED
    BY <2>1, <2>2
<1>3. CASE Setup
  <2>1. CASE gen # 0
    BY <1>3, <2>1 DEF Setup, Describe
  <2>2. ASSUME gen = 0, NEW g \in goroutine'
        PROVE  io[g[1]] # "xpipe" /\ OurEnd(g[1], g[2]) \in open'
    <3>1. gen' = 1 /\ goroutine = {}
      BY <1>3, <2>2 DEF Setup, Describe, Numbered
    <3>2. PICK s \in Streams : NeedsCopier(s) /\ g = <<s, 1>>
      BY <1>3, <2>2, <3>1 DEF Setup, Describe
    <3>3. io[s] # "xpipe"
      BY <1>3, <2>2, <3>2 DEF Setup, PipesIntact, NeedsCopier, IsPipe
    <3>4. OurEnd(s, 1)[2] = 1
      BY DEF OurEnd
    <3>5. OurEnd(s, 1) \in closeAfterWait' \ closeAfterWait
      BY <1>3, <2>2, <3>1, <3>2, <3>4 DEF Setup, Describe, Numbered
    <3> QED
      BY <1>3, <3>2, <3>3, <3>5 DEF Setup
  <2> QED
    BY <1>3, <2>1, <2>2 DEF Setup
<1>4. CASE SetupFails
  BY <1>4 DEF SetupFails, Describe, FailStart, CloseBoth
<1>5. CASE Launch
  BY <1>5 DEF Launch
<1>6. CASE LaunchFails
  BY <1>6 DEF LaunchFails, FailStart, CloseBoth
<1>7. CASE Spawn
  <2>1. \A g \in goroutine : /\ OurEnd(g[1], g[2]) \notin closeAfterStart
                             /\ copier[g] = "none"
    BY <1>7 DEF Spawn, Numbered, Copiers, Copies
  <2> QED
    BY <1>7, <2>1 DEF Spawn, CloseChildEnds
<1>8. CASE DrainReceive
  <2>1. ASSUME NEW g \in goroutine, copier'[g] \in {"none", "running"}
        PROVE  copier'[g] = copier[g]
    BY <1>8, <2>1 DEF DrainReceive, Errch
  <2> QED
    BY <1>8, <2>1 DEF DrainReceive
<1>9. ASSUME NEW s \in Streams, XPipe(s)
      PROVE  EndsAreOpen'
  BY <1>9 DEF XPipe
<1>10. ASSUME NEW s \in Streams, CallerCloses(s)
      PROVE  EndsAreOpen'
  <2>1. FirstStart => \A g \in goroutine : OurEnd(g[1], g[2]) # OurEnd(s, 0)
    BY DEF OurEnd, Numbered
  <2> QED
    BY <1>10, <2>1 DEF CallerCloses
<1>11. ASSUME NEW s \in Streams, ChildCloses(s)
      PROVE  EndsAreOpen'
  BY <1>11 DEF ChildCloses
<1>12. ASSUME NEW s \in Outputs, ChildWrites(s)
      PROVE  EndsAreOpen'
  BY <1>12 DEF ChildWrites
<1>13. ASSUME NEW n \in 1..MaxStarts, CopyIn(n)
      PROVE  EndsAreOpen'
  <2>1. /\ <<"stdin", n>> \in goroutine /\ copier[<<"stdin", n>>] = "running"
        /\ "stdin" \in Streams /\ n \in 0..MaxStarts
    BY <1>13 DEF CopyIn, Numbered, Copiers, Streams, Outputs
  <2>2. ASSUME NEW h \in goroutine, h # <<"stdin", n>>
        PROVE  OurEnd(h[1], h[2]) # OurEnd("stdin", n)
    BY <2>1, <2>2 DEF OurEnd, Copiers, Streams
  <2>3. \/ open' = open /\ copier' = copier
        \/ /\ open' = open \ {OurEnd("stdin", n)}
           /\ \E r \in {"ok", "failed"} : copier' = [copier EXCEPT ![<<"stdin", n>>] = r]
    BY <1>13 DEF CopyIn, Finish
  <2>4. ASSUME NEW g \in goroutine, copier'[g] \in {"none", "running"}
        PROVE  /\ copier[g] \in {"none", "running"}
               /\ OurEnd(g[1], g[2]) \in open => OurEnd(g[1], g[2]) \in open'
    BY <2>1, <2>2, <2>3, <2>4
  <2> QED
    BY <1>13, <2>4 DEF CopyIn
<1>14. ASSUME NEW s \in Outputs, NEW n \in 1..MaxStarts, CopyOut(s, n)
      PROVE  EndsAreOpen'
  <2>1. /\ <<s, n>> \in goroutine /\ copier[<<s, n>>] = "running"
        /\ s \in Streams /\ n \in 0..MaxStarts
    BY <1>14 DEF CopyOut, Numbered, Copiers, Streams, Outputs
  <2>2. ASSUME NEW h \in goroutine, h # <<s, n>>
        PROVE  OurEnd(h[1], h[2]) # OurEnd(s, n)
    BY <2>1, <2>2 DEF OurEnd, Copiers, Streams
  <2>3. \/ open' = open /\ copier' = copier
        \/ /\ open' = open \ {OurEnd(s, n)}
           /\ \E r \in {"ok", "failed"} : copier' = [copier EXCEPT ![<<s, n>>] = r]
    BY <1>14 DEF CopyOut, Deliver, CopyEnds, Finish
  <2>4. ASSUME NEW g \in goroutine, copier'[g] \in {"none", "running"}
        PROVE  /\ copier[g] \in {"none", "running"}
               /\ OurEnd(g[1], g[2]) \in open => OurEnd(g[1], g[2]) \in open'
    BY <2>1, <2>2, <2>3, <2>4
  <2> QED
    BY <1>14, <2>4 DEF CopyOut
<1>15. CASE Start \/ Run \/ Wait \/ SignalWaitDone \/ DrainEnds \/ CloseAfterWait \/ WaitReturns
   \/ ProcessWait \/ Kill \/ WatcherStops \/ ProcessExits \/ ContextDone
  BY <1>15 DEF Start, Check, FailStart, CloseBoth, Run, Wait, MayWait, SignalWaitDone,
     DrainEnds, Drained, CloseAfterWait, WaitReturns, ProcessWait, Kill, Exit, WatcherStops,
     ProcessExits, ContextDone
<1>16. CASE UNCHANGED vars
  BY <1>16
<1> QED
  BY <1>1, <1>2, <1>3, <1>4, <1>5, <1>6, <1>7, <1>8, <1>9, <1>10, <1>11, <1>12, <1>13, <1>14,
     <1>15, <1>16 DEF Next, Caller, CallerStep, Environment

\* No copier of the first setup fails while its end is open, unless a stream of the
\* caller's does: none is received before the loop of Wait is left.
LEMMA NoFailuresStep ==
    ASSUME DataOK, FlagsOK, Phases, Numbered, Copies, EndsAreOpen, NoFailures, [Next]_vars
    PROVE  NoFailures'
<1> USE DEF DataOK, Phases, NoFailures, FirstStart, NoStreams, WaitSteps, lists, copying,
   process, waiting, vars
<1>1. CASE Output
  BY <1>1 DEF Output, Check, FailStart, CloseBoth, ValidIO
<1>2. CASE CombinedOutput
  BY <1>2 DEF CombinedOutput, Check, FailStart, CloseBoth, ValidIO
<1>3. CASE Setup
  <2>1. \A g \in Copiers : copier[g] # "failed"
    BY <1>3 DEF Setup, Copies
  <2> QED
    BY <1>3, <2>1 DEF Setup, Describe
<1>4. CASE SetupFails
  BY <1>4 DEF SetupFails, Describe, FailStart, CloseBoth
<1>5. CASE Launch
  BY <1>5 DEF Launch
<1>6. CASE LaunchFails
  BY <1>6 DEF LaunchFails, FailStart, CloseBoth
<1>7. CASE Spawn
  <2>1. \A g \in Copiers : copier'[g] # "failed"
    BY <1>7 DEF Spawn
  <2> QED
    BY <1>7, <2>1 DEF Spawn
<1>8. CASE DrainReceive
  <2>1. PICK g \in Errch : /\ copier' = [copier EXCEPT ![g] = "taken"]
                         /\ copyErr' = (copyErr \/ copier[g] = "failed")
    BY <1>8 DEF DrainReceive
  <2>2. FirstStart /\ NoStreams => copier[g] # "failed"
    BY <1>8 DEF DrainReceive, Errch
  <2>3. \A h \in Copiers : copier[h] # "failed" => copier'[h] # "failed"
    BY <2>1
  <2> QED
    BY <1>8, <2>1, <2>2, <2>3 DEF DrainReceive
<1>9. ASSUME NEW s \in Streams, XPipe(s)
      PROVE  NoFailures'
  BY <1>9 DEF XPipe
<1>10. ASSUME NEW s \in Streams, CallerCloses(s)
      PROVE  NoFailures'
  BY <1>10 DEF CallerCloses
<1>11. ASSUME NEW s \in Streams, ChildCloses(s)
      PROVE  NoFailures'
  BY <1>11 DEF ChildCloses
<1>12. ASSUME NEW s \in Outputs, ChildWrites(s)
      PROVE  NoFailures'
  BY <1>12 DEF ChildWrites
<1>13. ASSUME NEW n \in 1..MaxStarts, CopyIn(n)
      PROVE  NoFailures'
  <2>1. <<"stdin", n>> \in goroutine /\ copier[<<"stdin", n>>] = "running"
    BY <1>13 DEF CopyIn, Numbered, Copiers, Streams
  <2>2. FirstStart /\ NoStreams /\ pc # "return" /\ outcome = "none"
          => \A h \in Copiers : copier'[h] # "failed"
    BY <1>13, <2>1 DEF CopyIn, Finish, EndsAreOpen, Streams
  <2> QED
    BY <1>13, <2>2 DEF CopyIn
<1>14. ASSUME NEW s \in Outputs, NEW n \in 1..MaxStarts, CopyOut(s, n)
      PROVE  NoFailures'
  <2>1. <<s, n>> \in goroutine /\ copier[<<s, n>>] = "running" /\ s \in Streams
    BY <1>14 DEF CopyOut, Numbered, Copiers, Streams, Outputs
  <2>2. FirstStart /\ NoStreams /\ pc # "return" /\ outcome = "none"
          => \A h \in Copiers : copier'[h] # "failed"
    BY <1>14, <2>1 DEF CopyOut, Deliver, CopyEnds, Finish, EndsAreOpen
  <2> QED
    BY <1>14, <2>2 DEF CopyOut
<1>15. CASE Start \/ Run \/ Wait \/ SignalWaitDone \/ DrainEnds \/ CloseAfterWait \/ WaitReturns
   \/ ProcessWait \/ Kill \/ WatcherStops \/ ProcessExits \/ ContextDone
  BY <1>15 DEF Start, Check, FailStart, CloseBoth, Run, Wait, MayWait, SignalWaitDone,
     DrainEnds, Drained, CloseAfterWait, WaitReturns, ProcessWait, Kill, Exit, WatcherStops,
     ProcessExits, ContextDone
<1>16. CASE UNCHANGED vars
  BY <1>16
<1> QED
  BY <1>1, <1>2, <1>3, <1>4, <1>5, <1>6, <1>7, <1>8, <1>9, <1>10, <1>11, <1>12, <1>13, <1>14,
     <1>15, <1>16 DEF Next, Caller, CallerStep, Environment

\* A Wait that was not cancelled reports what the copiers sent.
LEMMA SilentStep ==
    ASSUME DataOK, FlagsOK, Phases, NoFailures, Silent, [Next]_vars
    PROVE  Silent'
<1> USE DEF DataOK, Phases, Silent, PlumbingIsSilent, WaitSteps, lists, copying, process,
   waiting, vars
<1>1. CASE Output
  BY <1>1 DEF Output, Check, FailStart, CloseBoth, ValidIO
<1>2. CASE CombinedOutput
  BY <1>2 DEF CombinedOutput, Check, FailStart, CloseBoth, ValidIO
<1>3. CASE WaitReturns
  BY <1>3 DEF WaitReturns, NoFailures, FirstStart, NoStreams
<1>4. ASSUME NEW s \in Streams, XPipe(s)
      PROVE  Silent'
  BY <1>4 DEF XPipe
<1>5. ASSUME NEW s \in Streams, CallerCloses(s)
      PROVE  Silent'
  BY <1>5 DEF CallerCloses
<1>6. ASSUME NEW s \in Streams, ChildCloses(s)
      PROVE  Silent'
  BY <1>6 DEF ChildCloses
<1>7. ASSUME NEW s \in Outputs, ChildWrites(s)
      PROVE  Silent'
  BY <1>7 DEF ChildWrites
<1>8. ASSUME NEW n \in 1..MaxStarts, CopyIn(n)
      PROVE  Silent'
  BY <1>8 DEF CopyIn, Finish
<1>9. ASSUME NEW s \in Outputs, NEW n \in 1..MaxStarts, CopyOut(s, n)
      PROVE  Silent'
  BY <1>9 DEF CopyOut, Deliver, CopyEnds, Finish
<1>10. CASE Start \/ Run \/ Wait \/ Setup \/ SetupFails \/ Launch \/ LaunchFails \/ Spawn \/
   SignalWaitDone \/ DrainReceive \/ DrainEnds \/ CloseAfterWait \/ ProcessWait \/ Kill \/
   WatcherStops \/ ProcessExits \/ ContextDone
  BY <1>10 DEF Start, Check, FailStart, CloseBoth, Run, Wait, MayWait, Setup, Describe,
     SetupFails, Launch, LaunchFails, Spawn, CloseChildEnds, SignalWaitDone, DrainReceive,
     Errch, DrainEnds, Drained, CloseAfterWait, ProcessWait, Kill, Exit, WatcherStops,
     ProcessExits, ContextDone
<1>11. CASE UNCHANGED vars
  BY <1>11
<1> QED
  BY <1>1, <1>2, <1>3, <1>4, <1>5, <1>6, <1>7, <1>8, <1>9, <1>10, <1>11 DEF Next, Caller,
     CallerStep, Environment

\* What a copier's pipe has at its other end is in the list that Start closes.
LEMMA DescribeCloses ==
    ASSUME NEW S \in SUBSET Streams, NEW n, Describe(S, n),
           \A g \in goroutine : ChildEnd(g[1], g[2]) \in closeAfterStart
    PROVE  /\ \A g \in goroutine' : ChildEnd(g[1], g[2]) \in closeAfterStart'
           /\ closeAfterStart \subseteq closeAfterStart'
<1> DEFINE new == {s \in S : NeedsCopier(s)}
<1>1. /\ goroutine' = goroutine \cup (new \X {n})
      /\ closeAfterStart' = closeAfterStart \cup {ChildEnd(s, n) : s \in new}
  BY DEF Describe
<1>2. ASSUME NEW g \in new \X {n}
      PROVE  ChildEnd(g[1], g[2]) \in closeAfterStart'
  <2>1. g[1] \in new /\ g[2] = n
    OBVIOUS
  <2> HIDE DEF new
  <2> QED
    BY <1>1, <2>1
<1> QED
  BY <1>1, <1>2, Zenon

\* Once the copiers run, no more are set up, and none is ever "none" again.
LEMMA StartedStep ==
    ASSUME DataOK, Phases, Started, [Next]_vars
    PROVE  Started'
<1> USE DEF DataOK, Phases, Started, WaitSteps, lists, copying, process, waiting, vars
<1>1. CASE Setup
  <2>1. proc = "none" /\ Describe(Streams, gen + 1)
    BY <1>1 DEF Setup
  <2> QED
    BY <1>1, <2>1, DescribeCloses DEF Setup
<1>2. CASE SetupFails
  <2>1. PICK S \in {{}, {"stdin"}, {"stdin", "stdout"}} : Describe(S, gen + 1)
    BY <1>2 DEF SetupFails
  <2>2. S \in SUBSET Streams /\ proc = "none"
    BY <1>2 DEF SetupFails, Streams
  <2> QED
    BY <1>2, <2>1, <2>2, DescribeCloses DEF SetupFails, FailStart
<1>3. CASE Spawn
  <2>1. \A g \in goroutine : copier'[g] = "running"
    BY <1>3 DEF Spawn
  <2> QED
    BY <1>3, <2>1 DEF Spawn
<1>4. CASE DrainReceive
  <2>1. PICK h \in Errch : copier' = [copier EXCEPT ![h] = "taken"]
    BY <1>4 DEF DrainReceive
  <2>2. \A g \in goroutine : copier'[g] = copier[g] \/ copier'[g] = "taken"
    BY <2>1
  <2> QED
    BY <1>4, <2>2 DEF DrainReceive
<1>5. ASSUME NEW s \in Streams, XPipe(s)
      PROVE  Started'
  BY <1>5 DEF XPipe
<1>6. ASSUME NEW n \in 1..MaxStarts, CopyIn(n)
      PROVE  Started'
  <2>1. \A g \in goroutine : copier'[g] = copier[g] \/ copier'[g] \in {"ok", "failed"}
    BY <1>6 DEF CopyIn, Finish
  <2> QED
    BY <1>6, <2>1 DEF CopyIn
<1>7. ASSUME NEW s \in Outputs, NEW n \in 1..MaxStarts, CopyOut(s, n)
      PROVE  Started'
  <2>1. \A g \in goroutine : copier'[g] = copier[g] \/ copier'[g] \in {"ok", "failed"}
    BY <1>7 DEF CopyOut, Deliver, CopyEnds, Finish
  <2> QED
    BY <1>7, <2>1 DEF CopyOut
<1>8. ASSUME NEW s \in Streams, CallerCloses(s) \/ ChildCloses(s)
      PROVE  Started'
  BY <1>8 DEF CallerCloses, ChildCloses
<1>9. ASSUME NEW s \in Outputs, ChildWrites(s)
      PROVE  Started'
  BY <1>9 DEF ChildWrites
<1>10. CASE Start \/ Run \/ Output \/ CombinedOutput
  BY <1>10 DEF Start, Run, Output, CombinedOutput, Check, FailStart, CloseBoth
<1>11. CASE Wait \/ Launch \/ LaunchFails \/ SignalWaitDone \/ DrainEnds \/ CloseAfterWait \/
   WaitReturns \/ ProcessWait
  BY <1>11 DEF Wait, MayWait, Launch, LaunchFails, FailStart, CloseBoth, SignalWaitDone,
     DrainEnds, CloseAfterWait, WaitReturns, ProcessWait
<1>12. CASE Kill \/ WatcherStops \/ ProcessExits \/ ContextDone
  BY <1>12 DEF Kill, WatcherStops, ProcessExits, Exit, ContextDone
<1>13. CASE UNCHANGED vars
  BY <1>13
<1> QED
  BY <1>1, <1>2, <1>3, <1>4, <1>5, <1>6, <1>7, <1>8, <1>9, <1>10, <1>11, <1>12, <1>13
  DEF Next, Caller, CallerStep, Environment

\* Of the copiers in the list, one that runs has not sent: the others cannot
\* have filled the channel.
LEMMA RoomInErrch ==
    ASSUME DataOK, Numbered, NEW g \in goroutine, copier[g] = "running"
    PROVE  Cardinality(Errch) < ErrchCap
<1>1. IsFiniteSet(goroutine)
  <2>1. IsFiniteSet(Streams) /\ IsFiniteSet(1..MaxStarts)
    <3>1. IsFiniteSet({"stdin"}) /\ IsFiniteSet({"stdout"}) /\ IsFiniteSet({"stderr"})
      BY FS_Singleton
    <3>2. IsFiniteSet({"stdin"} \cup {"stdout"} \cup {"stderr"})
      BY <3>1, FS_Union, Zenon
    <3> QED
      BY <3>2, FS_Interval, MaxStartsAssumption DEF Streams
  <2>2. IsFiniteSet(Copiers)
    BY <2>1, FS_Product DEF Copiers
  <2> QED
    BY <2>2, FS_Subset DEF DataOK
<1>2. Errch \subseteq goroutine /\ g \notin Errch
  BY DEF Errch, Numbered
<1>3. Cardinality(Errch) <= Cardinality(goroutine) /\ Cardinality(Errch) # Cardinality(goroutine)
  BY <1>1, <1>2, FS_Subset
<1>4. Cardinality(Errch) \in Nat /\ Cardinality(goroutine) \in Nat
  BY <1>1, <1>2, FS_Subset, FS_CardinalityType
<1> QED
  BY <1>3, <1>4 DEF ErrchCap

\* Until Wait closes them, our ends of the first setup stay open and no copier of a
\* null device fails, in every reachable state (exec.go:93-153, 473-490).
THEOREM PlumbingInvariance == Spec => []PInv
<1>1. Init => PInv
  <2> SUFFICES ASSUME Init
               PROVE  PInv
    OBVIOUS
  <2>1. \A s \in Streams : io[s] # "xpipe"
    BY IOsAssumption DEF Init
  <2> QED
    BY <2>1, InitIInv
    DEF Init, PInv, Numbered, PipesIntact, EndsAreOpen, FirstStart, NoFailures, Silent,
        PlumbingIsSilent, Started
<1>2. PInv /\ [Next]_vars => PInv'
  BY StepIInv, NumberedStep, PipesIntactStep, EndsAreOpenStep, NoFailuresStep, SilentStep,
     StartedStep
  DEF PInv, IInv, TypeOK
<1> QED
  BY <1>1, <1>2, PTL DEF Spec

\* A command on null devices and pipes, started once, that exits with status zero
\* makes Wait return nil (exec.go:365-399, 473-504).
THEOREM PlumbingStaysSilent == Spec => []PlumbingIsSilent
<1>1. PInv => PlumbingIsSilent
  BY DEF PInv, Silent
<1> QED
  BY <1>1, PlumbingInvariance, PTL

\* Every copier of a Cmd can end once the processes let go of its pipe, whoever
\* receives, and so can the watcher once Wait has returned: the safety that
\* CancelUnblocksWait, WaitReturnsAfterExit and NoGoroutineLeft rest on
\* (exec.go:119-160, 478-490).
THEOREM NobodyIsStuck == Spec => []NoneIsStuck
<1>1. ASSUME PInv
      PROVE  NoneIsStuck
  <2>1. /\ DataOK /\ Phases /\ Descriptors /\ Numbered /\ Started
    BY <1>1 DEF PInv, IInv, TypeOK
  <2>2. ASSUME proc # "none", pc # "spawn", NEW g \in goroutine
        PROVE  /\ copier[g] # "none" /\ ChildEnd(g[1], g[2]) \notin open
               /\ copier[g] = "running" => Cardinality(Errch) < ErrchCap
    BY <2>1, <2>2, RoomInErrch DEF Started, Descriptors
  <2> QED
    BY <2>1, <2>2 DEF NoneIsStuck, Started
<1> QED
  BY <1>1, PlumbingInvariance, PTL
=============================================================================
