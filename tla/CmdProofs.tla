----------------------------- MODULE CmdProofs -----------------------------
(***************************************************************************)
(* The safety properties of Cmd, for every bound on the number of starts   *)
(* and every assignment of the fields.                                     *)
(***************************************************************************)
EXTENDS CmdInv, TLAPS

\* No step leaves the types.
LEMMA DataStep == DataOK /\ [Next]_vars => DataOK'
<1> SUFFICES ASSUME DataOK, [Next]_vars PROVE DataOK'
  OBVIOUS
<1> USE DEF DataOK, WaitSteps, lists, copying, process, waiting, vars
<1>1. CASE Start
  BY <1>1 DEF Start, Check, FailStart, CloseBoth
<1>2. CASE Run
  BY <1>2 DEF Run, Check, FailStart, CloseBoth
<1>3. CASE Output
  <2>1. io' \in ValidIO
    BY <1>3 DEF Output, ValidIO, Streams, Kinds
  <2> QED
    BY <1>3, <2>1 DEF Output, Check, FailStart, CloseBoth
<1>4. CASE CombinedOutput
  <2>1. io' \in ValidIO
    BY <1>4 DEF CombinedOutput, ValidIO, Streams, Kinds
  <2> QED
    BY <1>4, <2>1 DEF CombinedOutput, Check, FailStart, CloseBoth
<1>5. CASE Wait
  BY <1>5 DEF Wait, MayWait
<1>6. CASE Setup
  <2>1. gen + 1 \in 1..MaxStarts
    BY <1>6, MaxStartsAssumption DEF Setup
  <2>2. /\ closeAfterStart' \subseteq Fds /\ closeAfterWait' \subseteq Fds
        /\ goroutine' \subseteq Copiers
    BY <1>6, <2>1 DEF Setup, Describe, ChildEnd, OurEnd, Fds, Copiers
  <2> QED
    BY <1>6, <2>1, <2>2 DEF Setup, Describe
<1>7. CASE SetupFails
  <2>1. gen + 1 \in 1..MaxStarts
    BY <1>7, MaxStartsAssumption DEF SetupFails
  <2>2. /\ closeAfterStart' \subseteq Fds /\ closeAfterWait' \subseteq Fds
        /\ goroutine' \subseteq Copiers
    <3>1. PICK S \in {{}, {"stdin"}, {"stdin", "stdout"}} : Describe(S, gen + 1)
      BY <1>7 DEF SetupFails
    <3>2. S \subseteq Streams
      BY DEF Streams
    <3> QED
      BY <2>1, <3>1, <3>2 DEF Describe, ChildEnd, OurEnd, Fds, Copiers
  <2> QED
    BY <1>7, <2>1, <2>2 DEF SetupFails, Describe, FailStart, CloseBoth
<1>8. CASE Launch
  BY <1>8 DEF Launch
<1>9. CASE LaunchFails
  BY <1>9 DEF LaunchFails, FailStart, CloseBoth
<1>10. CASE Spawn
  BY <1>10 DEF Spawn, CloseChildEnds
<1>11. CASE SignalWaitDone
  BY <1>11 DEF SignalWaitDone
<1>12. CASE DrainReceive
  BY <1>12 DEF DrainReceive, Errch
<1>13. CASE DrainEnds
  BY <1>13 DEF DrainEnds, Drained
<1>14. CASE CloseAfterWait
  BY <1>14 DEF CloseAfterWait
<1>15. CASE WaitReturns
  BY <1>15 DEF WaitReturns
<1>16. CASE ProcessWait
  BY <1>16 DEF ProcessWait
<1>17. CASE Kill
  BY <1>17 DEF Kill, Exit
<1>18. CASE WatcherStops
  BY <1>18 DEF WatcherStops
<1>19. CASE ProcessExits
  BY <1>19 DEF ProcessExits, Exit
<1>20. CASE ContextDone
  BY <1>20 DEF ContextDone
<1>21. ASSUME NEW s \in Streams, XPipe(s) PROVE DataOK'
  <2>1. io' \in ValidIO
    BY <1>21 DEF XPipe, ValidIO, Kinds, Streams
  <2>2. {ChildEnd(s, 0), OurEnd(s, 0)} \subseteq Fds
    BY <1>21, MaxStartsAssumption DEF ChildEnd, OurEnd, Fds
  <2> QED
    BY <1>21, <2>1, <2>2 DEF XPipe
<1>22. ASSUME NEW s \in Streams, CallerCloses(s) PROVE DataOK'
  BY <1>22 DEF CallerCloses
<1>23. ASSUME NEW s \in Streams, ChildCloses(s) PROVE DataOK'
  BY <1>23 DEF ChildCloses
<1>24. ASSUME NEW s \in Outputs, ChildWrites(s) PROVE DataOK'
  BY <1>24 DEF ChildWrites
<1>25. ASSUME NEW n \in 1..MaxStarts, CopyIn(n) PROVE DataOK'
  BY <1>25 DEF CopyIn, Finish
<1>26. ASSUME NEW s \in Outputs, NEW n \in 1..MaxStarts, CopyOut(s, n) PROVE DataOK'
  BY <1>26 DEF CopyOut, Deliver, CopyEnds, Finish
<1>27. CASE UNCHANGED vars
  BY <1>27
<1> QED
  BY <1>1, <1>2, <1>3, <1>4, <1>5, <1>6, <1>7, <1>8, <1>9, <1>10, <1>11, <1>12, <1>13,
     <1>14, <1>15, <1>16, <1>17, <1>18, <1>19, <1>20, <1>21, <1>22, <1>23, <1>24, <1>25,
     <1>26, <1>27 DEF Next, Caller, CallerStep, Environment

\* Nor do the flags; Zenon is the prover for Boolean variables.
LEMMA FlagsStep == FlagsOK /\ [Next]_vars => FlagsOK'
<1> SUFFICES ASSUME FlagsOK, [Next]_vars PROVE FlagsOK'
  OBVIOUS
<1> USE DEF FlagsOK, lists, copying, process, waiting, vars
<1>1. CASE Start
  BY <1>1, Zenon DEF Start, Check, FailStart, CloseBoth
<1>2. CASE Run
  BY <1>2, Zenon DEF Run, Check, FailStart, CloseBoth
<1>3. CASE Output
  BY <1>3, Zenon DEF Output, Check, FailStart, CloseBoth
<1>4. CASE CombinedOutput
  BY <1>4, Zenon DEF CombinedOutput, Check, FailStart, CloseBoth
<1>5. CASE Wait
  BY <1>5, Zenon DEF Wait, MayWait
<1>6. CASE Setup
  BY <1>6, Zenon DEF Setup, Describe
<1>7. CASE SetupFails
  BY <1>7, Zenon DEF SetupFails, Describe, FailStart, CloseBoth
<1>8. CASE Launch
  BY <1>8, Zenon DEF Launch
<1>9. CASE LaunchFails
  BY <1>9, Zenon DEF LaunchFails, FailStart, CloseBoth
<1>10. CASE Spawn
  BY <1>10, Zenon DEF Spawn, CloseChildEnds
<1>11. CASE SignalWaitDone
  BY <1>11, Zenon DEF SignalWaitDone
<1>12. CASE DrainReceive
  BY <1>12, Zenon DEF DrainReceive, Errch
<1>13. CASE DrainEnds
  BY <1>13, Zenon DEF DrainEnds, Drained
<1>14. CASE CloseAfterWait
  BY <1>14, Zenon DEF CloseAfterWait
<1>15. CASE WaitReturns
  BY <1>15, Zenon DEF WaitReturns
<1>16. CASE ProcessWait
  BY <1>16, Zenon DEF ProcessWait
<1>17. CASE Kill
  BY <1>17, Zenon DEF Kill, Exit
<1>18. CASE WatcherStops
  BY <1>18, Zenon DEF WatcherStops
<1>19. CASE ProcessExits
  BY <1>19, Zenon DEF ProcessExits, Exit
<1>20. CASE ContextDone
  BY <1>20, Zenon DEF ContextDone
<1>21. ASSUME NEW s \in Streams, XPipe(s) PROVE FlagsOK'
  BY <1>21, Zenon DEF XPipe
<1>22. ASSUME NEW s \in Streams, CallerCloses(s) PROVE FlagsOK'
  BY <1>22, Zenon DEF CallerCloses
<1>23. ASSUME NEW s \in Streams, ChildCloses(s) PROVE FlagsOK'
  BY <1>23, Zenon DEF ChildCloses
<1>24. ASSUME NEW s \in Outputs, ChildWrites(s) PROVE FlagsOK'
  BY <1>24, Zenon DEF ChildWrites
<1>25. ASSUME NEW n \in 1..MaxStarts, CopyIn(n) PROVE FlagsOK'
  BY <1>25, Zenon DEF CopyIn, Finish
<1>26. ASSUME NEW s \in Outputs, NEW n \in 1..MaxStarts, CopyOut(s, n) PROVE FlagsOK'
  BY <1>26, Zenon DEF CopyOut, Deliver, CopyEnds, Finish
<1>27. CASE UNCHANGED vars
  BY <1>27, Zenon
<1> QED
  BY <1>1, <1>2, <1>3, <1>4, <1>5, <1>6, <1>7, <1>8, <1>9, <1>10, <1>11, <1>12, <1>13,
     <1>14, <1>15, <1>16, <1>17, <1>18, <1>19, <1>20, <1>21, <1>22, <1>23, <1>24, <1>25,
     <1>26, <1>27 DEF Next, Caller, CallerStep, Environment

\* The phases are inductive by themselves.
LEMMA PhasesStep == Phases /\ [Next]_vars => Phases'
<1> SUFFICES ASSUME Phases, [Next]_vars PROVE Phases'
  OBVIOUS
<1> USE DEF Phases, WaitSteps, lists, copying, process, waiting, vars
<1>1. CASE Start
  BY <1>1 DEF Start, Check, FailStart, CloseBoth
<1>2. CASE Run
  BY <1>2 DEF Run, Check, FailStart, CloseBoth
<1>3. CASE Output
  BY <1>3 DEF Output, Check, FailStart, CloseBoth
<1>4. CASE CombinedOutput
  BY <1>4 DEF CombinedOutput, Check, FailStart, CloseBoth
<1>5. CASE Wait
  BY <1>5 DEF Wait, MayWait
<1>6. CASE Setup
  BY <1>6 DEF Setup, Describe
<1>7. CASE SetupFails
  BY <1>7 DEF SetupFails, Describe, FailStart, CloseBoth
<1>8. CASE Launch
  BY <1>8 DEF Launch
<1>9. CASE LaunchFails
  BY <1>9 DEF LaunchFails, FailStart, CloseBoth
<1>10. CASE Spawn
  BY <1>10 DEF Spawn, CloseChildEnds
<1>11. CASE SignalWaitDone
  BY <1>11 DEF SignalWaitDone
<1>12. CASE DrainReceive
  BY <1>12 DEF DrainReceive, Errch
<1>13. CASE DrainEnds
  BY <1>13 DEF DrainEnds, Drained
<1>14. CASE CloseAfterWait
  BY <1>14 DEF CloseAfterWait
<1>15. CASE WaitReturns
  BY <1>15 DEF WaitReturns
<1>16. CASE ProcessWait
  BY <1>16 DEF ProcessWait
<1>17. CASE Kill
  BY <1>17 DEF Kill, Exit
<1>18. CASE WatcherStops
  BY <1>18 DEF WatcherStops
<1>19. CASE ProcessExits
  BY <1>19 DEF ProcessExits, Exit
<1>20. CASE ContextDone
  BY <1>20 DEF ContextDone
<1>21. ASSUME NEW s \in Streams, XPipe(s) PROVE Phases'
  BY <1>21 DEF XPipe
<1>22. ASSUME NEW s \in Streams, CallerCloses(s) PROVE Phases'
  BY <1>22 DEF CallerCloses
<1>23. ASSUME NEW s \in Streams, ChildCloses(s) PROVE Phases'
  BY <1>23 DEF ChildCloses
<1>24. ASSUME NEW s \in Outputs, ChildWrites(s) PROVE Phases'
  BY <1>24 DEF ChildWrites
<1>25. ASSUME NEW n \in 1..MaxStarts, CopyIn(n) PROVE Phases'
  BY <1>25 DEF CopyIn, Finish
<1>26. ASSUME NEW s \in Outputs, NEW n \in 1..MaxStarts, CopyOut(s, n) PROVE Phases'
  BY <1>26 DEF CopyOut, Deliver, CopyEnds, Finish
<1>27. CASE UNCHANGED vars
  BY <1>27
<1> QED
  BY <1>1, <1>2, <1>3, <1>4, <1>5, <1>6, <1>7, <1>8, <1>9, <1>10, <1>11, <1>12, <1>13,
     <1>14, <1>15, <1>16, <1>17, <1>18, <1>19, <1>20, <1>21, <1>22, <1>23, <1>24, <1>25,
     <1>26, <1>27 DEF Next, Caller, CallerStep, Environment

\* No descriptor escapes the two lists.
LEMMA DescriptorsStep == DataOK /\ Phases /\ Descriptors /\ [Next]_vars => Descriptors'
<1> SUFFICES ASSUME DataOK, Phases, Descriptors, [Next]_vars PROVE Descriptors'
  OBVIOUS
<1> USE DEF Phases, Descriptors, ResourcesReleased, WaitSteps, lists, copying, process,
    waiting, vars
<1>1. CASE Start
  BY <1>1 DEF Start, Check, FailStart, CloseBoth
<1>2. CASE Run
  BY <1>2 DEF Run, Check, FailStart, CloseBoth
<1>3. CASE Output
  BY <1>3 DEF Output, Check, FailStart, CloseBoth
<1>4. CASE CombinedOutput
  BY <1>4 DEF CombinedOutput, Check, FailStart, CloseBoth
<1>5. CASE Wait
  BY <1>5 DEF Wait, MayWait
<1>6. CASE Setup
  BY <1>6 DEF Setup, Describe
<1>7. CASE SetupFails
  BY <1>7 DEF SetupFails, Describe, FailStart, CloseBoth
<1>8. CASE Launch
  BY <1>8 DEF Launch
<1>9. CASE LaunchFails
  BY <1>9 DEF LaunchFails, FailStart, CloseBoth
<1>10. CASE Spawn
  BY <1>10 DEF Spawn, CloseChildEnds
<1>11. CASE SignalWaitDone
  BY <1>11 DEF SignalWaitDone
<1>12. CASE DrainReceive
  BY <1>12 DEF DrainReceive, Errch
<1>13. CASE DrainEnds
  BY <1>13 DEF DrainEnds, Drained
<1>14. CASE CloseAfterWait
  BY <1>14 DEF CloseAfterWait
<1>15. CASE WaitReturns
  BY <1>15 DEF WaitReturns
<1>16. CASE ProcessWait
  BY <1>16 DEF ProcessWait
<1>17. CASE Kill
  BY <1>17 DEF Kill, Exit
<1>18. CASE WatcherStops
  BY <1>18 DEF WatcherStops
<1>19. CASE ProcessExits
  BY <1>19 DEF ProcessExits, Exit
<1>20. CASE ContextDone
  BY <1>20 DEF ContextDone
<1>21. ASSUME NEW s \in Streams, XPipe(s) PROVE Descriptors'
  BY <1>21 DEF XPipe
<1>22. ASSUME NEW s \in Streams, CallerCloses(s) PROVE Descriptors'
  BY <1>22 DEF CallerCloses
<1>23. ASSUME NEW s \in Streams, ChildCloses(s) PROVE Descriptors'
  BY <1>23 DEF ChildCloses
<1>24. ASSUME NEW s \in Outputs, ChildWrites(s) PROVE Descriptors'
  BY <1>24 DEF ChildWrites
<1>25. ASSUME NEW n \in 1..MaxStarts, CopyIn(n) PROVE Descriptors'
  BY <1>25 DEF CopyIn, Finish
<1>26. ASSUME NEW s \in Outputs, NEW n \in 1..MaxStarts, CopyOut(s, n) PROVE Descriptors'
  BY <1>26 DEF CopyOut, Deliver, CopyEnds, Finish
<1>27. CASE UNCHANGED vars
  BY <1>27
<1> QED
  BY <1>1, <1>2, <1>3, <1>4, <1>5, <1>6, <1>7, <1>8, <1>9, <1>10, <1>11, <1>12, <1>13,
     <1>14, <1>15, <1>16, <1>17, <1>18, <1>19, <1>20, <1>21, <1>22, <1>23, <1>24, <1>25,
     <1>26, <1>27 DEF Next, Caller, CallerStep, Environment

\* A copier that was joined stays joined.
LEMMA JoinsStep == DataOK /\ Phases /\ Joins /\ [Next]_vars => Joins'
<1> SUFFICES ASSUME DataOK, Phases, Joins, [Next]_vars PROVE Joins'
  OBVIOUS
<1> USE DEF DataOK, Phases, Joins, Joined, JoinedUnlessCancelled, WaitSteps, lists, copying,
    process, waiting, vars
<1>1. CASE Start
  BY <1>1 DEF Start, Check, FailStart, CloseBoth
<1>2. CASE Run
  BY <1>2 DEF Run, Check, FailStart, CloseBoth
<1>3. CASE Output
  BY <1>3 DEF Output, Check, FailStart, CloseBoth
<1>4. CASE CombinedOutput
  BY <1>4 DEF CombinedOutput, Check, FailStart, CloseBoth
<1>5. CASE Wait
  BY <1>5 DEF Wait, MayWait
<1>6. CASE Setup
  BY <1>6 DEF Setup, Describe
<1>7. CASE SetupFails
  BY <1>7 DEF SetupFails, Describe, FailStart, CloseBoth
<1>8. CASE Launch
  BY <1>8 DEF Launch
<1>9. CASE LaunchFails
  BY <1>9 DEF LaunchFails, FailStart, CloseBoth
<1>10. CASE Spawn
  BY <1>10 DEF Spawn, CloseChildEnds
<1>11. CASE SignalWaitDone
  BY <1>11 DEF SignalWaitDone
<1>12. CASE DrainReceive
  BY <1>12 DEF DrainReceive, Errch
<1>13. CASE DrainEnds
  BY <1>13 DEF DrainEnds, Drained
<1>14. CASE CloseAfterWait
  BY <1>14 DEF CloseAfterWait
<1>15. CASE WaitReturns
  BY <1>15 DEF WaitReturns
<1>16. CASE ProcessWait
  BY <1>16 DEF ProcessWait
<1>17. CASE Kill
  BY <1>17 DEF Kill, Exit
<1>18. CASE WatcherStops
  BY <1>18 DEF WatcherStops
<1>19. CASE ProcessExits
  BY <1>19 DEF ProcessExits, Exit
<1>20. CASE ContextDone
  BY <1>20 DEF ContextDone
<1>21. ASSUME NEW s \in Streams, XPipe(s) PROVE Joins'
  BY <1>21 DEF XPipe
<1>22. ASSUME NEW s \in Streams, CallerCloses(s) PROVE Joins'
  BY <1>22 DEF CallerCloses
<1>23. ASSUME NEW s \in Streams, ChildCloses(s) PROVE Joins'
  BY <1>23 DEF ChildCloses
<1>24. ASSUME NEW s \in Outputs, ChildWrites(s) PROVE Joins'
  BY <1>24 DEF ChildWrites
<1>25. ASSUME NEW n \in 1..MaxStarts, CopyIn(n) PROVE Joins'
  BY <1>25 DEF CopyIn, Finish
<1>26. ASSUME NEW s \in Outputs, NEW n \in 1..MaxStarts, CopyOut(s, n) PROVE Joins'
  BY <1>26 DEF CopyOut, Deliver, CopyEnds, Finish
<1>27. CASE UNCHANGED vars
  BY <1>27
<1> QED
  BY <1>1, <1>2, <1>3, <1>4, <1>5, <1>6, <1>7, <1>8, <1>9, <1>10, <1>11, <1>12, <1>13,
     <1>14, <1>15, <1>16, <1>17, <1>18, <1>19, <1>20, <1>21, <1>22, <1>23, <1>24, <1>25,
     <1>26, <1>27 DEF Next, Caller, CallerStep, Environment

\* What a copier delivered stays delivered.
LEMMA CopiesStep == DataOK /\ Phases /\ Joins /\ Copies /\ [Next]_vars => Copies'
<1> SUFFICES ASSUME DataOK, Phases, Joins, Copies, [Next]_vars PROVE Copies'
  OBVIOUS
<1> USE DEF DataOK, Phases, Joins, Joined, Copies, Copied, NilIsEarned, WaitSteps, lists,
    copying, process, waiting, vars
<1>1. CASE Start
  BY <1>1 DEF Start, Check, FailStart, CloseBoth
<1>2. CASE Run
  BY <1>2 DEF Run, Check, FailStart, CloseBoth
<1>3. CASE Output
  BY <1>3 DEF Output, Check, FailStart, CloseBoth
<1>4. CASE CombinedOutput
  BY <1>4 DEF CombinedOutput, Check, FailStart, CloseBoth
<1>5. CASE Wait
  BY <1>5 DEF Wait, MayWait
<1>6. CASE Setup
  BY <1>6 DEF Setup, Describe
<1>7. CASE SetupFails
  BY <1>7 DEF SetupFails, Describe, FailStart, CloseBoth
<1>8. CASE Launch
  <2>1. \A t \in Outputs, m \in 1..MaxStarts : <<t, m>> \in Copiers
    BY DEF Outputs, Streams, Copiers
  <2>2. \A t \in Outputs, m \in 1..MaxStarts : copier[<<t, m>>] = "none"
    BY <1>8, <2>1 DEF Launch
  <2>3. child' \cup undelivered' = {s \in Streams : <<s, gen'>> \in goroutine'}
    BY <1>8 DEF Launch
  <2> QED
    BY <1>8, <2>2, <2>3 DEF Launch
<1>9. CASE LaunchFails
  BY <1>9 DEF LaunchFails, FailStart, CloseBoth
<1>10. CASE Spawn
  <2>1. \A t \in Outputs, m \in 1..MaxStarts : <<t, m>> \in Copiers
    BY DEF Outputs, Streams, Copiers
  <2>2. \A t \in Outputs, m \in 1..MaxStarts : copier'[<<t, m>>] \in {"none", "running"}
    BY <1>10, <2>1 DEF Spawn
  <2> QED
    BY <1>10, <2>2 DEF Spawn
<1>11. CASE SignalWaitDone
  BY <1>11 DEF SignalWaitDone
<1>12. CASE DrainReceive
  <2>1. \A t \in Outputs, m \in 1..MaxStarts : <<t, m>> \in Copiers
    BY DEF Outputs, Streams, Copiers
  <2>2. PICK g \in Errch : /\ copier' = [copier EXCEPT ![g] = "taken"]
                         /\ copyErr' = (copyErr \/ copier[g] = "failed")
    BY <1>12 DEF DrainReceive
  <2>3. \A t \in Outputs, m \in 1..MaxStarts : Copied(t, m)'
    BY <1>12, <2>1, <2>2 DEF DrainReceive, Errch
  <2> QED
    BY <1>12, <2>3 DEF DrainReceive
<1>13. CASE DrainEnds
  BY <1>13 DEF DrainEnds, Drained
<1>14. CASE CloseAfterWait
  BY <1>14 DEF CloseAfterWait
<1>15. CASE WaitReturns
  <2>1. \A t \in Outputs, m \in 1..MaxStarts : <<t, m>> \in Copiers
    BY DEF Outputs, Streams, Copiers
  <2>2. ASSUME outcome' = "nil" PROVE undelivered = {}
    <3>1. Joined /\ ~copyErr
      BY <1>15, <2>2 DEF WaitReturns
    <3>2. ASSUME NEW s \in undelivered PROVE FALSE
      <4>1. <<s, gen>> \in goroutine /\ s \in Outputs
        OBVIOUS
      <4>2. gen \in 1..MaxStarts /\ copier[<<s, gen>>] = "taken"
        BY <3>1, <4>1 DEF Copiers
      <4> QED
        BY <3>1, <3>2, <4>1, <4>2
    <3> QED
      BY <3>2
  <2> QED
    BY <1>15, <2>2 DEF WaitReturns
<1>16. CASE ProcessWait
  BY <1>16 DEF ProcessWait
<1>17. CASE Kill
  BY <1>17 DEF Kill, Exit
<1>18. CASE WatcherStops
  BY <1>18 DEF WatcherStops
<1>19. CASE ProcessExits
  BY <1>19 DEF ProcessExits, Exit
<1>20. CASE ContextDone
  BY <1>20 DEF ContextDone
<1>21. ASSUME NEW s \in Streams, XPipe(s) PROVE Copies'
  BY <1>21 DEF XPipe
<1>22. ASSUME NEW s \in Streams, CallerCloses(s) PROVE Copies'
  BY <1>22 DEF CallerCloses
<1>23. ASSUME NEW s \in Streams, ChildCloses(s) PROVE Copies'
  BY <1>23 DEF ChildCloses
<1>24. ASSUME NEW s \in Outputs, ChildWrites(s) PROVE Copies'
  <2>1. s \in child /\ <<s, gen>> \in goroutine /\ gen \in 1..MaxStarts
    BY <1>24 DEF ChildWrites, Copiers
  <2>2. outcome # "nil"
    BY <2>1
  <2> QED
    BY <1>24, <2>1, <2>2 DEF ChildWrites
<1>25. ASSUME NEW n \in 1..MaxStarts, CopyIn(n) PROVE Copies'
  <2>1. \A t \in Outputs, m \in 1..MaxStarts : <<t, m>> \in Copiers
    BY DEF Outputs, Streams, Copiers
  <2>2. PICK r \in {"ok", "failed"} : copier' = [copier EXCEPT ![<<"stdin", n>>] = r]
    BY <1>25 DEF CopyIn, Finish
  <2>3. \A t \in Outputs, m \in 1..MaxStarts : copier'[<<t, m>>] = copier[<<t, m>>]
    BY <2>1, <2>2 DEF Outputs
  <2>4. copier[<<"stdin", n>>] = "running" /\ <<"stdin", n>> \in Copiers
    BY <1>25 DEF CopyIn, Copiers, Streams
  <2>5. proc # "none" /\ pc # "spawn" /\ (Joined => Joined')
    BY <1>25, <2>2, <2>4 DEF CopyIn
  <2> QED
    BY <1>25, <2>3, <2>5 DEF CopyIn
<1>26. ASSUME NEW s \in Outputs, NEW n \in 1..MaxStarts, CopyOut(s, n) PROVE Copies'
  <2>1. \A t \in Outputs, m \in 1..MaxStarts : <<t, m>> \in Copiers
    BY DEF Outputs, Streams, Copiers
  <2>2. copier[<<s, n>>] = "running" /\ proc # "none" /\ pc # "spawn"
    BY <1>26, <2>1 DEF CopyOut
  <2>3. \A t \in Outputs, m \in 1..MaxStarts : Copied(t, m)'
    BY <1>26, <2>1, <2>2 DEF CopyOut, Deliver, CopyEnds, Finish
  <2>4. Joined => Joined'
    BY <1>26, <2>1, <2>2 DEF CopyOut, Deliver, CopyEnds, Finish
  <2>5. undelivered' \subseteq undelivered
    BY <1>26 DEF CopyOut, Deliver, CopyEnds
  <2> QED
    BY <1>26, <2>2, <2>3, <2>4, <2>5 DEF CopyOut
<1>27. CASE UNCHANGED vars
  BY <1>27
<1> QED
  BY <1>1, <1>2, <1>3, <1>4, <1>5, <1>6, <1>7, <1>8, <1>9, <1>10, <1>11, <1>12, <1>13,
     <1>14, <1>15, <1>16, <1>17, <1>18, <1>19, <1>20, <1>21, <1>22, <1>23, <1>24, <1>25,
     <1>26, <1>27 DEF Next, Caller, CallerStep, Environment

\* Nothing is open, started or claimed before the first call.
LEMMA InitIInv == Init => IInv
<1> SUFFICES ASSUME Init PROVE IInv
  OBVIOUS
<1> USE DEF Init
<1>1. DataOK
  BY MaxStartsAssumption, IOsAssumption DEF DataOK
<1>2. FlagsOK
  BY Zenon DEF FlagsOK
<1>3. Phases
  BY DEF Phases, WaitSteps
<1>4. Descriptors
  BY DEF Descriptors, ResourcesReleased
<1>5. Joins
  BY DEF Joins, JoinedUnlessCancelled
<1>6. Copies
  <2>1. \A s \in Outputs, n \in 1..MaxStarts : copier[<<s, n>>] = "none"
    BY DEF Outputs, Streams, Copiers
  <2> QED
    BY <2>1 DEF Copies, Copied, NilIsEarned
<1> QED
  BY <1>1, <1>2, <1>3, <1>4, <1>5, <1>6 DEF IInv, TypeOK

\* IInv is inductive.
LEMMA StepIInv == IInv /\ [Next]_vars => IInv'
BY DataStep, FlagsStep, PhasesStep, DescriptorsStep, JoinsStep, CopiesStep DEF IInv, TypeOK

\* The inductive invariant holds in every reachable state.
THEOREM Invariance == Spec => []IInv
BY InitIInv, StepIInv, PTL DEF Spec

\* Every state of a Cmd is well typed (exec.go:24-55).
THEOREM TypeCorrect == Spec => []TypeOK
<1>1. IInv => TypeOK
  BY DEF IInv
<1> QED
  BY <1>1, Invariance, PTL

\* Wait, and a Start that fails past the registration check, leave no
\* descriptor open (exec.go:93-128, 490).
THEOREM Releases == Spec => []ResourcesReleased
<1>1. IInv => ResourcesReleased
  BY DEF IInv, Descriptors
<1> QED
  BY <1>1, Invariance, PTL

\* A nil error from Wait means status zero, joined copiers without errors and
\* nothing left undelivered (exec.go:473-504).
THEOREM NilEarned == Spec => []NilIsEarned
<1>1. IInv => NilIsEarned
  BY DEF IInv, Copies
<1> QED
  BY <1>1, Invariance, PTL

\* Only a done context makes Wait return before its copiers (exec.go:478-488).
THEOREM JoinsCopiers == Spec => []JoinedUnlessCancelled
<1>1. IInv => JoinedUnlessCancelled
  BY DEF IInv, Joins
<1> QED
  BY <1>1, Invariance, PTL

\* Wait never closes waitDone twice, nor while it is nil (exec.go:468-476).
THEOREM ClosesOnce == Spec => []WaitDoneClosedOnce
<1>1. IInv => WaitDoneClosedOnce
  BY DEF IInv, Phases, WaitDoneClosedOnce, WaitSteps
<1> QED
  BY <1>1, Invariance, PTL

-----------------------------------------------------------------------------
(***************************************************************************)
(* The refinement: each step of Cmd is one of CmdContract, or a stutter.   *)
(***************************************************************************)
LEMMA InitContract == Init => Contract!Init
BY DEF Init, Contract!Init, Progress

\* A call that is refused or fails before the launch, or makes a pipe.
LEMMA AnswerStep ==
    ASSUME Contract!Answers(ret'), UNCHANGED <<proc, exitOK, ctxDone, outcome, finished>>,
           (pc = "spawn") = (pc' = "spawn")
    PROVE  Contract!Next
BY DEF Contract!Next, Contract!Answer, Progress

\* A call of Start, Run, Output or CombinedOutput starts, is refused or stutters.
LEMMA CheckContract ==
    ASSUME Phases, NEW thenWait, Check(thenWait)
    PROVE  [Contract!Next]_(Contract!vars)
<1> USE DEF lists, copying, process, waiting
<1>1. UNCHANGED <<proc, exitOK, ctxDone, outcome, finished>> /\ pc # "spawn" /\ pc' # "spawn"
  BY DEF Check, FailStart
<1>2. CASE UNCHANGED ret
  BY <1>1, <1>2 DEF Contract!vars, Progress
<1>3. CASE ret' = "notRegistered"
  BY <1>1, <1>3, AnswerStep DEF Contract!Answers
<1>4. CASE proc # "none" /\ ret' = "alreadyStarted"
  <2>1. Progress \in {"started", "waited"}
    BY <1>4, <1>1 DEF Check, Phases, Progress, WaitSteps
  <2> QED
    BY <1>1, <1>4, <2>1, AnswerStep DEF Contract!Answers
<1>5. CASE proc = "none" /\ ctxDone /\ ret' = "ctx"
  BY <1>1, <1>5, AnswerStep DEF Contract!Answers
<1> QED
  BY <1>2, <1>3, <1>4, <1>5 DEF Check, FailStart

\* A call of Wait claims the work or is refused.
LEMMA WaitContract == Phases /\ Wait => [Contract!Next]_(Contract!vars)
<1> SUFFICES ASSUME Phases, Wait PROVE [Contract!Next]_(Contract!vars)
  OBVIOUS
<1> USE DEF lists, copying, process, waiting
<1>1. UNCHANGED <<proc, exitOK, ctxDone, outcome>> /\ pc # "spawn" /\ pc' # "spawn"
  BY DEF Wait
<1>2. CASE proc = "none" /\ ret' = "notStarted" /\ UNCHANGED finished
  <2>1. Progress = "new"
    BY <1>2 DEF Phases, Progress
  <2> QED
    BY <1>1, <1>2, <2>1, AnswerStep DEF Contract!Answers
<1>3. CASE proc # "none" /\ finished /\ ret' = "alreadyWaited" /\ UNCHANGED finished
  <2>1. Progress = "waited"
    BY <1>3 DEF Wait, Phases, Progress, WaitSteps
  <2> QED
    BY <1>1, <1>3, <2>1, AnswerStep DEF Contract!Answers
<1>4. CASE MayWait /\ finished' = TRUE /\ UNCHANGED ret
  <2>1. Progress = "started" /\ Progress' = "waiting"
    BY <1>1, <1>4 DEF MayWait, Phases, Progress
  <2> QED
    BY <1>1, <1>4, <2>1 DEF Contract!Next, Contract!Wait
<1> QED
  BY <1>2, <1>3, <1>4 DEF Wait

\* Nothing the contract speaks of changes.
LEMMA QuietStep ==
    ASSUME UNCHANGED <<proc, exitOK, ctxDone, outcome, finished, ret>>,
           (pc = "spawn") = (pc' = "spawn")
    PROVE  UNCHANGED Contract!vars
BY DEF Contract!vars, Progress

\* Every step of Cmd is one of the contract, or stutters.
LEMMA StepContract == IInv /\ [Next]_vars => [Contract!Next]_(Contract!vars)
<1> SUFFICES ASSUME Phases, [Next]_vars PROVE [Contract!Next]_(Contract!vars)
  BY DEF IInv
<1> USE DEF lists, copying, process, waiting, vars
<1>1. CASE Start
  BY <1>1, CheckContract DEF Start
<1>2. CASE Run
  BY <1>2, CheckContract DEF Run
<1>3. CASE Output
  BY <1>3, CheckContract DEF Output
<1>4. CASE CombinedOutput
  BY <1>4, CheckContract DEF CombinedOutput
<1>5. CASE Wait
  BY <1>5, WaitContract
<1>6. CASE Setup
  BY <1>6, QuietStep DEF Setup
<1>7. CASE SetupFails
  <2>1. proc = "none" /\ ret' = "setup"
    BY <1>7 DEF SetupFails, FailStart, Phases
  <2> QED
    BY <1>7, <2>1, AnswerStep DEF SetupFails, FailStart, Contract!Answers
<1>8. CASE Launch
  <2>1. proc = "none" /\ Progress = "new" /\ Progress' = "new"
    BY <1>8 DEF Launch, Phases, Progress
  <2> QED
    BY <1>8, <2>1 DEF Launch, Contract!Next, Contract!Start
<1>9. CASE LaunchFails
  <2>1. proc = "none" /\ ret' = "launch"
    BY <1>9 DEF LaunchFails, FailStart, Phases
  <2> QED
    BY <1>9, <2>1, AnswerStep DEF LaunchFails, FailStart, Contract!Answers
<1>10. CASE Spawn
  <2>1. proc # "none" /\ Progress = "new" /\ Progress' = "started"
    BY <1>10 DEF Spawn, Phases, Progress
  <2> QED
    BY <1>10, <2>1 DEF Spawn, Contract!Next, Contract!Started
<1>11. CASE SignalWaitDone
  BY <1>11, QuietStep DEF SignalWaitDone
<1>12. CASE DrainReceive
  BY <1>12, QuietStep DEF DrainReceive
<1>13. CASE DrainEnds
  BY <1>13, QuietStep DEF DrainEnds
<1>14. CASE CloseAfterWait
  BY <1>14, QuietStep DEF CloseAfterWait
<1>15. CASE WaitReturns
  <2>1. Progress = "waiting" /\ Progress' = "waited"
    BY <1>15 DEF WaitReturns, Phases, Progress, WaitSteps
  <2>2. Contract!Earned(outcome')
    BY <1>15 DEF WaitReturns, Phases, WaitSteps, Contract!Earned
  <2> QED
    BY <1>15, <2>1, <2>2 DEF WaitReturns, Contract!Next, Contract!Return
<1>16. CASE ProcessWait
  <2>1. Progress = "waiting" /\ Progress' = "waiting"
    BY <1>16 DEF ProcessWait, Phases, Progress, WaitSteps
  <2>2. UNCHANGED <<exitOK, ctxDone, ret, outcome>>
    BY <1>16 DEF ProcessWait
  <2>3. UNCHANGED proc \/ (proc = "exited" /\ proc' = "reaped")
    BY <1>16 DEF ProcessWait
  <2> QED
    BY <2>1, <2>2, <2>3 DEF Contract!Next, Contract!Reap, Contract!vars
<1>17. CASE Kill
  <2>1. CASE proc = "running"
    <3>1. UNCHANGED Progress /\ proc' = "exited" /\ exitOK' = FALSE
      BY <1>17, <2>1 DEF Kill, Exit, Progress
    <3> QED
      BY <1>17, <2>1, <3>1 DEF Kill, Contract!Next, Contract!Exit
  <2>2. CASE proc # "running"
    BY <1>17, <2>2, QuietStep DEF Kill
  <2> QED
    BY <2>1, <2>2
<1>18. CASE WatcherStops
  BY <1>18, QuietStep DEF WatcherStops
<1>19. CASE ProcessExits
  <2>1. UNCHANGED Progress /\ proc' = "exited" /\ exitOK' \in BOOLEAN
    BY <1>19 DEF ProcessExits, Exit, Progress
  <2> QED
    BY <1>19, <2>1 DEF ProcessExits, Contract!Next, Contract!Exit
<1>20. CASE ContextDone
  <2>1. UNCHANGED Progress
    BY <1>20 DEF ContextDone, Progress
  <2> QED
    BY <1>20, <2>1 DEF ContextDone, Contract!Next, Contract!ContextDone
<1>21. ASSUME NEW s \in Streams, XPipe(s) PROVE Contract!Next
  BY <1>21, AnswerStep DEF XPipe, Contract!Answers
<1>22. ASSUME NEW s \in Streams, CallerCloses(s) PROVE UNCHANGED Contract!vars
  BY <1>22, QuietStep DEF CallerCloses
<1>23. ASSUME NEW s \in Streams, ChildCloses(s) PROVE UNCHANGED Contract!vars
  BY <1>23, QuietStep DEF ChildCloses
<1>24. ASSUME NEW s \in Outputs, ChildWrites(s) PROVE UNCHANGED Contract!vars
  BY <1>24, QuietStep DEF ChildWrites
<1>25. ASSUME NEW n \in 1..MaxStarts, CopyIn(n) PROVE UNCHANGED Contract!vars
  BY <1>25, QuietStep DEF CopyIn
<1>26. ASSUME NEW s \in Outputs, NEW n \in 1..MaxStarts, CopyOut(s, n)
       PROVE  UNCHANGED Contract!vars
  BY <1>26, QuietStep DEF CopyOut
<1>27. CASE UNCHANGED vars
  BY <1>27, QuietStep
<1> QED
  BY <1>1, <1>2, <1>3, <1>4, <1>5, <1>6, <1>7, <1>8, <1>9, <1>10, <1>11, <1>12, <1>13,
     <1>14, <1>15, <1>16, <1>17, <1>18, <1>19, <1>20, <1>21, <1>22, <1>23, <1>24, <1>25,
     <1>26, <1>27 DEF Next, Caller, CallerStep, Environment

\* Cmd implements its contract: one launch, one Wait that does the work, one
\* outcome, and answers in keeping with them (exec.go:80-153, 461-505).
THEOREM Refinement == Spec => ImplementsContract
<1>1. Spec => []IInv /\ [][Next]_vars /\ Init
  BY Invariance, PTL DEF Spec
<1> QED
  BY <1>1, InitContract, StepContract, PTL DEF ImplementsContract, Contract!Spec
=============================================================================
