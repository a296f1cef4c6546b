---------------------------- MODULE CmdContract ----------------------------
(***************************************************************************)
(* What a Cmd promises to its caller, without streams and goroutines: the  *)
(* command is started once, waited for once, and each call is answered in  *)
(* keeping with where the command is.  Cmd implements this module.         *)
(***************************************************************************)
VARIABLES
    state,      \* "new", "started", "waiting" (a Wait is under way) or "waited"
    proc,       \* the process: "none", "running", "exited" or "reaped"
    exitOK,     \* it exited with status zero
    ctxDone,
    ret,        \* what the last call returned
    outcome     \* what the Wait that did its work returned

vars == <<state, proc, exitOK, ctxDone, ret, outcome>>

Init ==
    /\ state = "new" /\ proc = "none" /\ exitOK = FALSE /\ ctxDone = FALSE
    /\ ret = "ok" /\ outcome = "none"

\* The one launch of the process.
Start ==
    /\ state = "new" /\ proc = "none"
    /\ proc' = "running" /\ UNCHANGED <<state, exitOK, ctxDone, ret, outcome>>

Started ==
    /\ state = "new" /\ proc # "none"
    /\ state' = "started" /\ ret' = "ok" /\ UNCHANGED <<proc, exitOK, ctxDone, outcome>>

\* A call that is refused, or fails, or makes a pipe, changes nothing here, and
\* no error contradicts the state it is given in.
Answers(r) ==
    \/ r \in {"ok", "setup", "launch"} /\ proc = "none"
    \/ r = "ctx" /\ proc = "none" /\ ctxDone
    \/ r = "notStarted" /\ state = "new"
    \/ r = "alreadyStarted" /\ state \in {"started", "waited"}
    \/ r = "alreadyWaited" /\ state = "waited"
    \/ r = "notRegistered"

Answer ==
    /\ Answers(ret')
    /\ UNCHANGED <<state, proc, exitOK, ctxDone, outcome>>

Wait ==
    /\ state = "started"
    /\ state' = "waiting" /\ UNCHANGED <<proc, exitOK, ctxDone, ret, outcome>>

\* The process ends on its own or is killed.
Exit ==
    /\ proc = "running"
    /\ proc' = "exited" /\ UNCHANGED <<state, ctxDone, ret, outcome>>
    /\ exitOK' \in BOOLEAN

Reap ==
    /\ proc = "exited" /\ state = "waiting"
    /\ proc' = "reaped" /\ UNCHANGED <<state, exitOK, ctxDone, ret, outcome>>

\* A context that is done goes before anything else, then the status; only the
\* failure of Process.Wait leaves the end of the process open.
Earned(o) ==
    IF ctxDone THEN o = "ctx"
    ELSE \/ o = "wait"
         \/ proc = "reaped" /\ exitOK /\ o \in {"nil", "copy"}
         \/ proc = "reaped" /\ ~exitOK /\ o = "exit"

Return ==
    /\ state = "waiting"
    /\ state' = "waited" /\ Earned(outcome') /\ ret' = "ok"
    /\ UNCHANGED <<proc, exitOK, ctxDone>>

ContextDone ==
    /\ ~ctxDone
    /\ ctxDone' = TRUE /\ UNCHANGED <<state, proc, exitOK, ret, outcome>>

Next ==
    \/ Start \/ Started \/ Answer \/ Wait \/ Return
    \/ Exit \/ Reap \/ ContextDone

Spec == Init /\ [][Next]_vars
=============================================================================
