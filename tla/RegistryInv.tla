----------------------------- MODULE RegistryInv -----------------------------
(***************************************************************************)
(* The inductive invariant of Registry: which places belong to a phase,    *)
(* which locks a goroutine has at each of them, and what they protect.     *)
(***************************************************************************)
EXTENDS Registry, Sequences

PlacesOf(p) ==
    CASE p = "list"                                       -> {"start", "enter", "in"}
      [] p = "open"                                       -> {"start", "enter"}
      [] p = "default"                                    -> {"start", "lookup", "enter", "in"}
      [] p = "find"                                       -> {"start", "look"}
      [] p = "get"                                        -> {"start", "look", "enter", "in", "read", "got"}
      [] p = "put"                                        -> {"start", "look", "lock", "write", "written"}
      [] p \in {"register", "unregister", "setDefault"}   -> {"start", "act"}

Control(t) ==
    /\ phase[t] <= Len(Program[call[t].op])
    /\ at[t] \in (IF Busy(t) THEN PlacesOf(Program[call[t].op][phase[t]]) ELSE {"start"})

\* The Lxss key stays locked throughout a listing, a look at the default distro
\* and a read of the configuration, and while a sub-key is sought by name.
RootIsRead(t) ==
    \/ at[t] = "look"
    \/ at[t] # "start" /\ (In(t, "list") \/ In(t, "default") \/ In(t, "get"))

Reads(t) ==
    /\ RootIsRead(t) => t \in readers[Root]
    /\ In(t, "get") /\ at[t] \in {"in", "read", "got"} => t \in readers[key[t]]
    /\ In(t, "open") => \A k \in Keys : t \notin readers[k]

Writes(t) ==
    /\ \A k \in Keys : writer[k] = t => \/ at[t] = "act" /\ k = Root
                                        \/ at[t] \in {"write", "written"} /\ k = key[t]
    /\ at[t] = "written" => Exclusive(t, key[t])

\* The sub-key it looks at, and what it has read of it.
Knows(t) ==
    /\ In(t, "get") /\ at[t] \notin {"start", "look"} => key[t] \in registered
    /\ at[t] \in {"lock", "write", "written"} \/ In(t, "open") => key[t] \in Guids
    /\ at[t] = "read" => got[t]["uid"] = conf[key[t]]["uid"]

Own(t) ==
    /\ Control(t) /\ Reads(t) /\ Writes(t) /\ Knows(t)
    /\ IsSnapshot(t) /\ IsWhole(t) /\ HoldsNoOther(t)

Blank == \A g \in Guids \ registered : conf[g] = NewConf

IInv ==
    /\ TypeOK /\ Blank /\ DefaultRegistered /\ UniqueNames
    /\ \A t \in Threads : Own(t)
-----------------------------------------------------------------------------
(***************************************************************************)
(* What the refinement of Distros needs besides: the sub-key of a call     *)
(* that writes a configuration is not registered after it was removed,     *)
(* and the flags stay as they were written until the user is.              *)
(***************************************************************************)
Written(t) ==
    /\ at[t] \in {"lock", "write", "written"} => key[t] \in used
    /\ at[t] = "written" /\ key[t] \in registered =>
          \A f \in Flags : conf[key[t]][f] = got[t][f]

RInv == IInv /\ \A t \in Threads : Written(t)
=============================================================================
