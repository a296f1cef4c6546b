------------------------------- MODULE Distros -------------------------------
(***************************************************************************)
(* What the registry of distros promises to its callers, without locks:    *)
(* each call that changes it does so in one step.  Spec is the promise as  *)
(* the comments have it; SpecAnySuccessor promises the same of everything  *)
(* but the distro that follows a removed default distro.                   *)
(***************************************************************************)
EXTENDS RegistryTypes

VARIABLES
    distros,    \* for the GUID of each registered distro: its name and configuration
    default     \* the GUID of the default distro, or NoGuid

vars == <<distros, default>>

Init == distros = << >> /\ default = NoGuid

Register(g, n) ==
    /\ g \notin DOMAIN distros
    /\ \A h \in DOMAIN distros : distros[h].name # n
    /\ distros' = [h \in DOMAIN distros \cup {g} |->
                      IF h = g THEN [name |-> n, conf |-> NewConf] ELSE distros[h]]
    /\ default' = IF default = NoGuid THEN g ELSE default

Remove(g) ==
    /\ g \in DOMAIN distros
    /\ distros' = [h \in DOMAIN distros \ {g} |-> distros[h]]

Lowest(guids) == CHOOSE g \in guids : \A h \in guids : g <= h

\* "the one with the lowest GUID (lexicographically) is set as default.  If there
\* are none, the field is set to empty string."
Unregister(g) ==
    /\ Remove(g)
    /\ default' = IF default # g THEN default
                  ELSE IF DOMAIN distros = {g} THEN NoGuid ELSE Lowest(DOMAIN distros \ {g})

UnregisterAnySuccessor(g) ==
    /\ Remove(g)
    /\ IF default = g THEN default' \in {NoGuid} \cup (DOMAIN distros \ {g})
                      ELSE default' = default

SetAsDefault(g) == g \in DOMAIN distros /\ default' = g /\ UNCHANGED distros

Configure(g, c) ==
    /\ g \in DOMAIN distros
    /\ distros' = [distros EXCEPT ![g].conf = c]
    /\ UNCHANGED default

RegisterOrConfigure(g) ==
    \/ \E n \in Names : Register(g, n)
    \/ SetAsDefault(g)
    \/ \E c \in Confs : Configure(g, c)

Next == \E g \in Guids : RegisterOrConfigure(g) \/ Unregister(g)
NextAnySuccessor == \E g \in Guids : RegisterOrConfigure(g) \/ UnregisterAnySuccessor(g)

Spec == Init /\ [][Next]_vars
SpecAnySuccessor == Init /\ [][NextAnySuccessor]_vars
=============================================================================
