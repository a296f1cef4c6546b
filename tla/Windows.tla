------------------------------ MODULE Windows ------------------------------
(***************************************************************************)
(* Windows as the Windows back-end meets it: the distros that WSL has, and *)
(* the programs that change them while a call of GoWSL is under way.       *)
(* Nothing here is code of the repository: it is what that code, in        *)
(* internal/backend/windows, relies on.  A name stands for all its casings.*)
(***************************************************************************)
EXTENDS WslFlags, FiniteSets

CONSTANTS
    Names,      \* of distros
    Guids,      \* sub-keys of the Lxss key, numbered in the order of enumeration
    Foreign,    \* its sub-keys that are no GUIDs
    Users,
    SomeConfs,  \* the configurations that distros have before a call, and others write
    MaxChanges  \* bound: changes by others during one call

NoName == ""
NoGuid == 0

ASSUME NamesAssumption == NoName \notin Names
ASSUME GuidsAssumption == Guids \subseteq Nat \ {NoGuid} /\ IsFiniteSet(Guids)
ASSUME ForeignAssumption == Foreign \subseteq Nat \ Guids /\ IsFiniteSet(Foreign)
ASSUME MaxChangesAssumption == MaxChanges \in Nat

\* How wsl.exe names the states: the four that GoWSL knows, and any other.
Words == {"Stopped", "Running", "Installing", "Uninstalling", "Converting"}
Confs == [uid : Users, flags : WslFlags]

ASSUME SomeConfsAssumption == SomeConfs \subseteq Confs

VARIABLES
    name,       \* of the distro with each GUID; NoName: there is none
    word,       \* its state
    conf,       \* its configuration
    default,    \* the default distro, or NoGuid
    used,       \* the GUIDs there have been: a new distro gets a new one
    subject,    \* the name that the call is about
    changes,    \* by others so far
    seen,           \* history: the states the subject has had since the call began
    resized,        \* history: a distro was registered or removed since then
    reconfigured    \* history: others have written a configuration since then

wsl == <<name, word, conf, default, used>>
history == <<changes, seen, resized, reconfigured>>
windows == <<wsl, subject, history>>

Registered == {g \in Guids : name[g] # NoName}
Exists == \E g \in Registered : name[g] = subject
Guid == CHOOSE g \in Registered : name[g] = subject    \* when it Exists

\* The state of the subject.
State == IF Exists THEN word[Guid] ELSE "NotRegistered"

Subkeys == Registered \cup Foreign

\* The member of S that comes i-th when S is enumerated.
Nth(S, i) == CHOOSE k \in S : Cardinality({j \in S : j <= k}) = i

WindowsOK ==
    /\ name \in [Guids -> Names \cup {NoName}]
    /\ word \in [Guids -> Words] /\ conf \in [Guids -> Confs]
    /\ default \in Guids \cup {NoGuid} /\ subject \in Names
    /\ Registered \subseteq used /\ used \subseteq Guids
    /\ changes \in 0..MaxChanges
    /\ seen \subseteq Words \cup {"NotRegistered"}
    /\ resized \in BOOLEAN /\ reconfigured \in BOOLEAN
-----------------------------------------------------------------------------
(***************************************************************************)
(* What happens to a distro, whoever asks for it.                          *)
(***************************************************************************)
Registers(g, nm) ==
    /\ g \in Guids \ used /\ used' = used \cup {g}
    /\ \A h \in Registered : name[h] # nm
    /\ name' = [name EXCEPT ![g] = nm]
    /\ word' = [word EXCEPT ![g] = "Stopped"]
    /\ default' = IF default = NoGuid THEN g ELSE default
    /\ UNCHANGED conf

Unregisters(g) ==
    /\ g \in Registered
    /\ name' = [name EXCEPT ![g] = NoName]
    /\ default' = IF default = g THEN NoGuid ELSE default
    /\ UNCHANGED <<word, conf, used>>

Goes(S, w) ==
    /\ word' = [g \in Guids |-> IF g \in S THEN w ELSE word[g]]
    /\ UNCHANGED <<name, conf, default, used>>

IsConfigured(g, c) ==
    /\ conf' = [conf EXCEPT ![g] = c]
    /\ UNCHANGED <<name, word, default, used>>

BecomesDefault(g) ==
    /\ default' = g
    /\ UNCHANGED <<name, word, conf, used>>

\* What a step of Windows leaves in the history.
Remember ==
    /\ seen' = seen \cup {State'}
    /\ resized' = (resized \/ name' # name)

(***************************************************************************)
(* Other programs.                                                         *)
(***************************************************************************)
OthersAct ==
    /\ changes < MaxChanges /\ changes' = changes + 1
    /\ UNCHANGED subject
    /\ \/ /\ \/ \E g \in Guids, nm \in Names : Registers(g, nm)
             \/ \E g \in Registered : Unregisters(g) \/ BecomesDefault(g)
             \/ \E g \in Registered, w \in Words : Goes({g}, w)
          /\ UNCHANGED reconfigured
       \/ /\ \E g \in Registered, c \in SomeConfs : IsConfigured(g, c)
          /\ reconfigured' = TRUE
    /\ Remember
=============================================================================
