------------------------------ MODULE Registry ------------------------------
(***************************************************************************)
(* The mock's registry and the calls of the public API that go through it  *)
(* (registration.go, distro.go, mock/registry.go, mock/win32.go), at the   *)
(* level of its locks.  The Lxss key and the sub-key of each distro have a *)
(* sync.RWMutex each; a call takes and gives them back in many steps, and  *)
(* any number of goroutines make calls.                                    *)
(*                                                                         *)
(* A call is a sequence of phases.  What a phase does under one lock       *)
(* without taking another is one step, unless somebody else could see it   *)
(* half done.  OpenLxssRegistry takes the read lock of the Lxss key also   *)
(* when its caller already holds it, and gives it back before it returns a *)
(* sub-key: no step leaves a goroutine with two read locks of one key, so  *)
(* a set of readers is enough and the second lock is a guard.              *)
(***************************************************************************)
EXTENDS RegistryTypes, FiniteSets

CONSTANTS
    Threads,    \* the goroutines that make calls
    NoThread,
    NoName,
    Settings    \* what setters are asked for: of a name, a field and its new value

ASSUME NoNameAssumption == NoName \notin Names
ASSUME SettingsAssumption ==
    Settings \subseteq [name : Names, field : Fields, value : Values]
ASSUME NoThreadAssumption == NoThread \notin Threads

VARIABLES
    registered, \* the sub-keys of the Lxss key, by GUID
    default,    \* its value DefaultDistribution
    name, conf, \* the values of the sub-keys, by GUID: those of one that has been
                \* removed can be written to but not read, and are left out
    used,       \* the GUIDs drawn so far
    readers,    \* per key: the goroutines with a read lock
    writer,     \* per key: the goroutine that has or waits for the write lock
    call,       \* what each goroutine was last asked to do
    phase,      \* which phase of the call it is in, 0 when it is idle
    at,         \* how far it is in that phase
    key,        \* the sub-key it is looking at
    subkeys,    \* those of a listing that are still to be opened
    got         \* the configuration it has read

data == <<registered, default, name, conf, used>>
locks == <<readers, writer>>
local == <<call, phase, at, key, subkeys, got>>
vars == <<data, locks, local>>

Root == NoGuid  \* the Lxss key among the keys
Keys == Guids \cup {Root}

\* The phases of each method of the API, in order.  Launch stands for every
\* call of the backend that only looks up the sub-key, and State also for
\* Command.Start: what they do with its DistroState is in the module of that name.
Program == [
    RegisteredDistros |-> <<"list">>,
    Register          |-> <<"list", "register">>,
    Import            |-> <<"register">>,
    Unregister        |-> <<"list", "unregister">>,
    Uninstall         |-> <<"list", "open", "unregister">>,
    DefaultDistro     |-> <<"default">>,
    SetAsDefault      |-> <<"setDefault">>,
    GetConfiguration  |-> <<"list", "get">>,
    Setter            |-> <<"list", "get", "list", "put">>,
    State             |-> <<"list", "find">>,
    Launch            |-> <<"find">> ]

Places == {"start", "lookup", "enter", "in", "look", "act", "read", "got",
           "lock", "write", "written"}

NoSetting == [name |-> NoName, field |-> "uid", value |-> 0]
NoCall == [op |-> "Launch", name |-> NoName, setting |-> NoSetting]

\* The calls of the API; what a method has no argument for is as in NoCall.
Calls == {c \in [op : DOMAIN Program, name : Names \cup {NoName},
                 setting : Settings \cup {NoSetting}] :
             /\ IF c.op = "Setter" THEN c.setting \in Settings /\ c.name = c.setting.name
                                  ELSE c.setting = NoSetting
             /\ c.name \in (IF c.op \in {"RegisteredDistros", "DefaultDistro"}
                           THEN {NoName} ELSE Names)}

DataOK ==
    /\ registered \subseteq used /\ used \subseteq Guids
    /\ default \in Guids \cup {NoGuid}
    /\ name \in [Guids -> Names \cup {NoName}] /\ conf \in [Guids -> Confs]

LocksOK ==
    /\ readers \in [Keys -> SUBSET Threads]
    /\ writer \in [Keys -> Threads \cup {NoThread}]

LocalsOK ==
    /\ call \in [Threads -> Calls \cup {NoCall}]
    /\ phase \in [Threads -> 0..4] /\ at \in [Threads -> Places]
    /\ key \in [Threads -> Keys] /\ subkeys \in [Threads -> SUBSET Guids]
    /\ got \in [Threads -> Confs]

TypeOK == DataOK /\ LocksOK /\ LocalsOK

Busy(t) == phase[t] # 0
In(t, p) == Busy(t) /\ Program[call[t].op][phase[t]] = p

\* mock.New: a registry without distros.
Init ==
    /\ registered = {} /\ default = NoGuid /\ used = {}
    /\ name = [g \in Guids |-> NoName] /\ conf = [g \in Guids |-> NewConf]
    /\ readers = [k \in Keys |-> {}] /\ writer = [k \in Keys |-> NoThread]
    /\ call = [t \in Threads |-> NoCall]
    /\ phase = [t \in Threads |-> 0] /\ at = [t \in Threads |-> "start"]
    /\ key = [t \in Threads |-> NoGuid] /\ subkeys = [t \in Threads |-> {}]
    /\ got = [t \in Threads |-> NewConf]
-----------------------------------------------------------------------------
(***************************************************************************)
(* Locks.  A writer that waits for readers to leave keeps new readers out. *)
(***************************************************************************)
MayRead(k) == writer[k] = NoThread
ReadLock(t, k) == MayRead(k) /\ readers' = [readers EXCEPT ![k] = @ \cup {t}]
Announce(t, k) == writer[k] = NoThread /\ writer' = [writer EXCEPT ![k] = t]
Exclusive(t, k) == writer[k] = t /\ readers[k] = {}

\* The locks without those of t: its deferred calls of Close and Unlock.
WithoutReader(t) == [k \in Keys |-> readers[k] \ {t}]
WithoutWriter(t) == [k \in Keys |-> IF writer[k] = t THEN NoThread ELSE writer[k]]

Goto(t, place) == at' = [at EXCEPT ![t] = place]

\* The end of a phase that is not the last.
Continue(t) == phase' = [phase EXCEPT ![t] = @ + 1] /\ Goto(t, "start")

\* The end of the call, with or without an error.
Return(t) ==
    /\ phase' = [phase EXCEPT ![t] = 0] /\ Goto(t, "start")
    /\ call' = [call EXCEPT ![t] = NoCall] /\ key' = [key EXCEPT ![t] = NoGuid]
    /\ subkeys' = [subkeys EXCEPT ![t] = {}] /\ got' = [got EXCEPT ![t] = NewConf]
    /\ readers' = WithoutReader(t) /\ writer' = WithoutWriter(t)

\* findDistroKey: the sub-keys with this name.
Found(n) == {g \in registered : name[g] = n}

\* Bound: there is a GUID for every distro that is being registered.
MayRegister ==
    Cardinality(used) + Cardinality({t \in Threads : call[t].op \in {"Register", "Import"}})
        < Cardinality(Guids)

Begin(t, c) ==
    /\ ~Busy(t)
    /\ c.op \in {"Register", "Import"} => MayRegister
    /\ call' = [call EXCEPT ![t] = c] /\ phase' = [phase EXCEPT ![t] = 1]
    /\ UNCHANGED <<data, locks, at, key, subkeys, got>>
-----------------------------------------------------------------------------
(***************************************************************************)
(* OpenLxssRegistry of a sub-key, under the read lock of the Lxss key.     *)
(***************************************************************************)
Find(t, g, rest) ==
    /\ MayRead(Root)
    /\ IF g \in registered
       THEN /\ key' = [key EXCEPT ![t] = g] /\ subkeys' = [subkeys EXCEPT ![t] = rest]
            /\ Goto(t, "enter") /\ UNCHANGED <<locks, call, phase, got>>
       ELSE Return(t)

Lookup(t) ==
    /\ at[t] = "lookup" \/ (In(t, "open") /\ at[t] = "start")
    /\ Find(t, key[t], {}) /\ UNCHANGED data

Enter(t) ==
    /\ at[t] = "enter" /\ ReadLock(t, key[t])
    /\ IF In(t, "open") THEN Continue(t) ELSE Goto(t, "in") /\ UNCHANGED phase
    /\ UNCHANGED <<data, writer, call, key, subkeys, got>>

(***************************************************************************)
(* registeredDistros: opens the Lxss key and then each of its sub-keys, in *)
(* the order of a map, and closes all of them when it returns.             *)
(***************************************************************************)
\* Mutant: the Lxss key is closed once its sub-keys are known.
OpenRootBriefly(t) ==
    /\ In(t, "list") /\ at[t] = "start" /\ MayRead(Root)
    /\ subkeys' = [subkeys EXCEPT ![t] = registered] /\ Goto(t, "in")
    /\ UNCHANGED <<data, locks, call, phase, key, got>>

OpenRoot(t) ==
    /\ In(t, "list") /\ at[t] = "start" /\ ReadLock(t, Root)
    /\ subkeys' = [subkeys EXCEPT ![t] = registered] /\ Goto(t, "in")
    /\ UNCHANGED <<data, writer, call, phase, key, got>>

NextSubkey(t) ==
    /\ In(t, "list") /\ at[t] = "in" /\ UNCHANGED data
    /\ \E g \in subkeys[t] : Find(t, g, subkeys[t] \ {g})

\* The listed sub-keys with this name: those open are all that were listed.
Listed(t, n) == {g \in Guids : t \in readers[g] /\ name[g] = n}

\* Mutant: the deferred calls of Close close the last value of r, a sub-key.
CloseSubkeys(t) == readers' = [k \in Keys |-> IF k = Root THEN readers[k] ELSE readers[k] \ {t}]

CloseListed(t) == readers' = WithoutReader(t)

\* Register goes on if its name is not listed, the others if it is; the GUID
\* is kept by Uninstall.
ListDone(t) ==
    /\ In(t, "list") /\ at[t] = "in" /\ subkeys[t] = {}
    /\ UNCHANGED data
    /\ \/ /\ call[t].op # "RegisteredDistros"
          /\ (Listed(t, call[t].name) = {}) = (call[t].op = "Register")
          /\ Continue(t) /\ CloseListed(t)
          /\ IF call[t].op = "Uninstall"
             THEN \E g \in Listed(t, call[t].name) : key' = [key EXCEPT ![t] = g]
             ELSE key' = [key EXCEPT ![t] = NoGuid]
          /\ UNCHANGED <<writer, call, subkeys, got>>
       \/ /\ \/ call[t].op = "RegisteredDistros"
             \/ (Listed(t, call[t].name) = {}) # (call[t].op = "Register")
          /\ Return(t)
-----------------------------------------------------------------------------
(***************************************************************************)
(* DefaultDistro.                                                          *)
(***************************************************************************)
ReadDefault(t) ==
    /\ In(t, "default") /\ at[t] = "start" /\ MayRead(Root) /\ UNCHANGED data
    /\ IF default = NoGuid
       THEN Return(t)
       ELSE /\ ReadLock(t, Root) /\ key' = [key EXCEPT ![t] = default]
            /\ Goto(t, "lookup") /\ UNCHANGED <<writer, call, phase, subkeys, got>>

DefaultDone(t) == In(t, "default") /\ at[t] = "in" /\ Return(t) /\ UNCHANGED data

(***************************************************************************)
(* findDistroKey under the read lock of the Lxss key.  It reads the data   *)
(* of sub-keys that it has not locked.  WslGetDistributionConfiguration    *)
(* keeps the lock.                                                         *)
(***************************************************************************)
Look(t) ==
    /\ \E p \in {"find", "get", "put"} : In(t, p)
    /\ at[t] = "start" /\ ReadLock(t, Root) /\ Goto(t, "look")
    /\ UNCHANGED <<data, writer, call, phase, key, subkeys, got>>

Looked(t) ==
    /\ at[t] = "look" /\ UNCHANGED data
    /\ \/ /\ Found(call[t].name) = {} \/ In(t, "find")
          /\ Return(t)
       \/ /\ ~In(t, "find")
          /\ \E g \in Found(call[t].name) : key' = [key EXCEPT ![t] = g]
          /\ IF In(t, "get") THEN Goto(t, "enter") /\ UNCHANGED readers
                            ELSE Goto(t, "lock") /\ readers' = WithoutReader(t)
          /\ UNCHANGED <<writer, call, phase, subkeys, got>>

(***************************************************************************)
(* WslGetDistributionConfiguration: first the user, then the flags.  A     *)
(* setter of Distro changes one field of what it has got.                  *)
(***************************************************************************)
ReadUid(t) ==
    /\ In(t, "get") /\ at[t] = "in"
    /\ got' = [got EXCEPT ![t]["uid"] = conf[key[t]]["uid"]] /\ Goto(t, "read")
    /\ UNCHANGED <<data, locks, call, phase, key, subkeys>>

ReadFlags(t) ==
    /\ at[t] = "read"
    /\ got' = [got EXCEPT ![t] = [f \in Fields |-> IF f \in Flags THEN conf[key[t]][f] ELSE @[f]]]
    /\ Goto(t, "got") /\ UNCHANGED <<data, locks, call, phase, key, subkeys>>

GotConfiguration(t) ==
    /\ at[t] = "got" /\ UNCHANGED data
    /\ IF call[t].op # "Setter"
       THEN Return(t)
       ELSE /\ got' = [got EXCEPT ![t][call[t].setting.field] = call[t].setting.value]
            /\ key' = [key EXCEPT ![t] = NoGuid] /\ readers' = WithoutReader(t)
            /\ Continue(t) /\ UNCHANGED <<writer, call, subkeys>>
-----------------------------------------------------------------------------
(***************************************************************************)
(* WslConfigureDistribution, once it has found the sub-key: all of the     *)
(* configuration is written, first the flags, then the user.               *)
(***************************************************************************)
LockKey(t) ==
    /\ at[t] = "lock" /\ Announce(t, key[t]) /\ Goto(t, "write")
    /\ UNCHANGED <<data, readers, call, phase, key, subkeys, got>>

WriteShared(t) == writer[key[t]] = t    \* mutant: does not wait for readers

MayWrite(t) == Exclusive(t, key[t])

\* Writes the fields in fs; the data of a removed sub-key is of no interest.
Write(t, fs) ==
    conf' = [g \in Guids |->
               IF g = key[t] /\ g \in registered
               THEN [f \in Fields |-> IF f \in fs THEN got[t][f] ELSE conf[g][f]]
               ELSE conf[g]]

WriteFlags(t) ==
    /\ at[t] = "write" /\ MayWrite(t) /\ Write(t, Flags)
    /\ Goto(t, "written")
    /\ UNCHANGED <<registered, default, name, used, locks, call, phase, key, subkeys, got>>

WriteUid(t) ==
    /\ at[t] = "written" /\ Write(t, {"uid"})
    /\ Return(t) /\ UNCHANGED <<registered, default, name, used>>

(***************************************************************************)
(* The calls that take the write lock of the Lxss key.                     *)
(***************************************************************************)
LockRoot(t) ==
    /\ \E p \in {"register", "unregister", "setDefault"} : In(t, p)
    /\ at[t] = "start" /\ Announce(t, Root) /\ Goto(t, "act")
    /\ UNCHANGED <<data, readers, call, phase, key, subkeys, got>>

Acts(t, p) == In(t, p) /\ at[t] = "act" /\ Exclusive(t, Root)

AddRegardless(n) == TRUE    \* mutant: trusts the check made before the lock

MayAdd(n) == Found(n) = {}

DefaultAlways(g) == g       \* mutant: not only the first distro
DefaultWith(g) == IF default = NoGuid THEN g ELSE default

WslRegisterDistribution(t) ==
    /\ Acts(t, "register") /\ Return(t)
    /\ \/ ~MayAdd(call[t].name) /\ UNCHANGED data
       \/ /\ MayAdd(call[t].name)
          /\ \E g \in Guids \ used :
                /\ registered' = registered \cup {g} /\ used' = used \cup {g}
                /\ name' = [name EXCEPT ![g] = call[t].name]
                /\ UNCHANGED conf      \* NewConf
                /\ default' = DefaultWith(g)

\* Mutant: the search starts with a string after every GUID.
FirstOrSentinel(guids) ==
    LET sentinel == 1 + CHOOSE m \in Guids : \A g \in Guids : g <= m
    IN  CHOOSE g \in guids \cup {sentinel} : \A h \in guids \cup {sentinel} : g <= h

\* The search for the first GUID starts with the empty string.
FirstGuid(guids) == CHOOSE g \in guids \cup {NoGuid} : \A h \in guids \cup {NoGuid} : g <= h

DefaultStays(g) == default  \* mutant: the removed distro stays the default

DefaultWithout(g) == IF default = g THEN FirstGuid(registered \ {g}) ELSE default

WslUnregisterDistribution(t) ==
    /\ Acts(t, "unregister") /\ Return(t)
    /\ \/ Found(call[t].name) = {} /\ UNCHANGED data
       \/ \E g \in Found(call[t].name) :
             /\ registered' = registered \ {g} /\ default' = DefaultWithout(g)
             /\ name' = [name EXCEPT ![g] = NoName]
             /\ conf' = [conf EXCEPT ![g] = NewConf] /\ UNCHANGED used

SetAsDefault(t) ==
    /\ Acts(t, "setDefault") /\ Return(t)
    /\ \/ Found(call[t].name) = {} /\ UNCHANGED data
       \/ /\ \E g \in Found(call[t].name) : default' = g
          /\ UNCHANGED <<registered, name, conf, used>>

Step(t) ==
    \/ Lookup(t) \/ Enter(t) \/ OpenRoot(t) \/ NextSubkey(t) \/ ListDone(t)
    \/ ReadDefault(t) \/ DefaultDone(t) \/ Look(t) \/ Looked(t)
    \/ ReadUid(t) \/ ReadFlags(t) \/ GotConfiguration(t)
    \/ LockKey(t) \/ WriteFlags(t) \/ WriteUid(t)
    \/ LockRoot(t) \/ WslRegisterDistribution(t) \/ WslUnregisterDistribution(t)
    \/ SetAsDefault(t)

Next == \E t \in Threads : Step(t) \/ \E c \in Calls : Begin(t, c)

Spec == Init /\ [][Next]_vars
-----------------------------------------------------------------------------
(***************************************************************************)
(* Properties.                                                             *)
(***************************************************************************)
\* The default distro is registered: whatever registrations, removals and
\* SetAsDefault interleave, DefaultDistribution never names a missing sub-key
\* (win32.go:254, 288, wslexe.go:66).
DefaultRegistered == default \in registered \cup {NoGuid}

\* Two registrations of a name never both succeed, although each looks for it
\* long before it holds the write lock (registration.go:31, win32.go:229).
UniqueNames == \A g, h \in registered : name[g] = name[h] => g = h

\* A listing is of one moment: from its first lock to its return the sub-keys
\* it has opened and those it has yet to open are the registered ones, and
\* none it asks for is missing (registration.go:58-80).  The same goes for the
\* sub-key that DefaultDistro opens (distro.go:117-141).
IsSnapshot(t) ==
    /\ In(t, "list") /\ at[t] # "start" =>
         registered = subkeys[t] \cup {g \in Guids : t \in readers[g]}
                          \cup (IF at[t] = "in" THEN {} ELSE {key[t]})
    /\ In(t, "default") /\ at[t] # "start" => key[t] \in registered

ListsAreSnapshots == \A t \in Threads : IsSnapshot(t)

\* A configuration is read as somebody has written it, never with the user of
\* one call and the flags of another (win32.go:43-47, 76-82).
IsWhole(t) == at[t] = "got" => got[t] = conf[key[t]]

NoTornRead == \A t \in Threads : IsWhole(t)

\* Between two phases, and when it is done, a call holds no lock, except that
\* Uninstall keeps the sub-key open (registration.go:62, 80, 151).
HoldsNoOther(t) == \A k \in Keys :
    at[t] = "start" /\ (t \in readers[k] \/ writer[k] = t) =>
        /\ In(t, "unregister") /\ call[t].op = "Uninstall"
        /\ k = key[t] /\ writer[k] # t

LocksAreReturned == \A t \in Threads : HoldsNoOther(t)

\* The configuration others can read: a call that has written the flags keeps
\* them out until it has written the user too.
View(g) == IF \E t \in Threads : at[t] = "written" /\ key[t] = g
           THEN got[CHOOSE t \in Threads : at[t] = "written" /\ key[t] = g]
           ELSE conf[g]

Contract == INSTANCE Distros
    WITH distros <- [g \in registered |-> [name |-> name[g], conf |-> View(g)]]

\* Every call changes the registry in one step, as if there were no locks and
\* nobody else (all of mock/win32.go:226-306, 43-47 and wslexe.go:63-73).  It is
\* left open here which distro follows a default one that is removed.
CallsAreAtomic == Contract!SpecAnySuccessor

\* Violated.  "When you unregister the default distro, the one with the lowest
\* GUID (lexicographically) is set as default.  If there are none, the field is
\* set to empty string." (win32.go:284-286).  Nothing is lower than the empty
\* string that the search starts with.
ImplementsDistros == Contract!Spec

\* Violated.  While calls are under way, one of them can go on: "mock [...]
\* allows parallelism" (mock/backend.go:1-2).
NotStuck == (\E t \in Threads : Busy(t)) => \E t \in Threads : ENABLED Step(t)

\* Violated.  No sub-key is read under the lock of the Lxss key while it is
\* written under its own (win32.go:334, 46-47): the runtime ends a program
\* that reads a map while it is written to.
NoConcurrentMapAccess == \A t, u \in Threads :
    ~(at[t] = "look" /\ at[u] = "written" /\ key[u] \in registered)
=============================================================================
