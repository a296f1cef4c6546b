--------------------------- MODULE RegistryProofs ---------------------------
(***************************************************************************)
(* The safety properties of Registry, for any goroutines, names, GUIDs and *)
(* flags.  The argument: a goroutine that holds the read lock of the Lxss  *)
(* key, or of a sub-key, keeps everybody else from changing what it has    *)
(* seen there (Stable), so that what IInv says of it survives the steps of *)
(* the others (OthersKeepTheirs); its own steps are looked at one by one.  *)
(***************************************************************************)
EXTENDS RegistryInv, TLAPS

\* What the proof needs to know of the i-th phase of a program.
PhaseFacts(op, i) ==
    LET p == Program[op][i] IN
    /\ p \in {"list", "register", "unregister", "open", "default", "setDefault",
              "get", "put", "find"}
    /\ p = "open" => op = "Uninstall" /\ i = 2
    /\ op = "Uninstall" => Len(Program[op]) = 3 /\ Program[op][3] = "unregister"
    /\ p = "list" /\ op # "RegisteredDistros" => i < Len(Program[op])
    /\ p = "get" /\ op = "Setter" => i < Len(Program[op])
    /\ p = "register" => op \in {"Register", "Import"}

\* Each program has one to four phases, with these facts about each of them.
LEMMA ProgramFacts ==
    ASSUME NEW op \in DOMAIN Program
    PROVE  /\ Len(Program[op]) \in 1..4
           /\ \A i \in 1..Len(Program[op]) : PhaseFacts(op, i)
<1>1. CASE op = "RegisteredDistros"
  <2>1. Program[op] = <<"list">>
    BY <1>1 DEF Program
  <2>2. Len(Program[op]) = 1
    BY <2>1
  <2> QED
    BY <1>1, <2>1, <2>2 DEF PhaseFacts
<1>2. CASE op = "Register"
  <2>1. Program[op] = <<"list", "register">>
    BY <1>2 DEF Program
  <2>2. Len(Program[op]) = 2
    BY <2>1
  <2> QED
    BY <1>2, <2>1, <2>2 DEF PhaseFacts
<1>3. CASE op = "Import"
  <2>1. Program[op] = <<"register">>
    BY <1>3 DEF Program
  <2>2. Len(Program[op]) = 1
    BY <2>1
  <2> QED
    BY <1>3, <2>1, <2>2 DEF PhaseFacts
<1>4. CASE op = "Unregister"
  <2>1. Program[op] = <<"list", "unregister">>
    BY <1>4 DEF Program
  <2>2. Len(Program[op]) = 2
    BY <2>1
  <2> QED
    BY <1>4, <2>1, <2>2 DEF PhaseFacts
<1>5. CASE op = "Uninstall"
  <2>1. Program[op] = <<"list", "open", "unregister">>
    BY <1>5 DEF Program
  <2>2. Len(Program[op]) = 3
    BY <2>1
  <2> QED
    BY <1>5, <2>1, <2>2 DEF PhaseFacts
<1>6. CASE op = "DefaultDistro"
  <2>1. Program[op] = <<"default">>
    BY <1>6 DEF Program
  <2>2. Len(Program[op]) = 1
    BY <2>1
  <2> QED
    BY <1>6, <2>1, <2>2 DEF PhaseFacts
<1>7. CASE op = "SetAsDefault"
  <2>1. Program[op] = <<"setDefault">>
    BY <1>7 DEF Program
  <2>2. Len(Program[op]) = 1
    BY <2>1
  <2> QED
    BY <1>7, <2>1, <2>2 DEF PhaseFacts
<1>8. CASE op = "GetConfiguration"
  <2>1. Program[op] = <<"list", "get">>
    BY <1>8 DEF Program
  <2>2. Len(Program[op]) = 2
    BY <2>1
  <2> QED
    BY <1>8, <2>1, <2>2 DEF PhaseFacts
<1>9. CASE op = "Setter"
  <2>1. Program[op] = <<"list", "get", "list", "put">>
    BY <1>9 DEF Program
  <2>2. Len(Program[op]) = 4
    BY <2>1
  <2> QED
    BY <1>9, <2>1, <2>2 DEF PhaseFacts
<1>10. CASE op = "State"
  <2>1. Program[op] = <<"list", "find">>
    BY <1>10 DEF Program
  <2>2. Len(Program[op]) = 2
    BY <2>1
  <2> QED
    BY <1>10, <2>1, <2>2 DEF PhaseFacts
<1>11. CASE op = "Launch"
  <2>1. Program[op] = <<"find">>
    BY <1>11 DEF Program
  <2>2. Len(Program[op]) = 1
    BY <2>1
  <2> QED
    BY <1>11, <2>1, <2>2 DEF PhaseFacts
<1> QED
  BY <1>1, <1>2, <1>3, <1>4, <1>5, <1>6, <1>7, <1>8, <1>9, <1>10, <1>11 DEF Program

\* The parts of a call.
LEMMA CallFacts ==
    ASSUME NEW c \in Calls \cup {NoCall}
    PROVE  /\ c.op \in DOMAIN Program /\ c.name \in Names \cup {NoName}
           /\ c.setting.field \in Fields /\ c.setting.value \in Values
  BY SettingsAssumption DEF Calls, NoCall, NoSetting, Program, Fields, Values

\* The first GUID after a removal is one that remains, or none: this is all the
\* proof needs of the search (win32.go:292).
LEMMA FirstGuidIn ==
    ASSUME NEW S \in SUBSET Guids
    PROVE  FirstGuid(S) \in S \cup {NoGuid}
  BY GuidsAssumption DEF FirstGuid, NoGuid

\* The keys, and the configuration of a new distro.
LEMMA KeyFacts == Guids \subseteq Keys /\ Root \in Keys /\ NoGuid \in Keys /\ NewConf \in Confs
  BY DEF Keys, Root, NewConf, Confs, Values

\* The Lxss key is none of its sub-keys.
LEMMA RootIsNoSubkey == Root \notin Guids
  BY GuidsAssumption DEF Root, NoGuid
-----------------------------------------------------------------------------
\* Giving locks back keeps them well typed.
LEMMA UnlockOK ==
    ASSUME LocksOK, NEW t \in Threads
    PROVE  /\ WithoutReader(t) \in [Keys -> SUBSET Threads]
           /\ WithoutWriter(t) \in [Keys -> Threads \cup {NoThread}]
  BY DEF LocksOK, WithoutReader, WithoutWriter

\* The end of a call keeps locks and local variables well typed.
LEMMA ReturnOK ==
    ASSUME LocksOK, LocalsOK, NEW t \in Threads, Return(t)
    PROVE  LocksOK' /\ LocalsOK'
  <1>1. LocksOK'
    BY UnlockOK DEF Return, LocksOK
  <1>2. LocalsOK'
    BY KeyFacts DEF LocalsOK, Return, Goto, Places
  <1> QED
    BY <1>1, <1>2

\* A phase that is followed by another is not the last of its program.
LEMMA MayContinue ==
    ASSUME LocalsOK, NEW t \in Threads, Control(t),
           \/ In(t, "open")
           \/ In(t, "list") /\ call[t].op # "RegisteredDistros"
           \/ In(t, "get") /\ call[t].op = "Setter"
    PROVE  /\ phase[t] \in 1..Len(Program[call[t].op])
           /\ phase[t] + 1 \in 1..Len(Program[call[t].op])
           /\ phase[t] + 1 \in 0..4
  <1> DEFINE op == call[t].op
  <1>1. op \in DOMAIN Program
    BY CallFacts DEF LocalsOK
  <1>2. /\ Len(Program[op]) \in 1..4 /\ phase[t] \in 0..4
        /\ phase[t] # 0 /\ phase[t] <= Len(Program[op])
    BY <1>1, ProgramFacts DEF LocalsOK, Control, In, Busy
  <1>3. PhaseFacts(op, phase[t])
    BY <1>1, <1>2, ProgramFacts
  <1>4. phase[t] < Len(Program[op])
    BY <1>2, <1>3 DEF PhaseFacts, In
  <1>5. \A m, n \in 0..4 : m # 0 /\ m < n => m \in 1..n /\ m + 1 \in 1..n /\ m + 1 \in 0..4
    OBVIOUS
  <1>6. phase[t] \in 0..4 /\ Len(Program[op]) \in 0..4
    BY <1>2
  <1> QED
    BY <1>2, <1>4, <1>5, <1>6

\* Where a goroutine is determines which phase it is in.
LEMMA PlaceFacts ==
    ASSUME LocalsOK, NEW t \in Threads, Control(t)
    PROVE  /\ at[t] # "start" => Busy(t)
           /\ at[t] \in {"read", "got"} => In(t, "get")
           /\ at[t] = "look" => In(t, "find") \/ In(t, "get") \/ In(t, "put")
           /\ at[t] = "act" => In(t, "register") \/ In(t, "unregister") \/ In(t, "setDefault")
           /\ at[t] \in {"lock", "write", "written"} => In(t, "put")
           /\ at[t] = "lookup" => In(t, "default")
           /\ at[t] = "enter" => \/ In(t, "list") \/ In(t, "open")
                                 \/ In(t, "default") \/ In(t, "get")
           /\ at[t] = "in" => In(t, "list") \/ In(t, "default") \/ In(t, "get")
  <1> DEFINE p == Program[call[t].op][phase[t]]
  <1>1. CASE Busy(t)
    <2>1. call[t].op \in DOMAIN Program
      BY CallFacts DEF LocalsOK
    <2>2. phase[t] \in 1..Len(Program[call[t].op])
      BY <1>1, <2>1, ProgramFacts DEF LocalsOK, Control, Busy
    <2>3. PhaseFacts(call[t].op, phase[t])
      BY <2>1, <2>2, ProgramFacts
    <2>4. p \in {"list", "register", "unregister", "open", "default", "setDefault",
                 "get", "put", "find"}
      BY <2>3 DEF PhaseFacts
    <2>5. at[t] \in PlacesOf(p)
      BY <1>1 DEF Control
    <2> QED
      BY <1>1, <2>4, <2>5 DEF PlacesOf, In
  <1>2. CASE ~Busy(t)
    BY <1>2 DEF Control
  <1> QED
    BY <1>1, <1>2

\* No step leaves the types of the data.
LEMMA DataStep ==
    ASSUME TypeOK, NEW t \in Threads, Step(t)
    PROVE  DataOK'
<1>1. CASE WriteFlags(t)
  BY <1>1, CallFacts, FirstGuidIn, KeyFacts
  DEF TypeOK, DataOK, LocalsOK, Confs, data, WriteFlags, Write
<1>2. CASE WriteUid(t)
  BY <1>2, CallFacts, FirstGuidIn, KeyFacts
  DEF TypeOK, DataOK, LocalsOK, Confs, data, WriteUid, Write
<1>3. CASE WslRegisterDistribution(t)
  BY <1>3, CallFacts, FirstGuidIn, KeyFacts
  DEF TypeOK, DataOK, LocalsOK, Confs, data, WslRegisterDistribution, DefaultWith
<1>4. CASE WslUnregisterDistribution(t)
  <2>1. CASE UNCHANGED data
    BY <2>1 DEF TypeOK, DataOK, data
  <2>2. ASSUME NEW g \in Found(call[t].name), registered' = registered \ {g},
               default' = DefaultWithout(g), name' = [name EXCEPT ![g] = NoName],
               conf' = [conf EXCEPT ![g] = NewConf], used' = used
        PROVE  DataOK'
    <3>1. registered \ {g} \in SUBSET Guids /\ g \in Guids
      BY DEF TypeOK, DataOK, Found
    <3>2. default' \in Guids \cup {NoGuid}
      BY <2>2, <3>1, FirstGuidIn DEF DefaultWithout, TypeOK, DataOK
    <3> QED
      BY <2>2, <3>1, <3>2, KeyFacts DEF TypeOK, DataOK
  <2> QED
    BY <1>4, <2>1, <2>2 DEF WslUnregisterDistribution
<1>5. CASE SetAsDefault(t)
  BY <1>5, CallFacts, FirstGuidIn, KeyFacts
  DEF TypeOK, DataOK, LocalsOK, Confs, data, SetAsDefault, Found
<1>6. CASE UNCHANGED data
  BY <1>6 DEF TypeOK, DataOK, data
<1> QED
  BY <1>1, <1>2, <1>3, <1>4, <1>5, <1>6
  DEF Step, Lookup, Enter, OpenRoot, NextSubkey, ListDone, ReadDefault, DefaultDone, Look,
      Looked, ReadUid, ReadFlags, GotConfiguration, LockKey, LockRoot

\* A step changes the locks in one of four ways: it gives back its own, takes a
\* read lock, announces itself as a writer, or does neither.
LEMMA LockMoves ==
    ASSUME TypeOK, NEW t \in Threads, Step(t)
    PROVE  \/ readers' = WithoutReader(t) /\ (writer' = writer \/ writer' = WithoutWriter(t))
           \/ \E k \in Keys : ReadLock(t, k) /\ writer' = writer
           \/ \E k \in Keys : Announce(t, k) /\ readers' = readers
           \/ UNCHANGED locks
<1>1. Root \in Keys /\ key[t] \in Keys
  BY KeyFacts DEF TypeOK, LocalsOK
<1>2. CASE \/ Lookup(t) \/ NextSubkey(t) \/ DefaultDone(t) \/ WriteUid(t) \/ SetAsDefault(t)
           \/ WslRegisterDistribution(t) \/ WslUnregisterDistribution(t)
  BY <1>2 DEF Lookup, NextSubkey, Find, DefaultDone, WriteUid, SetAsDefault,
              WslRegisterDistribution, WslUnregisterDistribution, Return
<1>3. CASE ListDone(t) \/ Looked(t) \/ GotConfiguration(t)
  BY <1>3 DEF ListDone, CloseListed, Looked, GotConfiguration, Return, locks
<1>4. CASE Enter(t) \/ OpenRoot(t) \/ ReadDefault(t) \/ Look(t)
  BY <1>1, <1>4 DEF Enter, OpenRoot, ReadDefault, Look, Return
<1>5. CASE LockKey(t) \/ LockRoot(t)
  BY <1>1, <1>5 DEF LockKey, LockRoot
<1>6. CASE ReadUid(t) \/ ReadFlags(t) \/ WriteFlags(t)
  BY <1>6 DEF ReadUid, ReadFlags, WriteFlags
<1> QED
  BY <1>2, <1>3, <1>4, <1>5, <1>6 DEF Step

\* No step leaves the types of the locks.
LEMMA LocksStep ==
    ASSUME TypeOK, NEW t \in Threads, Step(t)
    PROVE  LocksOK'
<1> USE DEF TypeOK, LocksOK
<1>1. CASE readers' = WithoutReader(t) /\ (writer' = writer \/ writer' = WithoutWriter(t))
  BY <1>1, UnlockOK
<1>2. ASSUME NEW k \in Keys, ReadLock(t, k), writer' = writer
      PROVE  LocksOK'
  BY <1>2 DEF ReadLock
<1>3. ASSUME NEW k \in Keys, Announce(t, k), readers' = readers
      PROVE  LocksOK'
  BY <1>3 DEF Announce
<1>4. CASE UNCHANGED locks
  BY <1>4 DEF locks
<1> QED
  BY <1>1, <1>2, <1>3, <1>4, LockMoves

\* No step leaves the types of the local variables.
LEMMA LocalsStep ==
    ASSUME IInv, NEW t \in Threads, Step(t)
    PROVE  LocalsOK'
<1> USE DEF IInv, Own, TypeOK, LocalsOK
<1>1. CASE Return(t)
  BY <1>1, ReturnOK
<1>2. CASE ~Return(t) /\ (Lookup(t) \/ NextSubkey(t) \/ ReadDefault(t) \/ Looked(t))
  BY <1>2, KeyFacts
  DEF Lookup, NextSubkey, Find, ReadDefault, Looked, Found, DataOK, Goto, Places
<1>3. CASE Enter(t)
  BY <1>3, MayContinue DEF Enter, Continue, Goto, Places
<1>4. CASE OpenRoot(t) \/ Look(t) \/ LockKey(t) \/ WriteFlags(t) \/ LockRoot(t)
  BY <1>4 DEF OpenRoot, Look, LockKey, WriteFlags, LockRoot, DataOK, Goto, Places
<1>5. CASE ~Return(t) /\ ListDone(t)
  <2>1. phase[t] + 1 \in 0..4
    BY <1>5, MayContinue DEF ListDone
  <2>2. key'[t] \in Keys /\ key' = [key EXCEPT ![t] = key'[t]]
    BY <1>5, KeyFacts DEF ListDone, Listed
  <2> QED
    BY <1>5, <2>1, <2>2 DEF ListDone, Continue, Goto, Places
<1>6. CASE ReadUid(t)
  BY <1>6, KeyFacts DEF ReadUid, Knows, DataOK, Confs, Fields, Goto, Places
<1>7. CASE ReadFlags(t)
  <2>1. key[t] \in Guids
    BY <1>7, PlaceFacts DEF ReadFlags, Knows, DataOK
  <2>2. [f \in Fields |-> IF f \in Flags THEN conf[key[t]][f] ELSE got[t][f]] \in Confs
    BY <2>1 DEF Confs, DataOK
  <2> QED
    BY <1>7, <2>2 DEF ReadFlags, Goto, Places
<1>8. CASE ~Return(t) /\ GotConfiguration(t)
  <2>1. phase[t] + 1 \in 0..4
    BY <1>8, PlaceFacts, MayContinue DEF GotConfiguration
  <2>2. [got[t] EXCEPT ![call[t].setting.field] = call[t].setting.value] \in Confs
    BY CallFacts DEF Confs
  <2> QED
    BY <1>8, <2>1, <2>2, KeyFacts DEF GotConfiguration, Continue, Goto, Places
<1> QED
  BY <1>1, <1>2, <1>3, <1>4, <1>5, <1>6, <1>7, <1>8
  DEF Step, DefaultDone, WriteUid, WslRegisterDistribution, WslUnregisterDistribution,
      SetAsDefault
-----------------------------------------------------------------------------
\* A step leaves the local variables of the other goroutines alone.
LEMMA Frame ==
    ASSUME IInv, NEW t \in Threads, Step(t), NEW u \in Threads, u # t
    PROVE  /\ call'[u] = call[u] /\ phase'[u] = phase[u] /\ at'[u] = at[u]
           /\ key'[u] = key[u] /\ subkeys'[u] = subkeys[u] /\ got'[u] = got[u]
<1> USE DEF IInv, TypeOK, LocalsOK, Goto
<1>1. CASE Return(t)
  BY <1>1 DEF Return
<1>2. CASE ~Return(t) /\ (Lookup(t) \/ NextSubkey(t) \/ ReadDefault(t) \/ Looked(t))
  BY <1>2 DEF Lookup, NextSubkey, Find, ReadDefault, Looked
<1>3. CASE Enter(t) \/ (~Return(t) /\ (ListDone(t) \/ GotConfiguration(t)))
  BY <1>3 DEF Enter, ListDone, GotConfiguration, Continue
<1>4. CASE OpenRoot(t) \/ Look(t) \/ LockKey(t) \/ WriteFlags(t) \/ LockRoot(t)
  BY <1>4 DEF OpenRoot, Look, LockKey, WriteFlags, LockRoot
<1>5. CASE ReadUid(t) \/ ReadFlags(t)
  BY <1>5 DEF ReadUid, ReadFlags
<1> QED
  BY <1>1, <1>2, <1>3, <1>4, <1>5
  DEF Step, DefaultDone, WriteUid, WslRegisterDistribution, WslUnregisterDistribution,
      SetAsDefault

\* A step leaves the locks of the other goroutines alone.
LEMMA LocksFrame ==
    ASSUME IInv, NEW t \in Threads, Step(t), NEW u \in Threads, u # t, NEW k \in Keys
    PROVE  /\ (u \in readers'[k]) = (u \in readers[k])
           /\ (writer'[k] = u) = (writer[k] = u)
<1>1. u # NoThread
  BY NoThreadAssumption
<1> QED
  BY <1>1, LockMoves
  DEF IInv, TypeOK, LocksOK, locks, ReadLock, Announce, WithoutReader, WithoutWriter

\* What a reader of the Lxss key has seen of it stays true, and so does the
\* configuration of a sub-key it reads: others write under exclusive locks only.
LEMMA Stable ==
    ASSUME IInv, NEW t \in Threads, Step(t), NEW u \in Threads, u \in readers[Root]
    PROVE  /\ registered' = registered /\ default' = default /\ name' = name
           /\ \A g \in Guids : u \in readers[g] => conf'[g] = conf[g]
<1>1. CASE WriteFlags(t) \/ WriteUid(t)
  <2>1. Exclusive(t, key[t])
    BY <1>1 DEF WriteFlags, WriteUid, MayWrite, IInv, Own, Writes
  <2> QED
    BY <1>1, <2>1 DEF WriteFlags, WriteUid, Write, Exclusive
<1>2. CASE ~(WriteFlags(t) \/ WriteUid(t))
  <2>1. UNCHANGED data
    BY <1>2
    DEF Step, WslRegisterDistribution, WslUnregisterDistribution, SetAsDefault, Acts,
        Exclusive, Lookup, Enter, OpenRoot, NextSubkey, ListDone, ReadDefault, DefaultDone,
        Look, Looked, ReadUid, ReadFlags, GotConfiguration, LockKey, LockRoot
  <2> QED
    BY <2>1 DEF data
<1> QED
  BY <1>1, <1>2

\* Nobody gets a read lock while a writer has the lock or waits for it.
LEMMA NoNewReader ==
    ASSUME IInv, NEW t \in Threads, Step(t), NEW k \in Keys, writer[k] # NoThread
    PROVE  readers'[k] \subseteq readers[k]
  BY LockMoves
  DEF IInv, TypeOK, LocksOK, locks, ReadLock, MayRead, Announce, WithoutReader

\* A step keeps what the invariant says of every other goroutine.
LEMMA OthersKeepTheirs ==
    ASSUME IInv, NEW t \in Threads, Step(t), NEW u \in Threads, u # t
    PROVE  Own(u)'
<1>1. /\ call'[u] = call[u] /\ phase'[u] = phase[u] /\ at'[u] = at[u]
      /\ key'[u] = key[u] /\ subkeys'[u] = subkeys[u] /\ got'[u] = got[u]
  BY Frame
<1>2. \A k \in Keys : /\ (u \in readers'[k]) = (u \in readers[k])
                     /\ (writer'[k] = u) = (writer[k] = u)
  BY LocksFrame
<1>3. key[u] \in Keys /\ Guids \subseteq Keys /\ Root \in Keys
  BY KeyFacts DEF IInv, TypeOK, LocalsOK
<1>4. \A p : In(u, p)' = In(u, p)
  BY <1>1 DEF In, Busy
<1>5. RootIsRead(u)' = RootIsRead(u)
  BY <1>1, <1>4 DEF RootIsRead
<1>6. u \in readers[Root] => /\ registered' = registered
                             /\ \A g \in Guids : u \in readers[g] => conf'[g] = conf[g]
  BY Stable
<1>7. Own(u) /\ LocalsOK /\ Control(u)
  BY DEF IInv, Own, TypeOK
<1>8. Control(u)'
  BY <1>1, <1>7 DEF Control, Busy
<1>9. Reads(u)'
  BY <1>1, <1>2, <1>3, <1>4, <1>5, <1>7 DEF Own, Reads
<1>10. Writes(u)'
  <2>1. ASSUME NEW k \in Keys, writer'[k] = u
        PROVE  \/ at'[u] = "act" /\ k = Root
               \/ at'[u] \in {"write", "written"} /\ k = key'[u]
    <3>1. writer[k] = u
      BY <1>2, <2>1
    <3> QED
      BY <1>1, <1>7, <3>1 DEF Own, Writes
  <2>2. ASSUME at'[u] = "written"
        PROVE  Exclusive(u, key[u])'
    <3>1. Exclusive(u, key[u])
      BY <1>1, <1>7, <2>2 DEF Own, Writes
    <3>2. readers'[key[u]] \subseteq readers[key[u]]
      BY <1>3, <3>1, NoNewReader, NoThreadAssumption DEF Exclusive
    <3> QED
      BY <1>1, <1>2, <1>3, <3>1, <3>2 DEF Exclusive
  <2> QED
    BY <2>1, <2>2 DEF Writes
<1>11. Knows(u)'
  <2>1. In(u, "get") /\ at[u] \notin {"start", "look"} => RootIsRead(u) /\ u \in readers[Root]
    BY <1>7 DEF RootIsRead, Own, Reads
  <2>2. at[u] = "read" => In(u, "get") /\ u \in readers[key[u]] /\ key[u] \in Guids
    BY <1>7, PlaceFacts DEF Own, Reads, Knows, IInv, TypeOK, DataOK
  <2> QED
    BY <1>1, <1>4, <1>6, <1>7, <2>1, <2>2 DEF Own, Knows
<1>12. IsSnapshot(u)'
  <2>1. (In(u, "list") \/ In(u, "default")) /\ at[u] # "start" => u \in readers[Root]
    BY <1>7 DEF RootIsRead, Own, Reads
  <2>2. {g \in Guids : u \in readers'[g]} = {g \in Guids : u \in readers[g]}
    BY <1>2, <1>3
  <2> QED
    BY <1>1, <1>4, <1>6, <1>7, <2>1, <2>2 DEF Own, IsSnapshot
<1>13. IsWhole(u)'
  <2>1. at[u] = "got" => /\ In(u, "get") /\ RootIsRead(u) /\ u \in readers[Root]
                        /\ u \in readers[key[u]] /\ key[u] \in Guids
    BY <1>7, PlaceFacts DEF RootIsRead, Own, Reads, Knows, IInv, TypeOK, DataOK
  <2> QED
    BY <1>1, <1>6, <1>7, <2>1 DEF Own, IsWhole
<1>14. HoldsNoOther(u)'
  BY <1>1, <1>2, <1>4, <1>7 DEF Own, HoldsNoOther
<1> QED
  BY <1>8, <1>9, <1>10, <1>11, <1>12, <1>13, <1>14 DEF Own

\* A goroutine whose call has returned holds nothing and is nowhere.
LEMMA ReturnKeeps ==
    ASSUME IInv, NEW t \in Threads, Return(t)
    PROVE  Own(t)'
<1>1. /\ phase'[t] = 0 /\ at'[t] = "start" /\ call'[t] = NoCall
      /\ \A k \in Keys : t \notin readers'[k] /\ writer'[k] # t
  BY NoThreadAssumption
  DEF Return, Goto, WithoutReader, WithoutWriter, IInv, TypeOK, LocksOK, LocalsOK
<1>2. ~Busy(t)' /\ \A p : ~In(t, p)'
  BY <1>1 DEF Busy, In
<1>3. Control(t)'
  <2>1. Len(Program[NoCall.op]) \in 1..4
    BY ProgramFacts, CallFacts
  <2> QED
    BY <1>1, <1>2, <2>1 DEF Control
<1>4. Reads(t)' /\ Writes(t)' /\ Knows(t)'
  BY <1>1, <1>2 DEF Reads, RootIsRead, Writes, Knows
<1>5. IsSnapshot(t)' /\ IsWhole(t)' /\ HoldsNoOther(t)'
  BY <1>1, <1>2 DEF IsSnapshot, IsWhole, HoldsNoOther
<1> QED
  BY <1>3, <1>4, <1>5 DEF Own

\* A busy goroutine is in a phase of the program of its call.
LEMMA AlwaysPhase ==
    ASSUME LocalsOK, NEW t \in Threads, Control(t), Busy(t)
    PROVE  /\ call[t].op \in DOMAIN Program
           /\ phase[t] \in 1..Len(Program[call[t].op])
           /\ PhaseFacts(call[t].op, phase[t])
  <1>1. call[t].op \in DOMAIN Program
    BY CallFacts DEF LocalsOK
  <1>2. phase[t] \in 1..Len(Program[call[t].op])
    BY <1>1, ProgramFacts DEF LocalsOK, Control, Busy
  <1> QED
    BY <1>1, <1>2, ProgramFacts

\* The following lemmas are about the goroutine that takes a step which does not
\* end its phase.  The first step of each says what the action changes, the
\* fourth which phases it can be in and the fifth which sub-keys it has open.
LEMMA LookupDefaultKeeps ==
    ASSUME IInv, NEW t \in Threads, Lookup(t), at[t] = "lookup" /\ ~Return(t)
    PROVE  Own(t)'
<1>1. /\ at'[t] = "enter" /\ call'[t] = call[t] /\ phase'[t] = phase[t]
      /\ key'[t] = key[t] /\ key[t] \in registered
      /\ subkeys'[t] = {}
      /\ got'[t] = got[t]
      /\ readers' = readers
      /\ writer' = writer
      /\ registered' = registered /\ conf' = conf
  BY NoThreadAssumption
  DEF IInv, TypeOK, DataOK, LocksOK, LocalsOK, data, locks, Lookup, Find, Goto
<1>2. /\ \A p : In(t, p)' = In(t, p)
      /\ Busy(t)' = Busy(t)
  BY <1>1 DEF In, Busy
<1>3. Own(t) /\ LocalsOK /\ Control(t) /\ key[t] \in Keys
  BY DEF IInv, Own, TypeOK, LocalsOK
<1>4. \A q : In(t, q) => q \in {"default"}
  BY <1>1, <1>3, PlaceFacts DEF In
<1>5. {g \in Guids : t \in readers'[g]} = {g \in Guids : t \in readers[g]}
  BY <1>1, <1>3, <1>4, KeyFacts, RootIsNoSubkey DEF Own, HoldsNoOther
<1>6. Control(t)' /\ Reads(t)'
  BY <1>1, <1>2, <1>3, <1>4, PlaceFacts, KeyFacts
  DEF Own, Control, Reads, RootIsRead, PlacesOf, In, Busy
<1>7. Writes(t)' /\ Knows(t)'
  BY <1>1, <1>2, <1>3, <1>4, PlaceFacts DEF Own, Writes, Exclusive, Knows, IInv, TypeOK, DataOK
<1>8. IsSnapshot(t)' /\ IsWhole(t)' /\ HoldsNoOther(t)'
  BY <1>1, <1>2, <1>3, <1>4, <1>5
  DEF Own, IsSnapshot, IsWhole, HoldsNoOther, IInv, DefaultRegistered, TypeOK, DataOK
<1> QED
  BY <1>6, <1>7, <1>8 DEF Own

\* Uninstall finds the sub-key it looks up (registration.go:166).
LEMMA LookupOwnKeeps ==
    ASSUME IInv, NEW t \in Threads, Lookup(t), at[t] # "lookup" /\ ~Return(t)
    PROVE  Own(t)'
<1>1. /\ at'[t] = "enter" /\ call'[t] = call[t] /\ phase'[t] = phase[t]
      /\ key'[t] = key[t] /\ key[t] \in registered /\ In(t, "open") /\ at[t] = "start"
      /\ subkeys'[t] = {}
      /\ got'[t] = got[t]
      /\ readers' = readers
      /\ writer' = writer
      /\ registered' = registered /\ conf' = conf
  BY NoThreadAssumption
  DEF IInv, TypeOK, DataOK, LocksOK, LocalsOK, data, locks, Lookup, Find, Goto
<1>2. /\ \A p : In(t, p)' = In(t, p)
      /\ Busy(t)' = Busy(t)
  BY <1>1 DEF In, Busy
<1>3. Own(t) /\ LocalsOK /\ Control(t) /\ key[t] \in Keys
  BY DEF IInv, Own, TypeOK, LocalsOK
<1>4. \A q : In(t, q) => q \in {"open"}
  BY <1>1, <1>3, PlaceFacts DEF In
<1>5. {g \in Guids : t \in readers'[g]} = {g \in Guids : t \in readers[g]}
  BY <1>1, <1>3, <1>4, KeyFacts, RootIsNoSubkey DEF Own, HoldsNoOther
<1>6. Control(t)' /\ Reads(t)'
  BY <1>1, <1>2, <1>3, <1>4, PlaceFacts, KeyFacts
  DEF Own, Control, Reads, RootIsRead, PlacesOf, In, Busy
<1>7. Writes(t)' /\ Knows(t)'
  BY <1>1, <1>2, <1>3, <1>4, PlaceFacts DEF Own, Writes, Exclusive, Knows, IInv, TypeOK, DataOK
<1>8. IsSnapshot(t)' /\ IsWhole(t)' /\ HoldsNoOther(t)'
  BY <1>1, <1>2, <1>3, <1>4, <1>5
  DEF Own, IsSnapshot, IsWhole, HoldsNoOther, IInv, DefaultRegistered, TypeOK, DataOK
<1> QED
  BY <1>6, <1>7, <1>8 DEF Own

\* A sub-key has been opened (mock/registry.go:54).
LEMMA EnteredKeeps ==
    ASSUME IInv, NEW t \in Threads, Enter(t), ~In(t, "open")
    PROVE  Own(t)'
<1>1. /\ at'[t] = "in" /\ call'[t] = call[t] /\ phase'[t] = phase[t]
      /\ key'[t] = key[t] /\ at[t] = "enter"
      /\ subkeys'[t] = subkeys[t]
      /\ got'[t] = got[t]
      /\ \A k \in Keys : t \in readers'[k] <=> k = key[t] \/ t \in readers[k]
      /\ writer' = writer
      /\ registered' = registered /\ conf' = conf
  BY NoThreadAssumption
  DEF IInv, TypeOK, DataOK, LocksOK, LocalsOK, data, locks, Enter, ReadLock, Goto
<1>2. /\ \A p : In(t, p)' = In(t, p)
      /\ Busy(t)' = Busy(t)
  BY <1>1 DEF In, Busy
<1>3. Own(t) /\ LocalsOK /\ Control(t) /\ key[t] \in Keys
  BY DEF IInv, Own, TypeOK, LocalsOK
<1>4. \A q : In(t, q) => q \in {"list", "default", "get"}
  BY <1>1, <1>3, PlaceFacts DEF In
<1>5. {g \in Guids : t \in readers'[g]} =
        {g \in Guids : t \in readers[g]} \cup ({key[t]} \cap Guids)
  BY <1>1, <1>3, <1>4, KeyFacts, RootIsNoSubkey DEF Own, HoldsNoOther
<1>6. Control(t)' /\ Reads(t)'
  BY <1>1, <1>2, <1>3, <1>4, PlaceFacts, KeyFacts
  DEF Own, Control, Reads, RootIsRead, PlacesOf, In, Busy
<1>7. Writes(t)' /\ Knows(t)'
  BY <1>1, <1>2, <1>3, <1>4, PlaceFacts DEF Own, Writes, Exclusive, Knows, IInv, TypeOK, DataOK
<1>8. IsSnapshot(t)' /\ IsWhole(t)' /\ HoldsNoOther(t)'
  BY <1>1, <1>2, <1>3, <1>4, <1>5
  DEF Own, IsSnapshot, IsWhole, HoldsNoOther, IInv, DefaultRegistered, TypeOK, DataOK
<1> QED
  BY <1>6, <1>7, <1>8 DEF Own

\* The Lxss key has been opened for a listing (registration.go:58).
LEMMA OpenRootKeeps ==
    ASSUME IInv, NEW t \in Threads, OpenRoot(t)
    PROVE  Own(t)'
<1>1. /\ at'[t] = "in" /\ call'[t] = call[t] /\ phase'[t] = phase[t]
      /\ key'[t] = key[t] /\ In(t, "list") /\ at[t] = "start"
      /\ subkeys'[t] = registered
      /\ got'[t] = got[t]
      /\ \A k \in Keys : t \in readers'[k] <=> k = Root \/ t \in readers[k]
      /\ writer' = writer
      /\ registered' = registered /\ conf' = conf
  BY NoThreadAssumption
  DEF IInv, TypeOK, DataOK, LocksOK, LocalsOK, data, locks, OpenRoot, ReadLock, Goto
<1>2. /\ \A p : In(t, p)' = In(t, p)
      /\ Busy(t)' = Busy(t)
  BY <1>1 DEF In, Busy
<1>3. Own(t) /\ LocalsOK /\ Control(t) /\ key[t] \in Keys
  BY DEF IInv, Own, TypeOK, LocalsOK
<1>4. \A q : In(t, q) => q \in {"list"}
  BY <1>1, <1>3, PlaceFacts DEF In
<1>5. {g \in Guids : t \in readers'[g]} = {}
  BY <1>1, <1>3, <1>4, KeyFacts, RootIsNoSubkey DEF Own, HoldsNoOther
<1>6. Control(t)' /\ Reads(t)'
  BY <1>1, <1>2, <1>3, <1>4, PlaceFacts, KeyFacts
  DEF Own, Control, Reads, RootIsRead, PlacesOf, In, Busy
<1>7. Writes(t)' /\ Knows(t)'
  BY <1>1, <1>2, <1>3, <1>4, PlaceFacts DEF Own, Writes, Exclusive, Knows, IInv, TypeOK, DataOK
<1>8. IsSnapshot(t)' /\ IsWhole(t)' /\ HoldsNoOther(t)'
  BY <1>1, <1>2, <1>3, <1>4, <1>5
  DEF Own, IsSnapshot, IsWhole, HoldsNoOther, IInv, DefaultRegistered, TypeOK, DataOK
<1> QED
  BY <1>6, <1>7, <1>8 DEF Own

\* A listing finds its next sub-key (registration.go:76).
LEMMA NextSubkeyKeeps ==
    ASSUME IInv, NEW t \in Threads, NextSubkey(t), ~Return(t)
    PROVE  Own(t)'
<1>1. /\ at'[t] = "enter" /\ call'[t] = call[t] /\ phase'[t] = phase[t]
      /\ key'[t] \in subkeys[t] /\ In(t, "list") /\ at[t] = "in"
      /\ subkeys'[t] = subkeys[t] \ {key'[t]}
      /\ got'[t] = got[t]
      /\ readers' = readers
      /\ writer' = writer
      /\ registered' = registered /\ conf' = conf
  BY NoThreadAssumption
  DEF IInv, TypeOK, DataOK, LocksOK, LocalsOK, data, locks, NextSubkey, Find, Goto
<1>2. /\ \A p : In(t, p)' = In(t, p)
      /\ Busy(t)' = Busy(t)
  BY <1>1 DEF In, Busy
<1>3. Own(t) /\ LocalsOK /\ Control(t) /\ key[t] \in Keys
  BY DEF IInv, Own, TypeOK, LocalsOK
<1>4. \A q : In(t, q) => q \in {"list"}
  BY <1>1, <1>3, PlaceFacts DEF In
<1>5. {g \in Guids : t \in readers'[g]} = {g \in Guids : t \in readers[g]}
  BY <1>1, <1>3, <1>4, KeyFacts, RootIsNoSubkey DEF Own, HoldsNoOther
<1>6. Control(t)' /\ Reads(t)'
  BY <1>1, <1>2, <1>3, <1>4, PlaceFacts, KeyFacts
  DEF Own, Control, Reads, RootIsRead, PlacesOf, In, Busy
<1>7. Writes(t)' /\ Knows(t)'
  BY <1>1, <1>2, <1>3, <1>4, PlaceFacts DEF Own, Writes, Exclusive, Knows, IInv, TypeOK, DataOK
<1>8. IsSnapshot(t)' /\ IsWhole(t)' /\ HoldsNoOther(t)'
  BY <1>1, <1>2, <1>3, <1>4, <1>5
  DEF Own, IsSnapshot, IsWhole, HoldsNoOther, IInv, DefaultRegistered, TypeOK, DataOK
<1> QED
  BY <1>6, <1>7, <1>8 DEF Own

\* DefaultDistro has read the GUID of the default distro (distro.go:117).
LEMMA ReadDefaultKeeps ==
    ASSUME IInv, NEW t \in Threads, ReadDefault(t), ~Return(t)
    PROVE  Own(t)'
<1>1. /\ at'[t] = "lookup" /\ call'[t] = call[t] /\ phase'[t] = phase[t]
      /\ key'[t] = default /\ default # NoGuid /\ In(t, "default") /\ at[t] = "start"
      /\ subkeys'[t] = subkeys[t]
      /\ got'[t] = got[t]
      /\ \A k \in Keys : t \in readers'[k] <=> k = Root \/ t \in readers[k]
      /\ writer' = writer
      /\ registered' = registered /\ conf' = conf
  BY NoThreadAssumption
  DEF IInv, TypeOK, DataOK, LocksOK, LocalsOK, data, locks, ReadDefault, ReadLock, Goto
<1>2. /\ \A p : In(t, p)' = In(t, p)
      /\ Busy(t)' = Busy(t)
  BY <1>1 DEF In, Busy
<1>3. Own(t) /\ LocalsOK /\ Control(t) /\ key[t] \in Keys
  BY DEF IInv, Own, TypeOK, LocalsOK
<1>4. \A q : In(t, q) => q \in {"default"}
  BY <1>1, <1>3, PlaceFacts DEF In
<1>5. {g \in Guids : t \in readers'[g]} = {g \in Guids : t \in readers[g]}
  BY <1>1, <1>3, <1>4, KeyFacts, RootIsNoSubkey DEF Own, HoldsNoOther
<1>6. Control(t)' /\ Reads(t)'
  BY <1>1, <1>2, <1>3, <1>4, PlaceFacts, KeyFacts
  DEF Own, Control, Reads, RootIsRead, PlacesOf, In, Busy
<1>7. Writes(t)' /\ Knows(t)'
  BY <1>1, <1>2, <1>3, <1>4, PlaceFacts DEF Own, Writes, Exclusive, Knows, IInv, TypeOK, DataOK
<1>8. IsSnapshot(t)' /\ IsWhole(t)' /\ HoldsNoOther(t)'
  BY <1>1, <1>2, <1>3, <1>4, <1>5
  DEF Own, IsSnapshot, IsWhole, HoldsNoOther, IInv, DefaultRegistered, TypeOK, DataOK
<1> QED
  BY <1>6, <1>7, <1>8 DEF Own

\* A sub-key is sought by name (win32.go:328).
LEMMA LookKeeps ==
    ASSUME IInv, NEW t \in Threads, Look(t)
    PROVE  Own(t)'
<1>1. /\ at'[t] = "look" /\ call'[t] = call[t] /\ phase'[t] = phase[t]
      /\ key'[t] = key[t] /\ at[t] = "start" /\ (In(t, "find") \/ In(t, "get") \/ In(t, "put"))
      /\ subkeys'[t] = subkeys[t]
      /\ got'[t] = got[t]
      /\ \A k \in Keys : t \in readers'[k] <=> k = Root \/ t \in readers[k]
      /\ writer' = writer
      /\ registered' = registered /\ conf' = conf
  BY NoThreadAssumption
  DEF IInv, TypeOK, DataOK, LocksOK, LocalsOK, data, locks, Look, ReadLock, Goto
<1>2. /\ \A p : In(t, p)' = In(t, p)
      /\ Busy(t)' = Busy(t)
  BY <1>1 DEF In, Busy
<1>3. Own(t) /\ LocalsOK /\ Control(t) /\ key[t] \in Keys
  BY DEF IInv, Own, TypeOK, LocalsOK
<1>4. \A q : In(t, q) => q \in {"find", "get", "put"}
  BY <1>1, <1>3, PlaceFacts DEF In
<1>5. {g \in Guids : t \in readers'[g]} = {g \in Guids : t \in readers[g]}
  BY <1>1, <1>3, <1>4, KeyFacts, RootIsNoSubkey DEF Own, HoldsNoOther
<1>6. Control(t)' /\ Reads(t)'
  BY <1>1, <1>2, <1>3, <1>4, PlaceFacts, KeyFacts
  DEF Own, Control, Reads, RootIsRead, PlacesOf, In, Busy
<1>7. Writes(t)' /\ Knows(t)'
  BY <1>1, <1>2, <1>3, <1>4, PlaceFacts DEF Own, Writes, Exclusive, Knows, IInv, TypeOK, DataOK
<1>8. IsSnapshot(t)' /\ IsWhole(t)' /\ HoldsNoOther(t)'
  BY <1>1, <1>2, <1>3, <1>4, <1>5
  DEF Own, IsSnapshot, IsWhole, HoldsNoOther, IInv, DefaultRegistered, TypeOK, DataOK
<1> QED
  BY <1>6, <1>7, <1>8 DEF Own

\* The sub-key to read is found, and the Lxss key stays locked (win32.go:71).
LEMMA LookedToGetKeeps ==
    ASSUME IInv, NEW t \in Threads, Looked(t), ~Return(t) /\ In(t, "get")
    PROVE  Own(t)'
<1>1. /\ at'[t] = "enter" /\ call'[t] = call[t] /\ phase'[t] = phase[t]
      /\ key'[t] \in registered /\ at[t] = "look"
      /\ subkeys'[t] = subkeys[t]
      /\ got'[t] = got[t]
      /\ readers' = readers
      /\ writer' = writer
      /\ registered' = registered /\ conf' = conf
  BY NoThreadAssumption
  DEF IInv, TypeOK, DataOK, LocksOK, LocalsOK, data, locks, Looked, Goto, Found
<1>2. /\ \A p : In(t, p)' = In(t, p)
      /\ Busy(t)' = Busy(t)
  BY <1>1 DEF In, Busy
<1>3. Own(t) /\ LocalsOK /\ Control(t) /\ key[t] \in Keys
  BY DEF IInv, Own, TypeOK, LocalsOK
<1>4. \A q : In(t, q) => q \in {"get"}
  BY <1>1, <1>3, PlaceFacts DEF In
<1>5. {g \in Guids : t \in readers'[g]} = {g \in Guids : t \in readers[g]}
  BY <1>1, <1>3, <1>4, KeyFacts, RootIsNoSubkey DEF Own, HoldsNoOther
<1>6. Control(t)' /\ Reads(t)'
  BY <1>1, <1>2, <1>3, <1>4, PlaceFacts, KeyFacts
  DEF Own, Control, Reads, RootIsRead, PlacesOf, In, Busy
<1>7. Writes(t)' /\ Knows(t)'
  BY <1>1, <1>2, <1>3, <1>4, PlaceFacts DEF Own, Writes, Exclusive, Knows, IInv, TypeOK, DataOK
<1>8. IsSnapshot(t)' /\ IsWhole(t)' /\ HoldsNoOther(t)'
  BY <1>1, <1>2, <1>3, <1>4, <1>5
  DEF Own, IsSnapshot, IsWhole, HoldsNoOther, IInv, DefaultRegistered, TypeOK, DataOK
<1> QED
  BY <1>6, <1>7, <1>8 DEF Own

\* The sub-key to write is found, and the Lxss key given back (win32.go:38).
LEMMA LookedToPutKeeps ==
    ASSUME IInv, NEW t \in Threads, Looked(t), ~Return(t) /\ ~In(t, "get")
    PROVE  Own(t)'
<1>1. /\ at'[t] = "lock" /\ call'[t] = call[t] /\ phase'[t] = phase[t]
      /\ key'[t] \in registered /\ at[t] = "look" /\ ~In(t, "find")
      /\ subkeys'[t] = subkeys[t]
      /\ got'[t] = got[t]
      /\ \A k \in Keys : t \notin readers'[k]
      /\ writer' = writer
      /\ registered' = registered /\ conf' = conf
  BY NoThreadAssumption
  DEF IInv, TypeOK, DataOK, LocksOK, LocalsOK, data, locks, Looked, Goto, Found, WithoutReader
<1>2. /\ \A p : In(t, p)' = In(t, p)
      /\ Busy(t)' = Busy(t)
  BY <1>1 DEF In, Busy
<1>3. Own(t) /\ LocalsOK /\ Control(t) /\ key[t] \in Keys
  BY DEF IInv, Own, TypeOK, LocalsOK
<1>4. \A q : In(t, q) => q \in {"put"}
  BY <1>1, <1>3, PlaceFacts DEF In
<1>5. {g \in Guids : t \in readers'[g]} = {}
  BY <1>1, <1>3, <1>4, KeyFacts, RootIsNoSubkey DEF Own, HoldsNoOther
<1>6. Control(t)' /\ Reads(t)'
  BY <1>1, <1>2, <1>3, <1>4, PlaceFacts, KeyFacts
  DEF Own, Control, Reads, RootIsRead, PlacesOf, In, Busy
<1>7. Writes(t)' /\ Knows(t)'
  BY <1>1, <1>2, <1>3, <1>4, PlaceFacts DEF Own, Writes, Exclusive, Knows, IInv, TypeOK, DataOK
<1>8. IsSnapshot(t)' /\ IsWhole(t)' /\ HoldsNoOther(t)'
  BY <1>1, <1>2, <1>3, <1>4, <1>5
  DEF Own, IsSnapshot, IsWhole, HoldsNoOther, IInv, DefaultRegistered, TypeOK, DataOK
<1> QED
  BY <1>6, <1>7, <1>8 DEF Own

\* The user has been read (win32.go:76).
LEMMA ReadUidKeeps ==
    ASSUME IInv, NEW t \in Threads, ReadUid(t)
    PROVE  Own(t)'
<1>1. /\ at'[t] = "read" /\ call'[t] = call[t] /\ phase'[t] = phase[t]
      /\ key'[t] = key[t] /\ at[t] = "in" /\ In(t, "get")
      /\ subkeys'[t] = subkeys[t]
      /\ got'[t]["uid"] = conf[key[t]]["uid"]
      /\ readers' = readers
      /\ writer' = writer
      /\ registered' = registered /\ conf' = conf
  BY NoThreadAssumption
  DEF IInv, TypeOK, DataOK, LocksOK, LocalsOK, data, locks, ReadUid, Goto, Confs, Fields
<1>2. /\ \A p : In(t, p)' = In(t, p)
      /\ Busy(t)' = Busy(t)
  BY <1>1 DEF In, Busy
<1>3. Own(t) /\ LocalsOK /\ Control(t) /\ key[t] \in Keys
  BY DEF IInv, Own, TypeOK, LocalsOK
<1>4. \A q : In(t, q) => q \in {"get"}
  BY <1>1, <1>3, PlaceFacts DEF In
<1>5. {g \in Guids : t \in readers'[g]} = {g \in Guids : t \in readers[g]}
  BY <1>1, <1>3, <1>4, KeyFacts, RootIsNoSubkey DEF Own, HoldsNoOther
<1>6. Control(t)' /\ Reads(t)'
  BY <1>1, <1>2, <1>3, <1>4, PlaceFacts, KeyFacts
  DEF Own, Control, Reads, RootIsRead, PlacesOf, In, Busy
<1>7. Writes(t)' /\ Knows(t)'
  BY <1>1, <1>2, <1>3, <1>4, PlaceFacts DEF Own, Writes, Exclusive, Knows, IInv, TypeOK, DataOK
<1>8. IsSnapshot(t)' /\ IsWhole(t)' /\ HoldsNoOther(t)'
  BY <1>1, <1>2, <1>3, <1>4, <1>5
  DEF Own, IsSnapshot, IsWhole, HoldsNoOther, IInv, DefaultRegistered, TypeOK, DataOK
<1> QED
  BY <1>6, <1>7, <1>8 DEF Own

\* The write lock of a sub-key has been asked for (win32.go:43).
LEMMA LockKeyKeeps ==
    ASSUME IInv, NEW t \in Threads, LockKey(t)
    PROVE  Own(t)'
<1>1. /\ at'[t] = "write" /\ call'[t] = call[t] /\ phase'[t] = phase[t]
      /\ key'[t] = key[t] /\ at[t] = "lock"
      /\ subkeys'[t] = subkeys[t]
      /\ got'[t] = got[t]
      /\ readers' = readers
      /\ \A k \in Keys : writer'[k] = t => k = key[t] \/ writer[k] = t
      /\ registered' = registered /\ conf' = conf
  BY NoThreadAssumption
  DEF IInv, TypeOK, DataOK, LocksOK, LocalsOK, data, locks, LockKey, Announce, Goto
<1>2. /\ \A p : In(t, p)' = In(t, p)
      /\ Busy(t)' = Busy(t)
  BY <1>1 DEF In, Busy
<1>3. Own(t) /\ LocalsOK /\ Control(t) /\ key[t] \in Keys
  BY DEF IInv, Own, TypeOK, LocalsOK
<1>4. \A q : In(t, q) => q \in {"put"}
  BY <1>1, <1>3, PlaceFacts DEF In
<1>5. {g \in Guids : t \in readers'[g]} = {g \in Guids : t \in readers[g]}
  BY <1>1, <1>3, <1>4, KeyFacts, RootIsNoSubkey DEF Own, HoldsNoOther
<1>6. Control(t)' /\ Reads(t)'
  BY <1>1, <1>2, <1>3, <1>4, PlaceFacts, KeyFacts
  DEF Own, Control, Reads, RootIsRead, PlacesOf, In, Busy
<1>7. Writes(t)' /\ Knows(t)'
  BY <1>1, <1>2, <1>3, <1>4, PlaceFacts DEF Own, Writes, Exclusive, Knows, IInv, TypeOK, DataOK
<1>8. IsSnapshot(t)' /\ IsWhole(t)' /\ HoldsNoOther(t)'
  BY <1>1, <1>2, <1>3, <1>4, <1>5
  DEF Own, IsSnapshot, IsWhole, HoldsNoOther, IInv, DefaultRegistered, TypeOK, DataOK
<1> QED
  BY <1>6, <1>7, <1>8 DEF Own

\* The flags have been written, under the write lock (win32.go:46).
LEMMA WriteFlagsKeeps ==
    ASSUME IInv, NEW t \in Threads, WriteFlags(t)
    PROVE  Own(t)'
<1>1. /\ at'[t] = "written" /\ call'[t] = call[t] /\ phase'[t] = phase[t]
      /\ key'[t] = key[t] /\ at[t] = "write" /\ writer[key[t]] = t /\ readers[key[t]] = {}
      /\ subkeys'[t] = subkeys[t]
      /\ got'[t] = got[t]
      /\ readers' = readers
      /\ writer' = writer
      /\ registered' = registered
  BY NoThreadAssumption
  DEF IInv, TypeOK, DataOK, LocksOK, LocalsOK, data, locks, WriteFlags, MayWrite, Exclusive,
      Goto
<1>2. /\ \A p : In(t, p)' = In(t, p)
      /\ Busy(t)' = Busy(t)
  BY <1>1 DEF In, Busy
<1>3. Own(t) /\ LocalsOK /\ Control(t) /\ key[t] \in Keys
  BY DEF IInv, Own, TypeOK, LocalsOK
<1>4. \A q : In(t, q) => q \in {"put"}
  BY <1>1, <1>3, PlaceFacts DEF In
<1>5. {g \in Guids : t \in readers'[g]} = {g \in Guids : t \in readers[g]}
  BY <1>1, <1>3, <1>4, KeyFacts, RootIsNoSubkey DEF Own, HoldsNoOther
<1>6. Control(t)' /\ Reads(t)'
  BY <1>1, <1>2, <1>3, <1>4, PlaceFacts, KeyFacts
  DEF Own, Control, Reads, RootIsRead, PlacesOf, In, Busy
<1>7. Writes(t)' /\ Knows(t)'
  BY <1>1, <1>2, <1>3, <1>4, PlaceFacts DEF Own, Writes, Exclusive, Knows, IInv, TypeOK, DataOK
<1>8. IsSnapshot(t)' /\ IsWhole(t)' /\ HoldsNoOther(t)'
  BY <1>1, <1>2, <1>3, <1>4, <1>5
  DEF Own, IsSnapshot, IsWhole, HoldsNoOther, IInv, DefaultRegistered, TypeOK, DataOK
<1> QED
  BY <1>6, <1>7, <1>8 DEF Own

\* The write lock of the Lxss key has been asked for (win32.go:226, 273).
LEMMA LockRootKeeps ==
    ASSUME IInv, NEW t \in Threads, LockRoot(t)
    PROVE  Own(t)'
<1>1. /\ at'[t] = "act" /\ call'[t] = call[t] /\ phase'[t] = phase[t]
      /\ key'[t] = key[t] /\ at[t] = "start"
      /\ (In(t, "register") \/ In(t, "unregister") \/ In(t, "setDefault"))
      /\ subkeys'[t] = subkeys[t]
      /\ got'[t] = got[t]
      /\ readers' = readers
      /\ \A k \in Keys : writer'[k] = t => k = Root \/ writer[k] = t
      /\ registered' = registered /\ conf' = conf
  BY NoThreadAssumption
  DEF IInv, TypeOK, DataOK, LocksOK, LocalsOK, data, locks, LockRoot, Announce, Goto
<1>2. /\ \A p : In(t, p)' = In(t, p)
      /\ Busy(t)' = Busy(t)
  BY <1>1 DEF In, Busy
<1>3. Own(t) /\ LocalsOK /\ Control(t) /\ key[t] \in Keys
  BY DEF IInv, Own, TypeOK, LocalsOK
<1>4. \A q : In(t, q) => q \in {"register", "unregister", "setDefault"}
  BY <1>1, <1>3, PlaceFacts DEF In
<1>5. {g \in Guids : t \in readers'[g]} = {g \in Guids : t \in readers[g]}
  BY <1>1, <1>3, <1>4, KeyFacts, RootIsNoSubkey DEF Own, HoldsNoOther
<1>6. Control(t)' /\ Reads(t)'
  BY <1>1, <1>2, <1>3, <1>4, PlaceFacts, KeyFacts
  DEF Own, Control, Reads, RootIsRead, PlacesOf, In, Busy
<1>7. Writes(t)' /\ Knows(t)'
  BY <1>1, <1>2, <1>3, <1>4, PlaceFacts DEF Own, Writes, Exclusive, Knows, IInv, TypeOK, DataOK
<1>8. IsSnapshot(t)' /\ IsWhole(t)' /\ HoldsNoOther(t)'
  BY <1>1, <1>2, <1>3, <1>4, <1>5
  DEF Own, IsSnapshot, IsWhole, HoldsNoOther, IInv, DefaultRegistered, TypeOK, DataOK
<1> QED
  BY <1>6, <1>7, <1>8 DEF Own

\* With the user read before and the flags now, the configuration is whole.
LEMMA ReadFlagsKeeps ==
    ASSUME IInv, NEW t \in Threads, ReadFlags(t)
    PROVE  Own(t)'
<1>1. Own(t) /\ LocalsOK /\ DataOK /\ Control(t) /\ In(t, "get") /\ key[t] \in Guids
  BY PlaceFacts DEF IInv, Own, TypeOK, LocalsOK, DataOK, ReadFlags, Knows
<1>2. /\ at[t] = "read" /\ at'[t] = "got" /\ call'[t] = call[t] /\ phase'[t] = phase[t]
      /\ key'[t] = key[t] /\ subkeys'[t] = subkeys[t]
      /\ readers' = readers /\ writer' = writer
      /\ registered' = registered /\ conf' = conf
      /\ got'[t] = [f \in Fields |-> IF f \in Flags THEN conf[key[t]][f] ELSE got[t][f]]
  BY <1>1 DEF LocalsOK, data, locks, ReadFlags, Goto
<1>3. /\ \A p : In(t, p)' = In(t, p)
      /\ \A p : In(t, p) => p = "get"
      /\ Busy(t) /\ Busy(t)'
  BY <1>1, <1>2 DEF In, Busy
<1>4. Control(t)'
  BY <1>1, <1>2, <1>3 DEF Control, PlacesOf, In, Busy
<1>5. Reads(t)' /\ Writes(t)' /\ Knows(t)'
  BY <1>1, <1>2, <1>3 DEF Own, Reads, Writes, Knows, RootIsRead
<1>6. IsSnapshot(t)' /\ HoldsNoOther(t)'
  BY <1>2, <1>3 DEF IsSnapshot, HoldsNoOther
<1>7. IsWhole(t)'
  <2>1. got[t]["uid"] = conf[key[t]]["uid"]
    BY <1>1, <1>2 DEF Own, Knows
  <2>2. conf[key[t]] \in [Fields -> Values] /\ \A f \in Fields : f \in Flags \/ f = "uid"
    BY <1>1 DEF DataOK, Confs, Fields
  <2>3. \A f \in Fields : got'[t][f] = conf[key[t]][f]
    BY <1>2, <2>1, <2>2
  <2>4. got'[t] = conf[key[t]]
    BY <1>2, <2>2, <2>3
  <2> QED
    BY <1>2, <2>4 DEF IsWhole
<1> QED
  BY <1>4, <1>5, <1>6, <1>7 DEF Own

\* A goroutine that goes on to its next phase holds no lock but the sub-key that
\* Uninstall has opened.
LEMMA ContinueKeeps ==
    ASSUME IInv, NEW t \in Threads, Continue(t), call' = call, writer' = writer,
           phase[t] + 1 \in 1..Len(Program[call[t].op]),
           at[t] \notin {"act", "write", "written"},
           \A k \in Keys : t \in readers'[k] => In(t, "open") /\ k = key'[t],
           call[t].op = "Uninstall" => key'[t] \in Guids
    PROVE  Own(t)'
<1>1. Own(t) /\ LocalsOK /\ Control(t)
  BY DEF IInv, Own, TypeOK
<1>2. at'[t] = "start" /\ phase'[t] = phase[t] + 1
  BY <1>1 DEF Continue, Goto, LocalsOK
<1>3. call[t].op \in DOMAIN Program /\ PhaseFacts(call[t].op, phase[t] + 1)
  BY <1>1, CallFacts, ProgramFacts DEF LocalsOK
<1>4. Busy(t)' /\ \A p : In(t, p)' <=> Program[call[t].op][phase[t] + 1] = p
  BY <1>1, <1>2, <1>3 DEF Busy, In
<1>5. In(t, "open") => /\ call[t].op = "Uninstall" /\ phase[t] = 2
                       /\ In(t, "unregister")'
  <2>1. HAVE In(t, "open")
  <2>2. PhaseFacts(call[t].op, phase[t])
    BY <1>1, <2>1, AlwaysPhase DEF In
  <2>3. call[t].op = "Uninstall" /\ phase[t] = 2
    BY <2>1, <2>2 DEF PhaseFacts, In
  <2>4. Program["Uninstall"][3] = "unregister"
    BY <2>2, <2>3 DEF PhaseFacts
  <2> QED
    BY <1>4, <2>3, <2>4
<1>6. In(t, "open")' => call[t].op = "Uninstall" /\ ~In(t, "open")
  <2>1. HAVE In(t, "open")'
  <2>2. call[t].op = "Uninstall" /\ phase[t] + 1 = 2
    BY <1>3, <1>4, <2>1 DEF PhaseFacts
  <2> QED
    BY <1>5, <2>2
<1>7. Control(t)'
  <2>1. phase'[t] <= Len(Program[call[t].op])
    BY <1>1, <1>2, <1>3, ProgramFacts DEF LocalsOK
  <2>2. "start" \in PlacesOf(Program[call[t].op][phase[t] + 1])
    BY <1>3 DEF PhaseFacts, PlacesOf
  <2> QED
    BY <1>2, <1>4, <2>1, <2>2 DEF Control
<1>8. Reads(t)'
  BY <1>2, <1>6 DEF Reads, RootIsRead
<1>9. Writes(t)'
  BY <1>1, <1>2 DEF Own, Writes
<1>10. Knows(t)'
  BY <1>2, <1>6 DEF Knows
<1>11. IsSnapshot(t)' /\ IsWhole(t)'
  BY <1>2 DEF IsSnapshot, IsWhole
<1>12. HoldsNoOther(t)'
  <2>1. \A k \in Keys : writer'[k] # t
    BY <1>1 DEF Own, Writes
  <2> QED
    BY <1>5, <2>1 DEF HoldsNoOther
<1> QED
  BY <1>7, <1>8, <1>9, <1>10, <1>11, <1>12 DEF Own

\* Uninstall has opened the sub-key (registration.go:166).
LEMMA OpenedKeeps ==
    ASSUME IInv, NEW t \in Threads, Enter(t), In(t, "open")
    PROVE  Own(t)'
<1>1. Own(t) /\ LocalsOK /\ LocksOK /\ Control(t)
  BY DEF IInv, Own, TypeOK
<1>2. /\ Continue(t) /\ call' = call /\ writer' = writer /\ key' = key /\ at[t] = "enter"
      /\ \A k \in Keys : t \in readers'[k] => k = key[t] \/ t \in readers[k]
  BY <1>1 DEF Enter, ReadLock, LocksOK
<1>3. key[t] \in Guids /\ \A k \in Keys : t \notin readers[k]
  BY <1>1 DEF Own, Knows, Reads
<1> QED
  BY <1>1, <1>2, <1>3, MayContinue, ContinueKeeps

\* A listing that is followed by another phase.
LEMMA ListDoneKeeps ==
    ASSUME IInv, NEW t \in Threads, ListDone(t), ~Return(t)
    PROVE  Own(t)'
<1>1. Own(t) /\ LocalsOK /\ LocksOK /\ Control(t)
  BY DEF IInv, Own, TypeOK
<1>2. /\ In(t, "list") /\ at[t] = "in" /\ call[t].op # "RegisteredDistros"
      /\ Continue(t) /\ call' = call /\ writer' = writer
      /\ \A k \in Keys : t \notin readers'[k]
      /\ call[t].op = "Uninstall" => key'[t] \in Guids
  BY <1>1 DEF ListDone, CloseListed, WithoutReader, Listed, LocalsOK
<1> QED
  BY <1>1, <1>2, MayContinue, ContinueKeeps

\* A setter has read the configuration.
LEMMA GotConfigurationKeeps ==
    ASSUME IInv, NEW t \in Threads, GotConfiguration(t), ~Return(t)
    PROVE  Own(t)'
<1>1. Own(t) /\ LocalsOK /\ LocksOK /\ Control(t)
  BY DEF IInv, Own, TypeOK
<1>2. /\ In(t, "get") /\ at[t] = "got" /\ call[t].op = "Setter"
      /\ Continue(t) /\ call' = call /\ writer' = writer
      /\ \A k \in Keys : t \notin readers'[k]
  BY <1>1, PlaceFacts DEF GotConfiguration, WithoutReader
<1> QED
  BY <1>1, <1>2, MayContinue, ContinueKeeps

\* The invariant of a goroutine depends on its local variables, the data and the
\* locks only.
LEMMA UndisturbedKeeps ==
    ASSUME NEW u, Own(u), UNCHANGED <<data, locks>>,
           call'[u] = call[u], phase'[u] = phase[u], at'[u] = at[u], key'[u] = key[u],
           subkeys'[u] = subkeys[u], got'[u] = got[u]
    PROVE  Own(u)'
<1>1. /\ \A p : In(u, p)' = In(u, p)
      /\ Busy(u)' = Busy(u)
  BY DEF In, Busy
<1>2. Control(u)' /\ Reads(u)' /\ Writes(u)' /\ Knows(u)'
  BY <1>1 DEF Own, Control, Reads, RootIsRead, Writes, Exclusive, Knows, data, locks
<1>3. IsSnapshot(u)' /\ IsWhole(u)' /\ HoldsNoOther(u)'
  BY <1>1 DEF Own, IsSnapshot, IsWhole, HoldsNoOther, data, locks
<1> QED
  BY <1>2, <1>3 DEF Own

\* The beginning of a call keeps the invariant.
LEMMA BeginKeeps ==
    ASSUME IInv, NEW t \in Threads, NEW c \in Calls, Begin(t, c)
    PROVE  IInv'
<1>1. Own(t) /\ TypeOK /\ LocalsOK /\ Control(t) /\ at[t] = "start" /\ ~Busy(t)
  BY DEF IInv, Own, TypeOK, Control, Begin
<1>2. /\ UNCHANGED <<data, locks>> /\ UNCHANGED <<at, key, subkeys, got>>
      /\ call' = [call EXCEPT ![t] = c] /\ phase' = [phase EXCEPT ![t] = 1]
  BY DEF Begin
<1>3. TypeOK'
  <2>1. DataOK' /\ LocksOK'
    BY <1>1, <1>2 DEF TypeOK, DataOK, LocksOK, data, locks
  <2>2. LocalsOK'
    BY <1>1, <1>2 DEF LocalsOK
  <2> QED
    BY <2>1, <2>2 DEF TypeOK
<1>4. Blank' /\ DefaultRegistered' /\ UniqueNames'
  BY <1>2 DEF IInv, Blank, DefaultRegistered, UniqueNames, data
<1>5. ASSUME NEW u \in Threads, u # t
      PROVE  Own(u)'
  <2>1. /\ call'[u] = call[u] /\ phase'[u] = phase[u] /\ at'[u] = at[u] /\ key'[u] = key[u]
        /\ subkeys'[u] = subkeys[u] /\ got'[u] = got[u]
    BY <1>1, <1>2, <1>5 DEF LocalsOK
  <2> QED
    BY <1>2, <2>1, UndisturbedKeeps DEF IInv
<1>6. Own(t)'
  <2>1. at'[t] = "start" /\ call'[t] = c /\ phase'[t] = 1
    BY <1>1, <1>2 DEF LocalsOK
  <2>2. c.op \in DOMAIN Program /\ PhaseFacts(c.op, 1) /\ 1 <= Len(Program[c.op])
    <3>1. c.op \in DOMAIN Program
      BY CallFacts
    <3>2. Len(Program[c.op]) \in 1..4
      BY <3>1, ProgramFacts
    <3>3. \A n \in 1..4 : 1 \in 1..n /\ 1 <= n
      OBVIOUS
    <3>4. 1 \in 1..Len(Program[c.op]) /\ 1 <= Len(Program[c.op])
      BY <3>2, <3>3
    <3> QED
      BY <3>1, <3>4, ProgramFacts
  <2>3. Busy(t)' /\ ~In(t, "open")'
    BY <2>1, <2>2 DEF Busy, In, PhaseFacts
  <2>4. "start" \in PlacesOf(Program[c.op][1])
    BY <2>2 DEF PhaseFacts, PlacesOf
  <2>5. Control(t)'
    BY <2>1, <2>2, <2>3, <2>4 DEF Control
  <2>6. \A k \in Keys : t \notin readers'[k] /\ writer'[k] # t
    BY <1>1, <1>2 DEF Own, HoldsNoOther, In, locks
  <2>7. Reads(t)' /\ Writes(t)' /\ Knows(t)'
    BY <2>1, <2>3, <2>6 DEF Reads, RootIsRead, Writes, Knows
  <2>8. IsSnapshot(t)' /\ IsWhole(t)' /\ HoldsNoOther(t)'
    BY <2>1, <2>6 DEF IsSnapshot, IsWhole, HoldsNoOther
  <2> QED
    BY <2>5, <2>7, <2>8 DEF Own
<1> QED
  BY <1>3, <1>4, <1>5, <1>6 DEF IInv

\* A step keeps what the invariant says of the goroutine that takes it.
LEMMA MoverKeeps ==
    ASSUME IInv, NEW t \in Threads, Step(t)
    PROVE  Own(t)'
<1>1. CASE Return(t)
  BY <1>1, ReturnKeeps
<1>2. CASE ~Return(t)
  <2>1. ASSUME Lookup(t)
        PROVE  Own(t)'
    BY <1>2, <2>1, LookupDefaultKeeps, LookupOwnKeeps
  <2>2. ASSUME Enter(t)
        PROVE  Own(t)'
    BY <2>2, EnteredKeeps, OpenedKeeps
  <2>3. ASSUME Looked(t)
        PROVE  Own(t)'
    BY <1>2, <2>3, LookedToGetKeeps, LookedToPutKeeps
  <2>4. ASSUME OpenRoot(t) \/ NextSubkey(t) \/ ListDone(t) \/ ReadDefault(t) \/ Look(t)
        PROVE  Own(t)'
    BY <1>2, <2>4, OpenRootKeeps, NextSubkeyKeeps, ListDoneKeeps, ReadDefaultKeeps, LookKeeps
  <2>5. ASSUME ReadUid(t) \/ ReadFlags(t) \/ GotConfiguration(t)
        PROVE  Own(t)'
    BY <1>2, <2>5, ReadUidKeeps, ReadFlagsKeeps, GotConfigurationKeeps
  <2>6. ASSUME LockKey(t) \/ WriteFlags(t) \/ LockRoot(t)
        PROVE  Own(t)'
    BY <2>6, LockKeyKeeps, WriteFlagsKeeps, LockRootKeeps
  <2> QED
    BY <1>2, <2>1, <2>2, <2>3, <2>4, <2>5, <2>6
    DEF Step, DefaultDone, WriteUid, WslRegisterDistribution, WslUnregisterDistribution,
        SetAsDefault
<1> QED
  BY <1>1, <1>2

\* A step keeps what the invariant says of the data: the default is registered
\* and names are unique because both are looked at under the exclusive lock.
LEMMA DataKeeps ==
    ASSUME IInv, NEW t \in Threads, Step(t)
    PROVE  Blank' /\ DefaultRegistered' /\ UniqueNames'
<1> USE DEF IInv, TypeOK, DataOK
<1>1. CASE WriteFlags(t) \/ WriteUid(t)
  BY <1>1 DEF WriteFlags, WriteUid, Write, Blank, DefaultRegistered, UniqueNames
<1>2. CASE WslRegisterDistribution(t)
  <2>1. CASE UNCHANGED data
    BY <2>1 DEF data, Blank, DefaultRegistered, UniqueNames
  <2>2. ASSUME NEW g \in Guids \ used, MayAdd(call[t].name),
               registered' = registered \cup {g}, name' = [name EXCEPT ![g] = call[t].name],
               conf' = conf, default' = DefaultWith(g)
        PROVE  Blank' /\ DefaultRegistered' /\ UniqueNames'
    <3>1. Blank' /\ DefaultRegistered'
      BY <2>2 DEF Blank, DefaultRegistered, DefaultWith
    <3>2. \A h \in registered : h # g /\ name[h] # call[t].name
      BY <2>2 DEF MayAdd, Found
    <3>3. name'[g] = call[t].name /\ \A h \in registered : name'[h] = name[h]
      BY <2>2, <3>2
    <3> QED
      BY <2>2, <3>1, <3>2, <3>3 DEF UniqueNames
  <2> QED
    BY <1>2, <2>1, <2>2 DEF WslRegisterDistribution
<1>3. CASE WslUnregisterDistribution(t)
  <2>1. CASE UNCHANGED data
    BY <2>1 DEF data, Blank, DefaultRegistered, UniqueNames
  <2>2. ASSUME NEW g \in Found(call[t].name), registered' = registered \ {g},
               default' = DefaultWithout(g), name' = [name EXCEPT ![g] = NoName],
               conf' = [conf EXCEPT ![g] = NewConf]
        PROVE  Blank' /\ DefaultRegistered' /\ UniqueNames'
    <3>1. Blank'
      BY <2>2 DEF Blank
    <3>2. DefaultRegistered'
      <4>1. registered \ {g} \in SUBSET Guids
        OBVIOUS
      <4>2. FirstGuid(registered \ {g}) \in registered' \cup {NoGuid}
        BY <2>2, <4>1, FirstGuidIn
      <4> QED
        BY <2>2, <4>2 DEF DefaultRegistered, DefaultWithout
    <3>3. UniqueNames'
      BY <2>2 DEF UniqueNames
    <3> QED
      BY <3>1, <3>2, <3>3
  <2> QED
    BY <1>3, <2>1, <2>2 DEF WslUnregisterDistribution
<1>4. CASE SetAsDefault(t)
  <2>1. CASE UNCHANGED data
    BY <2>1 DEF data, Blank, DefaultRegistered, UniqueNames
  <2>2. CASE ~UNCHANGED data
    BY <1>4, <2>2 DEF SetAsDefault, Found, Blank, DefaultRegistered, UniqueNames
  <2> QED
    BY <2>1, <2>2
<1>5. CASE UNCHANGED data
  BY <1>5 DEF data, Blank, DefaultRegistered, UniqueNames
<1> QED
  BY <1>1, <1>2, <1>3, <1>4, <1>5
  DEF Step, Lookup, Enter, OpenRoot, NextSubkey, ListDone, ReadDefault, DefaultDone, Look,
      Looked, ReadUid, ReadFlags, GotConfiguration, LockKey, LockRoot

\* The invariant holds initially.
LEMMA InitOK == Init => IInv
<1> SUFFICES ASSUME Init
             PROVE  IInv
  OBVIOUS
<1> USE DEF Init
<1>1. TypeOK
  <2>1. DataOK
    BY KeyFacts DEF DataOK
  <2>2. LocksOK
    BY DEF LocksOK
  <2>3. LocalsOK
    BY KeyFacts DEF LocalsOK, Places
  <2> QED
    BY <2>1, <2>2, <2>3 DEF TypeOK
<1>2. Blank /\ DefaultRegistered /\ UniqueNames
  BY DEF Blank, DefaultRegistered, UniqueNames
<1>3. ASSUME NEW t \in Threads
      PROVE  Own(t)
  <2>1. at[t] = "start" /\ phase[t] = 0 /\ call[t] = NoCall
    OBVIOUS
  <2>2. \A k \in Keys : t \notin readers[k] /\ writer[k] # t
    BY NoThreadAssumption
  <2>3. ~Busy(t) /\ \A p : ~In(t, p)
    BY <2>1 DEF Busy, In
  <2>4. Len(Program[NoCall.op]) \in 1..4
    BY CallFacts, ProgramFacts
  <2>5. Control(t)
    BY <2>1, <2>3, <2>4 DEF Control
  <2>6. Reads(t) /\ Writes(t) /\ Knows(t)
    BY <2>1, <2>2, <2>3 DEF Reads, RootIsRead, Writes, Knows
  <2>7. IsSnapshot(t) /\ IsWhole(t) /\ HoldsNoOther(t)
    BY <2>1, <2>2, <2>3 DEF IsSnapshot, IsWhole, HoldsNoOther
  <2> QED
    BY <2>5, <2>6, <2>7 DEF Own
<1> QED
  BY <1>1, <1>2, <1>3 DEF IInv

\* The invariant is inductive.
LEMMA NextOK == IInv /\ [Next]_vars => IInv'
<1> SUFFICES ASSUME IInv, [Next]_vars
             PROVE  IInv'
  OBVIOUS
<1>1. ASSUME NEW t \in Threads, Step(t)
      PROVE  IInv'
  <2>1. TypeOK'
    BY <1>1, DataStep, LocksStep, LocalsStep DEF IInv, TypeOK
  <2>2. Blank' /\ DefaultRegistered' /\ UniqueNames'
    BY <1>1, DataKeeps
  <2>3. \A u \in Threads : Own(u)'
    BY <1>1, MoverKeeps, OthersKeepTheirs
  <2> QED
    BY <2>1, <2>2, <2>3 DEF IInv
<1>2. ASSUME NEW t \in Threads, NEW c \in Calls, Begin(t, c)
      PROVE  IInv'
  BY <1>2, BeginKeeps
<1>3. CASE UNCHANGED vars
  <2>1. TypeOK'
    BY <1>3 DEF IInv, TypeOK, DataOK, LocksOK, LocalsOK, vars, data, locks, local
  <2>2. Blank' /\ DefaultRegistered' /\ UniqueNames'
    BY <1>3 DEF IInv, Blank, DefaultRegistered, UniqueNames, vars, data
  <2>3. UNCHANGED <<data, locks>> /\ UNCHANGED local
    BY <1>3 DEF vars
  <2>4. \A u \in Threads : Own(u)'
    BY <2>3, UndisturbedKeeps DEF IInv, local
  <2> QED
    BY <2>1, <2>2, <2>4 DEF IInv
<1> QED
  BY <1>1, <1>2, <1>3 DEF Next

\* The inductive invariant holds in every reachable state, for any number of
\* goroutines, names, GUIDs and flags.
THEOREM Invariance == Spec => []IInv
  BY InitOK, NextOK, PTL DEF Spec

\* Every reachable state is well typed.
THEOREM TypeCorrect == Spec => []TypeOK
<1>1. IInv => TypeOK
  BY DEF IInv
<1> QED
  BY <1>1, Invariance, PTL

\* DefaultDistribution never names a missing sub-key (win32.go:254, 288).
THEOREM DefaultIsRegistered == Spec => []DefaultRegistered
<1>1. IInv => DefaultRegistered
  BY DEF IInv
<1> QED
  BY <1>1, Invariance, PTL

\* Two registered distros never share a name, although the check of Register is
\* made long before its write (registration.go:31, win32.go:229).
THEOREM NamesAreUnique == Spec => []UniqueNames
<1>1. IInv => UniqueNames
  BY DEF IInv
<1> QED
  BY <1>1, Invariance, PTL

\* A listing is of one moment, and finds every sub-key it asks for
\* (registration.go:58-80).
THEOREM Snapshots == Spec => []ListsAreSnapshots
<1>1. IInv => ListsAreSnapshots
  BY DEF IInv, Own, ListsAreSnapshots
<1> QED
  BY <1>1, Invariance, PTL

\* No configuration is read with the user of one call and the flags of another
\* (win32.go:43-47, 76-82).
THEOREM NeverTorn == Spec => []NoTornRead
<1>1. IInv => NoTornRead
  BY DEF IInv, Own, NoTornRead
<1> QED
  BY <1>1, Invariance, PTL

\* Calls return the locks they take, on every path (registration.go:62, 80).
THEOREM LocksReturn == Spec => []LocksAreReturned
<1>1. IInv => LocksAreReturned
  BY DEF IInv, Own, LocksAreReturned
<1> QED
  BY <1>1, Invariance, PTL
=============================================================================
