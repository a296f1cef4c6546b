------------------------- MODULE RegistryRefinement -------------------------
(***************************************************************************)
(* Registry implements Distros, but for the choice of the distro that      *)
(* follows a removed default one, for any goroutines, names, GUIDs and     *)
(* flags.  A configuration takes effect when its flags are written: from   *)
(* then on the write lock hides the sub-key until the user is written too, *)
(* so that View shows what the writer is about to leave there.  A step     *)
(* that changes neither the data nor who is between these two writes is a  *)
(* stutter (Quiet); the five that do are looked at one by one.             *)
(***************************************************************************)
EXTENDS RegistryProofs

\* Distros speaks of the same GUIDs and configurations.
LEMMA SameTypes ==
    Contract!NoGuid = NoGuid /\ Contract!NewConf = NewConf /\ Contract!Confs = Confs
  BY DEF Contract!NoGuid, NoGuid, Contract!NewConf, NewConf, Contract!Confs, Confs,
         Contract!Fields, Fields, Contract!Values, Values

\* Whoever has written the flags of a sub-key is the only one.
LEMMA OneWriter ==
    ASSUME IInv, NEW t \in Threads, NEW u \in Threads, at[t] = "written",
           at[u] = "written" \/ (at[u] = "write" /\ MayWrite(u)), key[u] = key[t]
    PROVE  u = t
  BY DEF IInv, Own, Writes, Exclusive, MayWrite

\* While somebody writes a configuration, others will read all of it.
LEMMA ViewWritten ==
    ASSUME IInv, NEW t \in Threads, at[t] = "written"
    PROVE  View(key[t]) = got[t]
<1> DEFINE P(u) == at[u] = "written" /\ key[u] = key[t]
<1>1. \A u \in Threads : P(u) => u = t
  BY OneWriter
<1>2. P(CHOOSE u \in Threads : P(u)) /\ (CHOOSE u \in Threads : P(u)) \in Threads
  OBVIOUS
<1> HIDE DEF P
<1>3. (CHOOSE u \in Threads : P(u)) = t
  BY <1>1, <1>2
<1> QED
  BY <1>3 DEF View, P

\* The same after a step.
LEMMA ViewWrittenNext ==
    ASSUME IInv', NEW t \in Threads, NEW g, at'[t] = "written", key'[t] = g
    PROVE  View(g)' = got'[t]
<1> DEFINE P(u) == at'[u] = "written" /\ key'[u] = g
<1>1. \A u \in Threads : P(u) => u = t
  BY DEF IInv, Own, Writes, Exclusive
<1>2. P(CHOOSE u \in Threads : P(u)) /\ (CHOOSE u \in Threads : P(u)) \in Threads
  OBVIOUS
<1> HIDE DEF P
<1>3. (CHOOSE u \in Threads : P(u)) = t
  BY <1>1, <1>2
<1> QED
  BY <1>3 DEF View, P

\* The configuration others can read stays when neither it nor its writers change.
LEMMA ViewKept ==
    ASSUME IInv, IInv', NEW g \in Guids, conf'[g] = conf[g],
           \A u \in Threads : at'[u] = "written" /\ key'[u] = g
                                <=> at[u] = "written" /\ key[u] = g,
           \A u \in Threads : at[u] = "written" /\ key[u] = g => got'[u] = got[u]
    PROVE  View(g)' = View(g)
<1>1. CASE \E u \in Threads : at[u] = "written" /\ key[u] = g
  <2>1. PICK u \in Threads : at[u] = "written" /\ key[u] = g
    BY <1>1
  <2>2. View(g) = got[u]
    BY <2>1, ViewWritten
  <2>3. at'[u] = "written" /\ key'[u] = g /\ got'[u] = got[u]
    BY <2>1
  <2>4. View(g)' = got'[u]
    BY <2>3, ViewWrittenNext
  <2> QED
    BY <2>2, <2>3, <2>4
<1>2. CASE ~\E u \in Threads : at[u] = "written" /\ key[u] = g
  <2>1. ~\E u \in Threads : at'[u] = "written" /\ key'[u] = g
    BY <1>2
  <2> QED
    BY <1>2, <2>1 DEF View
<1> QED
  BY <1>1, <1>2
-----------------------------------------------------------------------------
\* The steps but the two writes of a configuration leave and find their
\* goroutine elsewhere than between these writes.
LEMMA ElsewhereStep ==
    ASSUME IInv, NEW t \in Threads, Step(t), ~WriteFlags(t), ~WriteUid(t)
    PROVE  at[t] # "written" /\ at'[t] # "written"
<1> USE DEF IInv, TypeOK, LocalsOK, Goto
<1>1. at[t] # "written"
  BY DEF Step, Lookup, Enter, OpenRoot, NextSubkey, ListDone, ReadDefault, DefaultDone, Look,
         Looked, ReadUid, ReadFlags, GotConfiguration, LockKey, LockRoot, Acts,
         WslRegisterDistribution, WslUnregisterDistribution, SetAsDefault
<1>2. at'[t] # "written"
  <2>1. CASE Return(t)
    BY <2>1 DEF Return
  <2>2. CASE ~Return(t) /\ (Lookup(t) \/ NextSubkey(t) \/ ReadDefault(t) \/ Looked(t))
    BY <2>2 DEF Lookup, NextSubkey, Find, ReadDefault, Looked
  <2>3. CASE Enter(t) \/ (~Return(t) /\ (ListDone(t) \/ GotConfiguration(t)))
    BY <2>3 DEF Enter, ListDone, GotConfiguration, Continue
  <2>4. CASE OpenRoot(t) \/ Look(t) \/ LockKey(t) \/ LockRoot(t) \/ ReadUid(t) \/ ReadFlags(t)
    BY <2>4 DEF OpenRoot, Look, LockKey, LockRoot, ReadUid, ReadFlags
  <2> QED
    BY <2>1, <2>2, <2>3, <2>4
    DEF Step, DefaultDone, WslRegisterDistribution, WslUnregisterDistribution, SetAsDefault
<1> QED
  BY <1>1, <1>2

\* Nobody changes a configuration that another goroutine is writing, but for
\* its removal, and no sub-key that was removed comes back.
LEMMA WrittenElsewhere ==
    ASSUME IInv, NEW t \in Threads, Step(t), NEW u \in Threads, u # t, Written(u)
    PROVE  Written(u)'
<1>1. at'[u] = at[u] /\ key'[u] = key[u] /\ got'[u] = got[u]
  BY Frame
<1> USE DEF IInv, TypeOK, DataOK, Written
<1>2. CASE WriteFlags(t) \/ WriteUid(t)
  <2>1. used' = used /\ registered' = registered
    BY <1>2 DEF WriteFlags, WriteUid
  <2>2. at[u] = "written" => key[t] # key[u]
    BY <1>2, OneWriter DEF WriteFlags, WriteUid
  <2>3. at[u] = "written" /\ key[u] \in registered => conf'[key[u]] = conf[key[u]]
    BY <1>2, <2>2 DEF WriteFlags, WriteUid, Write
  <2> QED
    BY <1>1, <2>1, <2>3
<1>3. CASE WslRegisterDistribution(t)
  <2>1. used \subseteq used' /\ registered' \cap used \subseteq registered /\ conf' = conf
    BY <1>3 DEF WslRegisterDistribution, data
  <2> QED
    BY <1>1, <2>1
<1>4. CASE WslUnregisterDistribution(t)
  <2>1. /\ used' = used /\ registered' \subseteq registered
        /\ \A g \in registered' : conf'[g] = conf[g]
    BY <1>4 DEF WslUnregisterDistribution, data, Found
  <2> QED
    BY <1>1, <2>1
<1>5. CASE used' = used /\ registered' = registered /\ conf' = conf
  BY <1>1, <1>5
<1> QED
  BY <1>2, <1>3, <1>4, <1>5
  DEF Step, Lookup, Enter, OpenRoot, NextSubkey, ListDone, ReadDefault, DefaultDone, Look,
      Looked, ReadUid, ReadFlags, GotConfiguration, LockKey, LockRoot, SetAsDefault, data

\* The sub-key that is going to be written was registered when it was found, and
\* holds the new flags once they are written (win32.go:46-47).
LEMMA WrittenHere ==
    ASSUME IInv, NEW t \in Threads, Step(t), Written(t)
    PROVE  Written(t)'
<1> USE DEF IInv, TypeOK, DataOK, LocalsOK, Goto
<1>1. CASE Return(t)
  BY <1>1 DEF Return, Written
<1>2. CASE ~Return(t) /\ Looked(t)
  <2>1. at'[t] \in {"enter", "lock"} /\ key'[t] \in registered /\ used' = used
    BY <1>2 DEF Looked, Found, data
  <2> QED
    BY <2>1 DEF Written
<1>3. CASE LockKey(t)
  BY <1>3 DEF LockKey, Written, data
<1>4. CASE WriteFlags(t)
  <2>1. at'[t] = "written" /\ key'[t] = key[t] /\ used' = used /\ registered' = registered
        /\ got'[t] = got[t] /\ at[t] = "write"
    BY <1>4 DEF WriteFlags
  <2>2. ASSUME key[t] \in registered, NEW f \in Flags
        PROVE  conf'[key[t]][f] = got[t][f]
    BY <1>4, <2>2 DEF WriteFlags, Write, Fields
  <2> QED
    BY <2>1, <2>2 DEF Written
<1>5. CASE ~Return(t) /\ (Lookup(t) \/ NextSubkey(t) \/ ReadDefault(t))
  BY <1>5 DEF Lookup, NextSubkey, Find, ReadDefault, Written
<1>6. CASE Enter(t) \/ (~Return(t) /\ (ListDone(t) \/ GotConfiguration(t)))
  BY <1>6 DEF Enter, ListDone, GotConfiguration, Continue, Written
<1>7. CASE OpenRoot(t) \/ Look(t) \/ LockRoot(t) \/ ReadUid(t) \/ ReadFlags(t)
  BY <1>7 DEF OpenRoot, Look, LockRoot, ReadUid, ReadFlags, Written
<1> QED
  BY <1>1, <1>2, <1>3, <1>4, <1>5, <1>6, <1>7
  DEF Step, DefaultDone, WriteUid, WslRegisterDistribution, WslUnregisterDistribution,
      SetAsDefault

\* The strengthened invariant is inductive.
LEMMA StrengthenedNext == RInv /\ [Next]_vars => RInv'
<1> SUFFICES ASSUME RInv, [Next]_vars
             PROVE  RInv'
  OBVIOUS
<1> USE DEF RInv
<1>1. IInv'
  BY NextOK
<1>2. ASSUME NEW t \in Threads, Step(t), NEW u \in Threads
      PROVE  Written(u)'
  BY <1>2, WrittenElsewhere, WrittenHere
<1>3. ASSUME UNCHANGED <<data, at, key, got>>, NEW u \in Threads
      PROVE  Written(u)'
  <2>1. used' = used /\ registered' = registered /\ conf' = conf
    BY <1>3 DEF data
  <2>2. Written(u) /\ at' = at /\ key' = key /\ got' = got
    BY <1>3
  <2> QED
    BY <2>1, <2>2 DEF Written
<1>4. (\E t \in Threads : Step(t)) \/ UNCHANGED <<data, at, key, got>>
  BY DEF Next, Begin, vars, local
<1> QED
  BY <1>1, <1>2, <1>3, <1>4

\* A call never writes a sub-key that was not drawn, and its flags are not lost
\* before its user is written, for any goroutines, names, GUIDs and flags.
THEOREM Strengthened == Spec => []RInv
<1>1. Init => RInv
  BY InitOK DEF RInv, Written, Init
<1> QED
  BY <1>1, StrengthenedNext, PTL DEF Spec
-----------------------------------------------------------------------------
\* A step that changes neither the data nor who is between the two writes of a
\* configuration changes nothing that Distros shows.
LEMMA Quiet ==
    ASSUME IInv, IInv', UNCHANGED data,
           \A u \in Threads : at'[u] = "written" <=> at[u] = "written",
           \A u \in Threads : at[u] = "written" => key'[u] = key[u] /\ got'[u] = got[u]
    PROVE  UNCHANGED Contract!vars
<1>1. \A g \in registered : g \in Guids /\ conf'[g] = conf[g] /\ name'[g] = name[g]
  BY DEF IInv, TypeOK, DataOK, data
<1>2. \A g \in registered : View(g)' = View(g)
  BY <1>1, ViewKept
<1>3. registered' = registered /\ default' = default
  BY DEF data
<1> QED
  BY <1>1, <1>2, <1>3 DEF Contract!vars

\* The steps that do not touch the data, most of them of locks.
LEMMA QuietStep ==
    ASSUME IInv, IInv', NEW t \in Threads, Step(t), ~WriteFlags(t), ~WriteUid(t),
           UNCHANGED data
    PROVE  UNCHANGED Contract!vars
<1>1. at[t] # "written" /\ at'[t] # "written"
  BY ElsewhereStep
<1>2. \A u \in Threads : u # t => at'[u] = at[u] /\ key'[u] = key[u] /\ got'[u] = got[u]
  BY Frame
<1> QED
  BY <1>1, <1>2, Quiet

\* A step that is not one of the two writes shows the configurations it keeps.
LEMMA ViewOfBystander ==
    ASSUME IInv, IInv', NEW t \in Threads, Step(t), NEW g \in Guids, conf'[g] = conf[g],
           \/ ~WriteFlags(t) /\ ~WriteUid(t)
           \/ (WriteFlags(t) \/ WriteUid(t)) /\ key[t] # g
    PROVE  View(g)' = View(g)
<1>1. \A u \in Threads : u # t => at'[u] = at[u] /\ key'[u] = key[u] /\ got'[u] = got[u]
  BY Frame
<1>2. CASE ~WriteFlags(t) /\ ~WriteUid(t)
  <2>1. at[t] # "written" /\ at'[t] # "written"
    BY <1>2, ElsewhereStep
  <2> QED
    BY <1>1, <2>1, ViewKept
<1>3. CASE WriteFlags(t) /\ key[t] # g
  <2>1. at[t] = "write" /\ key'[t] = key[t]
    BY <1>3 DEF WriteFlags
  <2> QED
    BY <1>1, <1>3, <2>1, ViewKept
<1>4. CASE WriteUid(t) /\ key[t] # g
  <2>1. at'[t] = "start"
    BY <1>4 DEF WriteUid, Return, Goto, IInv, TypeOK, LocalsOK
  <2> QED
    BY <1>1, <1>4, <2>1, ViewKept
<1> QED
  BY <1>2, <1>3, <1>4

\* With its flags written, a configuration is what is going to be read, also
\* where the sub-key has been removed meanwhile (win32.go:46).
LEMMA WriteFlagsStep ==
    ASSUME RInv, IInv', NEW t \in Threads, WriteFlags(t)
    PROVE  \/ \E g \in Guids, c \in Confs : Contract!Configure(g, c)
           \/ UNCHANGED Contract!vars
<1> USE DEF RInv, IInv, TypeOK, DataOK, LocalsOK
<1>1. /\ registered' = registered /\ name' = name /\ default' = default
      /\ at'[t] = "written" /\ got'[t] = got[t] /\ key'[t] = key[t]
      /\ Step(t)
  BY DEF WriteFlags, Goto, Step
<1>2. ASSUME NEW g \in registered, g # key[t]
      PROVE  View(g)' = View(g)
  BY <1>1, <1>2, ViewOfBystander DEF WriteFlags, Write
<1>3. ASSUME NEW g \in registered, g = key[t]
      PROVE  View(g)' = got[t]
  BY <1>1, <1>3, ViewWrittenNext
<1>4. CASE key[t] \notin registered
  BY <1>1, <1>2, <1>4 DEF Contract!vars
<1>5. CASE key[t] \in registered
  <2> PICK k \in registered, c \in Confs : k = key[t] /\ c = got[t]
    BY <1>5
  <2> DEFINE d == [g \in registered |-> [name |-> name[g], conf |-> View(g)]]
  <2>1. d' = [g \in registered |-> [name |-> name[g],
                                    conf |-> IF g = k THEN c ELSE View(g)]]
    BY <1>1, <1>2, <1>3
  <2>2. d' = [d EXCEPT ![k].conf = c]
    BY <2>1
  <2>3. Contract!Configure(k, c)
    BY <1>1, <2>2 DEF Contract!Configure
  <2> QED
    BY <2>3
<1> QED
  BY <1>4, <1>5
\* Writing the user completes what is already read (win32.go:47).
LEMMA WriteUidStep ==
    ASSUME RInv, IInv', NEW t \in Threads, WriteUid(t)
    PROVE  UNCHANGED Contract!vars
<1> USE DEF RInv, IInv, TypeOK, DataOK, LocalsOK
<1>1. /\ registered' = registered /\ name' = name /\ default' = default
      /\ at[t] = "written" /\ at'[t] = "start" /\ Step(t)
  BY DEF WriteUid, Return, Goto, Step
<1>2. ASSUME NEW g \in registered, g # key[t]
      PROVE  View(g)' = View(g)
  BY <1>1, <1>2, ViewOfBystander DEF WriteUid, Write
<1>3. ASSUME NEW g \in registered, g = key[t]
      PROVE  View(g)' = View(g)
  <2>1. View(g) = got[t]
    BY <1>1, <1>3, ViewWritten
  <2>2. View(g)' = conf'[g]
    <3>1. ASSUME NEW u \in Threads, at'[u] = "written", key'[u] = g
          PROVE  FALSE
      <4>1. u # t
        BY <1>1, <3>1
      <4>2. at[u] = "written" /\ key[u] = g
        BY <1>1, <3>1, <4>1, Frame
      <4> QED
        BY <1>1, <1>3, <4>1, <4>2, OneWriter
    <3> QED
      BY <3>1 DEF View
  <2>3. conf'[g] = [f \in Fields |-> IF f \in {"uid"} THEN got[t][f] ELSE conf[g][f]]
    BY <1>3 DEF WriteUid, Write
  <2>4. \A f \in Fields : conf'[g][f] = got[t][f]
    BY <1>1, <1>3, <2>3 DEF Written, Fields
  <2>5. conf'[g] = got[t]
    BY <2>3, <2>4 DEF Confs
  <2> QED
    BY <2>1, <2>2, <2>5
<1>4. \A g \in registered : View(g)' = View(g)
  BY <1>2, <1>3
<1> QED
  BY <1>1, <1>4 DEF Contract!vars

\* Only a call that has a name registers a distro.
LEMMA RegistersAName ==
    ASSUME IInv, NEW t \in Threads, In(t, "register")
    PROVE  call[t].name \in Names
<1>1. LocalsOK /\ Control(t) /\ Busy(t) /\ call[t] \in Calls \cup {NoCall}
  BY DEF IInv, TypeOK, LocalsOK, Own, In
<1>2. PhaseFacts(call[t].op, phase[t])
  BY <1>1, AlwaysPhase
<1>3. call[t].op \in {"Register", "Import"}
  BY <1>2 DEF PhaseFacts, In
<1> QED
  BY <1>1, <1>3 DEF Calls, NoCall

\* A new distro has a GUID that nobody is writing to, and the configuration of a
\* new one (win32.go:226-257).
LEMMA RegisterStep ==
    ASSUME RInv, IInv', NEW t \in Threads, WslRegisterDistribution(t), ~UNCHANGED data
    PROVE  \E g \in Guids, n \in Names : Contract!Register(g, n)
<1> USE DEF RInv, IInv, TypeOK, DataOK
<1> PICK n \in Names : n = call[t].name
  BY RegistersAName DEF WslRegisterDistribution, Acts
<1>1. n = call[t].name /\ Found(n) = {} /\ Step(t)
  BY DEF WslRegisterDistribution, MayAdd, Step
<1>2. PICK g \in Guids \ used : /\ registered' = registered \cup {g}
                               /\ name' = [name EXCEPT ![g] = n]
                               /\ conf' = conf /\ default' = DefaultWith(g)
  BY <1>1 DEF WslRegisterDistribution
<1>3. at[t] # "written" /\ at'[t] # "written" /\ ~WriteFlags(t) /\ ~WriteUid(t)
  BY <1>1, ElsewhereStep DEF WslRegisterDistribution, Acts, WriteFlags, WriteUid
<1>4. \A h \in registered : View(h)' = View(h)
  BY <1>1, <1>2, <1>3, ViewOfBystander
<1>5. View(g)' = NewConf
  <2>1. ~\E u \in Threads : at[u] = "written" /\ key[u] = g
    BY <1>2 DEF Written
  <2>2. ~\E u \in Threads : at'[u] = "written" /\ key'[u] = g
    BY <1>1, <1>3, <2>1, Frame
  <2>3. conf'[g] = NewConf
    BY <1>2 DEF Blank
  <2> QED
    BY <2>2, <2>3 DEF View
<1>6. g \notin registered /\ \A h \in registered : h \in Guids /\ h # g /\ name[h] # n
  BY <1>1, <1>2 DEF Found
<1> DEFINE d == [h \in registered |-> [name |-> name[h], conf |-> View(h)]]
<1>7. d' = [h \in registered \cup {g} |->
              IF h = g THEN [name |-> n, conf |-> NewConf] ELSE d[h]]
  <2>1. name'[g] = n /\ \A h \in registered : name'[h] = name[h]
    BY <1>2, <1>6
  <2> QED
    BY <1>2, <1>4, <1>5, <1>6, <2>1
<1>8. Contract!Register(g, n)
  BY <1>2, <1>6, <1>7, SameTypes DEF Contract!Register, DefaultWith
<1> QED
  BY <1>2, <1>8

\* The distro that is removed leaves the others as they are, and the default is
\* one of them or none (win32.go:273-303).
LEMMA UnregisterStep ==
    ASSUME RInv, IInv', NEW t \in Threads, WslUnregisterDistribution(t), ~UNCHANGED data
    PROVE  \E g \in Guids : Contract!UnregisterAnySuccessor(g)
<1> USE DEF RInv, IInv, TypeOK, DataOK
<1>1. Step(t) /\ ~WriteFlags(t) /\ ~WriteUid(t)
  BY DEF Step, WslUnregisterDistribution, Acts, WriteFlags, WriteUid
<1>2. PICK g \in registered : /\ registered' = registered \ {g}
                             /\ name' = [name EXCEPT ![g] = NoName]
                             /\ conf' = [conf EXCEPT ![g] = NewConf]
                             /\ default' = DefaultWithout(g)
  BY DEF WslUnregisterDistribution, Found
<1>3. \A h \in registered \ {g} : name'[h] = name[h] /\ conf'[h] = conf[h]
  BY <1>2
<1>4. \A h \in registered \ {g} : View(h)' = View(h)
  BY <1>1, <1>3, ViewOfBystander
<1> DEFINE d == [h \in registered |-> [name |-> name[h], conf |-> View(h)]]
<1>5. d' = [h \in registered \ {g} |-> d[h]]
  BY <1>2, <1>3, <1>4
<1>6. IF default = g THEN default' \in {NoGuid} \cup (registered \ {g})
                    ELSE default' = default
  BY <1>2, FirstGuidIn DEF DefaultWithout
<1>7. Contract!UnregisterAnySuccessor(g)
  BY <1>2, <1>5, <1>6, SameTypes DEF Contract!UnregisterAnySuccessor, Contract!Remove
<1> QED
  BY <1>7

\* The default is given to a distro that is registered (wslexe.go:63-73).
LEMMA SetAsDefaultStep ==
    ASSUME RInv, IInv', NEW t \in Threads, SetAsDefault(t), ~UNCHANGED data
    PROVE  \E g \in Guids : Contract!SetAsDefault(g)
<1> USE DEF RInv, IInv, TypeOK, DataOK
<1>1. Step(t) /\ ~WriteFlags(t) /\ ~WriteUid(t)
  BY DEF Step, SetAsDefault, Acts, WriteFlags, WriteUid
<1>2. PICK g \in registered : default' = g
  BY DEF SetAsDefault, Found
<1>3. registered' = registered /\ name' = name /\ conf' = conf
  BY DEF SetAsDefault
<1>4. \A h \in registered : View(h)' = View(h)
  BY <1>1, <1>3, ViewOfBystander
<1> QED
  BY <1>2, <1>3, <1>4 DEF Contract!SetAsDefault
-----------------------------------------------------------------------------
\* A new registry is one without distros.
LEMMA InitRegistry == Init => Contract!Init
<1> SUFFICES ASSUME Init
             PROVE  Contract!Init
  OBVIOUS
<1>1. [g \in {} |-> [name |-> name[g], conf |-> View(g)]] = << >>
  OBVIOUS
<1> QED
  BY <1>1, SameTypes DEF Init, Contract!Init

\* Every step is one of Distros or changes nothing that it shows.
LEMMA StepRegistry == RInv /\ IInv' /\ [Next]_vars => [Contract!NextAnySuccessor]_(Contract!vars)
<1> SUFFICES ASSUME RInv, IInv', [Next]_vars
             PROVE  Contract!NextAnySuccessor \/ UNCHANGED Contract!vars
  OBVIOUS
<1>1. ASSUME NEW t \in Threads, Step(t)
      PROVE  Contract!NextAnySuccessor \/ UNCHANGED Contract!vars
  <2>1. CASE WriteFlags(t)
    BY <2>1, WriteFlagsStep, SameTypes DEF Contract!NextAnySuccessor, Contract!RegisterOrConfigure
  <2>2. CASE WriteUid(t)
    BY <2>2, WriteUidStep
  <2>3. CASE ~WriteFlags(t) /\ ~WriteUid(t) /\ UNCHANGED data
    BY <1>1, <2>3, QuietStep DEF RInv
  <2>4. CASE WslRegisterDistribution(t) /\ ~UNCHANGED data
    BY <2>4, RegisterStep DEF Contract!NextAnySuccessor, Contract!RegisterOrConfigure
  <2>5. CASE WslUnregisterDistribution(t) /\ ~UNCHANGED data
    BY <2>5, UnregisterStep DEF Contract!NextAnySuccessor
  <2>6. CASE SetAsDefault(t) /\ ~UNCHANGED data
    BY <2>6, SetAsDefaultStep DEF Contract!NextAnySuccessor, Contract!RegisterOrConfigure
  <2> QED
    BY <1>1, <2>1, <2>2, <2>3, <2>4, <2>5, <2>6
    DEF Step, Lookup, Enter, OpenRoot, NextSubkey, ListDone, ReadDefault, DefaultDone, Look,
        Looked, ReadUid, ReadFlags, GotConfiguration, LockKey, LockRoot
<1>2. CASE UNCHANGED <<data, at, key, got>>
  BY <1>2, Quiet DEF RInv
<1> QED
  BY <1>1, <1>2 DEF Next, Begin, vars, local

\* Every call changes the registry in one step, as if there were no locks and
\* nobody else, for any goroutines, names, GUIDs and flags (all of
\* mock/win32.go:226-306, 43-47 and wslexe.go:63-73), whichever distro
\* follows a default one that is removed.
THEOREM Refinement == Spec => CallsAreAtomic
<1>1. Spec => Init /\ []RInv /\ [][Next]_vars
  BY Strengthened, PTL DEF Spec
<1>2. RInv => IInv
  BY DEF RInv
<1> QED
  BY <1>1, <1>2, InitRegistry, StepRegistry, PTL DEF CallsAreAtomic, Contract!SpecAnySuccessor
=============================================================================
