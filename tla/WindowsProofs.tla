---------------------------- MODULE WindowsProofs ----------------------------
(***************************************************************************)
(* Safety of the calls on the Windows back-end, for any distros, users and *)
(* configurations, and any number of changes by other programs.            *)
(***************************************************************************)
EXTENDS WindowsInv, TLAPS

(***************************************************************************)
(* Flags.                                                                  *)
(***************************************************************************)
LEMMA Bits ==
    ASSUME NEW f \in WslFlags
    PROVE  /\ Has(f, 1) <=> f \in {1, 3, 5, 7, 9, 11, 13, 15}
           /\ Has(f, 2) <=> f \in {2, 3, 6, 7, 10, 11, 14, 15}
           /\ Has(f, 4) <=> f \in {4, 5, 6, 7, 12, 13, 14, 15}
           /\ Has(f, 8) <=> f \in {8, 9, 10, 11, 12, 13, 14, 15}
BY DEF WslFlags, Has

\* A flags word is the sum of its bits.
LEMMA BitSum ==
    ASSUME NEW f \in WslFlags
    PROVE  f = Bit(Has(f, 1), 1) + Bit(Has(f, 2), 2) + Bit(Has(f, 4), 4) + Bit(Has(f, 8), 8)
BY Bits DEF WslFlags, Bit

\* So is what pack makes.
LEMMA PackSum ==
    ASSUME NEW i \in BOOLEAN, NEW p \in BOOLEAN, NEW d \in BOOLEAN, NEW v \in {1, 2}
    PROVE  Pack([InteropEnabled |-> i, PathAppended |-> p, DriveMountingEnabled |-> d,
                 UndocumentedWSLVersion |-> v])
            = Bit(i, 1) + Bit(p, 2) + Bit(d, 4) + Bit(v = 2, 8)
BY DEF Pack, Bit, flag_ENABLE_INTEROP, flag_APPEND_NT_PATH, flag_ENABLE_DRIVE_MOUNTING,
       flag_undocumented_WSL_VERSION

\* The packed form of Unpack(f) with any value in one field.
LEMMA PackOne ==
    ASSUME NEW f \in WslFlags, NEW i \in BOOLEAN, NEW p \in BOOLEAN, NEW d \in BOOLEAN
    PROVE  Pack([InteropEnabled |-> i, PathAppended |-> p, DriveMountingEnabled |-> d,
                 UndocumentedWSLVersion |-> IF Has(f, 8) THEN 2 ELSE 1])
            = Bit(i, 1) + Bit(p, 2) + Bit(d, 4) + Bit(Has(f, 8), 8)
<1> DEFINE v == IF Has(f, 8) THEN 2 ELSE 1
<1>1. v \in {1, 2} /\ Bit(v = 2, 8) = Bit(Has(f, 8), 8)
  BY DEF Bit
<1> HIDE DEF v
<1>2. Pack([InteropEnabled |-> i, PathAppended |-> p, DriveMountingEnabled |-> d,
            UndocumentedWSLVersion |-> v])
        = Bit(i, 1) + Bit(p, 2) + Bit(d, 4) + Bit(v = 2, 8)
  BY <1>1, PackSum
<1> QED
  BY <1>1, <1>2 DEF v

\* Unpack reads the bits, one for each field.
LEMMA UnpackIs ==
    ASSUME NEW f
    PROVE  /\ Unpack(f) = [InteropEnabled |-> Has(f, 1), PathAppended |-> Has(f, 2),
                           DriveMountingEnabled |-> Has(f, 4),
                           UndocumentedWSLVersion |-> IF Has(f, 8) THEN 2 ELSE 1]
           /\ Has(f, 1) \in BOOLEAN /\ Has(f, 2) \in BOOLEAN /\ Has(f, 4) \in BOOLEAN
BY DEF Unpack, Has, flag_ENABLE_INTEROP, flag_APPEND_NT_PATH, flag_ENABLE_DRIVE_MOUNTING,
       flag_undocumented_WSL_VERSION

\* Unpacking and packing again gives the flags that were read, the bit of the
\* WSL version included (flags.go, packed.go): no setter loses one.
THEOREM RoundTrip ==
    ASSUME NEW f \in WslFlags
    PROVE  Packable(Unpack(f)) /\ Pack(Unpack(f)) = f
<1>1. Packable(Unpack(f))
  BY UnpackIs DEF Packable
<1> DEFINE R == [InteropEnabled |-> Has(f, 1), PathAppended |-> Has(f, 2),
                 DriveMountingEnabled |-> Has(f, 4),
                 UndocumentedWSLVersion |-> IF Has(f, 8) THEN 2 ELSE 1]
           S == Bit(Has(f, 1), 1) + Bit(Has(f, 2), 2) + Bit(Has(f, 4), 4) + Bit(Has(f, 8), 8)
<1>2. Pack(R) = S /\ Unpack(f) = R
  <2>1. Has(f, 1) \in BOOLEAN /\ Has(f, 2) \in BOOLEAN /\ Has(f, 4) \in BOOLEAN
    BY UnpackIs, Zenon
  <2>2. Pack(R) = S
    BY <2>1, PackOne, Zenon
  <2>3. Unpack(f) = R
    BY UnpackIs, Zenon
  <2> QED
    BY <2>2, <2>3, Zenon
<1>3. S = f
  BY BitSum, Zenon
<1> HIDE DEF R, S
<1> QED
  BY <1>1, <1>2, <1>3

\* Changing one field changes its bit alone.
LEMMA OneBit ==
    ASSUME NEW f \in WslFlags, NEW v \in BOOLEAN
    PROVE  /\ Pack([Unpack(f) EXCEPT !["InteropEnabled"] = v]) = f - Bit(Has(f, 1), 1) + Bit(v, 1)
           /\ Pack([Unpack(f) EXCEPT !["PathAppended"] = v]) = f - Bit(Has(f, 2), 2) + Bit(v, 2)
           /\ Pack([Unpack(f) EXCEPT !["DriveMountingEnabled"] = v])
                  = f - Bit(Has(f, 4), 4) + Bit(v, 4)
<1> DEFINE R(i, p, d) == [InteropEnabled |-> i, PathAppended |-> p, DriveMountingEnabled |-> d,
                          UndocumentedWSLVersion |-> IF Has(f, 8) THEN 2 ELSE 1]
           S(i, p, d) == Bit(i, 1) + Bit(p, 2) + Bit(d, 4) + Bit(Has(f, 8), 8)
<1>1. Unpack(f) = R(Has(f, 1), Has(f, 2), Has(f, 4))
  BY UnpackIs, Zenon
<1>2. /\ [Unpack(f) EXCEPT !["InteropEnabled"] = v] = R(v, Has(f, 2), Has(f, 4))
      /\ [Unpack(f) EXCEPT !["PathAppended"] = v] = R(Has(f, 1), v, Has(f, 4))
      /\ [Unpack(f) EXCEPT !["DriveMountingEnabled"] = v] = R(Has(f, 1), Has(f, 2), v)
  <2> DEFINE i == Has(f, 1)
             p == Has(f, 2)
             d == Has(f, 4)
             w == IF Has(f, 8) THEN 2 ELSE 1
             b == v
             u == Unpack(f)
  <2>1. u = [InteropEnabled |-> i, PathAppended |-> p, DriveMountingEnabled |-> d,
                     UndocumentedWSLVersion |-> w]
    BY <1>1, Zenon
  <2> HIDE DEF i, p, d, w, b, u
  <2>2. [u EXCEPT !["InteropEnabled"] = b]
          = [InteropEnabled |-> b, PathAppended |-> p, DriveMountingEnabled |-> d,
             UndocumentedWSLVersion |-> w]
    BY <2>1
  <2>3. [u EXCEPT !["PathAppended"] = b]
          = [InteropEnabled |-> i, PathAppended |-> b, DriveMountingEnabled |-> d,
             UndocumentedWSLVersion |-> w]
    BY <2>1
  <2>4. [u EXCEPT !["DriveMountingEnabled"] = b]
          = [InteropEnabled |-> i, PathAppended |-> p, DriveMountingEnabled |-> b,
             UndocumentedWSLVersion |-> w]
    BY <2>1
  <2> QED
    BY <2>2, <2>3, <2>4, Zenon DEF i, p, d, w, b, u
<1>3. Has(f, 1) \in BOOLEAN /\ Has(f, 2) \in BOOLEAN /\ Has(f, 4) \in BOOLEAN
  BY UnpackIs, Zenon
<1>4. /\ Pack(R(v, Has(f, 2), Has(f, 4))) = S(v, Has(f, 2), Has(f, 4))
      /\ Pack(R(Has(f, 1), v, Has(f, 4))) = S(Has(f, 1), v, Has(f, 4))
      /\ Pack(R(Has(f, 1), Has(f, 2), v)) = S(Has(f, 1), Has(f, 2), v)
  BY <1>3, PackOne, Zenon
<1>5. f = S(Has(f, 1), Has(f, 2), Has(f, 4))
  BY BitSum, Zenon
<1>6. /\ Bit(v, 1) \in Int /\ Bit(v, 2) \in Int /\ Bit(v, 4) \in Int
      /\ Bit(Has(f, 1), 1) \in Int /\ Bit(Has(f, 2), 2) \in Int /\ Bit(Has(f, 4), 4) \in Int
      /\ Bit(Has(f, 8), 8) \in Int
  BY DEF Bit
<1>7. /\ S(v, Has(f, 2), Has(f, 4)) = f - Bit(Has(f, 1), 1) + Bit(v, 1)
      /\ S(Has(f, 1), v, Has(f, 4)) = f - Bit(Has(f, 2), 2) + Bit(v, 2)
      /\ S(Has(f, 1), Has(f, 2), v) = f - Bit(Has(f, 4), 4) + Bit(v, 4)
  BY <1>5, <1>6
<1> HIDE DEF R, S
<1> QED
  BY <1>2, <1>4, <1>7
-----------------------------------------------------------------------------
(***************************************************************************)
(* What Windows may do between two steps of a call, and what it keeps.     *)
(***************************************************************************)
Kept ==
    /\ name' \in [Guids -> Names \cup {NoName}] /\ conf' \in [Guids -> Confs]
    /\ Registered' \subseteq used' /\ used \subseteq used'
    /\ Unique'
    /\ \A g \in used \cap Registered' : g \in Registered /\ name'[g] = name[g]

\* Without a registration or removal all names are kept.
LEMMA SameKept ==
    ASSUME Typed, Unique, UNCHANGED <<name, used>>, conf' \in [Guids -> Confs]
    PROVE  Kept /\ Registered' = Registered
BY DEF Typed, Unique, Kept, Registered

\* A registration keeps all other names, and names the new distro.
LEMMA RegistersKept ==
    ASSUME Typed, Unique, NEW g \in Guids, NEW nm \in Names, Registers(g, nm)
    PROVE  Kept /\ g \in Registered' /\ name'[g] = nm
<1>1. nm # NoName
  BY NamesAssumption
<1>2. /\ g \notin used /\ used' = used \cup {g} /\ conf' = conf
      /\ \A h \in Registered : name[h] # nm
      /\ name' = [name EXCEPT ![g] = nm]
  BY DEF Registers
<1>3. \A h \in Guids : name'[h] = IF h = g THEN nm ELSE name[h]
  BY <1>2 DEF Typed
<1>4. Registered' = Registered \cup {g}
  BY <1>1, <1>3 DEF Registered
<1>5. Unique'
  BY <1>2, <1>3, <1>4 DEF Unique, Registered
<1>6. name' \in [Guids -> Names \cup {NoName}]
  BY <1>2 DEF Typed
<1> QED
  BY <1>2, <1>3, <1>4, <1>5, <1>6 DEF Kept, Typed, Registered

\* A removal keeps all names but one.
LEMMA UnregistersKept ==
    ASSUME Typed, Unique, NEW g \in Guids, Unregisters(g)
    PROVE  Kept /\ Registered' = Registered \ {g} /\ \A h \in Registered' : name'[h] = name[h]
<1>1. used' = used /\ conf' = conf /\ name' = [name EXCEPT ![g] = NoName]
  BY DEF Unregisters
<1>2. \A h \in Guids : name'[h] = IF h = g THEN NoName ELSE name[h]
  BY <1>1 DEF Typed
<1>3. Registered' = Registered \ {g}
  BY <1>2 DEF Registered
<1>4. Unique'
  BY <1>2, <1>3 DEF Unique, Registered
<1>5. name' \in [Guids -> Names \cup {NoName}]
  BY <1>1 DEF Typed
<1> QED
  BY <1>1, <1>2, <1>3, <1>4, <1>5 DEF Kept, Typed, Registered

\* Guid is the subject's, if there is one.
LEMMA TheGuid ==
    ASSUME Exists
    PROVE  Guid \in Guids /\ Guid \in Registered /\ name[Guid] = subject
BY DEF Exists, Guid, Registered

\* A configuration is written with the flags packed.
LEMMA ConfiguredKept ==
    ASSUME Typed, Unique, NEW g \in Guids, NEW c \in Confs, IsConfigured(g, c)
    PROVE  Kept /\ name' = name
<1>1. conf' \in [Guids -> Confs]
  BY DEF Typed, IsConfigured
<1> QED
  BY <1>1, SameKept DEF IsConfigured

\* Other programs keep names unique, and leave a mark when they change what a
\* setter relies on.
LEMMA OthersKept ==
    ASSUME Typed, Unique, OthersAct
    PROVE  /\ Kept /\ subject' = subject
           /\ resized' \/ name' = name
           /\ reconfigured' \/ conf' = conf
           /\ resized => resized'
           /\ reconfigured => reconfigured'
<1>1. subject' = subject /\ resized' = (resized \/ name' # name)
  BY DEF OthersAct, Remember
<1>2. CASE \E g \in Guids, nm \in Names : Registers(g, nm) /\ UNCHANGED reconfigured
  <2>1. PICK g \in Guids, nm \in Names : Registers(g, nm) /\ UNCHANGED reconfigured
    BY <1>2
  <2>2. Kept /\ conf' = conf
    BY <2>1, RegistersKept DEF Registers
  <2> QED
    BY <1>1, <2>1, <2>2
<1>3. CASE \E g \in Registered : Unregisters(g) /\ UNCHANGED reconfigured
  <2>1. PICK g \in Guids : Unregisters(g) /\ UNCHANGED reconfigured
    BY <1>3 DEF Registered
  <2>2. Kept /\ conf' = conf
    BY <2>1, UnregistersKept DEF Unregisters
  <2> QED
    BY <1>1, <2>1, <2>2
<1>4. CASE /\ UNCHANGED <<name, conf, used, reconfigured>>
  BY <1>1, <1>4, SameKept DEF Typed
<1>5. CASE (\E g \in Registered, c \in SomeConfs : IsConfigured(g, c)) /\ reconfigured' = TRUE
  <2>1. PICK g \in Guids, c \in Confs : IsConfigured(g, c)
    BY <1>5, SomeConfsAssumption DEF Registered
  <2> QED
    BY <1>1, <1>5, <2>1, ConfiguredKept
<1> QED
  BY <1>2, <1>3, <1>4, <1>5 DEF OthersAct, BecomesDefault, Goes
-----------------------------------------------------------------------------
(***************************************************************************)
(* The parts of the invariant.                                             *)
(***************************************************************************)
LEMMA KeptParts ==
    ASSUME IInv, Kept, UNCHANGED <<call, subject, distros, got, process, found>>
    PROVE  Typed' /\ Unique' /\ Listings' /\ Handled'
<1>1. Typed'
  BY DEF IInv, Typed, Kept
<1>2. Unique' /\ Handled'
  BY DEF IInv, Kept, Handled
<1>3. Listings'
  BY DEF IInv, Typed, Kept, Listings
<1> QED
  BY <1>1, <1>2, <1>3

\* What was read stays current as long as there is no such mark.
LEMMA StaysFresh ==
    ASSUME Fresh, UNCHANGED <<got, subject>>, pc' # "done" => pc # "done",
           resized' \/ name' = name, reconfigured' \/ conf' = conf,
           resized => resized', reconfigured => reconfigured'
    PROVE  Fresh'
<1>1. SUFFICES ASSUME got' # <<>>, pc' # "done", ~resized', ~reconfigured'
               PROVE  Exists' /\ got'[1] = [uid |-> conf'[Guid'].uid,
                                            flags |-> Unpack(conf'[Guid'].flags)]
  BY DEF Fresh
<1>2. name' = name /\ conf' = conf
  BY <1>1
<1>3. Registered' = Registered
  BY <1>2 DEF Registered
<1>4. (Exists' <=> Exists) /\ Guid' = Guid
  BY <1>2, <1>3 DEF Exists, Guid
<1>5. Exists /\ got[1] = [uid |-> conf[Guid].uid, flags |-> Unpack(conf[Guid].flags)]
  BY <1>1 DEF Fresh
<1> QED
  BY <1>2, <1>4, <1>5

\* A step of the call that leaves Windows alone.
LEMMA QuietParts ==
    ASSUME IInv, UNCHANGED <<windows, call, distros, got, process, found>>,
           pc' # "done" => pc # "done", Control'
    PROVE  IInv'
<1>1. Kept
  BY SameKept DEF IInv, Typed, windows, wsl
<1>2. Fresh'
  BY StaysFresh DEF IInv, windows, wsl, history
<1> QED
  BY <1>1, <1>2, KeptParts DEF IInv, windows, wsl
-----------------------------------------------------------------------------
(***************************************************************************)
(* Every state satisfies the invariant.                                    *)
(***************************************************************************)
LEMMA InitIInv ==
    ASSUME Init
    PROVE  IInv
<1>1. Typed
  BY SomeConfsAssumption DEF Init, Typed, Registered
<1>2. Unique /\ Listings /\ Fresh /\ Handled
  BY DEF Init, Unique, Listings, Fresh, Handled
<1>3. Control
  BY DEF Init, Control
<1> QED
  BY <1>1, <1>2, <1>3 DEF IInv

\* Listing the distros keeps the invariant.
LEMMA ListingStep ==
    ASSUME IInv, Stat \/ Enumerate \/ ReadName \/ Listed
    PROVE  IInv'
<1>1. CASE Stat
  <2>1. Control' /\ (pc' # "done" => pc # "done")
    BY <1>1 DEF Stat, ListingFails, IInv, Control, Continue, Return
  <2>2. Kept
    BY <1>1, SameKept DEF Stat, IInv, Typed, windows, wsl
  <2>3. Typed' /\ Unique' /\ Handled'
    BY <1>1, <2>2 DEF Stat, IInv, Typed, Kept, Handled, windows, launching, listing
  <2>4. Listings'
    <3>1. UNCHANGED <<name, used, distros>> \/ distros' = [n \in Names |-> NoGuid]
      BY <1>1 DEF Stat, listing, windows, wsl
    <3> QED
      BY <3>1 DEF IInv, Listings, Registered
  <2>5. Fresh'
    BY <1>1, <2>1, StaysFresh DEF Stat, IInv, windows, wsl, history
  <2> QED
    BY <2>1, <2>3, <2>4, <2>5 DEF IInv
<1>2. CASE Enumerate
  <2>1. Control' /\ (pc' # "done" => pc # "done")
    BY <1>2 DEF Enumerate, NextKey, ListingFails, IInv, Control, Continue, Return
  <2> QED
    BY <1>2, <2>1, QuietParts DEF Enumerate, launching
<1>3. CASE ReadName
  <2>1. Control' /\ (pc' # "done" => pc # "done")
    BY <1>3 DEF ReadName, NameRead, ListingFails, IInv, Control, Return
  <2>2. CASE distros' = distros
    BY <1>3, <2>1, <2>2, QuietParts DEF ReadName, launching
  <2>3. CASE distros' # distros
    <3>1. PICK k \in Registered : distros' = [distros EXCEPT ![name[k]] = k]
      BY <1>3, <2>3 DEF ReadName, NameRead, Opens
    <3>2. k \in Guids /\ k \in used /\ name[k] \in Names
      BY DEF Registered, IInv, Typed
    <3>3. distros' \in [Names -> Guids \cup {NoGuid}]
      BY <3>1, <3>2 DEF IInv, Typed
    <3>4. UNCHANGED <<windows, call, got, process, found>>
      BY <1>3 DEF ReadName, launching
    <3>5. Kept
      BY <3>4, SameKept DEF IInv, Typed, windows, wsl
    <3>6. Typed' /\ Unique' /\ Handled'
      BY <3>3, <3>4, <3>5 DEF IInv, Typed, Kept, Handled, windows
    <3>7. Registered' = Registered /\ name' = name /\ used' = used
      BY <3>4 DEF windows, wsl, Registered
    <3>8. Listings'
      BY <3>1, <3>2, <3>3, <3>7 DEF IInv, Typed, Listings
    <3>9. Fresh'
      BY <2>1, <3>4, StaysFresh DEF IInv, windows, wsl, history
    <3> QED
      BY <2>1, <3>6, <3>8, <3>9 DEF IInv
  <2> QED
    BY <2>2, <2>3
<1>4. CASE Listed
  <2>1. pc # "done" /\ ret = "none"
    BY <1>4 DEF Listed, IInv, Control
  <2>2. Control'
    <3>1. UNCHANGED <<call, got>>
      BY <1>4 DEF Listed
    <3>2. \/ pc' = "done"
          \/ ret' = ret /\ pc' = "callDll"
          \/ ret' = ret /\ pc' = "listVerbose"
          \/ ret' = ret /\ pc' = "open"
          \/ ret' = ret /\ pc' = "get" /\ call.method \in {"GetConfiguration", "Set"}
          \/ ret' = ret /\ pc' = "put" /\ call.method = "Set" /\ got # <<>>
          \/ ret' = ret /\ pc' = "launch" /\ call.method = "Start"
      BY <1>4 DEF Listed, Continue, Return
    <3> QED
      BY <2>1, <3>1, <3>2 DEF Control
  <2> QED
    BY <1>4, <2>1, <2>2, QuietParts DEF Listed, listing, launching
<1> QED
  BY <1>1, <1>2, <1>3, <1>4

\* A run of wsl.exe keeps the invariant.
LEMMA WslExeStep ==
    ASSUME IInv, GetState \/ WslExe
    PROVE  IInv'
<1>1. CASE GetState
  <2>1. pc' = "done"
    BY <1>1 DEF GetState, Fails, Return
  <2>2. Control' /\ pc # "done"
    BY <1>1, <2>1 DEF Control, GetState
  <2> QED
    BY <1>1, <2>2, QuietParts DEF GetState, listing, launching
<1>2. CASE WslExe
  <2>1. pc' = "done" /\ UNCHANGED <<subject, call, distros, got, process, found>>
    BY <1>2 DEF WslExe, Fails, Return, listing, launching
  <2>2. Control' /\ Fresh'
    BY <2>1 DEF Control, Fresh
  <2>3. Kept
    <3>1. CASE Serve
      <4>1. CASE \E g \in Guids : Registers(g, subject)
        BY <4>1, RegistersKept DEF IInv, Typed
      <4>2. CASE UNCHANGED <<name, conf, used>>
        BY <4>2, SameKept DEF IInv, Typed
      <4> QED
        BY <3>1, <4>1, <4>2 DEF Serve, Goes, BecomesDefault
    <3>2. CASE UNCHANGED wsl
      BY <3>2, SameKept DEF IInv, Typed, wsl
    <3> QED
      BY <1>2, <3>1, <3>2 DEF WslExe
  <2> QED
    BY <2>1, <2>2, <2>3, KeptParts DEF IInv
<1> QED
  BY <1>1, <1>2

\* A call of wslapi.dll keeps the invariant.
LEMMA CallDllStep ==
    ASSUME IInv, CallDll \/ OpenPackage
    PROVE  IInv'
<1>1. CASE OpenPackage
  <2>1. Control' /\ pc # "done"
    BY <1>1 DEF OpenPackage, IInv, Control, Continue, Return
  <2> QED
    BY <1>1, <2>1, QuietParts DEF OpenPackage, listing, launching
<1>2. CASE CallDll
  <2>1. pc' = "done" /\ UNCHANGED <<subject, call, distros, got, process, found>>
    BY <1>2 DEF CallDll, ShellError, Return, listing, launching
  <2>2. Control' /\ Fresh'
    BY <2>1 DEF Control, Fresh
  <2>3. Kept
    <3>1. CASE DllServes
      <4>1. CASE \E g \in Guids : Registers(g, subject)
        BY <4>1, RegistersKept DEF IInv, Typed
      <4>2. CASE Exists /\ Unregisters(Guid)
        BY <4>2, TheGuid, UnregistersKept DEF IInv
      <4>3. CASE UNCHANGED <<name, conf, used>>
        BY <4>3, SameKept DEF IInv, Typed
      <4> QED
        BY <3>1, <4>1, <4>2, <4>3 DEF DllServes, Goes
    <3>2. CASE UNCHANGED wsl
      BY <3>2, SameKept DEF IInv, Typed, wsl
    <3> QED
      BY <1>2, <3>1, <3>2 DEF CallDll
  <2> QED
    BY <2>1, <2>2, <2>3, KeptParts DEF IInv
<1> QED
  BY <1>1, <1>2

\* Launching a process, and its exit, keep the invariant.
LEMMA LaunchStep ==
    ASSUME IInv, CallWslLaunch \/ GetProcessId \/ FindProcess \/ ProcessExits
    PROVE  IInv'
<1>1. CASE CallWslLaunch
  <2>1. UNCHANGED <<subject, reconfigured, call, distros, got, found>>
    BY <1>1 DEF CallWslLaunch, listing
  <2>2. UNCHANGED <<name, conf, used>> /\ (resized => resized')
    <3>1. CASE \E g \in Guids : Goes({g}, "Running") /\ Remember
      BY <3>1, Zenon DEF Goes, Remember
    <3>2. CASE UNCHANGED <<wsl, resized>>
      BY <3>2 DEF wsl
    <3> QED
      BY <1>1, <3>1, <3>2, TheGuid DEF CallWslLaunch
  <2>3. Control' /\ pc # "done"
    BY <1>1, <2>1 DEF CallWslLaunch, IInv, Control, Continue, Return
  <2>4. process' = process \/ process' = [alive |-> TRUE, handle |-> TRUE, pid |-> "ours"]
    BY <1>1 DEF CallWslLaunch
  <2>5. Kept
    BY <2>2, SameKept DEF IInv, Typed
  <2>6. Typed' /\ Unique' /\ Handled'
    <3>1. process' \in [alive : BOOLEAN, handle : BOOLEAN, pid : {"nobody", "ours", "another"}]
      <4>1. process \in [alive : BOOLEAN, handle : BOOLEAN, pid : {"nobody", "ours", "another"}]
        BY DEF IInv, Typed
      <4>2. [alive |-> TRUE, handle |-> TRUE, pid |-> "ours"]
              \in [alive : BOOLEAN, handle : BOOLEAN, pid : {"nobody", "ours", "another"}]
        OBVIOUS
      <4> QED
        BY <2>4, <4>1, <4>2, Zenon
    <3>2. Typed'
      BY <2>1, <2>5, <3>1 DEF IInv, Typed, Kept
    <3>3. Handled'
      BY <2>1, <2>4 DEF IInv, Handled
    <3> QED
      BY <2>5, <3>2, <3>3 DEF Kept
  <2>7. Listings'
    BY <2>1, <2>5 DEF IInv, Typed, Kept, Listings
  <2>8. Fresh'
    BY <2>1, <2>2, <2>3, StaysFresh DEF IInv
  <2> QED
    BY <2>3, <2>6, <2>7, <2>8 DEF IInv
<1>2. CASE GetProcessId
  <2>1. Control' /\ pc # "done"
    BY <1>2 DEF GetProcessId, IInv, Control, Continue, Return
  <2> QED
    BY <1>2, <2>1, QuietParts DEF GetProcessId, listing, launching
<1>3. CASE FindProcess \/ ProcessExits
  <2>1. UNCHANGED <<windows, call, distros, got>>
    BY <1>3 DEF FindProcess, ProcessExits, listing
  <2>2. Control' /\ (pc' # "done" => pc # "done")
    BY <1>3, <2>1 DEF FindProcess, ProcessExits, IInv, Control, Return
  <2>3. Handled' /\ process' \in [alive : BOOLEAN, handle : BOOLEAN, pid : {"nobody", "ours", "another"}]
    BY <1>3 DEF FindProcess, ProcessExits, IInv, Typed, Handled
  <2>4. Kept
    BY <2>1, SameKept DEF IInv, Typed, windows, wsl
  <2>5. Typed' /\ Unique'
    BY <2>1, <2>3, <2>4 DEF IInv, Typed, Kept, windows
  <2>6. Listings'
    BY <2>1, <2>4 DEF IInv, Typed, Kept, Listings
  <2>7. Fresh'
    BY <2>1, <2>2, StaysFresh DEF IInv, windows, wsl, history
  <2> QED
    BY <2>2, <2>3, <2>5, <2>6, <2>7 DEF IInv
<1> QED
  BY <1>1, <1>2, <1>3

(***************************************************************************)
(* Reading and writing a configuration.                                    *)
(***************************************************************************)
Configurations == [uid : Users, flags : Unpacked]

\* Whatever is unpacked is a record of flags.
LEMMA UnpackType ==
    ASSUME NEW f
    PROVE  Unpack(f) \in Unpacked
<1> DEFINE w == IF Has(f, 8) THEN 2 ELSE 1
<1>1. w \in 0..255
  OBVIOUS
<1>2. /\ Unpack(f) = [InteropEnabled |-> Has(f, 1), PathAppended |-> Has(f, 2),
                      DriveMountingEnabled |-> Has(f, 4), UndocumentedWSLVersion |-> w]
      /\ Has(f, 1) \in BOOLEAN /\ Has(f, 2) \in BOOLEAN /\ Has(f, 4) \in BOOLEAN
  BY UnpackIs, Zenon
<1> HIDE DEF w
<1> QED
  BY <1>1, <1>2 DEF Unpacked

\* Whatever is packed is a flags word.
LEMMA PackType ==
    ASSUME NEW u \in Unpacked
    PROVE  Pack(u) \in WslFlags
BY DEF Pack, Unpacked, WslFlags, Bit, flag_ENABLE_INTEROP, flag_APPEND_NT_PATH,
       flag_ENABLE_DRIVE_MOUNTING, flag_undocumented_WSL_VERSION

\* What a setter sets: the user, or one of three flags.
LEMMA Setting ==
    ASSUME call \in Calls
    PROVE  \/ call.field = "uid" /\ call.value \in Users
           \/ call.field \in Flags /\ call.field # "uid" /\ call.value \in BOOLEAN
<1>1. CASE call \in [method : Listing \cup Direct, field : Flags, value : BOOLEAN]
  BY <1>1 DEF Flags
<1>2. CASE call \in [method : Listing \cup Direct, field : {"uid"}, value : Users]
  BY <1>2
<1> QED
  BY <1>1, <1>2, CallsAssumption

\* What it writes.
LEMMA ChangedIs ==
    ASSUME call \in Calls, NEW c \in Configurations
    PROVE  /\ Changed(c) \in Configurations
           /\ call.field = "uid" => Changed(c) = [uid |-> call.value, flags |-> c.flags]
           /\ call.field # "uid" =>
                 Changed(c) = [uid |-> c.uid, flags |-> [c.flags EXCEPT ![call.field] = call.value]]
<1> DEFINE u == c.flags
           x == call.field
           v == call.value
<1>1. u \in Unpacked /\ c.uid \in Users /\ c = [uid |-> c.uid, flags |-> u]
  BY DEF Configurations
<1>2. CASE x = "uid"
  <2>1. v \in Users
    BY <1>2, Setting DEF Flags
  <2>2. Changed(c) = [c EXCEPT !.uid = v]
    BY <1>2, Zenon DEF Changed
  <2> HIDE DEF u, v
  <2>3. [c EXCEPT !.uid = v] = [uid |-> v, flags |-> u]
    BY <1>1
  <2>4. [uid |-> v, flags |-> u] \in Configurations
    BY <1>1, <2>1 DEF Configurations
  <2>5. Changed(c) = [uid |-> v, flags |-> u] /\ Changed(c) \in Configurations
    BY <2>2, <2>3, <2>4, Zenon
  <2> QED
    BY <1>2, <2>5, Zenon DEF u, v
<1>3. CASE x # "uid"
  <2> DEFINE n == [u EXCEPT ![x] = v]
  <2>1. v \in BOOLEAN /\ x \in Flags
    BY <1>3, Setting
  <2>2. Changed(c) = [c EXCEPT !.flags[x] = v]
    BY <1>3, Zenon DEF Changed
  <2>3. n \in Unpacked
    <3> HIDE DEF u, x, v
    <3>2. CASE x = "InteropEnabled"
      BY <1>1, <2>1, <3>2 DEF Unpacked
    <3>3. CASE x = "PathAppended"
      BY <1>1, <2>1, <3>3 DEF Unpacked
    <3>4. CASE x = "DriveMountingEnabled"
      BY <1>1, <2>1, <3>4 DEF Unpacked
    <3> QED
      BY <2>1, <3>2, <3>3, <3>4 DEF Flags
  <2>4. [c EXCEPT !.flags[x] = v] = [c EXCEPT !.flags = n]
    BY Zenon DEF n
  <2> HIDE DEF u, n, x, v
  <2>5. [c EXCEPT !.flags = n] = [uid |-> c.uid, flags |-> n]
    BY <1>1
  <2>6. [uid |-> c.uid, flags |-> n] \in Configurations
    BY <1>1, <2>3 DEF Configurations
  <2>7. Changed(c) = [uid |-> c.uid, flags |-> n] /\ Changed(c) \in Configurations
    BY <2>2, <2>4, <2>5, <2>6, Zenon
  <2> QED
    BY <1>3, <2>7, Zenon DEF n, u, x, v
<1> QED
  BY <1>2, <1>3, Zenon

\* Reading and writing a configuration keep the invariant.
LEMMA ConfigurationStep ==
    ASSUME IInv, WslGetDistributionConfiguration \/ processEnvVariables \/ WslConfigureDistribution
    PROVE  IInv'
<1>1. CASE WslGetDistributionConfiguration
  <2>1. UNCHANGED <<windows, call, distros, process, found>> /\ pc = "get"
    BY <1>1 DEF WslGetDistributionConfiguration, listing, launching
  <2>2. Control'
    BY <1>1, <2>1 DEF WslGetDistributionConfiguration, IInv, Control, Continue, Return
  <2>3. CASE Exists /\ got' = <<[uid |-> conf[Guid].uid, flags |-> Unpack(conf[Guid].flags)]>>
    <3>1. conf[Guid] \in Confs
      BY <2>3, TheGuid DEF IInv, Typed
    <3>2. got'[1] = [uid |-> conf[Guid].uid, flags |-> Unpack(conf[Guid].flags)]
      BY <2>3
    <3>3. conf[Guid].uid \in Users /\ Unpack(conf[Guid].flags) \in Unpacked
      BY <3>1, UnpackType DEF Confs
    <3>4. got'[1] \in [uid : Users, flags : Unpacked]
      BY <3>2, <3>3
    <3>5. Kept /\ Registered' = Registered
      BY <2>1, SameKept DEF IInv, Typed, windows, wsl
    <3>6. Typed' /\ Unique' /\ Listings' /\ Handled'
      <4>1. Typed'
        BY <2>1, <3>4, <3>5 DEF IInv, Typed, Kept, windows
      <4>2. Unique' /\ Handled'
        BY <2>1, <3>5 DEF IInv, Kept, Handled
      <4>3. Listings'
        BY <2>1, <3>5 DEF IInv, Listings, windows, wsl
      <4> QED
        BY <4>1, <4>2, <4>3
    <3>7. Exists' /\ Guid' = Guid /\ conf' = conf
      BY <2>1, <2>3, <3>5 DEF Exists, Guid, windows, wsl
    <3> QED
      BY <2>2, <3>2, <3>6, <3>7 DEF IInv, Fresh
  <2>4. CASE got' = got
    BY <2>1, <2>2, <2>4, QuietParts
  <2> QED
    BY <1>1, <2>3, <2>4 DEF WslGetDistributionConfiguration
<1>2. CASE WslConfigureDistribution
  <2>1. pc' = "done" /\ UNCHANGED <<subject, call, distros, got, process, found>>
    BY <1>2 DEF WslConfigureDistribution, Return, listing, launching
  <2>2. Control' /\ Fresh'
    BY <2>1 DEF Control, Fresh
  <2>3. CASE UNCHANGED wsl
    <3>1. Kept
      BY <2>3, SameKept DEF IInv, Typed, wsl
    <3> QED
      BY <2>1, <2>2, <3>1, KeptParts DEF IInv
  <2>4. CASE LET c == Changed(got[1]) IN
             Exists /\ IsConfigured(Guid, [uid |-> c.uid, flags |-> Pack(c.flags)])
    <3> DEFINE c == Changed(got[1])
    <3>1. got[1] \in Configurations
      BY <1>2 DEF WslConfigureDistribution, IInv, Control, Typed, Configurations
    <3>2. c \in Configurations
      BY <3>1, ChangedIs DEF IInv, Typed
    <3> HIDE DEF c
    <3>3. [uid |-> c.uid, flags |-> Pack(c.flags)] \in Confs
      BY <3>2, PackType DEF Configurations, Confs
    <3>4. Kept
      BY <2>4, <3>3, TheGuid, ConfiguredKept DEF IInv, c
    <3> QED
      BY <2>1, <2>2, <3>4, KeptParts DEF IInv
  <2> QED
    BY <1>2, <2>3, <2>4 DEF WslConfigureDistribution
<1>3. CASE processEnvVariables
  <2>1. Control' /\ (pc' # "done" => pc # "done")
    BY <1>3 DEF processEnvVariables, IInv, Control, Return
  <2> QED
    BY <1>3, <2>1, QuietParts DEF processEnvVariables, listing, launching
<1> QED
  BY <1>1, <1>2, <1>3

\* IInv is inductive.
LEMMA StepIInv ==
    ASSUME IInv, [Next]_vars
    PROVE  IInv'
<1>1. CASE Others
  <2>1. UNCHANGED <<call, pc, distros, got, process, found, ret>> /\ OthersAct
    BY <1>1 DEF Others, listing, launching
  <2>2. Control'
    BY <2>1 DEF IInv, Control
  <2>3. /\ Kept /\ subject' = subject
        /\ resized' \/ name' = name
        /\ reconfigured' \/ conf' = conf
        /\ resized => resized'
        /\ reconfigured => reconfigured'
    BY <2>1, OthersKept DEF IInv
  <2>4. Fresh'
    BY <2>1, <2>3, StaysFresh DEF IInv
  <2> QED
    BY <2>1, <2>2, <2>3, <2>4, KeptParts DEF IInv
<1>2. CASE UNCHANGED vars
  <2>1. UNCHANGED <<windows, call, distros, got, process, found, pc, ret>>
    BY <1>2 DEF vars, listing, launching
  <2>2. Control'
    BY <2>1 DEF IInv, Control
  <2> QED
    BY <2>1, <2>2, QuietParts
<1> QED
  BY <1>1, <1>2, ListingStep, WslExeStep, CallDllStep, LaunchStep, ConfigurationStep DEF Next

\* What a call knows stays true while others change the distros (WindowsInv).
THEOREM Invariance == Spec => []IInv
<1>1. Init => IInv
  BY InitIInv
<1>2. IInv /\ [Next]_vars => IInv'
  BY StepIInv
<1> QED
  BY <1>1, <1>2, PTL DEF Spec
-----------------------------------------------------------------------------
(***************************************************************************)
(* The theorems.                                                           *)
(***************************************************************************)
\* The process that Start hands out is the one that WslLaunch started, however
\* early it exits (CallWslLaunch, GetProcessId, os.FindProcess).
THEOREM FindsItsProcess == Spec => []LaunchFindsItsProcess
<1>1. IInv => LaunchFindsItsProcess
  BY DEF IInv, Handled, LaunchFindsItsProcess
<1> QED
  BY <1>1, Invariance, PTL

\* The parser of wsl.exe's listing never answers "ok".
LEMMA ParseNotOk ==
    ASSUME NEW out
    PROVE  Parse(out) # "ok"
<1>1. \A w : NewFromString(w) # "ok"
  BY DEF NewFromString, Words
<1>2. Parse(out) = "NotRegistered" \/ \E w : Parse(out) = NewFromString(w)
  BY DEF Parse
<1> QED
  BY <1>1, <1>2

\* The other methods change no distro.
LEMMA NoEffect ==
    ASSUME call.method \notin {"Register", "Import", "Unregister", "Uninstall", "Terminate",
                               "Shutdown", "SetAsDefault"}
    PROVE  Effect
BY DEF Effect

\* A registration that WSL served has its effect.
LEMMA RegistersEffect ==
    ASSUME IInv, NEW g \in Guids, Registers(g, subject), subject' = subject
    PROVE  Exists'
<1>1. g \in Registered' /\ name'[g] = subject
  BY RegistersKept DEF IInv, Typed
<1> QED
  BY <1>1 DEF Exists

\* So has a removal, and the distro that the listing had is gone.
LEMMA UnregistersEffect ==
    ASSUME IInv, Exists, Unregisters(Guid), subject' = subject
    PROVE  ~Exists' /\ distros[subject] \notin Registered'
<1>1. /\ Registered' = Registered \ {Guid}
      /\ \A h \in Registered' : name'[h] = name[h]
  BY TheGuid, UnregistersKept DEF IInv
<1>2. \A h \in Registered : name[h] = subject => h = Guid
  BY TheGuid DEF IInv, Unique
<1>3. ~Exists'
  BY <1>1, <1>2 DEF Exists
<1>4. distros[subject] \in Registered => distros[subject] = Guid
  <2>1. distros[subject] \in Registered => distros[subject] # NoGuid
    BY GuidsAssumption DEF Registered
  <2> QED
    BY <1>2, <2>1 DEF IInv, Typed, Listings
<1> QED
  BY <1>1, <1>3, <1>4

\* All that wsl.exe asks for, when it succeeds, is done.
LEMMA ServeEffect ==
    ASSUME IInv, Serve, subject' = subject
    PROVE  Effect
<1>1. CASE call.method = "Import" /\ \E g \in Guids : Registers(g, subject)
  BY <1>1, RegistersEffect DEF Effect
<1>2. CASE call.method = "SetAsDefault" /\ Exists /\ BecomesDefault(Guid)
  BY <1>2 DEF Effect, BecomesDefault
<1>3. CASE call.method = "Shutdown" /\ Goes(Registered, "Stopped")
  <2>1. Registered' = Registered /\ Registered \subseteq Guids
    BY <1>3 DEF Goes, Registered
  <2>2. \A g \in Registered' : word'[g] = "Stopped"
    BY <1>3, <2>1 DEF Goes
  <2> QED
    BY <1>3, <2>2 DEF Effect
<1>4. CASE call.method = "Terminate" /\ Exists /\ Goes({Guid}, "Stopped")
  <2>1. Exists' /\ Guid' = Guid
    BY <1>4 DEF Goes, Registered, Exists, Guid
  <2>2. word'[Guid] = "Stopped"
    BY <1>4, TheGuid DEF Goes
  <2>3. State' = "Stopped"
    BY <2>1, <2>2 DEF State
  <2> QED
    BY <1>4, <2>3 DEF Effect
<1> QED
  BY <1>1, <1>2, <1>3, <1>4 DEF Serve

\* So is all that wslapi.dll is called for.
LEMMA DllServesEffect ==
    ASSUME IInv, DllServes, subject' = subject
    PROVE  Effect
<1>1. CASE call.method = "Register" /\ \E g \in Guids : Registers(g, subject)
  BY <1>1, RegistersEffect DEF Effect
<1>2. CASE call.method \in {"Unregister", "Uninstall"} /\ Exists /\ Unregisters(Guid)
  BY <1>2, UnregistersEffect DEF Effect
<1>3. CASE call.method = "Shell"
  BY <1>3, NoEffect
<1> QED
  BY <1>1, <1>2, <1>3 DEF DllServes

\* A step after which the call has succeeded has had its effect.
LEMMA StepEffect ==
    ASSUME IInv, Next, ret = "none", ret' = "ok"
    PROVE  Effect
<1>1. CASE Stat \/ Enumerate \/ ReadName \/ OpenPackage \/ CallWslLaunch \/ GetProcessId
           \/ ProcessExits \/ Others
  BY <1>1 DEF Stat, Enumerate, ReadName, OpenPackage, CallWslLaunch, GetProcessId, ProcessExits,
              Others, NextKey, NameRead, ListingFails, Continue, Return
<1>2. CASE Listed
  <2>1. call.method = "RegisteredDistros"
    BY <1>2 DEF Listed, Continue, Return
  <2> QED
    BY <2>1, NoEffect
<1>3. CASE GetState
  BY <1>3, ParseNotOk DEF GetState, Fails, Return
<1>4. CASE WslExe
  <2>1. Serve /\ subject' = subject
    BY <1>4 DEF WslExe, Fails, Return
  <2> QED
    BY <2>1, ServeEffect
<1>5. CASE \/ WslGetDistributionConfiguration \/ processEnvVariables
           \/ WslConfigureDistribution \/ FindProcess
  <2>1. call.method \in {"GetConfiguration", "Set", "Start"}
    BY <1>5 DEF WslGetDistributionConfiguration, processEnvVariables, WslConfigureDistribution,
                FindProcess, IInv, Control
  <2> QED
    BY <2>1, NoEffect
<1>6. CASE CallDll
  <2>1. DllServes /\ subject' = subject
    BY <1>6 DEF CallDll, ShellError, Return
  <2> QED
    BY <2>1, DllServesEffect
<1> QED
  BY <1>1, <1>2, <1>3, <1>4, <1>5, <1>6 DEF Next

\* A call that reports success has had its effect: the distro is there, gone,
\* stopped or the default one, whatever other programs did (callDll, wslExe and
\* the methods of Distro that use them).
THEOREM OkIsDone == Spec => DoneWhenOk
<1>1. IInv /\ [Next]_vars => [ret = "none" /\ ret' = "ok" => Effect]_vars
  BY StepEffect
<1> QED
  BY <1>1, Invariance, PTL DEF Spec, DoneWhenOk

\* Written back packed, a configuration has the change that was intended.
LEMMA PackedChange ==
    ASSUME call \in Calls, NEW c \in Confs
    PROVE  LET n == Changed([uid |-> c.uid, flags |-> Unpack(c.flags)])
           IN  [uid |-> n.uid, flags |-> Pack(n.flags)] = Intended(c)
<1> DEFINE u == [uid |-> c.uid, flags |-> Unpack(c.flags)]
           n == Changed(u)
           f == c.flags
           v == call.value
<1>1. f \in WslFlags /\ c.uid \in Users /\ c = [uid |-> c.uid, flags |-> f]
  BY DEF Confs
<1>2. u \in Configurations /\ u.uid = c.uid /\ u.flags = Unpack(f)
  BY <1>1, UnpackType DEF Configurations
<1> HIDE DEF u, n, f
<1>3. CASE call.field = "uid"
  <2>1. n = [uid |-> v, flags |-> Unpack(f)]
    BY <1>2, <1>3, ChangedIs DEF n
  <2>2. n.uid = v /\ Pack(n.flags) = f
    BY <1>1, <2>1, RoundTrip
  <2>3. Intended(c) = [c EXCEPT !.uid = v]
    BY <1>3, Zenon DEF Intended
  <2> HIDE DEF v
  <2>4. [c EXCEPT !.uid = v] = [uid |-> v, flags |-> f]
    BY <1>1
  <2> QED
    BY <2>2, <2>3, <2>4, Zenon DEF n, u, f
<1>4. CASE call.field \in Flags /\ call.field # "uid"
  <2> DEFINE bit == CASE call.field = "InteropEnabled" -> flag_ENABLE_INTEROP
                      [] call.field = "PathAppended" -> flag_APPEND_NT_PATH
                      [] OTHER -> flag_ENABLE_DRIVE_MOUNTING
             new == f - Bit(Has(f, bit), bit) + Bit(v, bit)
  <2>1. v \in BOOLEAN
    BY <1>4, Setting
  <2>2. n = [uid |-> c.uid, flags |-> [Unpack(f) EXCEPT ![call.field] = v]]
    BY <1>2, <1>4, ChangedIs DEF n
  <2>3. n.uid = c.uid /\ n.flags = [Unpack(f) EXCEPT ![call.field] = v]
    BY <2>2
  <2>4. Pack([Unpack(f) EXCEPT ![call.field] = v]) = new
    <3>1. /\ Pack([Unpack(f) EXCEPT !["InteropEnabled"] = v]) = f - Bit(Has(f, 1), 1) + Bit(v, 1)
          /\ Pack([Unpack(f) EXCEPT !["PathAppended"] = v]) = f - Bit(Has(f, 2), 2) + Bit(v, 2)
          /\ Pack([Unpack(f) EXCEPT !["DriveMountingEnabled"] = v])
                 = f - Bit(Has(f, 4), 4) + Bit(v, 4)
      BY <1>1, <2>1, OneBit
    <3> HIDE DEF v
    <3>2. CASE call.field = "InteropEnabled"
      BY <3>1, <3>2 DEF flag_ENABLE_INTEROP
    <3>3. CASE call.field = "PathAppended"
      BY <3>1, <3>3 DEF flag_APPEND_NT_PATH
    <3>4. CASE call.field = "DriveMountingEnabled"
      BY <3>1, <3>4 DEF flag_ENABLE_DRIVE_MOUNTING
    <3> QED
      BY <1>4, <3>2, <3>3, <3>4 DEF Flags
  <2>5. Intended(c) = [c EXCEPT !.flags = new]
    BY <1>4, Zenon DEF Intended, f
  <2> HIDE DEF new, v
  <2>6. [c EXCEPT !.flags = new] = [uid |-> c.uid, flags |-> new]
    BY <1>1
  <2> QED
    BY <2>3, <2>4, <2>5, <2>6, Zenon DEF n, u, f
<1> QED
  BY <1>3, <1>4, Setting

\* What a setter writes, undisturbed, is what it was meant to.
LEMMA StepSets ==
    ASSUME IInv, Next, pc = "put", ret' = "ok", ~reconfigured, ~resized
    PROVE  conf' = [conf EXCEPT ![Guid] = Intended(@)]
<1>1. ret = "none" /\ got # <<>>
  BY DEF IInv, Control
<1>2. WslConfigureDistribution
  BY <1>1 DEF Next, Stat, Enumerate, ReadName, Listed, GetState, WslExe, CallDll, OpenPackage,
              WslGetDistributionConfiguration, processEnvVariables, CallWslLaunch,
              GetProcessId, FindProcess, ProcessExits, Others
<1>3. Exists /\ got[1] = [uid |-> conf[Guid].uid, flags |-> Unpack(conf[Guid].flags)]
  BY <1>1 DEF IInv, Fresh
<1> DEFINE n == Changed(got[1])
<1>4. IsConfigured(Guid, [uid |-> n.uid, flags |-> Pack(n.flags)])
  BY <1>2 DEF WslConfigureDistribution, Return
<1>5. conf[Guid] \in Confs /\ call \in Calls
  BY <1>3, TheGuid DEF IInv, Typed
<1>6. [uid |-> n.uid, flags |-> Pack(n.flags)] = Intended(conf[Guid])
  BY <1>3, <1>5, PackedChange
<1>7. conf' = [conf EXCEPT ![Guid] = Intended(conf[Guid])]
  BY <1>4, <1>6, Zenon DEF IsConfigured
<1> QED
  BY <1>7, Zenon

\* A setter changes its field and nothing else, for every flag and user and
\* whatever bits were set, unless somebody else wrote in between (distro.go,
\* packed.go).
THEOREM KeepsRest == Spec => SetterKeepsRest
<1>1. IInv /\ [Next]_vars
        => [pc = "put" /\ ret' = "ok" /\ ~reconfigured /\ ~resized
              => conf' = [conf EXCEPT ![Guid] = Intended(@)]]_vars
  BY StepSets
<1> QED
  BY <1>1, Invariance, PTL DEF Spec, SetterKeepsRest
=============================================================================
