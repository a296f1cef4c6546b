---------------------------- MODULE WindowsAnswers ----------------------------
(***************************************************************************)
(* What the calls on the Windows back-end answer: the listing, the state   *)
(* that the parser finds in what wsl.exe prints, and the variables of a    *)
(* configuration; for any distros, sub-keys, blocks and changes by others. *)
(***************************************************************************)
EXTENDS WindowsProofs, FiniteSetTheorems, SequenceTheorems

(***************************************************************************)
(* The i-th member of a finite set of numbers.                             *)
(***************************************************************************)
Rank(S, k) == Cardinality({j \in S : j <= k})

\* A member's rank is one of the places.
LEMMA RankRange ==
    ASSUME NEW S \in SUBSET Nat, IsFiniteSet(S), NEW k \in S
    PROVE  Rank(S, k) \in 1..Cardinality(S)
<1> DEFINE B == {j \in S : j <= k}
<1>1. IsFiniteSet(B) /\ Cardinality(B) <= Cardinality(S)
  BY FS_Subset
<1>2. Cardinality(B) \in Nat /\ Cardinality(S) \in Nat
  BY <1>1, FS_CardinalityType
<1>3. k \in B
  OBVIOUS
<1>4. Cardinality(B) # 0
  BY <1>1, <1>3, FS_EmptySet
<1> QED
  BY <1>1, <1>2, <1>4 DEF Rank

\* Two members have different ranks.
LEMMA RankInjective ==
    ASSUME NEW S \in SUBSET Nat, IsFiniteSet(S), NEW k \in S, NEW l \in S,
           Rank(S, k) = Rank(S, l)
    PROVE  k = l
<1>1. ASSUME NEW a \in S, NEW b \in S, a < b
      PROVE  Rank(S, a) # Rank(S, b)
  <2> DEFINE A == {j \in S : j <= a}
             B == {j \in S : j <= b}
  <2>1. A \subseteq B /\ b \in B /\ b \notin A
    <3>1. a \in Nat /\ b \in Nat /\ \A j \in S : j \in Nat
      OBVIOUS
    <3>2. b <= b /\ ~(b <= a) /\ \A j \in S : j <= a => j <= b
      BY <1>1, <3>1
    <3> QED
      BY <3>2, Zenon
  <2>2. IsFiniteSet(B)
    BY FS_Subset
  <2>3. Cardinality(A) # Cardinality(B)
    BY <2>1, <2>2, FS_Subset
  <2> QED
    BY <2>3 DEF Rank
<1> QED
  BY <1>1

\* Every place has its member, and every member its place.
LEMMA NthIs ==
    ASSUME NEW S \in SUBSET Nat, IsFiniteSet(S)
    PROVE  /\ \A i \in 1..Cardinality(S) : Nth(S, i) \in S /\ Rank(S, Nth(S, i)) = i
           /\ \A k \in S : Nth(S, Rank(S, k)) = k
<1> DEFINE n == Cardinality(S)
           f == [k \in S |-> Rank(S, k)]
<1>1. n \in Nat
  BY FS_CardinalityType
<1>2. f \in Injection(S, 1..n)
  BY RankRange, RankInjective DEF Injection, IsInjective
<1>3. IsFiniteSet(1..n) /\ Cardinality(1..n) = n
  BY <1>1, FS_Interval
<1>4. f \in Surjection(S, 1..n)
  BY <1>2, <1>3, FS_Injection
<1>5. ASSUME NEW i \in 1..n
      PROVE  Nth(S, i) \in S /\ Rank(S, Nth(S, i)) = i
  <2>1. \E k \in S : Rank(S, k) = i
    BY <1>4 DEF Surjection
  <2> QED
    BY <2>1 DEF Nth, Rank
<1>6. \A k, l \in S : Rank(S, k) = Rank(S, l) => k = l
  BY RankInjective
<1>7. ASSUME NEW k \in S
      PROVE  Nth(S, Rank(S, k)) = k
  <2>1. Rank(S, k) \in 1..n
    BY RankRange
  <2>2. Nth(S, Rank(S, k)) \in S /\ Rank(S, Nth(S, Rank(S, k))) = Rank(S, k)
    BY <1>5, <2>1
  <2> QED
    BY <1>6, <2>2, Zenon
<1> QED
  BY <1>5, <1>7

\* All the sets that are counted are finite sets of numbers.
LEMMA FiniteKeys ==
    /\ Guids \cup Foreign \in SUBSET Nat /\ IsFiniteSet(Guids \cup Foreign)
    /\ Cardinality(Guids \cup Foreign) \in Nat
    /\ Subkeys \in SUBSET (Guids \cup Foreign) /\ IsFiniteSet(Subkeys)
    /\ Cardinality(Subkeys) \in Nat
    /\ Cardinality(Subkeys) <= Cardinality(Guids \cup Foreign)
    /\ Registered \in SUBSET Guids /\ IsFiniteSet(Registered)
    /\ Cardinality(Registered) \in Nat
<1>1. IsFiniteSet(Guids) /\ IsFiniteSet(Foreign) /\ Guids \cup Foreign \in SUBSET Nat
  BY GuidsAssumption, ForeignAssumption
<1>2. IsFiniteSet(Guids \cup Foreign)
  BY <1>1, FS_Union
<1>3. Registered \in SUBSET Guids /\ Subkeys \in SUBSET (Guids \cup Foreign)
  BY DEF Registered, Subkeys
<1>4. IsFiniteSet(Registered) /\ IsFiniteSet(Subkeys)
      /\ Cardinality(Subkeys) <= Cardinality(Guids \cup Foreign)
  BY <1>1, <1>2, <1>3, FS_Subset
<1> QED
  BY <1>1, <1>2, <1>3, <1>4, FS_CardinalityType
-----------------------------------------------------------------------------
(***************************************************************************)
(* Windows and its history.                                                *)
(***************************************************************************)
\* What the invariant of WindowsProofs leaves open.
Worldly ==
    /\ word \in [Guids -> Words] /\ default \in Guids \cup {NoGuid} /\ used \subseteq Guids
    /\ changes \in 0..MaxChanges
    /\ seen \subseteq Words \cup {"NotRegistered"} /\ State \in seen
    /\ resized \in BOOLEAN /\ reconfigured \in BOOLEAN

\* The history forgets nothing, and notices every distro that comes or goes.
Remembers ==
    /\ subject' = subject
    /\ seen \subseteq seen' /\ (resized => resized') /\ (resized' \/ name' = name)

\* What a change of Windows, remembered, makes of them.
WorldChanges ==
    word' \in [Guids -> Words] /\ default' \in Guids \cup {NoGuid} /\ used' \subseteq Guids

\* Each change of WSL leaves it typed, whoever makes it.
LEMMA RegistersChanges ==
    ASSUME Worldly, NEW g \in Guids, NEW nm, Registers(g, nm)
    PROVE  WorldChanges
BY DEF Worldly, Registers, WorldChanges, Words

\* The same of a removal ...
LEMMA UnregistersChanges ==
    ASSUME Worldly, NEW g \in Guids, Unregisters(g)
    PROVE  WorldChanges
BY DEF Worldly, Unregisters, WorldChanges

\* ... of distros that start or stop ...
LEMMA GoesChanges ==
    ASSUME Worldly, NEW S, NEW w \in Words, Goes(S, w)
    PROVE  WorldChanges
BY DEF Worldly, Goes, WorldChanges

\* ... of a new default ...
LEMMA DefaultChanges ==
    ASSUME Worldly, NEW g \in Guids, BecomesDefault(g)
    PROVE  WorldChanges
BY DEF Worldly, BecomesDefault, WorldChanges

\* ... and of a configuration.
LEMMA ConfiguredChanges ==
    ASSUME Worldly, UNCHANGED <<word, default, used>>
    PROVE  WorldChanges
BY DEF Worldly, WorldChanges

\* The subject's state is a matter of names and words alone.
LEMMA SameState ==
    ASSUME UNCHANGED <<name, word, subject>>
    PROVE  State' = State
<1>1. Registered' = Registered
  BY DEF Registered
<1>2. (Exists' <=> Exists) /\ Guid' = Guid
  BY <1>1 DEF Exists, Guid
<1> QED
  BY <1>2 DEF State

\* The state of a distro, or that there is none.
LEMMA StateIs ==
    ASSUME word \in [Guids -> Words]
    PROVE  State \in Words \cup {"NotRegistered"}
<1>1. Exists => Guid \in Guids
  BY DEF Exists, Guid, Registered
<1> QED
  BY <1>1 DEF State

\* The same in the next state.
LEMMA StateIsNext ==
    ASSUME word' \in [Guids -> Words]
    PROVE  State' \in Words \cup {"NotRegistered"}
<1>1. Exists' => Guid' \in Guids
  BY DEF Exists, Guid, Registered
<1> QED
  BY <1>1 DEF State

\* What Remember writes down: the new state, and whether a distro came or went.
LEMMA Remembered ==
    ASSUME Worldly, WorldChanges, Remember, subject' = subject,
           changes' \in 0..MaxChanges, reconfigured' \in BOOLEAN
    PROVE  Worldly' /\ Remembers
<1>1. State' \in Words \cup {"NotRegistered"}
  BY StateIsNext DEF WorldChanges
<1>2. /\ seen' = seen \cup {State'} /\ resized' \in BOOLEAN
      /\ (resized => resized') /\ (resized' \/ name' = name)
  BY Zenon DEF Remember
<1>3. seen' \subseteq Words \cup {"NotRegistered"} /\ State' \in seen' /\ seen \subseteq seen'
  BY <1>1, <1>2 DEF Worldly
<1>4. Worldly'
  BY <1>2, <1>3 DEF Worldly, WorldChanges
<1> QED
  BY <1>2, <1>3, <1>4 DEF Remembers

\* A step that WSL does not notice.
LEMMA QuietWorld ==
    ASSUME Worldly, UNCHANGED <<name, word, default, used, subject, history>>
    PROVE  Worldly' /\ Remembers
<1>1. State' = State
  BY SameState
<1> QED
  BY <1>1 DEF Worldly, Remembers, history

\* Other programs change WSL and its history.
LEMMA OthersWorld ==
    ASSUME IInv, Worldly, OthersAct
    PROVE  Worldly' /\ Remembers
<1>1. subject' = subject /\ Remember /\ changes' \in 0..MaxChanges
  BY MaxChangesAssumption DEF OthersAct, Worldly
<1>2. reconfigured' \in BOOLEAN
  BY DEF OthersAct, Worldly
<1>3. WorldChanges
  <2>1. CASE \E g \in Guids, nm \in Names : Registers(g, nm)
    BY <2>1, RegistersChanges
  <2>2. CASE \E g \in Registered : Unregisters(g)
    BY <2>2, UnregistersChanges DEF Registered
  <2>3. CASE \E g \in Registered : BecomesDefault(g)
    BY <2>3, DefaultChanges DEF Registered
  <2>4. CASE \E g \in Registered, w \in Words : Goes({g}, w)
    BY <2>4, GoesChanges
  <2>5. CASE \E g \in Registered, c \in SomeConfs : IsConfigured(g, c)
    BY <2>5, ConfiguredChanges DEF IsConfigured
  <2> QED
    BY <2>1, <2>2, <2>3, <2>4, <2>5 DEF OthersAct
<1> QED
  BY <1>1, <1>2, <1>3, Remembered

\* What the call itself asks of WSL.
LEMMA ServeWorld ==
    ASSUME IInv, Worldly, Serve \/ DllServes
    PROVE  WorldChanges
<1>1. CASE \E g \in Guids : Registers(g, subject)
  BY <1>1, RegistersChanges
<1>2. CASE Exists /\ Unregisters(Guid)
  BY <1>2, TheGuid, UnregistersChanges
<1>3. CASE Exists /\ BecomesDefault(Guid)
  BY <1>3, TheGuid, DefaultChanges
<1>4. CASE Goes({Guid}, "Stopped") \/ Goes({Guid}, "Running") \/ Goes(Registered, "Stopped")
  BY <1>4, GoesChanges DEF Words
<1> QED
  BY <1>1, <1>2, <1>3, <1>4 DEF Serve, DllServes

\* Whatever a step does, the history has it.
LEMMA WorldStep ==
    ASSUME IInv, Worldly, [Next]_vars
    PROVE  Worldly' /\ Remembers
<1>1. CASE \/ Stat \/ Enumerate \/ ReadName \/ Listed \/ GetState \/ OpenPackage
           \/ WslGetDistributionConfiguration \/ processEnvVariables
           \/ GetProcessId \/ FindProcess \/ ProcessExits \/ UNCHANGED vars
  <2>1. UNCHANGED windows
    BY <1>1 DEF Stat, Enumerate, ReadName, Listed, GetState, OpenPackage, GetProcessId,
       FindProcess,
                WslGetDistributionConfiguration, processEnvVariables, ProcessExits, vars
  <2> QED
    BY <2>1, QuietWorld DEF windows, wsl
<1>2. CASE WslConfigureDistribution
  <2>1. UNCHANGED <<name, word, default, used, subject, history>>
    BY <1>2 DEF WslConfigureDistribution, IsConfigured, wsl
  <2> QED
    BY <2>1, QuietWorld
<1>3. CASE WslExe \/ CallDll
  <2>1. UNCHANGED <<subject, changes, reconfigured>>
    BY <1>3 DEF WslExe, CallDll
  <2>2. CASE (Serve \/ DllServes) /\ Remember
    <3>1. WorldChanges
      BY <2>2, ServeWorld
    <3> QED
      BY <2>1, <2>2, <3>1, Remembered DEF Worldly
  <2>3. CASE UNCHANGED <<wsl, seen, resized>>
    BY <2>1, <2>3, QuietWorld DEF wsl, history
  <2> QED
    BY <1>3, <2>2, <2>3 DEF WslExe, CallDll
<1>4. CASE CallWslLaunch
  <2>1. UNCHANGED <<subject, changes, reconfigured>>
    BY <1>4 DEF CallWslLaunch
  <2>2. CASE Goes({Guid}, "Running") /\ Remember
    <3>1. WorldChanges
      BY <2>2, GoesChanges DEF Words
    <3> QED
      BY <2>1, <2>2, <3>1, Remembered DEF Worldly
  <2>3. CASE UNCHANGED <<wsl, seen, resized>>
    BY <2>1, <2>3, QuietWorld DEF wsl, history
  <2> QED
    BY <1>4, <2>2, <2>3 DEF CallWslLaunch
<1>5. CASE Others
  BY <1>5, OthersWorld DEF Others
<1> QED
  BY <1>1, <1>2, <1>3, <1>4, <1>5 DEF Next

\* WSL is typed when the call begins.
LEMMA InitWorldly ==
    ASSUME Init
    PROVE  Worldly
<1>1. /\ word \in [Guids -> Words] /\ default \in Guids \cup {NoGuid} /\ used \subseteq Guids
      /\ changes \in 0..MaxChanges /\ resized \in BOOLEAN /\ reconfigured \in BOOLEAN
  <2>1. /\ word = [g \in Guids |-> "Stopped"]
        /\ default \in Registered \cup {NoGuid} /\ used = Registered
        /\ changes = 0 /\ resized = FALSE /\ reconfigured = FALSE
    BY DEF Init
  <2>2. word \in [Guids -> Words]
    BY <2>1 DEF Words
  <2>3. default \in Guids \cup {NoGuid} /\ used \subseteq Guids
    BY <2>1 DEF Registered
  <2>4. changes \in 0..MaxChanges
    BY <2>1, MaxChangesAssumption
  <2>5. resized \in BOOLEAN /\ reconfigured \in BOOLEAN
    BY <2>1
  <2> QED
    BY <2>2, <2>3, <2>4, <2>5, Zenon
<1>2. State \in Words \cup {"NotRegistered"} /\ seen = {State}
  BY <1>1, StateIs DEF Init
<1> QED
  BY <1>1, <1>2 DEF Worldly
-----------------------------------------------------------------------------
(***************************************************************************)
(* Types.                                                                  *)
(***************************************************************************)
Steps == {"stat", "enumerate", "names", "listVerbose", "wslExe", "get", "env", "put", "open",
          "callDll", "launch", "getProcessId", "findProcess", "done"}

\* What Typed and Worldly leave open.
Shaped ==
    /\ pc \in Steps
    /\ count \in 0..Cardinality(Guids \cup Foreign)
    /\ keys \in Seq(Guids \cup Foreign) /\ Len(keys) <= Cardinality(Guids \cup Foreign)
    /\ found \in {"nobody", "ours", "another"}

\* TypeOK in two halves: the call's variables and those of WSL.
LEMMA TypeParts ==
    ASSUME IInv
    PROVE  TypeOK /\ State \in seen <=> Shaped /\ Worldly
<1>1. WindowsOK /\ State \in seen <=> Worldly
  BY DEF IInv, Typed, WindowsOK, Worldly
<1>2. /\ call \in Calls /\ distros \in [Names -> Guids \cup {NoGuid}]
      /\ got = <<>> \/ got[1] \in [uid : Users, flags : Unpacked]
      /\ process \in [alive : BOOLEAN, handle : BOOLEAN, pid : {"nobody", "ours", "another"}]
  BY DEF IInv, Typed
<1> QED
  BY <1>1, <1>2, Zenon DEF TypeOK, Shaped, Steps

\* Every step keeps the types of the call's variables.
LEMMA StepShaped ==
    ASSUME IInv, Shaped, [Next]_vars
    PROVE  Shaped'
<1> DEFINE K == Guids \cup Foreign
<1>1. CASE Stat
  <2>1. Cardinality(Subkeys) \in 0..Cardinality(K)
    BY FiniteKeys
  <2>2. pc' \in {"enumerate", "done"} /\ found' = found
    BY <1>1 DEF Stat, ListingFails, Continue, Return, launching
  <2>3. CASE count' = Cardinality(Subkeys) /\ keys' = <<>>
    <3>1. keys' \in Seq(K) /\ Len(keys') <= Cardinality(K)
      BY <2>3, FiniteKeys
    <3> QED
      BY <2>1, <2>2, <2>3, <3>1 DEF Shaped, Steps
  <2>4. CASE UNCHANGED <<count, keys>>
    BY <2>2, <2>4 DEF Shaped, Steps
  <2> QED
    BY <1>1, <2>3, <2>4 DEF Stat, listing
<1>2. CASE Enumerate
  <2>1. UNCHANGED <<count, found>> /\ pc' \in Steps
    BY <1>2 DEF Enumerate, NextKey, ListingFails, Continue, Return, launching, Steps
  <2>2. CASE Len(keys) < Cardinality(Subkeys) /\ keys' = Append(keys, Nth(Subkeys, Len(keys) + 1))
    <3>1. Subkeys \in SUBSET Nat /\ IsFiniteSet(Subkeys) /\ Cardinality(Subkeys) \in Nat
      BY FiniteKeys
    <3>2. keys \in Seq(K) /\ Len(keys) \in Nat
      BY DEF Shaped
    <3>3. Len(keys) + 1 \in 1..Cardinality(Subkeys)
      BY <2>2, <3>1, <3>2
    <3>4. Nth(Subkeys, Len(keys) + 1) \in K
      BY <3>1, <3>3, NthIs, FiniteKeys
    <3>5. keys' \in Seq(K) /\ Len(keys') = Len(keys) + 1
      BY <2>2, <3>2, <3>4
    <3>6. Len(keys') <= Cardinality(K)
      BY <2>2, <3>1, <3>2, <3>5, FiniteKeys
    <3> QED
      BY <2>1, <3>5, <3>6 DEF Shaped
  <2>3. CASE keys' = keys
    BY <2>1, <2>3 DEF Shaped
  <2> QED
    BY <1>2, <2>2, <2>3 DEF Enumerate, NextKey
<1>3. CASE ReadName
  <2>1. UNCHANGED <<count, found>> /\ pc' \in Steps /\ keys # <<>>
        /\ (keys' = keys \/ keys' = Tail(keys))
    BY <1>3 DEF ReadName, NameRead, ListingFails, Return, launching, Shaped, Steps
  <2>2. keys' \in Seq(K) /\ Len(keys') <= Cardinality(K)
    BY <2>1, FiniteKeys DEF Shaped
  <2> QED
    BY <2>1, <2>2 DEF Shaped
<1>4. CASE Listed
  <2>1. pc' \in Steps
    BY <1>4 DEF Listed, Continue, Return, Steps
  <2> QED
    BY <1>4, <2>1 DEF Listed, Shaped, listing, launching
<1>5. CASE \/ GetState \/ WslExe \/ OpenPackage \/ CallDll \/ CallWslLaunch \/ GetProcessId
           \/ WslGetDistributionConfiguration \/ processEnvVariables \/ WslConfigureDistribution
           \/ Others
  <2>1. UNCHANGED <<count, keys, found>>
    BY <1>5 DEF GetState, WslExe, OpenPackage, CallDll, CallWslLaunch, GetProcessId, Others,
                WslGetDistributionConfiguration, processEnvVariables, WslConfigureDistribution,
                listing, launching
  <2>2. pc' = pc \/ pc' \in {"done", "env", "stat", "callDll", "getProcessId", "findProcess"}
    BY <1>5 DEF GetState, Fails, WslExe, OpenPackage, CallDll, ShellError, CallWslLaunch,
                GetProcessId, Others, WslGetDistributionConfiguration, processEnvVariables,
                WslConfigureDistribution, Return, Continue
  <2> QED
    BY <2>1, <2>2 DEF Shaped, Steps
<1>6. CASE FindProcess \/ ProcessExits \/ UNCHANGED vars
  <2>1. UNCHANGED <<count, keys>> /\ (pc' = pc \/ pc' = "done")
    BY <1>6 DEF FindProcess, ProcessExits, vars, listing, Return
  <2>2. found' = found \/ found' = process.pid
    BY <1>6 DEF FindProcess, ProcessExits, vars, launching
  <2>3. found' \in {"nobody", "ours", "another"}
    BY <2>2 DEF IInv, Typed, Shaped
  <2> QED
    BY <2>1, <2>3 DEF Shaped, Steps
<1> QED
  BY <1>1, <1>2, <1>3, <1>4, <1>5, <1>6 DEF Next
-----------------------------------------------------------------------------
(***************************************************************************)
(* The listing.                                                            *)
(***************************************************************************)
\* A distro that the listing has was there at some moment.
LEMMA StepTold ==
    ASSUME IInv, Worldly, Told, [Next]_vars
    PROVE  Told'
<1>1. Worldly' /\ Remembers
  BY WorldStep
<1>2. SUFFICES ASSUME distros'[subject'] # NoGuid
               PROVE  seen' # {"NotRegistered"}
  BY <1>1 DEF Told, Worldly
<1>3. subject' = subject /\ subject \in Names /\ seen \subseteq seen'
  BY <1>1 DEF Remembers, IInv, Typed
<1>4. CASE distros[subject] # NoGuid
  <2>1. PICK w \in seen : w # "NotRegistered"
    BY <1>4 DEF Told, Worldly
  <2> QED
    BY <1>3, <2>1
<1>5. CASE distros[subject] = NoGuid
  <2>1. distros' # distros
    BY <1>2, <1>3, <1>5
  <2>2. CASE Stat
    BY <1>2, <1>3, <1>5, <2>2 DEF Stat, listing
  <2>3. CASE ReadName
    <3>1. PICK k \in Registered : distros' = [distros EXCEPT ![name[k]] = k]
      BY <2>1, <2>3 DEF ReadName, NameRead, Opens
    <3>2. name[k] = subject
      BY <1>2, <1>3, <1>5, <3>1 DEF IInv, Typed
    <3>3. Exists /\ State = word[Guid] /\ Guid \in Guids
      BY <3>2, TheGuid DEF Exists, State
    <3>4. State \in Words /\ State \in seen
      BY <3>3 DEF Worldly
    <3>5. State # "NotRegistered" /\ State \in seen'
      BY <1>3, <3>4 DEF Words
    <3> QED
      BY <3>5
  <2>4. CASE ~(Stat \/ ReadName)
    BY <2>1, <2>4 DEF Next, vars, listing, Enumerate, Listed, GetState, WslExe,
       OpenPackage, CallDll, CallWslLaunch, GetProcessId, FindProcess, ProcessExits, Others,
       WslGetDistributionConfiguration, processEnvVariables, WslConfigureDistribution
  <2> QED
    BY <2>2, <2>3, <2>4
<1> QED
  BY <1>4, <1>5

\* The other steps leave a listing alone.
LEMMA ListingStays ==
    ASSUME [Next]_vars, ~Stat, ~Enumerate, ~ReadName
    PROVE  UNCHANGED <<count, keys, distros>> /\ (pc' = pc \/ pc' \notin {"enumerate", "names"})
<1>1. UNCHANGED <<count, keys, distros>>
  BY DEF Next, vars, listing, Listed, GetState, WslExe, OpenPackage, CallDll,
         CallWslLaunch, GetProcessId, FindProcess, ProcessExits, Others,
         WslGetDistributionConfiguration, processEnvVariables, WslConfigureDistribution
<1>2. CASE Listed
  BY <1>1, <1>2 DEF Listed, Continue, Return
<1>3. CASE ~Listed
  BY <1>1, <1>3 DEF Next, vars, GetState, Fails, WslExe, OpenPackage, CallDll, ShellError,
         CallWslLaunch, GetProcessId, FindProcess, ProcessExits, Others,
         WslGetDistributionConfiguration, processEnvVariables, WslConfigureDistribution,
         Continue, Return
<1> QED
  BY <1>2, <1>3

\* The keys are all there when the enumeration ends.
LEMMA AllKeys ==
    ASSUME IInv, Shaped, Enumerated, Enumerate, pc' = "names"
    PROVE  /\ \A i \in 1..Len(keys) : keys[i] \in Subkeys
           /\ \A g \in Subkeys : \E i \in 1..Len(keys) : keys[i] = g
<1> DEFINE n == Cardinality(Subkeys)
<1>1. pc = "enumerate" /\ count = n /\ Len(keys) <= n
      /\ \A i \in 1..Len(keys) : keys[i] = Nth(Subkeys, i)
  BY DEF Enumerate, Enumerated
<1>2. n \in Nat /\ Len(keys) \in Nat /\ Subkeys \in SUBSET Nat /\ IsFiniteSet(Subkeys)
  BY FiniteKeys DEF Shaped
<1>3. Len(keys) = n
  BY <1>1, <1>2 DEF Enumerate, NextKey, ListingFails, Continue, Return
<1>4. \A i \in 1..n : Nth(Subkeys, i) \in Subkeys
  BY <1>2, NthIs
<1>5. ASSUME NEW g \in Subkeys
      PROVE  \E i \in 1..Len(keys) : keys[i] = g
  <2>1. Rank(Subkeys, g) \in 1..n
    BY <1>2, RankRange
  <2>2. Nth(Subkeys, Rank(Subkeys, g)) = g
    BY <1>2, NthIs
  <2> QED
    BY <1>1, <1>3, <2>1, <2>2
<1> QED
  BY <1>1, <1>3, <1>4, <1>5

\* One more key was read, or the enumeration is over: then all were.
LEMMA StepEnumerates ==
    ASSUME IInv, Shaped, Undisturbed, Enumerate, ~resized
    PROVE  Undisturbed'
<1>1. UNCHANGED <<name, distros, count, resized>> /\ Registered' = Registered /\ Subkeys' = Subkeys
  BY DEF Enumerate, windows, wsl, history, Registered, Subkeys
<1>2. Enumerated /\ \A n \in Names : distros[n] # NoGuid => distros[n] \in Registered
  BY DEF Undisturbed
<1>3. CASE pc' = "names"
  <2>1. keys' = keys
    BY <1>3 DEF Enumerate, NextKey, Enumerated, Undisturbed
  <2>2. /\ \A i \in 1..Len(keys) : keys[i] \in Subkeys
        /\ \A g \in Subkeys : \E i \in 1..Len(keys) : keys[i] = g
    BY <1>2, <1>3, AllKeys
  <2>3. Pending'
    BY <1>1, <2>1, <2>2 DEF Pending, Subkeys
  <2> QED
    BY <1>1, <1>2, <1>3, <2>3 DEF Undisturbed, Enumerated
<1>4. CASE pc' = "enumerate"
  <2>1. pc = "enumerate" /\ keys' = Append(keys, Nth(Subkeys, Len(keys) + 1))
        /\ Len(keys) < Cardinality(Subkeys)
    BY <1>4 DEF Enumerate, NextKey, ListingFails, Continue, Return
  <2>2. /\ count = Cardinality(Subkeys) /\ Len(keys) \in Nat /\ Cardinality(Subkeys) \in Nat
        /\ keys \in Seq(Guids \cup Foreign)
        /\ \A i \in 1..Len(keys) : keys[i] = Nth(Subkeys, i)
    BY <1>2, <2>1, FiniteKeys DEF Enumerated, Shaped
  <2>3. Len(keys') = Len(keys) + 1 /\ keys'[Len(keys) + 1] = Nth(Subkeys, Len(keys) + 1)
        /\ \A i \in 1..Len(keys) : keys'[i] = keys[i]
    BY <2>1, <2>2
  <2>4. \A i \in 1..Len(keys') : keys'[i] = Nth(Subkeys, i)
    BY <2>2, <2>3
  <2>5. Enumerated'
    BY <1>1, <2>1, <2>2, <2>3, <2>4 DEF Enumerated
  <2> QED
    BY <1>1, <1>2, <1>4, <2>5 DEF Undisturbed, Pending
<1>5. CASE pc' \notin {"names", "enumerate"}
  BY <1>1, <1>2, <1>5 DEF Undisturbed, Pending, Enumerated
<1> QED
  BY <1>3, <1>4, <1>5

\* Opening a key moves its distro from the keys to the listing.
LEMMA StepReads ==
    ASSUME IInv, Shaped, Undisturbed, ReadName, ~resized
    PROVE  Undisturbed'
<1> DEFINE k == Head(keys)
           rest == Tail(keys)
<1>1. UNCHANGED <<name, count, resized>> /\ Registered' = Registered /\ Subkeys' = Subkeys
  BY DEF ReadName, windows, wsl, history, Registered, Subkeys
<1>2. /\ pc = "names" /\ keys # <<>> /\ keys \in Seq(Guids \cup Foreign)
      /\ \A i \in 1..Len(keys) : keys[i] \in Subkeys
      /\ \A g \in Registered : distros[name[g]] = g \/ \E i \in 1..Len(keys) : keys[i] = g
      /\ \A n \in Names : distros[n] # NoGuid => distros[n] \in Registered
  BY DEF ReadName, Undisturbed, Pending, Shaped
<1>3. /\ Len(keys) \in Nat \ {0} /\ k = keys[1] /\ Len(rest) = Len(keys) - 1
      /\ \A i \in 1..Len(rest) : rest[i] = keys[i + 1]
  BY <1>2
<1> HIDE DEF k, rest
<1>4. k \in Subkeys
  BY <1>2, <1>3
<1>5. \A i \in 1..Len(rest) : rest[i] \in Subkeys
  BY <1>2, <1>3
<1>6. ASSUME NEW g \in Registered, g # k
      PROVE  distros[name[g]] = g \/ \E i \in 1..Len(rest) : rest[i] = g
  <2>1. SUFFICES ASSUME distros[name[g]] # g
                 PROVE  \E i \in 1..Len(rest) : rest[i] = g
    OBVIOUS
  <2>2. PICK i \in 1..Len(keys) : keys[i] = g
    BY <1>2, <2>1
  <2>3. i - 1 \in 1..Len(rest) /\ rest[i - 1] = g
    BY <1>3, <1>6, <2>2
  <2> QED
    BY <2>3
<1>7. CASE k \in Foreign
  <2>1. keys' = rest /\ distros' = distros /\ pc' = pc
    BY <1>7 DEF ReadName, k, rest
  <2>2. k \notin Registered
    BY <1>7, ForeignAssumption DEF Registered
  <2>3. Pending'
    BY <1>1, <1>5, <1>6, <2>1, <2>2 DEF Pending
  <2> QED
    BY <1>1, <1>2, <2>1, <2>3 DEF Undisturbed, Enumerated
<1>8. CASE ListingFails /\ UNCHANGED <<keys, distros>>
  BY <1>1, <1>2, <1>8 DEF Undisturbed, Enumerated, Pending, ListingFails, Return
<1>9. CASE k \notin Foreign /\ NameRead
  <2>1. k \in Registered
    BY <1>4, <1>9 DEF Subkeys
  <2>2. keys' = rest /\ pc' = pc /\ distros' = [distros EXCEPT ![name[k]] = k]
    BY <1>9 DEF NameRead, k, rest
  <2>3. name[k] \in Names /\ distros \in [Names -> Guids \cup {NoGuid}]
    BY <2>1 DEF IInv, Typed, Registered
  <2>4. \A n \in Names : distros'[n] = IF n = name[k] THEN k ELSE distros[n]
    BY <2>2, <2>3
  <2>5. \A g \in Registered : name[g] \in Names /\ (name[g] = name[k] => g = k)
    BY <2>1 DEF IInv, Typed, Unique, Registered
  <2>6. \A g \in Registered : distros'[name[g]] = g \/ \E i \in 1..Len(rest) : rest[i] = g
    BY <1>6, <2>4, <2>5
  <2>7. Pending'
    BY <1>1, <1>5, <2>2, <2>6 DEF Pending
  <2>8. \A n \in Names : distros'[n] # NoGuid => distros'[n] \in Registered'
    BY <1>1, <1>2, <2>1, <2>4
  <2> QED
    BY <1>2, <2>2, <2>7, <2>8 DEF Undisturbed, Enumerated
<1> QED
  BY <1>7, <1>8, <1>9 DEF ReadName, k

\* While no distro comes or goes, every step keeps account of all of them.
LEMMA StepUndisturbed ==
    ASSUME IInv, Shaped, Worldly, Undisturbed, [Next]_vars
    PROVE  Undisturbed'
<1>1. SUFFICES ASSUME ~resized'
               PROVE  Undisturbed'
  BY DEF Undisturbed
<1>2. ~resized /\ name' = name
  BY <1>1, WorldStep DEF Remembers
<1>3. Registered' = Registered /\ Subkeys' = Subkeys
  BY <1>2 DEF Registered, Subkeys
<1>4. CASE Stat /\ pc' = "enumerate"
  <2>1. /\ pc' = "enumerate" /\ count' = Cardinality(Subkeys) /\ keys' = <<>>
        /\ distros' = [n \in Names |-> NoGuid]
    BY <1>4 DEF Stat, ListingFails, Return
  <2>2. Len(keys') = 0 /\ 0 <= count'
    BY <2>1, FiniteKeys
  <2>3. Enumerated'
    BY <1>3, <2>1, <2>2 DEF Enumerated
  <2> QED
    BY <2>1, <2>3 DEF Undisturbed, Pending
<1>5. CASE Stat /\ pc' # "enumerate"
  <2>1. pc' = "done" /\ distros' = distros
    BY <1>5 DEF Stat, ListingFails, Continue, Return, listing
  <2> QED
    BY <1>2, <1>3, <2>1 DEF Undisturbed, Enumerated, Pending
<1>6. CASE ~Stat /\ ~Enumerate /\ ~ReadName
  <2>1. UNCHANGED <<count, keys, distros>> /\ (pc' = pc \/ pc' \notin {"enumerate", "names"})
    BY <1>6, ListingStays
  <2>2. Enumerated' /\ Pending'
    BY <1>2, <1>3, <2>1 DEF Undisturbed, Enumerated, Pending
  <2> QED
    BY <1>2, <1>3, <2>1, <2>2 DEF Undisturbed
<1> QED
  BY <1>2, <1>4, <1>5, <1>6, StepEnumerates, StepReads
-----------------------------------------------------------------------------
(***************************************************************************)
(* The parser.                                                             *)
(***************************************************************************)
Lines == Seq(Names \cup Words \cup {"*", "2", "NAME", "STATE", "VERSION"})

\* The columns of a line, asterisk or not, are the distro's name and word.
LEMMA LineIs ==
    ASSUME IInv, Worldly, NEW g \in Registered
    PROVE  /\ Line(g) \in Lines
           /\ Data(Line(g))[1] = name[g] /\ Data(Line(g))[2] = word[g]
<1> DEFINE X == Names \cup Words \cup {"*", "2", "NAME", "STATE", "VERSION"}
           t == <<name[g], word[g], "2">>
           star == <<"*">>
<1>1. name[g] \in Names /\ word[g] \in Words
  BY DEF IInv, Typed, Worldly, Registered
<1>2. /\ t \in Seq(X) /\ Len(t) = 3 /\ t[1] = name[g] /\ t[2] = word[g]
      /\ star \in Seq(X) /\ Len(star) = 1
  BY <1>1
<1>3. CASE g = default
  <2> DEFINE s == star \o t
  <2>1. Line(g) = s
    BY <1>3 DEF Line
  <2> HIDE DEF t, star, X
  <2>2. /\ s \in Seq(X) /\ Len(s) = Len(star) + Len(t)
        /\ \A i \in 1..(Len(star) + Len(t)) :
              s[i] = IF i <= Len(star) THEN star[i] ELSE t[i - Len(star)]
    BY <1>2, ConcatProperties, Zenon
  <2> HIDE DEF s
  <2>3. Len(s) = 4 /\ s[2] = t[1] /\ s[3] = t[2] /\ s # <<>>
    <3>1. Len(star) = 1 /\ Len(t) = 3
      BY <1>2
    <3>2. Len(s) = 4 /\ \A i \in 1..4 : s[i] = IF i <= 1 THEN star[i] ELSE t[i - 1]
      BY <2>2, <3>1
    <3>3. s[2] = t[1] /\ s[3] = t[2]
      BY <3>2
    <3>4. s # <<>>
      <4>1. s = <<>> => Len(s) = 0
        OBVIOUS
      <4> QED
        BY <3>2, <4>1
    <3> QED
      BY <3>2, <3>3, <3>4
  <2>4. Len(Tail(s)) = Len(s) - 1 /\ \A i \in 1..Len(Tail(s)) : Tail(s)[i] = s[i + 1]
    BY <2>2, <2>3, HeadTailProperties, Zenon
  <2>5. Tail(s)[1] = t[1] /\ Tail(s)[2] = t[2]
    BY <2>3, <2>4
  <2>6. Data(s) = Tail(s)
    BY <2>3 DEF Data
  <2> QED
    BY <1>2, <2>1, <2>2, <2>5, <2>6 DEF X, Lines, s
<1>4. CASE g # default
  <2> DEFINE empty == <<>>
  <2>1. Line(g) = empty \o t
    BY <1>4 DEF Line
  <2> HIDE DEF t, star, X
  <2>2. empty \o t = t
    BY <1>2
  <2>3. Data(t) = t
    BY <1>2 DEF Data
  <2> QED
    BY <1>2, <2>1, <2>2, <2>3 DEF X, Lines
<1> QED
  BY <1>3, <1>4

\* After the header, the listing has a line for each distro.
LEMMA ListVerboseIs ==
    ASSUME IInv, Worldly
    PROVE  /\ Len(ListVerbose) = Cardinality(Registered) + 1
           /\ \A i \in 2..(Cardinality(Registered) + 1) :
                 LET g == Nth(Registered, i - 1) IN
                 /\ g \in Registered
                 /\ Data(ListVerbose[i])[1] = name[g] /\ Data(ListVerbose[i])[2] = word[g]
<1> DEFINE n == Cardinality(Registered)
           body == [i \in 1..n |-> Line(Nth(Registered, i))]
           head == <<Header>>
<1>1. n \in Nat /\ Registered \in SUBSET Nat /\ IsFiniteSet(Registered)
  BY FiniteKeys, GuidsAssumption
<1>2. \A i \in 1..n : Nth(Registered, i) \in Registered
  BY <1>1, NthIs
<1>3. \A i \in 1..n : Line(Nth(Registered, i)) \in Lines
  BY <1>2, LineIs
<1>4. body \in Seq(Lines) /\ Len(body) = n
  BY <1>1, <1>3
<1>5. Header \in Lines
  BY DEF Header, Lines
<1>6. head \in Seq(Lines) /\ Len(head) = 1
  BY <1>5
<1>7. ListVerbose = head \o body
  BY DEF ListVerbose
<1> HIDE DEF head
<1>8. /\ Len(ListVerbose) = Len(head) + Len(body)
      /\ \A i \in 1..(Len(head) + Len(body)) :
            ListVerbose[i] = IF i <= Len(head) THEN head[i] ELSE body[i - Len(head)]
  <2> HIDE DEF body
  <2> QED
    BY <1>4, <1>6, <1>7, ConcatProperties, Zenon
<1>9. ASSUME NEW i \in 2..(n + 1)
      PROVE  LET g == Nth(Registered, i - 1) IN
             /\ g \in Registered
             /\ Data(ListVerbose[i])[1] = name[g] /\ Data(ListVerbose[i])[2] = word[g]
  <2>1. i - 1 \in 1..n /\ i \in 1..(n + 1) /\ ~(i <= 1)
    BY <1>1
  <2>2. body[i - 1] = Line(Nth(Registered, i - 1))
    BY <2>1
  <2> HIDE DEF body, n
  <2>3. ListVerbose[i] = body[i - 1]
    BY <1>1, <1>4, <1>6, <1>8, <2>1
  <2> QED
    BY <1>2, <2>1, <2>2, <2>3, LineIs, Zenon
<1>10. Len(ListVerbose) = n + 1
  <2> HIDE DEF body, n
  <2> QED
    BY <1>1, <1>4, <1>6, <1>8
<1> QED
  BY <1>9, <1>10

\* The parser finds the state of the distro, if there is such a distro: whatever
\* its name, in whichever line, and with or without the asterisk.
LEMMA ParseIs ==
    ASSUME IInv, Worldly
    PROVE  Parse(ListVerbose) = IF Exists THEN NewFromString(word[Guid]) ELSE "NotRegistered"
<1> DEFINE out == ListVerbose
           n == Cardinality(Registered)
           line(i) == Nth(Registered, i - 1)
           matches == {i \in 2..Len(out) : Data(out[i])[1] = subject}
<1>1. n \in Nat /\ Registered \in SUBSET Nat /\ IsFiniteSet(Registered)
  BY FiniteKeys, GuidsAssumption
<1>2. /\ Len(out) = n + 1
      /\ \A i \in 2..(n + 1) : /\ line(i) \in Registered
                               /\ Data(out[i])[1] = name[line(i)] /\ Data(out[i])[2] = word[line(i)]
  BY ListVerboseIs
<1>3. Parse(out) = IF matches = {} THEN "NotRegistered"
                   ELSE NewFromString(Data(out[Nth(matches, 1)])[2])
  BY DEF Parse
<1> HIDE DEF out, line
<1>4. CASE Exists
  <2>1. Guid \in Registered /\ name[Guid] = subject
    BY <1>4, TheGuid
  <2>2. Rank(Registered, Guid) \in 1..n /\ Nth(Registered, Rank(Registered, Guid)) = Guid
    BY <1>1, <2>1, RankRange, NthIs
  <2>3. Rank(Registered, Guid) + 1 \in matches
    <3> DEFINE i == Rank(Registered, Guid) + 1
    <3>1. i \in 2..(n + 1) /\ i - 1 = Rank(Registered, Guid)
      BY <1>1, <2>2
    <3>2. line(i) = Guid
      BY <2>2, <3>1 DEF line
    <3> HIDE DEF i
    <3>3. i \in matches
      BY <1>2, <2>1, <3>1, <3>2
    <3> QED
      BY <3>3 DEF i
  <2>4. matches \in SUBSET Nat /\ IsFiniteSet(matches)
    <3>1. matches \in SUBSET (2..Len(out)) /\ Len(out) \in Int
      BY <1>1, <1>2
    <3>2. IsFiniteSet(2..Len(out))
      BY <3>1, FS_Interval
    <3> QED
      BY <3>1, <3>2, FS_Subset
  <2>5. Nth(matches, 1) \in matches
    <3> HIDE DEF matches
    <3>1. Cardinality(matches) \in Nat /\ Cardinality(matches) # 0
      BY <2>3, <2>4, FS_EmptySet, FS_CardinalityType
    <3>2. 1 \in 1..Cardinality(matches)
      BY <3>1
    <3> QED
      BY <2>4, <3>2, NthIs
  <2>6. PICK i \in matches : i = Nth(matches, 1)
    BY <2>5
  <2>7. i \in 2..(n + 1) /\ Data(out[i])[1] = subject
    BY <1>2, <2>6
  <2>8. line(i) \in Registered /\ name[line(i)] = subject /\ Data(out[i])[2] = word[line(i)]
    BY <1>2, <2>7
  <2>9. line(i) = Guid
    BY <2>1, <2>8 DEF IInv, Unique
  <2>10. Parse(out) = NewFromString(word[Guid])
    BY <1>3, <2>6, <2>8, <2>9
  <2> QED
    BY <1>4, <2>10 DEF out
<1>5. CASE ~Exists
  <2>1. \A i \in 2..(n + 1) : Data(out[i])[1] # subject
    BY <1>2, <1>5 DEF Exists
  <2>2. matches = {}
    BY <1>2, <2>1
  <2> QED
    BY <1>3, <1>5, <2>2 DEF out
<1> QED
  BY <1>4, <1>5
-----------------------------------------------------------------------------
(***************************************************************************)
(* The answers.                                                            *)
(***************************************************************************)
\* Where every distro is accounted for and no distro came or went, a name that
\* the listing does not have is no distro's.
LEMMA NotListed ==
    ASSUME IInv, Worldly, Undisturbed, pc = "names", keys = <<>>, distros[subject] = NoGuid
    PROVE  "NotRegistered" \in seen \/ resized
<1>1. SUFFICES ASSUME ~resized
               PROVE  "NotRegistered" \in seen
  OBVIOUS
<1>2. \A g \in Registered : distros[name[g]] = g
  BY <1>1 DEF Undisturbed, Pending
<1>3. \A g \in Registered : g # NoGuid
  BY GuidsAssumption DEF Registered
<1>4. ~Exists
  BY <1>2, <1>3 DEF Exists
<1> QED
  BY <1>4 DEF State, Worldly

\* Of these results AnswersAreTrue says nothing.
LEMMA Harmless ==
    ASSUME ret' \in {"none", "ok", "failed", "exit code", "listing failed"}
    PROVE  AnswersAreTrue'
BY DEF AnswersAreTrue, Words

\* What a call answers from the listing alone.
LEMMA ListedAnswers ==
    ASSUME IInv, Worldly, Told, Undisturbed, Listed, pc' = "done"
    PROVE  AnswersAreTrue'
<1>1. UNCHANGED <<seen, resized>>
  BY DEF Listed, windows, history
<1>2. ret' \in {"ok", "already registered", "NotRegistered", "does not exist"}
  BY DEF Listed, Return, Continue
<1>3. CASE ret' = "ok"
  BY <1>3, Harmless
<1>4. CASE ret' = "already registered"
  <2>1. distros[subject] # NoGuid
    BY <1>4 DEF Listed, Return, Continue
  <2> QED
    BY <1>1, <1>4, <2>1 DEF Told, AnswersAreTrue, Words
<1>5. CASE ret' \in {"NotRegistered", "does not exist"}
  <2>1. distros[subject] = NoGuid /\ pc = "names" /\ keys = <<>>
    BY <1>5 DEF Listed, Return, Continue
  <2>2. "NotRegistered" \in seen \/ resized
    BY <2>1, NotListed
  <2> QED
    BY <1>1, <1>5, <2>2 DEF AnswersAreTrue, Words
<1> QED
  BY <1>2, <1>3, <1>4, <1>5

\* What State answers from the lines of wsl.exe.
LEMMA GetStateAnswers ==
    ASSUME IInv, Worldly, GetState
    PROVE  AnswersAreTrue'
<1>1. UNCHANGED <<seen, resized>> /\ (ret' = "failed" \/ ret' = Parse(ListVerbose))
  BY DEF GetState, Fails, Return, windows, history
<1>2. CASE ret' = "failed"
  BY <1>2, Harmless
<1>3. CASE ret' = Parse(ListVerbose) /\ ~Exists
  <2>1. ret' = "NotRegistered" /\ "NotRegistered" \in seen
    BY <1>3, ParseIs DEF State, Worldly
  <2> QED
    BY <1>1, <2>1 DEF AnswersAreTrue, Words
<1>4. CASE ret' = Parse(ListVerbose) /\ Exists
  <2>1. ret' = NewFromString(word[Guid]) /\ word[Guid] \in seen /\ word[Guid] \in Words
    BY <1>4, ParseIs, TheGuid DEF State, Worldly
  <2>2. CASE word[Guid] = "Converting"
    <3>1. ret' = "could not parse state" /\ "Converting" \in seen
      BY <2>1, <2>2 DEF NewFromString
    <3> QED
      BY <1>1, <3>1 DEF AnswersAreTrue, Words
  <2>3. CASE word[Guid] # "Converting"
    <3>1. ret' = word[Guid]
      BY <2>1, <2>3 DEF NewFromString
    <3> QED
      BY <1>1, <2>1, <2>3, <3>1 DEF AnswersAreTrue, Words
  <2> QED
    BY <2>2, <2>3
<1> QED
  BY <1>1, <1>2, <1>3, <1>4

\* Whatever step ends the call, its answer was true at some moment.
LEMMA StepAnswers ==
    ASSUME IInv, Shaped, Worldly, Told, Undisturbed, AnswersAreTrue, [Next]_vars
    PROVE  AnswersAreTrue'
<1>1. Worldly' /\ Remembers
  BY WorldStep
<1>2. CASE pc' # "done"
  BY <1>2 DEF AnswersAreTrue
<1>3. CASE ProcessExits \/ UNCHANGED vars
  <2>1. UNCHANGED <<pc, ret, seen, resized>>
    BY <1>3 DEF ProcessExits, vars, windows, history
  <2> QED
    BY <2>1 DEF AnswersAreTrue
<1>4. CASE (Stat \/ Enumerate \/ ReadName) /\ pc' = "done"
  <2>1. ret' = "listing failed"
    BY <1>4 DEF Stat, Enumerate, NextKey, ReadName, NameRead, ListingFails, IInv, Control,
                Continue, Return
  <2> QED
    BY <2>1, Harmless
<1>5. CASE Others
  BY <1>2, <1>5 DEF Others
<1>6. CASE Listed /\ pc' = "done"
  BY <1>6, ListedAnswers
<1>7. CASE GetState
  BY <1>7, GetStateAnswers
<1>8. CASE WslExe
  <2>1. CASE ret' \in {"ok", "failed"}
    BY <2>1, Harmless
  <2>2. CASE ~Exists /\ ret' = "does not exist" /\ UNCHANGED <<seen, resized>>
    BY <2>2 DEF AnswersAreTrue, State, Worldly, Words
  <2> QED
    BY <1>8, <2>1, <2>2 DEF WslExe, Fails, Return
<1>9. CASE \/ CallDll \/ OpenPackage \/ CallWslLaunch \/ GetProcessId \/ FindProcess
           \/ WslGetDistributionConfiguration \/ processEnvVariables \/ WslConfigureDistribution
  <2>1. ret' \in {"ok", "failed", "exit code"} \/ pc' # "done"
    BY <1>9 DEF CallDll, ShellError, OpenPackage, CallWslLaunch, GetProcessId, FindProcess,
                WslGetDistributionConfiguration, processEnvVariables, WslConfigureDistribution,
                Return, Continue
  <2> QED
    BY <1>2, <2>1, Harmless
<1> QED
  BY <1>2, <1>3, <1>4, <1>5, <1>6, <1>7, <1>8, <1>9 DEF Next
-----------------------------------------------------------------------------
(***************************************************************************)
(* The variables.                                                          *)
(***************************************************************************)
LEMMA CopyStarts ==
    ASSUME NEW b \in Seq([pair : BOOLEAN, variable : STRING, value : Nat]),
           env' = CopyOf(b), ret' # "ok"
    PROVE  Copied'
<1>1. /\ env' = [block |-> b, next |-> 1, map |-> <<>>]
      /\ env'.block = b /\ env'.next = 1 /\ env'.map = <<>>
  BY DEF CopyOf
<1>2. Pairs' = {}
  BY <1>1 DEF Pairs
<1>3. DOMAIN env'.map = {}
  BY <1>1
<1>4. Len(b) \in Nat /\ 1 \in 1..(Len(b) + 1)
  OBVIOUS
<1> QED
  BY <1>1, <1>2, <1>3, <1>4 DEF Copied

\* The loop's invariant survives an entry: a later value replaces an earlier.
LEMMA EntryCopied ==
    ASSUME Copied, processEnvVariables, env.next <= Len(env.block),
           call' = call, ret' = ret, ret # "ok"
    PROVE  Copied'
<1> DEFINE n == env.next
           block == env.block
           e == block[n]
<1>1. /\ env = [block |-> block, next |-> n, map |-> env.map]
      /\ block \in Seq([pair : BOOLEAN, variable : STRING, value : Nat])
      /\ n \in 1..(Len(block) + 1)
      /\ DOMAIN env.map = {block[k].variable : k \in Pairs}
      /\ \A k \in Pairs : (\A j \in Pairs : j > k => block[j].variable # block[k].variable)
            => env.map[block[k].variable] = block[k].value
  BY DEF Copied
<1>2. n \in Nat /\ Len(block) \in Nat /\ n <= Len(block) /\ n + 1 \in 1..(Len(block) + 1)
  BY <1>1
<1>3. env' = IF ~e.pair THEN [env EXCEPT !.next = @ + 1]
             ELSE [env EXCEPT !.next = @ + 1,
                              !.map = Assigned(@, e.variable, e.value)]
  BY <1>2 DEF processEnvVariables
<1>4. Pairs = {k \in 1..(n - 1) : block[k].pair}
  BY DEF Pairs
<1>5. CASE ~e.pair
  <2>1. env' = [block |-> block, next |-> n + 1, map |-> env.map]
    <3> HIDE DEF block, n
    <3> QED
      BY <1>1, <1>3, <1>5 DEF n
  <2>2. Pairs' = {k \in 1..n : block[k].pair}
    BY <1>2, <2>1 DEF Pairs
  <2>3. Pairs' = Pairs
    BY <1>2, <1>4, <1>5, <2>2
  <2>4. env'.block = block /\ env'.next = n + 1 /\ env'.map = env.map
    BY <2>1
  <2> HIDE DEF n, block, e
  <2> QED
    BY <1>1, <1>2, <2>1, <2>3, <2>4 DEF Copied
<1>6. CASE e.pair
  <2> DEFINE m == Assigned(env.map, e.variable, e.value)
  <2>1. env' = [block |-> block, next |-> n + 1, map |-> m]
    <3> HIDE DEF block, n, m, e
    <3>1. env' = [env EXCEPT !.next = n + 1, !.map = m]
      BY <1>3, <1>6, Zenon DEF n, m
    <3> DEFINE c == env
               map == env.map
               next == n + 1
    <3>2. c = [block |-> block, next |-> n, map |-> map]
      BY <1>1
    <3> HIDE DEF c, map, next
    <3> DEFINE c1 == [c EXCEPT !.next = next]
               c2 == [c1 EXCEPT !.map = m]
    <3>3. [c EXCEPT !.next = next, !.map = m] = [block |-> block, next |-> next, map |-> m]
      <4>1. [c EXCEPT !.next = next, !.map = m] = c2
        BY Zenon
      <4>2. c1 = [block |-> block, next |-> next, map |-> map]
        BY <3>2
      <4> HIDE DEF c1
      <4>3. c2 = [block |-> block, next |-> next, map |-> m]
        BY <4>2
      <4> QED
        BY <4>1, <4>3, Zenon
    <3> QED
      BY <3>1, <3>3, Zenon DEF c, next
  <2>2. env'.block = block /\ env'.next = n + 1 /\ env'.map = m
    BY <2>1
  <2>3. Pairs' = {k \in 1..n : block[k].pair}
    BY <1>2, <2>2 DEF Pairs
  <2>4. Pairs' = Pairs \cup {n} /\ \A k \in Pairs : k < n
    <3>1. n \in 1..n /\ \A k \in 1..n : k \in 1..(n - 1) \/ k = n
      BY <1>1, <1>2
    <3>2. \A k \in 1..(n - 1) : k \in 1..n /\ k < n
      BY <1>2
    <3>3. block[n].pair
      BY <1>6, Zenon
    <3> HIDE DEF n, block
    <3> QED
      BY <1>4, <2>3, <3>1, <3>2, <3>3
  <2>5. /\ DOMAIN m = DOMAIN env.map \cup {e.variable}
        /\ m[e.variable] = e.value
        /\ \A w \in DOMAIN env.map : w # e.variable => m[w] = env.map[w]
    <3> DEFINE v == e.variable
               x == e.value
               map == env.map
    <3> HIDE DEF v, x, map
    <3>1. /\ DOMAIN Assigned(map, v, x) = DOMAIN map \cup {v}
          /\ Assigned(map, v, x)[v] = x
          /\ \A w \in DOMAIN map : w # v => Assigned(map, v, x)[w] = map[w]
      BY DEF Assigned
    <3> QED
      BY <3>1 DEF v, x, map
  <2> HIDE DEF m
  <2>6. DOMAIN m = {block[k].variable : k \in Pairs'}
    BY <1>1, <2>4, <2>5
  <2>7. ASSUME NEW k \in Pairs', \A j \in Pairs' : j > k => block[j].variable # block[k].variable
        PROVE  m[block[k].variable] = block[k].value
    <3>1. CASE k = n
      BY <2>5, <3>1
    <3>2. CASE k # n
      <4>1. k \in Pairs /\ n \in Pairs' /\ n > k
        BY <1>2, <1>4, <2>4, <3>2
      <4>2. block[k].variable # e.variable /\ block[k].variable \in DOMAIN env.map
        BY <1>1, <2>7, <4>1
      <4>3. env.map[block[k].variable] = block[k].value
        BY <1>1, <2>4, <2>7, <4>1
      <4> QED
        BY <2>5, <4>2, <4>3
    <3> QED
      BY <3>1, <3>2
  <2> HIDE DEF n, block, e
  <2> QED
    BY <1>1, <1>2, <2>1, <2>2, <2>6, <2>7 DEF Copied
<1> QED
  BY <1>5, <1>6

\* Only the loop over its entries makes a call of GetConfiguration succeed.
LEMMA OthersNotOk ==
    ASSUME IInv, [Next]_vars, ~processEnvVariables, call.method = "GetConfiguration", ret' = "ok"
    PROVE  ret = "ok"
<1>1. SUFFICES ASSUME Next
               PROVE  ret = "ok"
  BY DEF vars
<1>2. CASE Stat \/ Enumerate \/ ReadName \/ OpenPackage \/ CallWslLaunch \/ GetProcessId
           \/ ProcessExits \/ Others \/ WslGetDistributionConfiguration
  BY <1>2 DEF Stat, Enumerate, ReadName, OpenPackage, CallWslLaunch, GetProcessId, ProcessExits,
              Others, WslGetDistributionConfiguration, NextKey, NameRead, ListingFails, Continue,
              Return
<1>3. CASE Listed
  BY <1>3 DEF Listed, Continue, Return
<1>4. CASE GetState
  BY <1>4, ParseNotOk DEF GetState, Fails, Return
<1>5. CASE WslExe \/ CallDll
  BY <1>5 DEF WslExe, Serve, CallDll, DllServes, Fails, ShellError, Return
<1>6. CASE WslConfigureDistribution \/ FindProcess
  BY <1>6 DEF WslConfigureDistribution, FindProcess, IInv, Control
<1> QED
  BY <1>1, <1>2, <1>3, <1>4, <1>5, <1>6 DEF Next

\* Every step keeps the loop's invariant.
LEMMA StepCopied ==
    ASSUME IInv, Copied, [Next]_vars
    PROVE  Copied'
<1>1. call' = call
  BY DEF Next, vars, Stat, Enumerate, ReadName, Listed, GetState, WslExe, OpenPackage, CallDll,
         CallWslLaunch, GetProcessId, FindProcess, ProcessExits, Others,
         WslGetDistributionConfiguration, processEnvVariables, WslConfigureDistribution
<1>2. CASE processEnvVariables
  <2>1. ret = "none"
    BY <1>2 DEF processEnvVariables, IInv, Control
  <2>2. CASE env.next <= Len(env.block)
    <3>1. ret' = ret
      BY <1>2, <2>2, <2>1 DEF processEnvVariables, Copied
    <3> QED
      BY <1>1, <1>2, <2>1, <2>2, <3>1, EntryCopied
  <2>3. CASE env.next > Len(env.block)
    <3>1. env' = env /\ env.next = Len(env.block) + 1
      BY <1>2, <2>3 DEF processEnvVariables, Copied
    <3> QED
      BY <1>1, <3>1 DEF Copied, Pairs
  <2> QED
    BY <2>2, <2>3 DEF Copied
<1>3. CASE ~processEnvVariables /\ env' = env
  BY <1>1, <1>3, OthersNotOk DEF Copied, Pairs
<1>4. CASE env' # env /\ ~processEnvVariables
  <2>1. WslGetDistributionConfiguration
    BY <1>4 DEF Next, vars, Stat, Enumerate, ReadName, Listed, GetState, WslExe,
       OpenPackage, CallDll, CallWslLaunch, GetProcessId, FindProcess, ProcessExits, Others,
       WslConfigureDistribution
  <2>2. PICK b \in Blocks : env' = CopyOf(b) /\ ret' = ret
    BY <1>4, <2>1 DEF WslGetDistributionConfiguration, Continue
  <2>3. ret' # "ok"
    BY <2>1, <2>2 DEF WslGetDistributionConfiguration, IInv, Control
  <2> QED
    BY <2>2, <2>3, CopyStarts, BlocksAssumption
<1> QED
  BY <1>2, <1>3, <1>4
-----------------------------------------------------------------------------
(***************************************************************************)
(* The theorems.                                                           *)
(***************************************************************************)
LEMMA AInvIs ==
    ASSUME TRUE
    PROVE  AInv <=> IInv /\ Shaped /\ Worldly /\ Told /\ Undisturbed /\ AnswersAreTrue /\ Copied
<1>1. IInv /\ Told => (TypeOK <=> Shaped /\ Worldly)
  BY TypeParts DEF Told
<1>2. IInv /\ Worldly /\ Told => State \in seen
  BY DEF Told
<1> QED
  BY <1>1, <1>2 DEF AInv

\* A call that has just begun knows nothing wrong.
LEMMA InitAInv ==
    ASSUME Init
    PROVE  AInv
<1>1. IInv /\ Worldly
  BY InitIInv, InitWorldly
<1>2. Shaped
  <2>1. pc \in {"stat", "wslExe"} /\ count = 0 /\ keys = <<>> /\ found = "nobody"
    BY DEF Init
  <2>2. keys \in Seq(Guids \cup Foreign) /\ Len(keys) = 0
    BY <2>1
  <2> QED
    BY <2>1, <2>2, FiniteKeys DEF Shaped, Steps
<1>3. Told
  <2>1. distros[subject] = NoGuid /\ seen = {State}
    BY DEF Init
  <2> QED
    BY <2>1 DEF Told
<1>4. Undisturbed /\ AnswersAreTrue
  <2>1. pc \in {"stat", "wslExe"} /\ distros = [n \in Names |-> NoGuid]
    BY DEF Init
  <2> QED
    BY <2>1 DEF Undisturbed, Enumerated, Pending, AnswersAreTrue
<1>5. Copied
  <2>1. env = [block |-> <<>>, next |-> 1, map |-> <<>>] /\ ret = "none"
    BY DEF Init, CopyOf
  <2>2. env.block = <<>> /\ env.next = 1 /\ env.map = <<>>
    BY <2>1
  <2>3. Pairs = {} /\ DOMAIN env.map = {} /\ Len(env.block) = 0
    BY <2>2 DEF Pairs
  <2>4. env.block \in Seq([pair : BOOLEAN, variable : STRING, value : Nat])
    BY <2>2
  <2> QED
    BY <2>1, <2>2, <2>3, <2>4 DEF Copied
<1> QED
  BY <1>1, <1>2, <1>3, <1>4, <1>5, AInvIs

\* AInv is inductive.
LEMMA StepAInv ==
    ASSUME AInv, [Next]_vars
    PROVE  AInv'
<1>1. IInv /\ Shaped /\ Worldly /\ Told /\ Undisturbed /\ AnswersAreTrue /\ Copied
  BY AInvIs
<1>2. IInv' /\ Shaped' /\ Worldly' /\ Told'
  BY <1>1, StepIInv, StepShaped, WorldStep, StepTold
<1>3. Undisturbed' /\ AnswersAreTrue' /\ Copied'
  BY <1>1, StepUndisturbed, StepAnswers, StepCopied
<1>4. TypeOK'
  <2>1. WindowsOK'
    BY <1>2 DEF IInv, Typed, WindowsOK, Worldly
  <2>2. /\ call' \in Calls /\ distros' \in [Names -> Guids \cup {NoGuid}]
        /\ got' = <<>> \/ got'[1] \in [uid : Users, flags : Unpacked]
        /\ process' \in [alive : BOOLEAN, handle : BOOLEAN, pid : {"nobody", "ours", "another"}]
    BY <1>2 DEF IInv, Typed
  <2> QED
    BY <1>2, <2>1, <2>2, Zenon DEF TypeOK, Shaped, Steps
<1> QED
  BY <1>2, <1>3, <1>4 DEF AInv

\* What a call is about to answer is accounted for at every step (WindowsInv).
THEOREM Accounted == Spec => []AInv
<1>1. Init => AInv
  BY InitAInv
<1>2. AInv /\ [Next]_vars => AInv'
  BY StepAInv
<1> QED
  BY <1>1, <1>2, PTL DEF Spec

\* Every variable stays in its type.
THEOREM TypeCorrect == Spec => []TypeOK
<1>1. AInv => TypeOK
  BY DEF AInv
<1> QED
  BY <1>1, Accounted, PTL

\* The listing that registeredDistros builds, one key after the other, has every
\* distro under its own GUID when nobody interferes, and never invents one.
THEOREM SoundListing == Spec => []ListingIsSound
<1>1. AInv => ListingIsSound
  <2> SUFFICES ASSUME AInv, pc = "names", keys = <<>>
               PROVE  /\ ~resized => \A n \in Names : distros[n] =
                            IF \E g \in Registered : name[g] = n
                            THEN CHOOSE g \in Registered : name[g] = n ELSE NoGuid
                      /\ distros[subject] # NoGuid => seen # {"NotRegistered"}
    BY DEF ListingIsSound
  <2>1. distros[subject] # NoGuid => seen # {"NotRegistered"}
    BY DEF AInv, Told
  <2>2. ASSUME ~resized, NEW n \in Names
        PROVE  distros[n] = IF \E g \in Registered : name[g] = n
                            THEN CHOOSE g \in Registered : name[g] = n ELSE NoGuid
    <3>1. /\ \A g \in Registered : distros[name[g]] = g
          /\ distros[n] # NoGuid => distros[n] \in Registered
      BY <2>2 DEF AInv, Undisturbed, Pending
    <3>2. CASE \E g \in Registered : name[g] = n
      <4>1. PICK g \in Registered : name[g] = n
        BY <3>2
      <4>2. \A h \in Registered : name[h] = n => h = g
        BY <4>1 DEF AInv, IInv, Unique
      <4>3. (CHOOSE h \in Registered : name[h] = n) = g
        BY <4>1, <4>2
      <4>4. distros[n] = g
        BY <3>1, <4>1
      <4> QED
        BY <3>2, <4>3, <4>4
    <3>3. CASE ~\E g \in Registered : name[g] = n
      <4>1. distros[n] \in Registered => name[distros[n]] = n
        BY <2>2, <3>1, GuidsAssumption DEF AInv, IInv, Listings, Registered
      <4> QED
        BY <3>1, <3>3, <4>1
    <3> QED
      BY <3>2, <3>3
  <2> QED
    BY <2>1, <2>2
<1> QED
  BY <1>1, Accounted, PTL

\* What a call answers about a distro was true at some moment of the call, or a
\* distro came or went meanwhile (State, isRegistered, mustBeRegistered and the
\* parser of wsl.exe's listing).
THEOREM TrueAnswers == Spec => []AnswersAreTrue
<1>1. AInv => AnswersAreTrue
  BY DEF AInv
<1> QED
  BY <1>1, Accounted, PTL

\* The map that GetConfiguration hands out has the last value of every variable
\* and no other variable, whatever the block (processEnvVariables).
THEOREM LastValueWins == Spec => []EnvCopied
<1>1. AInv => EnvCopied
  <2> SUFFICES ASSUME AInv, call.method = "GetConfiguration", ret = "ok"
               PROVE  LET pairs == {k \in DOMAIN env.block : env.block[k].pair} IN
                      /\ DOMAIN env.map = {env.block[k].variable : k \in pairs}
                      /\ \A k \in pairs :
                            (\A j \in pairs : j > k
                                => env.block[j].variable # env.block[k].variable)
                            => env.map[env.block[k].variable] = env.block[k].value
    BY DEF EnvCopied
  <2>1. Copied /\ env.next = Len(env.block) + 1 /\ DOMAIN env.block = 1..Len(env.block)
        /\ Len(env.block) \in Nat
    BY DEF AInv, Copied
  <2>2. Pairs = {k \in DOMAIN env.block : env.block[k].pair}
    BY <2>1 DEF Pairs
  <2> QED
    BY <2>1, <2>2, Zenon DEF Copied
<1> QED
  BY <1>1, Accounted, PTL
=============================================================================
