--------------------------- MODULE WindowsBackend ---------------------------
(***************************************************************************)
(* A call of the public API on the Windows back-end: registration.go,      *)
(* distro.go and internal/backend/windows.  Unlike the mock, Windows gives *)
(* no lock: between any two steps of a call other programs register,       *)
(* remove, start, stop and configure distros.  The back-end keeps nothing  *)
(* from one call to the next, so that one call, begun in any state of      *)
(* Windows, stands for any number of them.                                 *)
(***************************************************************************)
EXTENDS Windows, Sequences

CONSTANTS
    Calls,      \* what is called: a method, and for a setter the field and its new value
    Blocks      \* blocks of environment variables that WSL hands out

\* Methods that first list the registered distros, and those that run wsl.exe only.
Listing == {"RegisteredDistros", "Register", "Unregister", "State", "GetConfiguration", "Set",
            "Uninstall", "Shell", "Start"}
Direct == {"Terminate", "SetAsDefault", "Shutdown", "Import"}

Flags == {"InteropEnabled", "PathAppended", "DriveMountingEnabled"}

ASSUME CallsAssumption ==
    Calls \subseteq [method : Listing \cup Direct, field : Flags, value : BOOLEAN]
                    \cup [method : Listing \cup Direct, field : {"uid"}, value : Users]
ASSUME BlocksAssumption ==
    \A b \in Blocks : b \in Seq([pair : BOOLEAN, variable : STRING, value : Nat])

VARIABLES
    call,
    pc,         \* the step of the call that comes next; "done" when it has returned
    count,      \* what Stat said of the number of sub-keys
    keys,       \* the sub-keys that were enumerated and not opened yet
    distros,    \* the listing: for each name the GUID, or NoGuid
    got,        \* the configuration that was read, as one-element sequence, or nothing
    env,        \* how far processEnvVariables has come with its block
    process,    \* the process that WslLaunch started, and whom its pid names
    found,      \* whose process os.FindProcess has opened
    ret

listing == <<count, keys, distros>>
launching == <<process, found>>
vars == <<windows, call, pc, listing, got, env, launching, ret>>

\* The copying of a block: the entry that comes next, and the map so far.
CopyOf(block) == [block |-> block, next |-> 1, map |-> <<>>]

Init ==
    /\ name \in [Guids -> Names \cup {NoName}]
    /\ \A g, h \in Registered : g # h => name[g] # name[h]
    /\ word = [g \in Guids |-> "Stopped"]
    /\ \E c \in SomeConfs : conf = [g \in Guids |-> c]
    /\ default \in Registered \cup {NoGuid} /\ used = Registered
    /\ subject \in Names
    /\ changes = 0 /\ seen = {State} /\ resized = FALSE /\ reconfigured = FALSE
    /\ call \in Calls
    /\ pc = IF call.method \in Listing THEN "stat" ELSE "wslExe"
    /\ count = 0 /\ keys = <<>> /\ distros = [n \in Names |-> NoGuid]
    /\ got = <<>> /\ env = CopyOf(<<>>)
    /\ process = [alive |-> FALSE, handle |-> FALSE, pid |-> "nobody"]
    /\ found = "nobody"
    /\ ret = "none"

Return(r) == pc' = "done" /\ ret' = r
Continue(step) == pc' = step /\ UNCHANGED ret
-----------------------------------------------------------------------------
(***************************************************************************)
(* registeredDistros.  SubkeyNames asks for the number of sub-keys and     *)
(* then for that many of them, one after the other; asked for none, it     *)
(* reads them all.  Windows may refuse each request, and the first that    *)
(* fails makes the listing fail.                                           *)
(***************************************************************************)
ListingFails == Return("listing failed")

\* Mutant: the slice is made with a length and then appended to.
StatWithLength ==
    /\ pc = "stat"
    /\ \/ /\ count' = Cardinality(Subkeys) /\ keys' = <<NoGuid>>
          /\ distros' = [n \in Names |-> NoGuid] /\ Continue("enumerate")
       \/ ListingFails /\ UNCHANGED listing
    /\ UNCHANGED <<windows, call, got, env, launching>>

\* Opening the Lxss key, and its Stat.
Stat ==
    /\ pc = "stat"
    /\ \/ /\ count' = Cardinality(Subkeys) /\ keys' = <<>>
          /\ distros' = [n \in Names |-> NoGuid] /\ Continue("enumerate")
       \/ ListingFails /\ UNCHANGED listing
    /\ UNCHANGED <<windows, call, got, env, launching>>

NextKey == keys' = Append(keys, Nth(Subkeys, Len(keys) + 1)) /\ UNCHANGED <<pc, ret>>

\* Mutant: one sub-key too few.
EnumerateFewer ==
    /\ pc = "enumerate"
    /\ IF count > 0 /\ Len(keys) = count - 1
       THEN Continue("names") /\ UNCHANGED keys
       ELSE \/ Len(keys) < Cardinality(Subkeys) /\ NextKey
            \/ Len(keys) >= Cardinality(Subkeys) /\ Continue("names") /\ UNCHANGED keys
            \/ ListingFails /\ UNCHANGED keys
    /\ UNCHANGED <<windows, call, count, distros, got, env, launching>>

\* The x/sys call returns an error also when there are fewer than it was asked for.
Enumerate ==
    /\ pc = "enumerate"
    /\ IF count > 0 /\ Len(keys) = count
       THEN Continue("names") /\ UNCHANGED keys
       ELSE \/ Len(keys) < Cardinality(Subkeys) /\ NextKey
            \/ /\ Len(keys) >= Cardinality(Subkeys) /\ Len(keys) >= count
               /\ Continue("names") /\ UNCHANGED keys
            \/ ListingFails /\ UNCHANGED keys
    /\ UNCHANGED <<windows, call, count, distros, got, env, launching>>

\* Opening a sub-key and reading a value can succeed only while it is there.
Opens(key) == key \in Registered

NameRead ==
    /\ Opens(Head(keys))
    /\ keys' = Tail(keys) /\ distros' = [distros EXCEPT ![name[Head(keys)]] = Head(keys)]
    /\ UNCHANGED <<pc, ret>>

\* Mutant: the first sub-key that is no GUID ends the loop.
ReadNameStops ==
    /\ pc = "names" /\ keys # <<>>
    /\ IF Head(keys) \in Foreign
       THEN keys' = <<>> /\ UNCHANGED <<distros, pc, ret>>
       ELSE NameRead \/ (ListingFails /\ UNCHANGED <<keys, distros>>)
    /\ UNCHANGED <<windows, call, count, got, env, launching>>

\* The next sub-key, if it is a GUID, and the name in it.
ReadName ==
    /\ pc = "names" /\ keys # <<>>
    /\ IF Head(keys) \in Foreign
       THEN keys' = Tail(keys) /\ UNCHANGED <<distros, pc, ret>>
       ELSE NameRead \/ (ListingFails /\ UNCHANGED <<keys, distros>>)
    /\ UNCHANGED <<windows, call, count, got, env, launching>>

(***************************************************************************)
(* What a method does with the listing: isRegistered, mustBeRegistered.    *)
(***************************************************************************)
Listed ==
    /\ pc = "names" /\ keys = <<>>
    /\ LET registered == distros[subject] # NoGuid IN
       IF call.method = "RegisteredDistros" THEN Return("ok")
       ELSE IF call.method = "Register"
       THEN IF registered THEN Return("already registered") ELSE Continue("callDll")
       ELSE IF ~registered
       THEN Return(IF call.method = "State" THEN "NotRegistered" ELSE "does not exist")
       ELSE Continue(CASE call.method = "State" -> "listVerbose"
                       [] call.method = "GetConfiguration" -> "get"
                       [] call.method = "Set" -> IF got = <<>> THEN "get" ELSE "put"
                       [] call.method = "Start" -> "launch"
                       [] call.method = "Uninstall" -> "open"
                       [] OTHER -> "callDll")
    /\ UNCHANGED <<windows, call, listing, got, env, launching>>
-----------------------------------------------------------------------------
(***************************************************************************)
(* wsl.exe.  Its listing has a header and a line for each distro, with an  *)
(* asterisk before the default one.                                        *)
(***************************************************************************)
Header == <<"NAME", "STATE", "VERSION">>

Line(g) == (IF g = default THEN <<"*">> ELSE <<>>) \o <<name[g], word[g], "2">>

ListVerbose ==
    <<Header>> \o [i \in 1..Cardinality(Registered) |-> Line(Nth(Registered, i))]

NewFromString(w) == IF w \in Words \ {"Converting"} THEN w ELSE "could not parse state"

\* The columns of a line without the leading asterisk.
Data(line) == IF Len(line) = 4 THEN Tail(line) ELSE line

\* Mutant: the asterisk is taken for the name.
ParseColumns(out) ==
    LET matches == {i \in 2..Len(out) : out[i][1] = subject} IN
    IF matches = {} THEN "NotRegistered" ELSE NewFromString(out[Nth(matches, 1)][2])

\* The first line after the header that is about the distro.
Parse(out) ==
    LET matches == {i \in 2..Len(out) : Data(out[i])[1] = subject} IN
    IF matches = {} THEN "NotRegistered" ELSE NewFromString(Data(out[Nth(matches, 1)])[2])

\* wsl.exe fails, or does not answer within five or ten seconds and is killed.
Fails == Return("failed")

GetState ==
    /\ pc = "listVerbose"
    /\ Return(Parse(ListVerbose)) \/ Fails
    /\ UNCHANGED <<windows, call, listing, got, env, launching>>

\* What WSL does at the request of wsl.exe.
Serve ==
    \/ call.method = "Terminate" /\ Exists /\ Goes({Guid}, "Stopped")
    \/ call.method = "Shutdown" /\ Goes(Registered, "Stopped")
    \/ call.method = "SetAsDefault" /\ Exists /\ BecomesDefault(Guid)
    \/ call.method = "Import" /\ \E g \in Guids : Registers(g, subject)

WslExe ==
    /\ pc = "wslExe" /\ UNCHANGED subject
    /\ \/ Serve /\ Remember /\ (Return("ok") \/ Fails)
       \/ /\ \/ call.method \in {"Terminate", "SetAsDefault"} /\ ~Exists /\ Return("does not exist")
             \/ Fails
          /\ UNCHANGED <<wsl, seen, resized>>
    /\ UNCHANGED <<changes, reconfigured, call, listing, got, env, launching>>
-----------------------------------------------------------------------------
(***************************************************************************)
(* wslapi.dll.                                                             *)
(***************************************************************************)
\* A setter makes no use of the variables.
WslGetDistributionConfiguration ==
    /\ pc = "get"
    /\ \/ /\ Exists
          /\ got' = <<[uid |-> conf[Guid].uid, flags |-> Unpack(conf[Guid].flags)]>>
          /\ \/ /\ call.method = "GetConfiguration" /\ Continue("env")
                /\ \E b \in Blocks : env' = CopyOf(b)
             \/ call.method = "Set" /\ Continue("stat") /\ UNCHANGED env
       \/ Return("failed") /\ UNCHANGED <<got, env>>
    /\ UNCHANGED <<windows, call, listing, launching>>

\* Mutant: the first value of a variable stays.
AssignedOnce(map, variable, value) ==
    [v \in DOMAIN map \cup {variable} |-> IF v \in DOMAIN map THEN map[v] ELSE value]

\* A map after map[variable] = value.
Assigned(map, variable, value) ==
    [v \in DOMAIN map \cup {variable} |-> IF v = variable THEN value ELSE map[v]]

\* Copying the block of environment variables, entry by entry; entries without
\* an equals sign are passed over (and, unlike the others, not freed).
processEnvVariables ==
    /\ pc = "env"
    /\ IF env.next > Len(env.block) THEN Return("ok") /\ UNCHANGED env
       ELSE LET entry == env.block[env.next] IN
            /\ env' = IF ~entry.pair THEN [env EXCEPT !.next = @ + 1]
                      ELSE [env EXCEPT !.next = @ + 1,
                                       !.map = Assigned(@, entry.variable, entry.value)]
            /\ UNCHANGED <<pc, ret>>
    /\ UNCHANGED <<windows, call, listing, got, launching>>

\* The setter's field is changed, everything else written as it was read.
Changed(c) ==
    IF call.field = "uid" THEN [c EXCEPT !.uid = call.value]
                          ELSE [c EXCEPT !.flags[call.field] = call.value]

WslConfigureDistribution ==
    /\ pc = "put"
    /\ LET c == Changed(got[1]) IN
       \/ /\ Packable(c.flags) /\ Exists
          /\ IsConfigured(Guid, [uid |-> c.uid, flags |-> Pack(c.flags)])
          /\ Return("ok")
       \/ Return("failed") /\ UNCHANGED wsl
    /\ UNCHANGED <<subject, history, call, listing, got, env, launching>>

\* WslRegisterDistribution, WslUnregisterDistribution and WslLaunchInteractive.
DllServes ==
    \/ call.method = "Register" /\ \E g \in Guids : Registers(g, subject)
    \/ call.method \in {"Unregister", "Uninstall"} /\ Exists /\ Unregisters(Guid)
    \/ call.method = "Shell" /\ Exists /\ Goes({Guid}, "Running")

\* The command in the shell exits with another status than zero.
ShellError == call.method = "Shell" /\ Return("exit code")

\* Mutant: the number that the procedure returns is not looked at.
CallDllUnchecked ==
    /\ pc = "callDll" /\ UNCHANGED subject
    /\ \/ DllServes /\ Remember /\ Return("ok")
       \/ Return("ok") /\ UNCHANGED <<wsl, seen, resized>>
    /\ UNCHANGED <<changes, reconfigured, call, listing, got, env, launching>>

CallDll ==
    /\ pc = "callDll" /\ UNCHANGED subject
    /\ \/ /\ DllServes /\ Remember
          /\ Return("ok") \/ ShellError
       \/ Return("failed") /\ UNCHANGED <<wsl, seen, resized>>
    /\ UNCHANGED <<changes, reconfigured, call, listing, got, env, launching>>

\* Uninstall looks into the sub-key that the listing had for the distro, and
\* removes its package, before it unregisters the distro by name.
OpenPackage ==
    /\ pc = "open"
    /\ \/ Opens(distros[subject]) /\ Continue("callDll")
       \/ Return("failed")
    /\ UNCHANGED <<windows, call, listing, got, env, launching>>

(***************************************************************************)
(* WslLaunch gets a handle to the process, from the handle its pid, and    *)
(* opens the process of that pid.  Windows gives a pid away once the       *)
(* process has exited and nobody has a handle to it.                       *)
(***************************************************************************)
CallWslLaunch ==
    /\ pc = "launch" /\ UNCHANGED subject
    /\ \/ /\ Exists /\ Goes({Guid}, "Running") /\ Remember
          /\ process' = [alive |-> TRUE, handle |-> TRUE, pid |-> "ours"]
          /\ Continue("getProcessId")
       \/ Return("failed") /\ UNCHANGED <<wsl, seen, resized, process>>
    /\ UNCHANGED <<changes, reconfigured, call, listing, got, env, found>>

\* Mutant: the handle is closed as soon as the pid is known.
GetProcessIdAndClose ==
    /\ pc = "getProcessId"
    /\ \/ Continue("findProcess") /\ process' = [process EXCEPT !.handle = FALSE]
       \/ Return("failed") /\ UNCHANGED process
    /\ UNCHANGED <<windows, call, listing, got, env, found>>

GetProcessId ==
    /\ pc = "getProcessId"
    /\ Continue("findProcess") \/ Return("failed")
    /\ UNCHANGED <<windows, call, listing, got, env, launching>>

FindProcess ==
    /\ pc = "findProcess"
    /\ \/ process.pid # "nobody" /\ found' = process.pid /\ Return("ok")
       \/ Return("failed") /\ UNCHANGED found
    /\ UNCHANGED <<windows, call, listing, got, env, process>>

ProcessExits ==
    /\ process.alive
    /\ \E whose \in IF process.handle THEN {"ours"} ELSE {"nobody", "another"} :
          process' = [process EXCEPT !.alive = FALSE, !.pid = whose]
    /\ UNCHANGED <<windows, call, pc, listing, got, env, found, ret>>

-----------------------------------------------------------------------------
Others ==
    /\ pc # "done"
    /\ OthersAct
    /\ UNCHANGED <<call, pc, listing, got, env, launching, ret>>

Next ==
    \/ Stat \/ Enumerate \/ ReadName \/ Listed
    \/ GetState \/ WslExe
    \/ WslGetDistributionConfiguration \/ processEnvVariables \/ WslConfigureDistribution
    \/ OpenPackage \/ CallDll
    \/ CallWslLaunch \/ GetProcessId \/ FindProcess \/ ProcessExits
    \/ Others

Spec == Init /\ [][Next]_vars
-----------------------------------------------------------------------------
(***************************************************************************)
(* Properties.                                                             *)
(***************************************************************************)
TypeOK ==
    /\ WindowsOK
    /\ call \in Calls
    /\ pc \in {"stat", "enumerate", "names", "listVerbose", "wslExe", "get", "env", "put", "open",
              "callDll", "launch", "getProcessId", "findProcess", "done"}
    /\ count \in 0..Cardinality(Guids \cup Foreign)
    /\ keys \in Seq(Guids \cup Foreign) /\ Len(keys) <= Cardinality(Guids \cup Foreign)
    /\ distros \in [Names -> Guids \cup {NoGuid}]
    /\ got = <<>> \/ got[1] \in [uid : Users, flags : Unpacked]
    /\ process \in [alive : BOOLEAN, handle : BOOLEAN, pid : {"nobody", "ours", "another"}]
    /\ found \in {"nobody", "ours", "another"}

\* A listing that nothing disturbed has every distro under its own GUID and
\* nothing else, whatever other sub-keys there are; a disturbed one still
\* never makes up a distro that was not there at any moment of the call.
ListingIsSound ==
    pc = "names" /\ keys = <<>> =>
        /\ ~resized => \A n \in Names : distros[n] =
                IF \E g \in Registered : name[g] = n
                THEN CHOOSE g \in Registered : name[g] = n ELSE NoGuid
        /\ distros[subject] # NoGuid => seen # {"NotRegistered"}

\* What a call says about a distro was true at some moment of the call: the
\* state it names, that it could not be named, that the distro is there.  Only
\* when a distro came or went in between can an existing one be reported missing.
AnswersAreTrue ==
    pc = "done" =>
        /\ ret \in Words => ret \in seen
        /\ ret = "could not parse state" => "Converting" \in seen
        /\ ret \in {"NotRegistered", "does not exist"} => "NotRegistered" \in seen \/ resized
        /\ ret = "already registered" => seen # {"NotRegistered"}

\* What a call says is done when it succeeds.
Effect ==
    CASE call.method \in {"Register", "Import"} -> Exists'
      [] call.method = "Unregister" -> ~Exists'
      [] call.method = "Uninstall" -> distros[subject] \notin Registered'
      [] call.method = "Terminate" -> State' = "Stopped"
      [] call.method = "Shutdown" -> \A g \in Registered' : word'[g] = "Stopped"
      [] call.method = "SetAsDefault" -> default' = Guid
      [] OTHER -> TRUE

\* What a call reports done is done: the distro is there, gone, stopped or the
\* default one.  Uninstall looks a distro up by GUID and unregisters by name: even
\* when others change the distros in between, the one it found is gone.
DoneWhenOk == [][ret = "none" /\ ret' = "ok" => Effect]_vars

\* The configuration c with the setter's change.
Intended(c) ==
    LET bit == CASE call.field = "InteropEnabled" -> flag_ENABLE_INTEROP
                 [] call.field = "PathAppended" -> flag_APPEND_NT_PATH
                 [] OTHER -> flag_ENABLE_DRIVE_MOUNTING
    IN  IF call.field = "uid" THEN [c EXCEPT !.uid = call.value]
        ELSE [c EXCEPT !.flags = @ - Bit(Has(@, bit), bit) + Bit(call.value, bit)]

\* A setter reads the flags as bits, changes one field and writes all of them
\* back as bits: unless others wrote in between, the other flags, the user and
\* the version of WSL stay as they were, and the field has its new value.
SetterKeepsRest ==
    [][pc = "put" /\ ret' = "ok" /\ ~reconfigured /\ ~resized
         => conf' = [conf EXCEPT ![Guid] = Intended(@)]]_vars

\* When the configuration is handed out, the map has the last value of every
\* variable in the block, and no other variable.
EnvCopied ==
    LET pairs == {k \in DOMAIN env.block : env.block[k].pair} IN
    call.method = "GetConfiguration" /\ ret = "ok" =>
        /\ DOMAIN env.map = {env.block[k].variable : k \in pairs}
        /\ \A k \in pairs :
              (\A j \in pairs : j > k => env.block[j].variable # env.block[k].variable)
                 => env.map[env.block[k].variable] = env.block[k].value

\* The process that Start hands out is the one that WslLaunch started, even if
\* it exits at once: its pid cannot be another's yet when it is opened.
LaunchFindsItsProcess == found # "another"
=============================================================================
