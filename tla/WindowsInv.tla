----------------------------- MODULE WindowsInv -----------------------------
(***************************************************************************)
(* The inductive invariant of WindowsBackend.                              *)
(***************************************************************************)
EXTENDS WindowsBackend

Typed ==
    /\ name \in [Guids -> Names \cup {NoName}] /\ conf \in [Guids -> Confs]
    /\ Registered \subseteq used
    /\ call \in Calls /\ subject \in Names
    /\ distros \in [Names -> Guids \cup {NoGuid}]
    /\ got # <<>> => got[1] \in [uid : Users, flags : Unpacked]
    /\ process \in [alive : BOOLEAN, handle : BOOLEAN, pid : {"nobody", "ours", "another"}]

\* No two distros have one name.
Unique == \A g, h \in Registered : name[g] = name[h] => g = h

\* A call has no result before it is done, and only some get to these steps.
Control ==
    /\ pc # "done" => ret = "none"
    /\ pc = "put" => call.method = "Set" /\ got # <<>>
    /\ pc = "env" => call.method = "GetConfiguration"
    /\ pc = "get" => call.method \in {"GetConfiguration", "Set"}
    /\ pc \in {"launch", "getProcessId", "findProcess"} => call.method = "Start"

\* A GUID in the listing was drawn, and names that distro for ever.
Listings == \A n \in Names : distros[n] # NoGuid =>
    distros[n] \in used /\ (distros[n] \in Registered => name[distros[n]] = n)

\* What a setter has read is the configuration, as long as nobody changed it.
Fresh == (got # <<>> /\ pc # "done" /\ ~resized /\ ~reconfigured) =>
    Exists /\ got[1] = [uid |-> conf[Guid].uid, flags |-> Unpack(conf[Guid].flags)]

\* The handle is there as long as the process is, and its pid is its own.
Handled == (process.alive => process.handle) /\ process.pid # "another" /\ found # "another"

\* What a call knows of a distro stays true while other programs change what
\* they like: a GUID keeps its name or is gone for good, a configuration that was
\* read is current unless somebody wrote, a pid is not reused under a handle.
IInv == Typed /\ Unique /\ Control /\ Listings /\ Fresh /\ Handled
-----------------------------------------------------------------------------
\* The history has the state that the subject is in now; a subject that the
\* listing has was there.
Told ==
    /\ State \in seen
    /\ distros[subject] # NoGuid => seen # {"NotRegistered"}

\* The keys that were read are the first ones, and those of an older listing
\* are forgotten.
Enumerated == pc = "enumerate" =>
    /\ count = Cardinality(Subkeys) /\ Len(keys) <= count
    /\ \A i \in 1..Len(keys) : keys[i] = Nth(Subkeys, i)

\* Every distro is in the listing, or its key is yet to be opened.
Pending == pc = "names" =>
    /\ \A i \in 1..Len(keys) : keys[i] \in Subkeys
    /\ \A g \in Registered : distros[name[g]] = g \/ \E i \in 1..Len(keys) : keys[i] = g

\* A listing under way while no distro comes or goes.
Undisturbed == ~resized =>
    /\ Enumerated /\ Pending
    /\ \A n \in Names : distros[n] # NoGuid => distros[n] \in Registered

\* The pairs among the entries that were looked at.
Pairs == {k \in 1..(env.next - 1) : env.block[k].pair}

\* The map that the loop is building, over the entries it has looked at; a
\* configuration is handed out when it has looked at all of them.
Copied ==
    /\ env = [block |-> env.block, next |-> env.next, map |-> env.map]
    /\ env.block \in Seq([pair : BOOLEAN, variable : STRING, value : Nat])
    /\ env.next \in 1..(Len(env.block) + 1)
    /\ DOMAIN env.map = {env.block[k].variable : k \in Pairs}
    /\ \A k \in Pairs :
          (\A j \in Pairs : j > k => env.block[j].variable # env.block[k].variable)
             => env.map[env.block[k].variable] = env.block[k].value
    /\ call.method = "GetConfiguration" /\ ret = "ok" => env.next = Len(env.block) + 1

\* What a call is about to answer is true already while it is being found out:
\* of a listing under way every distro is accounted for, of a block under way
\* every entry that was passed.
AInv == IInv /\ TypeOK /\ Told /\ Undisturbed /\ AnswersAreTrue /\ Copied
=============================================================================
