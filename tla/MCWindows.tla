----------------------------- MODULE MCWindows -----------------------------
(***************************************************************************)
(* Instances of WindowsBackend for TLC.                                    *)
(***************************************************************************)
EXTENDS WindowsInv

CONSTANTS root, user

MCSomeConfs == {[uid |-> root, flags |-> f] : f \in {6, 9}}

Call(m) == [method |-> m, field |-> "uid", value |-> user]
MCCalls ==
    {Call(m) : m \in Listing \cup Direct}
    \cup [method : {"Set"}, field : Flags, value : BOOLEAN]

\* No variables, one twice, and one without an equals sign.
Pair(v, n) == [pair |-> TRUE, variable |-> v, value |-> n]
MCBlocks ==
    {<<>>, <<Pair("PATH", 1), Pair("TERM", 1), Pair("PATH", 2)>>,
     <<Pair("PATH", 1), [pair |-> FALSE, variable |-> "LANG", value |-> 0], Pair("TERM", 1)>>}
=============================================================================
