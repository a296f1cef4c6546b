---------------------------- MODULE RegistryTypes ----------------------------
(***************************************************************************)
(* The data of the Lxss registry key of the mock: the GUIDs that name its  *)
(* sub-keys and the configuration each sub-key holds.                      *)
(***************************************************************************)
EXTENDS Naturals

CONSTANTS
    Names,      \* of distros, lower case
    Guids,      \* numbered in the order of their strings
    Flags       \* the flags of a configuration that a setter may change

ASSUME GuidsAssumption == Guids \subseteq Nat \ {0}
ASSUME FlagsAssumption == "uid" \notin Flags

NoGuid == 0     \* the empty string, which comes before every GUID

Fields == Flags \cup {"uid"}
Values == 0..1  \* a flag that is off or on, the root user or another one
Confs == [Fields -> Values]

\* What WslRegisterDistribution writes: all flags on, the root user.
NewConf == [f \in Fields |-> IF f \in Flags THEN 1 ELSE 0]
=============================================================================
