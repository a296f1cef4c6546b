----------------------------- MODULE MCRegistry -----------------------------
(***************************************************************************)
(* Instances of Registry for TLC.                                          *)
(***************************************************************************)
EXTENDS RegistryInv, TLC

CONSTANT ubuntu     \* the name of the distro whose configuration is changed

ASSUME UbuntuAssumption == ubuntu \in Names

Setting(f, v) == [name |-> ubuntu, field |-> f, value |-> v]
MCSettings == {Setting("interop", 0), Setting("uid", 1)}

Symmetry == Permutations(Threads)
=============================================================================
