------------------------------ MODULE WslFlags ------------------------------
(***************************************************************************)
(* The flags of a distro's configuration (internal/flags): one bit each in *)
(* a number of the Windows API, four fields in Configuration.              *)
(***************************************************************************)
EXTENDS Integers

\* The bits GoWSL knows of, and every number made of them.
flag_ENABLE_INTEROP == 1
flag_APPEND_NT_PATH == 2
flag_ENABLE_DRIVE_MOUNTING == 4
flag_undocumented_WSL_VERSION == 8

WslFlags == 0..15

Has(f, bit) == (f \div bit) % 2 = 1

Unpacked == [InteropEnabled : BOOLEAN, PathAppended : BOOLEAN, DriveMountingEnabled : BOOLEAN,
             UndocumentedWSLVersion : 0..255]

Unpack(f) ==
    [InteropEnabled |-> Has(f, flag_ENABLE_INTEROP),
     PathAppended |-> Has(f, flag_APPEND_NT_PATH),
     DriveMountingEnabled |-> Has(f, flag_ENABLE_DRIVE_MOUNTING),
     UndocumentedWSLVersion |-> IF Has(f, flag_undocumented_WSL_VERSION) THEN 2 ELSE 1]

Bit(set, bit) == IF set THEN bit ELSE 0

\* Mutant: the version is not written back.
PackWithoutVersion(u) ==
    Bit(u.InteropEnabled, flag_ENABLE_INTEROP)
    + Bit(u.PathAppended, flag_APPEND_NT_PATH)
    + Bit(u.DriveMountingEnabled, flag_ENABLE_DRIVE_MOUNTING)

\* Defined for a Packable value: any other version is an error.
Packable(u) == u.UndocumentedWSLVersion \in {1, 2}

Pack(u) ==
    Bit(u.InteropEnabled, flag_ENABLE_INTEROP)
    + Bit(u.PathAppended, flag_APPEND_NT_PATH)
    + Bit(u.DriveMountingEnabled, flag_ENABLE_DRIVE_MOUNTING)
    + Bit(u.UndocumentedWSLVersion = 2, flag_undocumented_WSL_VERSION)
=============================================================================
