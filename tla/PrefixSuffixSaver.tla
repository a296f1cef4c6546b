------------------------- MODULE PrefixSuffixSaver -------------------------
(***************************************************************************)
(* The writer that Cmd.Output puts into c.Stderr (exec.go): it keeps the   *)
(* first N and the last N bytes of what the process writes, for the error  *)
(* message, and counts those between.                                      *)
(*                                                                         *)
(* The saver never looks at a byte: a byte is its position in all that was *)
(* written, from 0.  The slice p that Write works on is then the positions *)
(* next..end-1, and end is also how much was written so far.               *)
(***************************************************************************)
EXTENDS Integers

CONSTANTS
    N,          \* the field N
    MaxBytes    \* bound: what is written altogether

ASSUME NAssumption == N \in Nat \ {0}
ASSUME MaxBytesAssumption == MaxBytes \in Nat

VARIABLES
    prefix, prefixLen,      \* the slice w.prefix, an array of N slots, and its length
    suffix, suffixLen,      \* w.suffix likewise
    suffixOff, skipped,
    next, end,              \* p
    pc,                     \* the step of Write that comes next
    copies                  \* iterations of its loop so far, counted up to MaxCopies

slices == <<prefix, prefixLen, suffix, suffixLen>>
vars == <<slices, suffixOff, skipped, next, end, pc, copies>>

Slots == 0..(N - 1)
MaxCopies == 3          \* bound: one more than the code promises

TypeOK ==
    /\ prefix \in [Slots -> Nat] /\ prefixLen \in 0..N
    /\ suffix \in [Slots -> Nat] /\ suffixLen \in 0..N
    /\ suffixOff \in Slots /\ skipped \in Nat
    /\ next \in Nat /\ end \in Nat /\ next <= end
    /\ pc \in {"idle", "prefix", "overage", "suffix", "ring"}
    /\ copies \in 0..MaxCopies

Init ==
    /\ prefix = [i \in Slots |-> 0] /\ prefixLen = 0
    /\ suffix = [i \in Slots |-> 0] /\ suffixLen = 0
    /\ suffixOff = 0 /\ skipped = 0
    /\ next = 0 /\ end = 0
    /\ pc = "idle" /\ copies = 0
-----------------------------------------------------------------------------
minInt(a, b) == IF a < b THEN a ELSE b

lenp == end - next

\* The array slice with its slots from, from + 1, ... overwritten by the first n of p.
Copy(slice, from, n) ==
    [i \in Slots |-> IF i \in from..(from + n - 1) THEN next + (i - from) ELSE slice[i]]

(***************************************************************************)
(* Write, which io.Copy calls with what it read from the pipe.             *)
(***************************************************************************)
Write(n) ==
    /\ pc = "idle" /\ end + n <= MaxBytes
    /\ end' = end + n
    /\ pc' = "prefix" /\ copies' = 0
    /\ UNCHANGED <<slices, suffixOff, skipped, next>>

\* The first call of fill.
FillPrefix ==
    LET add == minInt(lenp, N - prefixLen) IN
    /\ pc = "prefix"
    /\ prefix' = Copy(prefix, prefixLen, add) /\ prefixLen' = prefixLen + add
    /\ next' = next + add
    /\ pc' = "overage"
    /\ UNCHANGED <<suffix, suffixLen, suffixOff, skipped, end, copies>>

\* Mutants: the bytes dropped here are not counted; none are dropped.
DropUncounted ==
    /\ pc = "overage"
    /\ next' = IF lenp > N THEN end - N ELSE next
    /\ pc' = "suffix"
    /\ UNCHANGED <<slices, suffixOff, skipped, end, copies>>
DropNothing ==
    /\ pc = "overage"
    /\ pc' = "suffix"
    /\ UNCHANGED <<slices, suffixOff, skipped, next, end, copies>>

\* Of a long p only the last N bytes matter.
DropOverage ==
    LET overage == IF lenp > N THEN lenp - N ELSE 0 IN
    /\ pc = "overage"
    /\ next' = next + overage
    /\ skipped' = skipped + overage
    /\ pc' = "suffix"
    /\ UNCHANGED <<slices, suffixOff, end, copies>>

\* The second call of fill.
FillSuffix ==
    LET add == minInt(lenp, N - suffixLen) IN
    /\ pc = "suffix"
    /\ suffix' = Copy(suffix, suffixLen, add) /\ suffixLen' = suffixLen + add
    /\ next' = next + add
    /\ pc' = "ring"
    /\ UNCHANGED <<prefix, prefixLen, suffixOff, skipped, end, copies>>

\* Mutant: the end of the array is noticed only past it.
AdvanceLate(n) == IF suffixOff + n > N THEN 0 ELSE suffixOff + n

\* The loop's new offset.
Advance(n) == IF suffixOff + n = N THEN 0 ELSE suffixOff + n

\* One iteration of the loop: a copy stops at the end of the array.
Overwrite ==
    LET n == minInt(lenp, N - suffixOff) IN
    /\ pc = "ring" /\ lenp > 0
    /\ suffix' = Copy(suffix, suffixOff, n)
    /\ next' = next + n
    /\ skipped' = skipped + n
    /\ suffixOff' = Advance(n)
    /\ copies' = minInt(copies + 1, MaxCopies)
    /\ UNCHANGED <<prefix, prefixLen, suffixLen, end, pc>>

Return ==
    /\ pc = "ring" /\ lenp = 0
    /\ pc' = "idle"
    /\ UNCHANGED <<slices, suffixOff, skipped, next, end, copies>>

WriteStep == FillPrefix \/ DropOverage \/ FillSuffix \/ Overwrite \/ Return

Next == WriteStep \/ \E n \in 0..MaxBytes : Write(n)

Spec == Init /\ [][Next]_vars

\* Nothing in Write waits for anybody.
FairSpec == Spec /\ WF_vars(WriteStep)
-----------------------------------------------------------------------------
(***************************************************************************)
(* Bytes: what was kept, and how many bytes the message says are missing   *)
(* between the first N and the rest.                                       *)
(***************************************************************************)
Message(bytes, omitted) == [bytes |-> bytes, omitted |-> omitted]

Bytes ==
    LET total == prefixLen + suffixLen
        Nth(i) == IF i < prefixLen THEN prefix[i]
                  ELSE IF skipped = 0 THEN suffix[i - prefixLen]
                  ELSE IF i - prefixLen < N - suffixOff THEN suffix[i - prefixLen + suffixOff]
                  ELSE suffix[i - prefixLen - (N - suffixOff)]
    IN  Message([i \in 0..(total - 1) |-> Nth(i)], skipped)

(***************************************************************************)
(* The reference: everything, or the first N and the last N.               *)
(***************************************************************************)
Expected ==
    IF end <= 2 * N
    THEN Message([i \in 0..(end - 1) |-> i], 0)
    ELSE Message([i \in 0..(2 * N - 1) |-> IF i < N THEN i ELSE end - 2 * N + i], end - 2 * N)

\* Between two writes, whatever their sizes, the message is made of the first N
\* and the last N bytes in the order they were written, and counts what is
\* missing exactly: no sequence of writes leaves the ring out of step.
KeepsBothEnds == pc = "idle" => Bytes = Expected

\* "0, 1, or 2 iterations" (exec.go:553): a write never goes around the ring
\* more than once.
AtMostTwoCopies == copies <= 2

\* Write comes back: no offset makes the loop copy nothing for ever.
WriteReturns == (pc # "idle") ~> (pc = "idle")
=============================================================================
