---------------------- MODULE PrefixSuffixSaverProofs ----------------------
(***************************************************************************)
(* Proofs about PrefixSuffixSaver, for every N and any writes: the message *)
(* has both ends, and the loop of Write takes at most two turns.           *)
(***************************************************************************)
EXTENDS PrefixSuffixSaver, TLAPS

(***************************************************************************)
(* The inductive invariant.                                                *)
(***************************************************************************)
\* What Write has left to put into the ring.
Rest == IF pc \in {"suffix", "ring"} THEN lenp ELSE 0

\* Every byte up to next is kept or counted.
Counted == prefixLen + suffixLen + skipped = next

\* The prefix is filled before the suffix, and the suffix before the ring turns.
Filled ==
    /\ prefixLen < N =>
          suffixLen = 0 /\ skipped = 0 /\ (pc \in {"overage", "suffix", "ring"} => next = end)
    /\ suffixLen < N => suffixOff = 0 /\ (skipped = 0 \/ (pc = "suffix" /\ lenp = N))
    /\ skipped = 0 => suffixOff = 0
    /\ pc = "idle" => next = end
    /\ Rest <= N
    /\ pc = "ring" /\ suffixLen < N => lenp = 0

PrefixKept == \A i \in Slots : i < prefixLen => prefix[i] = i

\* The slots that what is left will not overwrite hold the last bytes before next.
SuffixKept ==
    \A i \in Slots :
       /\ suffixLen < N /\ skipped = 0 /\ i < suffixLen => suffix[i] = N + i
       /\ suffixLen = N /\ i < suffixOff /\ suffixOff - i <= N - Rest =>
             suffix[i] = next - suffixOff + i
       /\ suffixLen = N /\ suffixOff + Rest <= i => suffix[i] = next - N - suffixOff + i

Turns ==
    /\ copies <= 2
    /\ pc \in {"prefix", "overage", "suffix"} => copies = 0
    /\ pc = "ring" /\ lenp > 0 => copies = 0 \/ (copies = 1 /\ suffixOff = 0)

IInv == TypeOK /\ Counted /\ Filled /\ PrefixKept /\ SuffixKept /\ Turns
-----------------------------------------------------------------------------
\* The smaller of two numbers.
LEMMA MinInt ==
    ASSUME NEW a \in Nat, NEW b \in Nat
    PROVE  /\ minInt(a, b) \in Nat /\ minInt(a, b) <= a /\ minInt(a, b) <= b
           /\ minInt(a, b) = a \/ minInt(a, b) = b
  BY DEF minInt

\* What a copy writes, and that it stays an array of bytes.
LEMMA CopyWrites ==
    ASSUME TypeOK, NEW slice \in [Slots -> Nat], NEW from \in Nat, NEW n \in Nat
    PROVE  /\ Copy(slice, from, n) \in [Slots -> Nat]
           /\ \A i \in Slots : i < from => Copy(slice, from, n)[i] = slice[i]
           /\ \A i \in Slots : from + n <= i => Copy(slice, from, n)[i] = slice[i]
           /\ \A i \in Slots : from <= i /\ i < from + n =>
                 Copy(slice, from, n)[i] = next + (i - from)
  BY NAssumption DEF Copy, Slots, TypeOK

\* The invariant of an empty saver.
LEMMA InitIInv == Init => IInv
  BY NAssumption, MaxBytesAssumption
  DEF Init, IInv, TypeOK, Counted, Filled, PrefixKept, SuffixKept, Turns, Rest, lenp, Slots,
      MaxCopies

\* A new call of Write has everything left to do.
LEMMA WriteIInv ==
    ASSUME IInv, NEW n \in 0..MaxBytes, Write(n)
    PROVE  IInv'
  BY NAssumption, MaxBytesAssumption
  DEF Write, IInv, TypeOK, Counted, Filled, PrefixKept, SuffixKept, Turns, Rest, lenp, Slots,
      MaxCopies, slices

\* The first call of fill extends the prefix.
LEMMA FillPrefixIInv ==
    ASSUME IInv, FillPrefix
    PROVE  IInv'
  <1> DEFINE add == minInt(lenp, N - prefixLen)
  <1>1. lenp \in Nat /\ N - prefixLen \in Nat
    BY NAssumption DEF IInv, TypeOK, lenp
  <1>2. /\ add \in Nat /\ add <= lenp /\ add <= N - prefixLen
        /\ add = lenp \/ add = N - prefixLen
    BY <1>1, MinInt
  <1>3. /\ prefix' \in [Slots -> Nat]
        /\ \A i \in Slots : i < prefixLen => prefix'[i] = prefix[i]
        /\ \A i \in Slots : prefixLen <= i /\ i < prefixLen + add =>
              prefix'[i] = next + (i - prefixLen)
    <2>1. /\ TypeOK /\ prefix \in [Slots -> Nat] /\ prefixLen \in Nat
          /\ prefix' = Copy(prefix, prefixLen, add)
      BY DEF IInv, TypeOK, FillPrefix
    <2>2. QED
      BY <1>2, <2>1, CopyWrites
  <1>4. /\ pc = "prefix" /\ pc' = "overage"
        /\ prefixLen' = prefixLen + add /\ next' = next + add
        /\ UNCHANGED <<suffix, suffixLen, suffixOff, skipped, end, copies>>
    BY DEF FillPrefix
  <1> HIDE DEF add
  <1>5. TypeOK' /\ Counted' /\ Turns'
    BY <1>2, <1>3, <1>4, NAssumption DEF IInv, TypeOK, Counted, Turns, lenp, Slots, MaxCopies
  <1>6. Filled'
    BY <1>2, <1>4, NAssumption DEF IInv, TypeOK, Counted, Filled, Rest, lenp, Slots
  <1>7. PrefixKept'
    <2>1. prefixLen \in 0..N /\ (prefixLen < N => next = prefixLen)
      BY NAssumption DEF IInv, TypeOK, Counted, Filled
    <2>2. ASSUME NEW i \in Slots, i < prefixLen + add PROVE prefix'[i] = i
      <3>1. CASE i < prefixLen
        BY <3>1, <1>3 DEF IInv, PrefixKept
      <3>2. CASE prefixLen <= i
        BY <3>2, <2>1, <2>2, <1>2, <1>3, NAssumption DEF Slots
      <3>3. QED
        BY <3>1, <3>2, <2>1, NAssumption DEF Slots
    <2>3. QED
      BY <2>2, <1>4 DEF PrefixKept, Slots
  <1>8. SuffixKept'
    <2>1. Rest = 0 /\ Rest' = 0
      BY <1>4 DEF Rest
    <2>2. suffixLen = N => add = 0 /\ next' = next
      BY <1>2, <1>4, NAssumption DEF IInv, TypeOK, Filled
    <2>3. QED
      BY <2>1, <2>2, <1>4 DEF IInv, SuffixKept, Slots
  <1>9. QED
    BY <1>5, <1>6, <1>7, <1>8 DEF IInv

\* What the suffix has no room for is counted.
LEMMA DropOverageIInv ==
    ASSUME IInv, DropOverage
    PROVE  IInv'
  <1>1. TypeOK' /\ Counted' /\ Turns' /\ PrefixKept'
    BY NAssumption
    DEF DropOverage, IInv, TypeOK, Counted, Turns, PrefixKept, lenp, Slots, MaxCopies, slices
  <1>2. Filled'
    BY NAssumption
    DEF DropOverage, IInv, TypeOK, Counted, Filled, Rest, lenp, Slots, slices
  <1>3. SuffixKept'
    BY NAssumption
    DEF DropOverage, IInv, TypeOK, Counted, Filled, SuffixKept, Rest, lenp, Slots, slices
  <1>4. QED
    BY <1>1, <1>2, <1>3 DEF IInv

\* The second call of fill extends the suffix.
LEMMA FillSuffixIInv ==
    ASSUME IInv, FillSuffix
    PROVE  IInv'
  <1> DEFINE add == minInt(lenp, N - suffixLen)
  <1>1. lenp \in Nat /\ N - suffixLen \in Nat
    BY NAssumption DEF IInv, TypeOK, lenp
  <1>2. /\ add \in Nat /\ add <= lenp /\ add <= N - suffixLen
        /\ add = lenp \/ add = N - suffixLen
    BY <1>1, MinInt
  <1>3. /\ suffix' \in [Slots -> Nat]
        /\ \A i \in Slots : i < suffixLen => suffix'[i] = suffix[i]
        /\ \A i \in Slots : suffixLen <= i /\ i < suffixLen + add =>
              suffix'[i] = next + (i - suffixLen)
    <2>1. /\ TypeOK /\ suffix \in [Slots -> Nat] /\ suffixLen \in Nat
          /\ suffix' = Copy(suffix, suffixLen, add)
      BY DEF IInv, TypeOK, FillSuffix
    <2>2. QED
      BY <1>2, <2>1, CopyWrites
  <1>4. /\ pc = "suffix" /\ pc' = "ring"
        /\ suffixLen' = suffixLen + add /\ next' = next + add
        /\ UNCHANGED <<prefix, prefixLen, suffixOff, skipped, end, copies>>
    BY DEF FillSuffix
  <1> HIDE DEF add
  <1>5. TypeOK' /\ Counted' /\ Turns' /\ PrefixKept'
    BY <1>2, <1>3, <1>4, NAssumption
    DEF IInv, TypeOK, Counted, Turns, PrefixKept, lenp, Slots, MaxCopies
  <1>6. Filled'
    BY <1>2, <1>4, NAssumption DEF IInv, TypeOK, Counted, Filled, Rest, lenp, Slots
  <1>7. SuffixKept'
    <2>1. /\ Rest = lenp /\ Rest' = lenp - add /\ suffixLen \in 0..N /\ next \in Nat
          /\ suffixOff \in Slots
      BY <1>1, <1>2, <1>4 DEF Rest, lenp, IInv, TypeOK
    <2>2. CASE suffixLen = N
      <3>1. add = 0 /\ suffixLen' = suffixLen /\ next' = next /\ suffixOff' = suffixOff
        BY <2>2, <1>1, <1>2, <1>4, NAssumption DEF IInv, TypeOK
      <3>2. \A i \in Slots : suffix'[i] = suffix[i]
        BY <2>2, <1>3, NAssumption DEF Slots
      <3>3. Rest' = Rest
        BY <3>1, <2>1, <1>1
      <3>4. QED
        BY <3>1, <3>2, <3>3, <2>2, NAssumption DEF IInv, SuffixKept, Slots
    <2>3. CASE suffixLen < N
      <3>1. /\ suffixOff = 0 /\ suffixOff' = 0
            /\ skipped = 0 => next = N + suffixLen \/ add = 0
            /\ skipped = 0 \/ lenp = N
            /\ skipped' = skipped
        BY <2>3, <1>2, <1>4, NAssumption DEF IInv, TypeOK, Counted, Filled, lenp
      <3>2. ASSUME NEW i \in Slots, skipped = 0, i < suffixLen'
            PROVE  suffix'[i] = N + i
        <4>1. CASE i < suffixLen
          BY <4>1, <3>2, <2>3, <1>3 DEF IInv, SuffixKept
        <4>2. CASE suffixLen <= i
          <5>1. add # 0 /\ i < suffixLen + add
            BY <4>2, <3>2, <2>1, <1>2, <1>4, NAssumption DEF Slots
          <5>2. suffix'[i] = next + (i - suffixLen)
            BY <5>1, <4>2, <1>3
          <5>3. QED
            BY <5>1, <5>2, <3>1, <3>2, <2>1, NAssumption DEF Slots
        <4>3. QED
          BY <4>1, <4>2, <2>1, NAssumption DEF Slots
      <3>3. ASSUME NEW i \in Slots, suffixLen' = N, Rest' <= i
            PROVE  suffix'[i] = next' - N + i
        <4>1. add = N - suffixLen /\ next' = next + N - suffixLen
          BY <3>3, <2>1, <1>2, <1>4, NAssumption
        <4>2. CASE suffixLen <= i
          <5>1. suffix'[i] = next + (i - suffixLen)
            BY <4>1, <4>2, <2>1, <1>3, NAssumption DEF Slots
          <5>2. QED
            BY <5>1, <4>1, <2>1, NAssumption DEF Slots
        <4>3. CASE i < suffixLen
          <5>1. skipped = 0
            BY <4>1, <4>3, <3>1, <3>3, <2>1, <1>1, NAssumption DEF Slots
          <5>2. suffix'[i] = N + i /\ next = N + suffixLen
            BY <5>1, <4>1, <4>3, <3>1, <3>2, <3>3, <2>1, <2>3, NAssumption DEF Slots
          <5>3. QED
            BY <5>2, <4>1, <2>1, NAssumption DEF Slots
        <4>4. QED
          BY <4>2, <4>3, <2>1, NAssumption DEF Slots
      <3>4. next' \in Nat /\ Rest' \in Nat
        BY <2>1, <1>1, <1>2, <1>4
      <3>5. ASSUME NEW i \in Slots, suffixLen' = N, suffixOff' + Rest' <= i
            PROVE  suffix'[i] = next' - N - suffixOff' + i
        <4>1. suffix'[i] = next' - N + i
          BY <3>5, <3>1, <3>3, <3>4
        <4>2. QED
          BY <4>1, <3>1, <3>4, NAssumption DEF Slots
      <3>6. \A i \in Slots : ~(i < suffixOff')
        BY <3>1 DEF Slots
      <3>7. QED
        BY <3>1, <3>2, <3>5, <3>6 DEF SuffixKept
    <2>4. QED
      BY <2>1, <2>2, <2>3, NAssumption
  <1>8. QED
    BY <1>5, <1>6, <1>7 DEF IInv

\* A turn of the loop overwrites the oldest bytes.
LEMMA OverwriteIInv ==
    ASSUME IInv, Overwrite
    PROVE  IInv'
  <1> DEFINE n == minInt(lenp, N - suffixOff)
  <1>1. lenp \in Nat \ {0} /\ N - suffixOff \in Nat \ {0}
    BY NAssumption DEF IInv, TypeOK, lenp, Slots, Overwrite
  <1>2. /\ n \in Nat \ {0} /\ n <= lenp /\ n <= N - suffixOff
        /\ n = lenp \/ n = N - suffixOff
    BY <1>1, MinInt
  <1>3. /\ suffix' \in [Slots -> Nat]
        /\ \A i \in Slots : i < suffixOff \/ suffixOff + n <= i => suffix'[i] = suffix[i]
        /\ \A i \in Slots : suffixOff <= i /\ i < suffixOff + n =>
              suffix'[i] = next + (i - suffixOff)
    <2>1. /\ TypeOK /\ suffix \in [Slots -> Nat] /\ suffixOff \in Nat /\ n \in Nat
          /\ suffix' = Copy(suffix, suffixOff, n)
      BY <1>2 DEF IInv, TypeOK, Overwrite, Slots
    <2> HIDE DEF n
    <2>2. QED
      BY <2>1, CopyWrites
  <1>4. /\ pc = "ring" /\ pc' = "ring"
        /\ next' = next + n /\ skipped' = skipped + n
        /\ suffixOff' = IF suffixOff + n = N THEN 0 ELSE suffixOff + n
        /\ UNCHANGED <<prefix, prefixLen, suffixLen, end>>
    BY DEF Overwrite, Advance
  <1>5. copies \in Nat /\ copies <= 1 /\ copies' = copies + 1
    BY <1>1 DEF IInv, TypeOK, Turns, Overwrite, minInt, MaxCopies
  <1>6. suffixLen = N /\ prefixLen = N /\ lenp <= N
    BY <1>1, <1>4, NAssumption DEF IInv, TypeOK, Filled, Rest, lenp
  <1> HIDE DEF n
  <1>7. TypeOK' /\ Counted' /\ PrefixKept'
    BY <1>2, <1>3, <1>4, <1>5, NAssumption
    DEF IInv, TypeOK, Counted, PrefixKept, lenp, Slots, MaxCopies
  <1>8. Turns'
    BY <1>1, <1>2, <1>4, <1>5, <1>6, NAssumption DEF IInv, TypeOK, Turns, lenp, Slots
  <1>9. Filled'
    BY <1>2, <1>4, <1>6, NAssumption DEF IInv, TypeOK, Counted, Filled, Rest, lenp, Slots
  <1>10. SuffixKept'
    <2>1. /\ Rest = lenp /\ Rest' = lenp - n /\ next \in Nat /\ suffixOff \in Slots
          /\ suffixLen' = N /\ next' = next + n
      BY <1>1, <1>2, <1>4, <1>6 DEF Rest, lenp, IInv, TypeOK
    <2>2. \A i \in Slots :
             /\ i < suffixOff /\ suffixOff - i <= N - lenp => suffix[i] = next - suffixOff + i
             /\ suffixOff + lenp <= i => suffix[i] = next - N - suffixOff + i
      BY <2>1, <1>6 DEF IInv, SuffixKept
    <2>3. ASSUME NEW i \in Slots, i < suffixOff', suffixOff' - i <= N - Rest'
          PROVE  suffix'[i] = next' - suffixOff' + i
      <3>1. suffixOff' = suffixOff + n /\ n = lenp
        BY <2>1, <2>3, <1>1, <1>2, <1>4, NAssumption DEF Slots
      <3>2. CASE i < suffixOff
        <4>1. suffixOff - i <= N - lenp
          BY <3>1, <3>2, <2>1, <1>1, <1>2, <1>4, NAssumption DEF Slots
        <4>2. suffix'[i] = next - suffixOff + i
          BY <4>1, <3>2, <2>2, <1>3
        <4>3. QED
          BY <4>2, <3>1, <2>1, <1>2, NAssumption DEF Slots
      <3>3. CASE suffixOff <= i
        <4>1. suffix'[i] = next + (i - suffixOff)
          BY <3>1, <3>3, <2>3, <1>3
        <4>2. QED
          BY <4>1, <3>1, <2>1, <1>2, NAssumption DEF Slots
      <3>4. QED
        BY <3>2, <3>3, <2>1, NAssumption DEF Slots
    <2>4. ASSUME NEW i \in Slots, suffixOff' + Rest' <= i
          PROVE  suffix'[i] = next' - N - suffixOff' + i
      <3>1. CASE suffixOff + n = N
        <4>1. suffixOff' = 0 /\ next' = next + (N - suffixOff) /\ lenp - n <= i
          BY <3>1, <2>1, <2>4, <1>1, <1>2, <1>4, NAssumption DEF Slots
        <4>2. CASE suffixOff <= i
          <5>1. suffix'[i] = next + (i - suffixOff)
            BY <4>2, <3>1, <1>3, NAssumption DEF Slots
          <5>2. QED
            BY <5>1, <4>1, <2>1, NAssumption DEF Slots
        <4>3. CASE i < suffixOff
          <5>1. suffixOff - i <= N - lenp
            BY <4>1, <3>1, <2>1, <1>1, <1>2, NAssumption DEF Slots
          <5>2. suffix'[i] = next - suffixOff + i
            BY <5>1, <4>3, <2>2, <1>3
          <5>3. QED
            BY <5>2, <4>1, <2>1, NAssumption DEF Slots
        <4>4. QED
          BY <4>2, <4>3, <2>1, NAssumption DEF Slots
      <3>2. CASE suffixOff + n # N
        <4>1. n = lenp /\ suffixOff' = suffixOff + n /\ suffixOff + n <= i
          BY <3>2, <2>1, <2>4, <1>1, <1>2, <1>4, NAssumption DEF Slots
        <4>2. suffix'[i] = next - N - suffixOff + i
          BY <4>1, <2>2, <1>3
        <4>3. QED
          BY <4>1, <4>2, <2>1, <1>2, NAssumption DEF Slots
      <3>3. QED
        BY <3>1, <3>2
    <2>5. QED
      BY <2>1, <2>3, <2>4, NAssumption DEF SuffixKept
  <1>11. QED
    BY <1>7, <1>8, <1>9, <1>10 DEF IInv

\* Nothing is left when Write returns.
LEMMA ReturnIInv ==
    ASSUME IInv, Return
    PROVE  IInv'
  BY NAssumption
  DEF Return, IInv, TypeOK, Counted, Filled, PrefixKept, SuffixKept, Turns, Rest, lenp, Slots,
      MaxCopies, slices

\* The inductive invariant holds in every reachable state.
THEOREM Invariance == Spec => []IInv
  <1>1. ASSUME IInv, [Next]_vars PROVE IInv'
    <2>1. CASE UNCHANGED vars
      BY <1>1, <2>1
      DEF vars, slices, IInv, TypeOK, Counted, Filled, PrefixKept, SuffixKept, Turns, Rest, lenp
    <2>2. CASE Next
      BY <1>1, <2>2, WriteIInv, FillPrefixIInv, DropOverageIInv, FillSuffixIInv, OverwriteIInv,
         ReturnIInv DEF Next, WriteStep
    <2>3. QED
      BY <1>1, <2>1, <2>2
  <1>2. QED
    BY InitIInv, <1>1, PTL DEF Spec

-----------------------------------------------------------------------------
\* Every state of the saver is well typed: the ring's offset stays in the array.
THEOREM TypeCorrect == Spec => []TypeOK
  <1>1. IInv => TypeOK
    BY DEF IInv
  <1>2. QED
    BY Invariance, <1>1, PTL

\* A write never goes around the ring more than once, whatever N is.
THEOREM TwoTurns == Spec => []AtMostTwoCopies
  <1>1. IInv => AtMostTwoCopies
    BY DEF IInv, Turns, AtMostTwoCopies
  <1>2. QED
    BY Invariance, <1>1, PTL

\* Between writes the message has the first and the last N bytes, in order, and
\* the exact count of those between, for every N and all sizes of writes.
THEOREM BothEnds == Spec => []KeepsBothEnds
  <1>1. ASSUME IInv, pc = "idle" PROVE Bytes = Expected
    <2>1. /\ next = end /\ Rest = 0 /\ prefixLen + suffixLen + skipped = end
          /\ prefixLen < N => suffixLen = 0 /\ skipped = 0
          /\ suffixLen < N => skipped = 0
          /\ skipped = 0 => suffixOff = 0
      BY <1>1, NAssumption DEF IInv, TypeOK, Counted, Filled, Rest
    <2>2. CASE skipped = 0
      <3>1. end <= 2 * N /\ prefixLen + suffixLen = end
        BY <2>1, <2>2, <1>1, NAssumption DEF IInv, TypeOK
      <3>2. \A i \in 0..(end - 1) :
               (IF i < prefixLen THEN prefix[i] ELSE suffix[i - prefixLen]) = i
        BY <2>1, <2>2, <3>1, <1>1, NAssumption
        DEF IInv, TypeOK, PrefixKept, SuffixKept, Slots
      <3>3. QED
        BY <2>2, <3>1, <3>2 DEF Bytes, Expected, Message
    <2>3. CASE skipped # 0
      <3>1. prefixLen = N /\ suffixLen = N /\ skipped = end - 2 * N /\ ~(end <= 2 * N)
            /\ prefixLen + suffixLen = 2 * N
        BY <2>1, <2>3, <1>1, NAssumption DEF IInv, TypeOK
      <3>2. ASSUME NEW i \in 0..(2 * N - 1)
            PROVE  (IF i < prefixLen THEN prefix[i]
                    ELSE IF skipped = 0 THEN suffix[i - prefixLen]
                    ELSE IF i - prefixLen < N - suffixOff
                         THEN suffix[i - prefixLen + suffixOff]
                    ELSE suffix[i - prefixLen - (N - suffixOff)])
                   = IF i < N THEN i ELSE end - 2 * N + i
        <4>1. CASE i < N
          BY <4>1, <3>1, <1>1, NAssumption DEF IInv, PrefixKept, Slots
        <4>2. CASE i >= N /\ i - N < N - suffixOff
          <5>1. i - N + suffixOff \in Slots
            BY <4>2, <1>1, NAssumption DEF IInv, TypeOK, Slots
          <5>2. suffix[i - N + suffixOff] = next - N - suffixOff + (i - N + suffixOff)
            BY <5>1, <4>2, <3>1, <2>1, <1>1, NAssumption DEF IInv, TypeOK, SuffixKept, Slots
          <5>3. QED
            BY <5>2, <4>2, <3>1, <2>1, <2>3, <1>1, NAssumption DEF IInv, TypeOK, Slots
        <4>3. CASE i >= N /\ i - N >= N - suffixOff
          <5>1. i - N - (N - suffixOff) \in Slots
            BY <4>3, <1>1, NAssumption DEF IInv, TypeOK, Slots
          <5>2. suffix[i - N - (N - suffixOff)] = next - suffixOff + (i - N - (N - suffixOff))
            BY <5>1, <4>3, <3>1, <2>1, <1>1, NAssumption DEF IInv, TypeOK, SuffixKept, Slots
          <5>3. QED
            BY <5>2, <4>3, <3>1, <2>1, <2>3, <1>1, NAssumption DEF IInv, TypeOK, Slots
        <4>4. QED
          BY <4>1, <4>2, <4>3, <1>1, NAssumption DEF IInv, TypeOK, Slots
      <3>3. QED
        BY <2>3, <3>1, <3>2 DEF Bytes, Expected, Message
    <2>4. QED
      BY <2>2, <2>3
  <1>2. IInv => KeepsBothEnds
    BY <1>1 DEF KeepsBothEnds
  <1>3. QED
    BY Invariance, <1>2, PTL
=============================================================================
