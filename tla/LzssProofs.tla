------------------------------ MODULE LzssProofs ------------------------------
(***************************************************************************)
(* The ring of decompress_lzss mirrors its output, for every size of ring  *)
(* and every input; and what it puts out are the items its input encodes,  *)
(* whatever they are and wherever the input ends.                          *)
(***************************************************************************)
EXTENDS Lzss, SequenceTheorems, WellFoundedInduction, TLAPS

Value == Byte \cup {Unset}

-----------------------------------------------------------------------------
(* Remainder and quotient of the second byte of a match.                   *)
LEMMA Halves ==
    ASSUME NEW a \in Nat, NEW b \in Nat, b > 0
    PROVE  /\ a \div b \in Nat /\ a % b \in 0 .. b - 1
           /\ a = b * (a \div b) + (a % b)
BY SMT

(* Quotients keep the order of what they divide, when nothing is left.     *)
LEMMA QuotientBelow ==
    ASSUME NEW b \in Nat, NEW q \in Nat, NEW m \in Nat, NEW rest \in Nat, NEW c \in Nat,
           c = b * q + rest, c < b * m
    PROVE  q + 1 <= m
<1>1. SUFFICES ASSUME q >= m PROVE FALSE
    BY SMT
<1>2. b * q >= b * m
    BY <1>1, SMT
<1> QED
    BY <1>2, SMT

(* A product keeps the order of its factors.                               *)
LEMMA ProductBelow ==
    ASSUME NEW v \in Nat, NEW q \in Nat, NEW m \in Nat, q + 1 <= m
    PROVE  v * q + v <= v * m
<1>1. v * (q + 1) <= v * m
    BY SMT
<1>2. v * (q + 1) = v * q + v
    BY SMT
<1> QED
    BY <1>1, <1>2, SMT

(* What the sizes are, and how they fit. *)
LEMMA Sizes ==
    /\ N \in Nat /\ F \in Nat /\ F > 0 /\ F < N
    /\ ByteValues \in Nat /\ LengthValues \in Nat /\ LengthValues > 0 /\ THRESHOLD \in Nat
    /\ ByteValues \div LengthValues \in Nat
    /\ ByteValues = LengthValues * (ByteValues \div LengthValues)
<1>1. /\ ByteValues \div LengthValues \in Nat
      /\ ByteValues = LengthValues * (ByteValues \div LengthValues)
    BY SizesAssumption, Halves, SMT
<1>2. ByteValues * (ByteValues \div LengthValues) \in Nat
    BY <1>1, SizesAssumption, SMT
<1> QED
    BY <1>1, <1>2, SizesAssumption, SMT DEF N, F

(* A match starts in the ring and is at most F bytes long.                 *)
LEMMA MatchInRing ==
    ASSUME NEW c \in Byte, NEW d \in Byte
    PROVE  /\ c + ByteValues * (d \div LengthValues) \in 0 .. N - 1
           /\ (d % LengthValues) + THRESHOLD \in 0 .. F - 1
<1> DEFINE q == d \div LengthValues
           m == ByteValues \div LengthValues
<1>1. /\ c \in Nat /\ d \in Nat /\ c < ByteValues /\ d < ByteValues
    BY Sizes, SMT DEF Byte
<1>2. q \in Nat /\ d % LengthValues \in 0 .. LengthValues - 1
      /\ d = LengthValues * q + (d % LengthValues)
    BY <1>1, Sizes, Halves, SMT
<1>3. m \in Nat /\ d < LengthValues * m
    BY <1>1, Sizes, SMT
<1>4. q + 1 <= m
    BY <1>1, <1>2, <1>3, Sizes, QuotientBelow, SMT
<1>5. ByteValues * q + ByteValues <= N
    <2>1. N = ByteValues * m
        BY DEF N
    <2> HIDE DEF q, m
    <2> QED
        BY <1>2, <1>3, <1>4, <2>1, Sizes, ProductBelow
<1>6. ByteValues * q \in Nat
    BY <1>2, Sizes, SMT
<1>7. c + ByteValues * q \in 0 .. N - 1
    <2> HIDE DEF q
    <2> QED
        BY <1>1, <1>5, <1>6, Sizes, SMT
<1>8. (d % LengthValues) + THRESHOLD \in 0 .. F - 1
    BY <1>2, Sizes, SMT DEF F
<1> QED
    BY <1>7, <1>8

(* Wrap stays in the ring. *)
LEMMA WrapInRing ==
    ASSUME NEW x \in 0 .. N - 1, NEW n \in 0 .. F
    PROVE  Wrap(x + n) \in 0 .. N - 1
BY Sizes, SMT DEF Wrap

-----------------------------------------------------------------------------
(* The bytes of an input are bytes.                                        *)
LEMMA ByteRead ==
    ASSUME TypeOK, NEW n \in Nat \ {0}, Left(n), NEW p \in 1 .. n
    PROVE  byte(p) \in Byte
<1>1. stream.bytes \in Seq(Byte)
    BY DEF TypeOK
<1>2. src + p \in 1 .. Len(stream.bytes)
    BY <1>1, SMT DEF TypeOK, Left
<1> QED
    BY <1>1, <1>2 DEF byte

(* Putting out a byte keeps the types of ring and output.                  *)
LEMMA PutTypes ==
    ASSUME TypeOK, NEW c \in Value, Put(c)
    PROVE  /\ r' \in 0 .. N - 1
           /\ text_buf' \in [0 .. N - 1 -> Value]
           /\ dst' \in Seq(Value)
<1>1. r + 1 = r + 1 /\ 1 \in 0 .. F /\ r \in 0 .. N - 1
    BY Sizes, SMT DEF TypeOK
<1>2. r' \in 0 .. N - 1
    BY <1>1, WrapInRing DEF Put
<1>3. text_buf' \in [0 .. N - 1 -> Value]
    BY DEF Put, TypeOK, Value
<1>4. dst' \in Seq(Value)
    BY DEF Put, TypeOK, Value
<1> QED
    BY <1>2, <1>3, <1>4

(* Putting out a byte keeps the ring and the output together: it becomes   *)
(* the byte at distance 1, every other is one further back, and the one    *)
(* that was N back is gone from the ring.                                  *)
LEMMA PutMirrors ==
    ASSUME TypeOK, RingMirrors, NEW c \in Value, Put(c)
    PROVE  RingMirrors'
<1>1. /\ N \in Nat /\ F \in Nat /\ F > 0 /\ F < N /\ r \in 0 .. N - 1
      /\ r' = IF r + 1 < N THEN r + 1 ELSE 0
    BY Sizes, SMT DEF TypeOK, Put, Wrap
<1>2. /\ dst \in Seq(Value) /\ dst' = Append(dst, c) /\ Len(dst) \in Nat
      /\ Len(dst') = Len(dst) + 1 /\ dst'[Len(dst) + 1] = c
      /\ \A n \in 1 .. Len(dst) : dst'[n] = dst[n]
    BY DEF TypeOK, Put, Value
<1>3. \A q \in 0 .. N - 1 : text_buf'[q] = IF q = r THEN c ELSE text_buf[q]
    BY DEF TypeOK, Put
<1> SUFFICES ASSUME NEW d \in 1 .. N
             PROVE  text_buf'[Behind(d)'] = Recent(dst', d)
    BY DEF RingMirrors
<1>4. CASE d = 1
    <2>1. Behind(d)' = r
        BY <1>1, <1>4, SMT DEF Behind
    <2>2. Recent(dst', d) = c
        BY <1>2, <1>4, SMT DEF Recent
    <2> QED
        BY <1>1, <1>3, <2>1, <2>2
<1>5. CASE d > 1
    <2>1. d - 1 \in 1 .. N - 1
        BY <1>1, <1>5, SMT
    <2>2. Behind(d)' = Behind(d - 1) /\ Behind(d - 1) \in 0 .. N - 1 /\ Behind(d - 1) # r
        BY <1>1, <2>1, SMT DEF Behind
    <2>3. text_buf'[Behind(d)'] = text_buf[Behind(d - 1)]
        BY <1>3, <2>2
    <2>4. text_buf[Behind(d - 1)] = Recent(dst, d - 1)
        BY <1>1, <2>1, SMT DEF RingMirrors
    <2>5. Recent(dst', d) = Recent(dst, d - 1)
        BY <1>1, <1>2, <2>1, SMT DEF Recent
    <2> QED
        BY <2>3, <2>4, <2>5
<1> QED
    BY <1>4, <1>5, <1>1, SMT

-----------------------------------------------------------------------------
(* The ring starts with blanks only. *)
LEMMA InitHolds == Init => TypeOK /\ RingMirrors
<1> SUFFICES ASSUME Init PROVE TypeOK /\ RingMirrors
    OBVIOUS
<1>1. stream.bytes \in Seq(Byte)
    BY StreamsAssumption DEF Init
<1>2. TypeOK
    <2>1. Blank \in Value /\ Unset \in Value
        <3>1. 0 \in 0 .. ByteValues - 1
            <4>1. ByteValues > 0
                BY Sizes, SMT DEF N
            <4> QED
                BY <4>1, Sizes, SMT
        <3> QED
            BY <3>1 DEF Blank, Unset, Value, Byte
    <2>2. text_buf \in [0 .. N - 1 -> Value]
        BY <2>1 DEF Init
    <2>3. r \in 0 .. N - 1 /\ 0 \in 0 .. N - 1 /\ 0 \in 0 .. F - 1 /\ 0 \in 0 .. F
        BY Sizes, SMT DEF Init
    <2>4. dst \in Seq(Value)
        BY DEF Init
    <2> QED
        BY <1>1, <2>2, <2>3, <2>4 DEF Init, TypeOK, Value
<1>3. RingMirrors
    BY Sizes, SMT DEF Init, RingMirrors, Behind, Recent
<1> QED
    BY <1>2, <1>3

(* One step for each action; only Literal and CopyByte touch the ring.     *)
LEMMA NextHolds == TypeOK /\ RingMirrors /\ [Next]_vars => TypeOK' /\ RingMirrors'
<1> SUFFICES ASSUME TypeOK, RingMirrors, [Next]_vars PROVE TypeOK' /\ RingMirrors'
    OBVIOUS
<1>1. ASSUME UNCHANGED <<r, text_buf, dst>> PROVE RingMirrors'
    BY <1>1 DEF RingMirrors, Behind, Recent
<1>2. CASE Shift
    <2>1. shifted \in Nat
        BY Halves DEF shifted, TypeOK
    <2> QED
        BY <1>1, <1>2, <2>1 DEF Shift, TypeOK
<1>3. CASE ReadFlags
    <2>1. byte(1) \in Byte
        BY <1>3, ByteRead DEF ReadFlags
    <2>2. Marked(byte(1)) \in Nat
        BY <2>1, Sizes, SMT DEF Marked, Byte
    <2> QED
        BY <1>1, <1>3, <2>2 DEF ReadFlags, TypeOK
<1>4. CASE Literal
    <2>1. byte(1) \in Value
        BY <1>4, ByteRead DEF Literal, Value
    <2>2. Put(byte(1))
        BY <1>4 DEF Literal
    <2> QED
        BY <1>4, <2>1, <2>2, PutTypes, PutMirrors DEF Literal, TypeOK, Value
<1>5. CASE Match
    <2>1. byte(1) \in Byte /\ byte(2) \in Byte
        BY <1>5, ByteRead DEF Match
    <2>2. i' \in 0 .. N - 1 /\ j' \in 0 .. F - 1
        BY <1>5, <2>1, MatchInRing DEF Match
    <2>3. k' \in 0 .. F
        BY <1>5, Sizes, SMT DEF Match
    <2> QED
        BY <1>1, <1>5, <2>2, <2>3 DEF Match, TypeOK
<1>6. CASE CopyByte
    <2>1. Wrap(i + k) \in 0 .. N - 1
        BY WrapInRing DEF TypeOK
    <2>2. text_buf[Wrap(i + k)] \in Value
        BY <2>1 DEF TypeOK, Value
    <2>3. Put(text_buf[Wrap(i + k)])
        BY <1>6 DEF CopyByte
    <2>4. k' \in 0 .. F
        BY <1>6, Sizes, SMT DEF CopyByte, TypeOK
    <2> QED
        BY <1>6, <2>2, <2>3, <2>4, PutTypes, PutMirrors DEF CopyByte, TypeOK, Value
<1>7. CASE InputEnds
    BY <1>1, <1>7 DEF InputEnds, TypeOK
<1>8. CASE UNCHANGED vars
    BY <1>1, <1>8 DEF vars, TypeOK
<1> QED
    BY <1>2, <1>3, <1>4, <1>5, <1>6, <1>7, <1>8 DEF Next

(* In every state of decompress_lzss the ring holds the last N bytes of    *)
(* the output, or the blanks before it.                                    *)
THEOREM RingCorrect == Spec => []RingMirrors
<1>1. TypeOK /\ RingMirrors /\ [Next]_vars => (TypeOK /\ RingMirrors)'
    BY NextHolds
<1> QED
    BY InitHolds, <1>1, PTL DEF Spec

(* Positions stay in the ring and no match is longer than F.               *)
THEOREM LzssTypes == Spec => []TypeOK
<1>1. TypeOK /\ RingMirrors /\ [Next]_vars => (TypeOK /\ RingMirrors)'
    BY NextHolds
<1> QED
    BY InitHolds, <1>1, PTL DEF Spec

-----------------------------------------------------------------------------
(***************************************************************************)
(* What the encoding means is said by recursive functions.  That there are *)
(* such functions is shown here, over the smallest number without one.     *)
(***************************************************************************)
(* f begins with base and goes on, m times, as step says. *)
Recurs(f, m, S, base, step) ==
    /\ f \in [0 .. m -> S]
    /\ f[0] = base
    /\ \A n \in 1 .. m : f[n] = step[<<n, f[n - 1]>>]

(* Every set of numbers that is not empty has a smallest one. *)
LEMMA SmallestIn ==
    ASSUME NEW S \in SUBSET Nat, S # {}
    PROVE  \E x \in S : \A y \in S : x <= y
<1>1. PICK x \in S : \A y \in S : ~(<<y, x>> \in OpToRel(<, Nat))
    BY NatLessThanWellFounded, WFMin
<1>2. \A p : p \in OpToRel(<, Nat) <=> p \in Nat \X Nat /\ p[1] < p[2]
    BY Zenon DEF OpToRel
<1>3. ASSUME NEW y \in S
      PROVE  x <= y
    <2>1. <<y, x>> \in Nat \X Nat /\ <<y, x>>[1] = y /\ <<y, x>>[2] = x
        BY SMT
    <2>2. ~(y < x)
        BY <1>1, <1>2, <2>1, Zenon
    <2> QED
        BY <2>2, SMT
<1> QED
    BY <1>3

(* A recursion of m - 1 steps goes on for one more. *)
LEMMA RecursOnce ==
    ASSUME NEW M \in Nat, NEW S, NEW base, NEW step \in [(1 .. M) \X S -> S],
           NEW m \in 1 .. M, NEW f, Recurs(f, m - 1, S, base, step)
    PROVE  \E g : Recurs(g, m, S, base, step)
<1> DEFINE x == step[<<m, f[m - 1]>>]
           g == [n \in 0 .. m |-> IF n = m THEN x ELSE f[n]]
<1>1. m \in Nat \ {0} /\ f \in [0 .. m - 1 -> S] /\ f[0] = base
    BY DEF Recurs
<1>2. x \in S
    <2>1. f[m - 1] \in S
        BY <1>1
    <2> QED
        BY <2>1
<1> HIDE DEF x
<1>3. g \in [0 .. m -> S] /\ g[0] = base
    BY <1>1, <1>2
<1>4. ASSUME NEW n \in 1 .. m
      PROVE  g[n] = step[<<n, g[n - 1]>>]
    <2>1. g[n - 1] = f[n - 1]
        BY <1>1
    <2>2. CASE n = m
        <3>1. g[n] = x
            BY <1>1, <2>2
        <3> QED
            BY <2>1, <2>2, <3>1 DEF x
    <2>3. CASE n # m
        <3>1. n \in 1 .. m - 1 /\ g[n] = f[n]
            BY <1>1, <2>3
        <3>2. f[n] = step[<<n, f[n - 1]>>]
            BY <3>1 DEF Recurs
        <3> HIDE DEF g
        <3> QED
            BY <2>1, <3>1, <3>2, Zenon
    <2> QED
        BY <2>2, <2>3
<1> HIDE DEF g
<1> QED
    BY <1>3, <1>4 DEF Recurs

(* From any base, for any number of steps, there is such a function. *)
LEMMA RecursionExists ==
    ASSUME NEW M \in Nat, NEW S, NEW base \in S, NEW step \in [(1 .. M) \X S -> S]
    PROVE  \E f : Recurs(f, M, S, base, step)
<1> DEFINE Good(m) == \E f : Recurs(f, m, S, base, step)
           Bad == {m \in 0 .. M : ~Good(m)}
<1>1. Good(0)
    <2> DEFINE f == [n \in 0 .. 0 |-> base]
    <2>1. f \in [0 .. 0 -> S] /\ f[0] = base /\ 1 .. 0 = {}
        OBVIOUS
    <2> HIDE DEF f
    <2> QED
        BY <2>1 DEF Recurs
<1>2. ASSUME NEW m \in 1 .. M, Good(m - 1)
      PROVE  Good(m)
    BY <1>2, RecursOnce
<1> HIDE DEF Good
<1>3. Bad = {}
    <2> SUFFICES ASSUME Bad # {} PROVE FALSE
        OBVIOUS
    <2>1. Bad \in SUBSET Nat
        OBVIOUS
    <2>2. PICK m \in Bad : \A n \in Bad : m <= n
        <3> HIDE DEF Bad
        <3> QED
            BY <2>1, SmallestIn
    <2>3. m \in 1 .. M /\ m - 1 \in 0 .. M /\ ~(m <= m - 1)
        BY <1>1, <2>2
    <2>4. Good(m - 1)
        BY <2>2, <2>3
    <2> QED
        BY <1>2, <2>2, <2>3, <2>4
<1>4. Good(M)
    BY <1>3
<1> QED
    BY <1>4 DEF Good

(* The powers of 2 up to the number of bytes. *)
IsPowers(power) == power = [n \in 0 .. FlagCount |-> IF n = 0 THEN 1 ELSE 2 * power[n - 1]]

(* They are what their definition says they are. *)
LEMMA PowersAre ==
    /\ Powers[0] = 1 /\ Powers[FlagCount] = ByteValues
    /\ \A n \in 1 .. FlagCount : Powers[n] = 2 * Powers[n - 1]
    /\ \A n \in 0 .. FlagCount : Powers[n] \in Nat \ {0}
<1> DEFINE S == Nat \ {0}
           step == [p \in (1 .. FlagCount) \X S |-> 2 * p[2]]
           h == CHOOSE h : IsPowers(h)
<1>1. FlagCount \in Nat \ {0}
    BY FlagsAssumption
<1>2. PICK f : Recurs(f, FlagCount, S, 1, step)
    <2>1. step \in [(1 .. FlagCount) \X S -> S]
        OBVIOUS
    <2> HIDE DEF step
    <2>2. 1 \in S
        OBVIOUS
    <2> HIDE DEF S
    <2> QED
        BY <1>1, <2>1, <2>2, RecursionExists
<1>3. f \in [0 .. FlagCount -> S] /\ f[0] = 1
    BY <1>2 DEF Recurs
<1>4. ASSUME NEW n \in 1 .. FlagCount
      PROVE  f[n] = 2 * f[n - 1]
    <2>1. f[n - 1] \in S
        BY <1>1, <1>3
    <2>2. f[n] = step[<<n, f[n - 1]>>]
        BY <1>2 DEF Recurs
    <2>3. step[<<n, f[n - 1]>>] = 2 * f[n - 1]
        BY <2>1
    <2> QED
        BY <2>2, <2>3
<1> HIDE DEF step
<1>5. IsPowers(f)
    <2>1. f = [n \in 0 .. FlagCount |-> f[n]]
        BY <1>3
    <2>2. \A n \in 0 .. FlagCount : f[n] = IF n = 0 THEN 1 ELSE 2 * f[n - 1]
        BY <1>1, <1>3, <1>4
    <2> QED
        BY <2>1, <2>2 DEF IsPowers
<1>6. IsPowers(h)
    BY <1>5, Zenon
<1>7. Powers = h
    BY DEF Powers, IsPowers
<1> HIDE DEF h
<1>8. \A n \in 0 .. FlagCount : h[n] = IF n = 0 THEN 1 ELSE 2 * h[n - 1]
    BY <1>6, Zenon DEF IsPowers
<1>9. /\ 0 \in 0 .. FlagCount
      /\ \A n \in 1 .. FlagCount : n \in 0 .. FlagCount /\ n # 0
    BY <1>1
<1>10. \A n \in 0 .. FlagCount : h[n] \in Nat \ {0}
    <2> DEFINE Bad == {n \in 0 .. FlagCount : h[n] \notin Nat \ {0}}
    <2> SUFFICES ASSUME Bad # {} PROVE FALSE
        OBVIOUS
    <2>1. Bad \in SUBSET Nat
        BY <1>1
    <2>2. PICK n \in Bad : \A o \in Bad : n <= o
        <3> HIDE DEF Bad
        <3> QED
            BY <2>1, SmallestIn
    <2>3. n \in 0 .. FlagCount /\ n # 0
        BY <1>8, <1>9, <2>2
    <2>4. n - 1 \in 0 .. FlagCount /\ ~(n <= n - 1)
        BY <1>1, <2>3
    <2>5. h[n - 1] \in Nat \ {0}
        BY <2>2, <2>4
    <2>6. h[n] = 2 * h[n - 1]
        BY <1>8, <2>3
    <2> QED
        BY <2>2, <2>5, <2>6
<1> QED
    BY <1>7, <1>8, <1>9, <1>10, FlagsAssumption, Zenon

(* Whatever goes on as step says keeps to the set that step keeps to.      *)
Continues(h, m, S, step) == \A n \in 1 .. m : h[n - 1] \in S => h[n] = step[<<n, h[n - 1]>>]

(* A function that goes on as step says keeps to its set from the start. *)
LEMMA RecursionStays ==
    ASSUME NEW M \in Nat, NEW S, NEW base \in S, NEW step \in [(1 .. M) \X S -> S],
           NEW h, h[0] = base, Continues(h, M, S, step)
    PROVE  \A n \in 0 .. M : h[n] \in S
<1> DEFINE Bad == {n \in 0 .. M : h[n] \notin S}
<1> SUFFICES ASSUME Bad # {} PROVE FALSE
    OBVIOUS
<1>1. Bad \in SUBSET Nat
    OBVIOUS
<1>2. PICK n \in Bad : \A o \in Bad : n <= o
    <2> HIDE DEF Bad
    <2> QED
        BY <1>1, SmallestIn
<1>3. n \in 1 .. M /\ n - 1 \in 0 .. M /\ ~(n <= n - 1)
    BY <1>2
<1>4. h[n - 1] \in S
    BY <1>2, <1>3
<1>5. h[n] = step[<<n, h[n - 1]>>]
    BY <1>3, <1>4 DEF Continues
<1> QED
    BY <1>2, <1>3, <1>4, <1>5

(* What a byte back from an output is. *)
LEMMA RecentValue ==
    ASSUME NEW out \in Seq(Value), NEW d \in 1 .. N
    PROVE  Recent(out, d) \in Value
<1>1. Blank \in Value /\ Unset \in Value
    <2>1. ByteValues \in Nat /\ ByteValues > 0
        BY Sizes, SMT DEF N
    <2> QED
        BY <2>1 DEF Blank, Unset, Value, Byte
<1>2. ASSUME d <= Len(out) PROVE Len(out) + 1 - d \in 1 .. Len(out)
    BY <1>2, Sizes
<1> QED
    BY <1>1, <1>2 DEF Recent

(* A match is copied byte by byte. *)
IsCopied(copied, out, d, length) ==
    copied = [n \in 0 .. length |->
                IF n = 0 THEN out ELSE Append(copied[n - 1], Recent(copied[n - 1], d))]

(* The copies of a match are what their definition says they are. *)
LEMMA CopiedAre ==
    ASSUME NEW out \in Seq(Value), NEW d \in 1 .. N, NEW length \in Nat
    PROVE  LET c == Copied(out, d, length)
           IN  /\ c[0] = out
               /\ \A n \in 1 .. length : c[n] = Append(c[n - 1], Recent(c[n - 1], d))
               /\ \A n \in 0 .. length : c[n] \in Seq(Value)
<1> DEFINE S == Seq(Value)
           step == [p \in (1 .. length) \X S |-> Append(p[2], Recent(p[2], d))]
           h == CHOOSE h : IsCopied(h, out, d, length)
<1>1. step \in [(1 .. length) \X S -> S]
    <2>1. ASSUME NEW p \in (1 .. length) \X S
          PROVE  Append(p[2], Recent(p[2], d)) \in S
        <3>1. p[2] \in Seq(Value)
            OBVIOUS
        <3>2. Recent(p[2], d) \in Value
            BY <3>1, RecentValue
        <3> QED
            BY <3>1, <3>2
    <2> QED
        BY <2>1
<1>2. \A n \in 1 .. length : \A o \in S : step[<<n, o>>] = Append(o, Recent(o, d))
    OBVIOUS
<1> HIDE DEF step
<1>3. out \in S
    OBVIOUS
<1> HIDE DEF S
<1>4. PICK f : Recurs(f, length, S, out, step)
    BY <1>1, <1>3, RecursionExists
<1>5. IsCopied(f, out, d, length)
    <2>1. f \in [0 .. length -> S] /\ f[0] = out
        BY <1>4 DEF Recurs
    <2>2. ASSUME NEW n \in 1 .. length
          PROVE  f[n] = Append(f[n - 1], Recent(f[n - 1], d))
        <3>1. f[n - 1] \in S
            BY <2>1
        <3>2. f[n] = step[<<n, f[n - 1]>>]
            BY <1>4 DEF Recurs
        <3> QED
            BY <1>2, <3>1, <3>2
    <2>3. f = [n \in 0 .. length |-> f[n]]
        BY <2>1
    <2>4. \A n \in 0 .. length : n = 0 \/ n \in 1 .. length
        OBVIOUS
    <2>5. \A n \in 0 .. length :
            f[n] = IF n = 0 THEN out ELSE Append(f[n - 1], Recent(f[n - 1], d))
        BY <2>1, <2>2, <2>4, Zenon
    <2> QED
        BY <2>3, <2>5 DEF IsCopied
<1>6. IsCopied(h, out, d, length)
    BY <1>5, Zenon
<1>7. Copied(out, d, length) = h
    BY DEF Copied, IsCopied
<1> HIDE DEF h
<1>8. \A n \in 0 .. length :
        h[n] = IF n = 0 THEN out ELSE Append(h[n - 1], Recent(h[n - 1], d))
    BY <1>6, Zenon DEF IsCopied
<1>9. /\ 0 \in 0 .. length
      /\ \A n \in 1 .. length : n \in 0 .. length /\ n # 0
    OBVIOUS
<1>10. h[0] = out /\ \A n \in 1 .. length : h[n] = Append(h[n - 1], Recent(h[n - 1], d))
    BY <1>8, <1>9, Zenon
<1>11. Continues(h, length, S, step)
    BY <1>2, <1>10, Zenon DEF Continues
<1>12. \A n \in 0 .. length : h[n] \in S
    BY <1>1, <1>3, <1>10, <1>11, RecursionStays
<1> QED
    BY <1>7, <1>10, <1>12, Zenon DEF S

(* Each is one byte longer than the one before. *)
LEMMA CopiedLength ==
    ASSUME NEW out \in Seq(Value), NEW d \in 1 .. N, NEW length \in Nat
    PROVE  \A n \in 0 .. length : Len(Copied(out, d, length)[n]) = Len(out) + n
<1> DEFINE c == Copied(out, d, length)
<1>1. /\ c[0] = out
      /\ \A n \in 1 .. length : c[n] = Append(c[n - 1], Recent(c[n - 1], d))
      /\ \A n \in 0 .. length : c[n] \in Seq(Value)
    BY CopiedAre
<1> HIDE DEF c
<1> DEFINE Bad == {n \in 0 .. length : Len(c[n]) # Len(out) + n}
<1>2. Bad = {}
    <2> SUFFICES ASSUME Bad # {} PROVE FALSE
        OBVIOUS
    <2>1. Bad \in SUBSET Nat
        OBVIOUS
    <2>2. PICK n \in Bad : \A o \in Bad : n <= o
        <3> HIDE DEF Bad
        <3> QED
            BY <2>1, SmallestIn
    <2>3. n \in 1 .. length /\ n - 1 \in 0 .. length /\ ~(n <= n - 1)
        <3>1. Len(c[0]) = Len(out) + 0
            BY <1>1
        <3>2. n \in 0 .. length /\ n # 0
            BY <2>2, <3>1
        <3> QED
            BY <3>2
    <2>4. Len(c[n - 1]) = Len(out) + (n - 1) /\ c[n - 1] \in Seq(Value)
        BY <1>1, <2>2, <2>3
    <2>5. c[n] = Append(c[n - 1], Recent(c[n - 1], d)) /\ Recent(c[n - 1], d) \in Value
        BY <1>1, <2>3, <2>4, RecentValue
    <2>6. Len(c[n]) = Len(c[n - 1]) + 1
        BY <2>4, <2>5
    <2> QED
        BY <2>2, <2>3, <2>4, <2>6
<1>3. \A n \in 0 .. length : Len(c[n]) = Len(out) + n
    BY <1>2
<1> QED
    BY <1>3 DEF c

(* An item is a byte, or a distance in the ring and a length of a match. *)
LEMMA ItemParts ==
    ASSUME NEW item \in Item
    PROVE  \/ IsLiteral(item) /\ item.byte \in Byte
           \/ /\ ~IsLiteral(item)
              /\ item.distance \in 1 .. N /\ item.length \in THRESHOLD + 1 .. F /\ item.length \in Nat
<1>1. CASE item \in {Literal_(c) : c \in Byte}
    <2>1. PICK c \in Byte : item = Literal_(c)
        BY <1>1
    <2> QED
        BY <2>1 DEF Literal_, IsLiteral
<1>2. CASE item \in {Match_(d, n) : d \in 1 .. N, n \in THRESHOLD + 1 .. F}
    <2>1. PICK d \in 1 .. N, n \in THRESHOLD + 1 .. F : item = Match_(d, n)
        BY <1>2
    <2>2. item.distance = d /\ item.length = n
        BY <2>1 DEF Match_
    <2>3. n \in Nat /\ n # 0
        BY Sizes
    <2> QED
        BY <2>2, <2>3 DEF IsLiteral
<1> QED
    BY <1>1, <1>2 DEF Item

(* One item more keeps an output an output. *)
LEMMA ExtendedType ==
    ASSUME NEW out \in Seq(Value), NEW item \in Item
    PROVE  Extended(out, item) \in Seq(Value)
<1>1. CASE IsLiteral(item)
    <2>1. item.byte \in Value
        BY <1>1, ItemParts DEF Value
    <2> QED
        BY <1>1, <2>1 DEF Extended
<1>2. CASE ~IsLiteral(item)
    <2>1. item.distance \in 1 .. N /\ item.length \in Nat
        BY <1>2, ItemParts
    <2>2. item.length \in 0 .. item.length
        BY <2>1
    <2>3. Copied(out, item.distance, item.length)[item.length] \in Seq(Value)
        BY <2>1, <2>2, CopiedAre
    <2> QED
        BY <1>2, <2>3 DEF Extended
<1> QED
    BY <1>1, <1>2

(* Item by item, the output grows as it says. *)
IsOutputs(out, items) ==
    out = [n \in 0 .. Len(items) |-> IF n = 0 THEN <<>> ELSE Extended(out[n - 1], items[n])]

(* The outputs of some items are what their definition says they are. *)
LEMMA OutputsAre ==
    ASSUME NEW items \in Seq(Item)
    PROVE  LET o == Outputs(items)
           IN  /\ o[0] = <<>>
               /\ \A n \in 1 .. Len(items) : o[n] = Extended(o[n - 1], items[n])
               /\ \A n \in 0 .. Len(items) : o[n] \in Seq(Value)
<1> DEFINE S == Seq(Value)
           L == Len(items)
           step == [p \in (1 .. L) \X S |-> Extended(p[2], items[p[1]])]
           h == CHOOSE h : IsOutputs(h, items)
<1>1. L \in Nat /\ \A n \in 1 .. L : items[n] \in Item
    OBVIOUS
<1> HIDE DEF L
<1>2. step \in [(1 .. L) \X S -> S]
    <2>1. ASSUME NEW p \in (1 .. L) \X S
          PROVE  Extended(p[2], items[p[1]]) \in S
        <3>1. p[1] \in 1 .. L /\ p[2] \in Seq(Value)
            OBVIOUS
        <3>2. items[p[1]] \in Item
            BY <1>1, <3>1
        <3> QED
            BY <3>1, <3>2, ExtendedType
    <2> QED
        BY <2>1
<1>3. \A n \in 1 .. L : \A o \in S : step[<<n, o>>] = Extended(o, items[n])
    OBVIOUS
<1> HIDE DEF step
<1>4. <<>> \in S
    OBVIOUS
<1> HIDE DEF S
<1>5. PICK f : Recurs(f, L, S, <<>>, step)
    BY <1>1, <1>2, <1>4, RecursionExists
<1>6. IsOutputs(f, items)
    <2>1. f \in [0 .. L -> S] /\ f[0] = <<>>
        BY <1>5 DEF Recurs
    <2>2. ASSUME NEW n \in 1 .. L
          PROVE  f[n] = Extended(f[n - 1], items[n])
        <3>1. f[n - 1] \in S
            BY <1>1, <2>1
        <3>2. f[n] = step[<<n, f[n - 1]>>]
            BY <1>5 DEF Recurs
        <3> QED
            BY <1>3, <3>1, <3>2
    <2>3. f = [n \in 0 .. L |-> f[n]]
        BY <2>1
    <2>4. \A n \in 0 .. L : n = 0 \/ n \in 1 .. L
        BY <1>1
    <2>5. \A n \in 0 .. L : f[n] = IF n = 0 THEN <<>> ELSE Extended(f[n - 1], items[n])
        BY <2>1, <2>2, <2>4, Zenon
    <2> QED
        BY <2>3, <2>5 DEF IsOutputs, L
<1>7. IsOutputs(h, items)
    BY <1>6, Zenon
<1>8. Outputs(items) = h
    BY DEF Outputs, IsOutputs
<1> HIDE DEF h
<1>9. \A n \in 0 .. L : h[n] = IF n = 0 THEN <<>> ELSE Extended(h[n - 1], items[n])
    BY <1>7, Zenon DEF IsOutputs, L
<1>10. 0 \in 0 .. L /\ \A n \in 1 .. L : n \in 0 .. L /\ n # 0
    BY <1>1
<1>11. h[0] = <<>> /\ \A n \in 1 .. L : h[n] = Extended(h[n - 1], items[n])
    BY <1>9, <1>10, Zenon
<1>12. Continues(h, L, S, step)
    BY <1>3, <1>11, Zenon DEF Continues
<1>13. \A n \in 0 .. L : h[n] \in S
    BY <1>1, <1>2, <1>4, <1>11, <1>12, RecursionStays
<1> QED
    BY <1>8, <1>11, <1>13, Zenon DEF S, L

(* The quotient and the remainder are the only ones. *)
LEMMA Residue ==
    ASSUME NEW m \in Nat \ {0}, NEW q \in Int, NEW b \in 0 .. m - 1, NEW a \in Int, a = m * q + b
    PROVE  a % m = b /\ a \div m = q
<1> DEFINE p == a \div m
           c == a % m
<1>1. p \in Int /\ c \in 0 .. m - 1 /\ a = m * p + c
    BY SMT
<1> HIDE DEF p, c
<1>2. CASE p >= q + 1
    <2>1. m * (p - q) >= m
        <3>1. p - q >= 1
            BY <1>1, <1>2
        <3> QED
            BY <1>1, <3>1
    <2>2. m * (p - q) = m * p - m * q
        BY <1>1
    <2> QED
        BY <1>1, <2>1, <2>2
<1>3. CASE q >= p + 1
    <2>1. m * (q - p) >= m
        <3>1. q - p >= 1
            BY <1>1, <1>3
        <3> QED
            BY <1>1, <3>1
    <2>2. m * (q - p) = m * q - m * p
        BY <1>1
    <2> QED
        BY <1>1, <2>1, <2>2
<1>4. CASE p = q
    BY <1>1, <1>4
<1>5. p >= q + 1 \/ q >= p + 1 \/ p = q
    BY <1>1
<1>6. c = b /\ p = q
    BY <1>1, <1>2, <1>3, <1>4, <1>5
<1> QED
    BY <1>6 DEF p, c

(* The remainder of the next number. *)
LEMMA NextResidue ==
    ASSUME NEW m \in Nat \ {0}, NEW a \in Nat
    PROVE  /\ a % m \in 0 .. m - 1
           /\ (a + 1) % m = IF a % m = m - 1 THEN 0 ELSE (a % m) + 1
<1> DEFINE q == a \div m
           b == a % m
<1>1. q \in Int /\ b \in 0 .. m - 1 /\ a = m * q + b
    BY SMT
<1> HIDE DEF q, b
<1>2. CASE b = m - 1
    <2>1. a + 1 = m * (q + 1) + 0
        BY <1>1, <1>2
    <2>2. (a + 1) % m = 0
        BY <1>1, <2>1, Residue
    <2> QED
        BY <1>1, <1>2, <2>2 DEF b
<1>3. CASE b # m - 1
    <2>1. a + 1 = m * q + (b + 1) /\ b + 1 \in 0 .. m - 1
        BY <1>1, <1>3
    <2>2. (a + 1) % m = b + 1
        BY <1>1, <2>1, Residue
    <2> QED
        BY <1>1, <1>3, <2>2 DEF b
<1> QED
    BY <1>2, <1>3

(* The flags of an item and those behind it, from the last one down.       *)
IsFlags(from, items) ==
    from = [n \in 1 .. Len(items) + 1 |->
              IF n > Len(items) THEN 0
              ELSE Flag(items[n]) + (IF n % FlagCount = 0 THEN 0 ELSE 2 * from[n + 1])]

(* There are such flags. *)
LEMMA FlagsExist ==
    ASSUME NEW items \in Seq(Item)
    PROVE  \E g : IsFlags(g, items)
<1> DEFINE L == Len(items)
           step == [p \in (1 .. L) \X Nat |->
                      Flag(items[L + 1 - p[1]]) + (IF (L + 1 - p[1]) % FlagCount = 0 THEN 0 ELSE 2 * p[2])]
<1>1. L \in Nat
    OBVIOUS
<1> HIDE DEF L
<1>2. step \in [(1 .. L) \X Nat -> Nat]
    <2>1. ASSUME NEW p \in (1 .. L) \X Nat
          PROVE  Flag(items[L + 1 - p[1]]) +
                    (IF (L + 1 - p[1]) % FlagCount = 0 THEN 0 ELSE 2 * p[2]) \in Nat
        <3>1. Flag(items[L + 1 - p[1]]) \in Nat
            BY DEF Flag
        <3>2. p[2] \in Nat
            OBVIOUS
        <3> QED
            BY <3>1, <3>2
    <2> QED
        BY <2>1
<1>3. \A n \in 1 .. L : \A o \in Nat :
        step[<<n, o>>] = Flag(items[L + 1 - n]) + (IF (L + 1 - n) % FlagCount = 0 THEN 0 ELSE 2 * o)
    OBVIOUS
<1> HIDE DEF step
<1>4. PICK f : Recurs(f, L, Nat, 0, step)
    BY <1>1, <1>2, RecursionExists
<1> DEFINE g == [n \in 1 .. L + 1 |-> f[L + 1 - n]]
<1>5. f \in [0 .. L -> Nat] /\ f[0] = 0
    BY <1>4 DEF Recurs
<1>6. ASSUME NEW n \in 1 .. L
      PROVE  g[n] = Flag(items[n]) + (IF n % FlagCount = 0 THEN 0 ELSE 2 * g[n + 1])
    <2> DEFINE o == L + 1 - n
    <2>1. o \in 1 .. L /\ L + 1 - o = n /\ L + 1 - (n + 1) = o - 1 /\ n + 1 \in 1 .. L + 1
          /\ n \in 1 .. L + 1
        BY <1>1
    <2>2. g[n] = f[o] /\ g[n + 1] = f[o - 1]
        BY <2>1
    <2> HIDE DEF o, g
    <2>3. f[o - 1] \in Nat
        BY <1>1, <1>5, <2>1
    <2>4. f[o] = step[<<o, f[o - 1]>>]
        BY <1>4, <2>1 DEF Recurs
    <2>5. step[<<o, f[o - 1]>>] =
            Flag(items[L + 1 - o]) + (IF (L + 1 - o) % FlagCount = 0 THEN 0 ELSE 2 * f[o - 1])
        BY <1>3, <2>1, <2>3, Zenon
    <2> QED
        BY <2>1, <2>2, <2>4, <2>5, Zenon
<1>7. g[L + 1] = 0
    BY <1>1, <1>5
<1>8. g = [n \in 1 .. L + 1 |-> g[n]]
    OBVIOUS
<1> HIDE DEF g
<1>9. \A n \in 1 .. L + 1 : (n > L /\ n = L + 1) \/ (~(n > L) /\ n \in 1 .. L)
    BY <1>1
<1>10. \A n \in 1 .. L + 1 :
         g[n] = IF n > L THEN 0
                ELSE Flag(items[n]) + (IF n % FlagCount = 0 THEN 0 ELSE 2 * g[n + 1])
    BY <1>6, <1>7, <1>9, Zenon
<1>11. IsFlags(g, items)
    BY <1>8, <1>10 DEF IsFlags, L
<1> QED
    BY <1>11

(* The flags of some items are what their definition says they are. *)
LEMMA FlagsAre ==
    ASSUME NEW items \in Seq(Item)
    PROVE  LET f == Flags(items)
           IN  /\ f[Len(items) + 1] = 0
               /\ \A n \in 1 .. Len(items) :
                    f[n] = Flag(items[n]) + (IF n % FlagCount = 0 THEN 0 ELSE 2 * f[n + 1])
<1> DEFINE L == Len(items)
           h == CHOOSE h : IsFlags(h, items)
<1>1. L \in Nat
    OBVIOUS
<1>2. IsFlags(h, items)
    BY FlagsExist, Zenon
<1>3. Flags(items) = h
    BY DEF Flags, IsFlags
<1> HIDE DEF h
<1>4. \A n \in 1 .. L + 1 :
        h[n] = IF n > L THEN 0
               ELSE Flag(items[n]) + (IF n % FlagCount = 0 THEN 0 ELSE 2 * h[n + 1])
    BY <1>2, Zenon DEF IsFlags
<1>5. L + 1 \in 1 .. L + 1 /\ L + 1 > L /\ \A n \in 1 .. L : n \in 1 .. L + 1 /\ ~(n > L)
    BY <1>1
<1> HIDE DEF L
<1>6. h[L + 1] = 0 /\ \A n \in 1 .. L :
        h[n] = Flag(items[n]) + (IF n % FlagCount = 0 THEN 0 ELSE 2 * h[n + 1])
    BY <1>4, <1>5, Zenon
<1> QED
    BY <1>3, <1>6, Zenon DEF L

(* The place of an item among those that share a byte of flags, from 0.    *)
Place(n) == (n - 1) % FlagCount

(* Places go round. *)
LEMMA Places ==
    ASSUME NEW n \in Nat \ {0}
    PROVE  /\ Place(n) \in 0 .. FlagCount - 1
           /\ n % FlagCount = 0 <=> Place(n) = FlagCount - 1
           /\ Place(n + 1) = IF n % FlagCount = 0 THEN 0 ELSE Place(n) + 1
           /\ Place(n + 1) = n % FlagCount
<1>1. FlagCount \in Nat \ {0} /\ n - 1 \in Nat /\ (n - 1) + 1 = n /\ (n + 1) - 1 = n
    BY FlagsAssumption
<1>2. /\ (n - 1) % FlagCount \in 0 .. FlagCount - 1
      /\ ((n - 1) + 1) % FlagCount =
            IF (n - 1) % FlagCount = FlagCount - 1 THEN 0 ELSE ((n - 1) % FlagCount) + 1
    BY <1>1, NextResidue
<1> DEFINE p == (n - 1) % FlagCount
           c == n % FlagCount
<1>3. p \in 0 .. FlagCount - 1 /\ c = IF p = FlagCount - 1 THEN 0 ELSE p + 1
    BY <1>1, <1>2
<1>4. Place(n) = p /\ Place(n + 1) = c
    BY <1>1 DEF Place
<1> HIDE DEF p, c
<1>5. c = 0 <=> p = FlagCount - 1
    BY <1>1, <1>3
<1> QED
    BY <1>3, <1>4, <1>5 DEF c

(* As many flags as are left in a byte are below the power of 2 of their   *)
(* number.                                                                 *)
LEMMA FlagsBelow ==
    ASSUME NEW items \in Seq(Item)
    PROVE  \A n \in 1 .. Len(items) + 1 :
              Flags(items)[n] \in Nat /\ Flags(items)[n] < Powers[FlagCount - Place(n)]
<1> DEFINE L == Len(items)
           f == Flags(items)
           Fits(n) == f[n] \in Nat /\ f[n] < Powers[FlagCount - Place(n)]
           Bad == {m \in 0 .. L : ~Fits(L + 1 - m)}
<1>1. L \in Nat /\ FlagCount \in Nat \ {0}
    BY FlagsAssumption
<1>2. f[L + 1] = 0 /\ \A n \in 1 .. L :
        f[n] = Flag(items[n]) + (IF n % FlagCount = 0 THEN 0 ELSE 2 * f[n + 1])
    BY FlagsAre
<1> HIDE DEF L, f
<1>3. ASSUME NEW n \in Nat \ {0}
      PROVE  /\ Place(n) \in 0 .. FlagCount - 1 /\ FlagCount - Place(n) \in 1 .. FlagCount
             /\ Powers[FlagCount - Place(n)] = 2 * Powers[FlagCount - Place(n) - 1]
             /\ Powers[FlagCount - Place(n)] \in Nat \ {0}
             /\ Powers[FlagCount - Place(n) - 1] \in Nat \ {0}
    <2>1. Place(n) \in 0 .. FlagCount - 1
        BY Places
    <2>2. FlagCount - Place(n) \in 1 .. FlagCount
        BY <1>1, <2>1
    <2>3. FlagCount - Place(n) \in 0 .. FlagCount /\ FlagCount - Place(n) - 1 \in 0 .. FlagCount
        BY <1>1, <2>2
    <2> QED
        BY <2>1, <2>2, <2>3, PowersAre
<1>4. Fits(L + 1)
    <2>1. Powers[FlagCount - Place(L + 1)] \in Nat \ {0}
        BY <1>1, <1>3
    <2> QED
        BY <1>2, <2>1
<1>5. ASSUME NEW n \in 1 .. L, Fits(n + 1)
      PROVE  Fits(n)
    <2>1. n \in Nat \ {0}
        BY <1>1
    <2> DEFINE P == Powers[FlagCount - Place(n)]
               Q == Powers[FlagCount - Place(n) - 1]
    <2>2. P = 2 * Q /\ P \in Nat \ {0} /\ Q \in Nat \ {0}
        BY <1>3, <2>1
    <2>3. Flag(items[n]) \in {0, 1}
        BY DEF Flag
    <2>4. CASE n % FlagCount = 0
        <3>1. f[n] = Flag(items[n]) + 0
            BY <1>2, <2>4
        <3> QED
            BY <2>2, <2>3, <3>1
    <2>5. CASE n % FlagCount # 0
        <3>1. f[n] = Flag(items[n]) + 2 * f[n + 1]
            BY <1>2, <2>5
        <3>2. Place(n) \in 0 .. FlagCount - 1 /\ Place(n + 1) = Place(n) + 1
            BY <2>1, <2>5, Places
        <3>3. FlagCount - Place(n + 1) = FlagCount - Place(n) - 1
            BY <1>1, <3>2
        <3>4. f[n + 1] \in Nat /\ f[n + 1] < Q
            BY <1>5, <3>3
        <3> HIDE DEF P, Q
        <3>5. f[n] \in Nat /\ f[n] < P
            BY <2>2, <2>3, <3>1, <3>4
        <3> QED
            BY <3>5 DEF P
    <2> QED
        BY <2>4, <2>5
<1> HIDE DEF Fits
<1>6. Bad = {}
    <2> SUFFICES ASSUME Bad # {} PROVE FALSE
        OBVIOUS
    <2>1. Bad \in SUBSET Nat
        BY <1>1
    <2>2. PICK m \in Bad : \A o \in Bad : m <= o
        <3> HIDE DEF Bad
        <3> QED
            BY <2>1, SmallestIn
    <2>3. m \in 0 .. L /\ ~Fits(L + 1 - m)
        BY <2>2
    <2>4. m # 0
        BY <1>1, <1>4, <2>3
    <2>5. /\ m - 1 \in 0 .. L /\ ~(m <= m - 1)
          /\ L + 1 - m \in 1 .. L /\ L + 1 - (m - 1) = (L + 1 - m) + 1
        BY <1>1, <2>3, <2>4
    <2>6. Fits(L + 1 - (m - 1))
        BY <2>2, <2>5
    <2> QED
        BY <1>5, <2>3, <2>5, <2>6
<1>7. ASSUME NEW n \in 1 .. L + 1
      PROVE  Fits(n)
    <2>1. L + 1 - n \in 0 .. L /\ L + 1 - (L + 1 - n) = n
        BY <1>1
    <2> QED
        BY <1>6, <2>1
<1> QED
    BY <1>7 DEF Fits, L, f

-----------------------------------------------------------------------------
(* The byte of flags before an item, if it is the first one to share it.   *)
Header(items, n) == IF (n - 1) % FlagCount = 0 THEN <<Flags(items)[n]>> ELSE <<>>

Bytes(items, n) == ItemBytes(items[n], Len(Outputs(items)[n - 1]))

Grown(code, items, n) == code \o Header(items, n) \o Bytes(items, n)

(* A literal is one byte, a match two. *)
LEMMA ItemBytesType ==
    ASSUME NEW item \in Item, NEW n \in Nat
    PROVE  /\ ItemBytes(item, n) \in Seq(Int)
           /\ Len(ItemBytes(item, n)) = IF IsLiteral(item) THEN 1 ELSE 2
<1>1. CASE IsLiteral(item)
    <2>1. item.byte \in Int
        BY <1>1, ItemParts, Sizes DEF Byte
    <2>2. ItemBytes(item, n) = <<item.byte>>
        BY <1>1 DEF ItemBytes
    <2>3. <<item.byte>> \in Seq(Int) /\ Len(<<item.byte>>) = 1
        BY <2>1
    <2> QED
        BY <1>1, <2>2, <2>3
<1>2. CASE ~IsLiteral(item)
    <2> DEFINE at == (N - F + n - item.distance) % N
               a == at % ByteValues
               b == (at \div ByteValues) * LengthValues + (item.length - THRESHOLD - 1)
    <2>1. item.distance \in Int /\ item.length \in Nat
        BY <1>2, ItemParts, Sizes
    <2>2. N \in Nat \ {0} /\ ByteValues \in Nat \ {0} /\ LengthValues \in Nat /\ THRESHOLD \in Nat
          /\ F \in Nat
        BY Sizes DEF N
    <2>3. at \in Int
        <3>1. N - F + n - item.distance \in Int
            BY <2>1, <2>2
        <3> QED
            BY <2>2, <3>1
    <2> HIDE DEF at
    <2>4. a \in Int /\ at \div ByteValues \in Int
        BY <2>2, <2>3
    <2>5. b \in Int
        BY <2>1, <2>2, <2>4
    <2>6. ItemBytes(item, n) = <<a, b>>
        BY <1>2 DEF ItemBytes, at
    <2> HIDE DEF a, b
    <2>7. <<a, b>> \in Seq(Int) /\ Len(<<a, b>>) = 2
        BY <2>4, <2>5 DEF a
    <2> QED
        BY <1>2, <2>6, <2>7, Zenon
<1> QED
    BY <1>1, <1>2

(* What an item adds to the encoding. *)
LEMMA PieceTypes ==
    ASSUME NEW items \in Seq(Item), NEW n \in 1 .. Len(items)
    PROVE  /\ items[n] \in Item
           /\ Header(items, n) \in Seq(Int) /\ Bytes(items, n) \in Seq(Int)
           /\ Len(Header(items, n)) = IF Place(n) = 0 THEN 1 ELSE 0
           /\ Place(n) = 0 => Header(items, n)[1] = Flags(items)[n]
           /\ Len(Bytes(items, n)) = IF IsLiteral(items[n]) THEN 1 ELSE 2
<1>1. items[n] \in Item
    OBVIOUS
<1>2. n \in 1 .. Len(items) + 1 /\ n - 1 \in 0 .. Len(items)
    OBVIOUS
<1>3. Flags(items)[n] \in Int
    BY <1>2, FlagsBelow
<1>4. /\ Header(items, n) \in Seq(Int)
      /\ Len(Header(items, n)) = IF Place(n) = 0 THEN 1 ELSE 0
      /\ Place(n) = 0 => Header(items, n)[1] = Flags(items)[n]
    <2> DEFINE x == Flags(items)[n]
    <2>1. <<x>> \in Seq(Int) /\ Len(<<x>>) = 1 /\ <<x>>[1] = x
        BY <1>3
    <2>2. <<>> \in Seq(Int) /\ Len(<<>>) = 0
        OBVIOUS
    <2>3. CASE Place(n) = 0
        <3>1. Header(items, n) = <<x>>
            BY <2>3, Zenon DEF Header, Place
        <3> QED
            BY <2>1, <2>3, <3>1, Zenon
    <2>4. CASE Place(n) # 0
        <3>1. Header(items, n) = <<>>
            BY <2>4, Zenon DEF Header, Place
        <3>2. Header(items, n) \in Seq(Int) /\ Len(Header(items, n)) = 0
            BY <2>2, <3>1, Zenon
        <3> HIDE DEF x
        <3> QED
            BY <2>4, <3>2
    <2> QED
        BY <2>3, <2>4
<1>5. Len(Outputs(items)[n - 1]) \in Nat
    <2>1. Outputs(items)[n - 1] \in Seq(Value)
        BY <1>2, OutputsAre
    <2> QED
        BY <2>1, LenProperties, Zenon
<1>6. /\ Bytes(items, n) \in Seq(Int)
      /\ Len(Bytes(items, n)) = IF IsLiteral(items[n]) THEN 1 ELSE 2
    BY <1>1, <1>5, ItemBytesType, Zenon DEF Bytes
<1> QED
    BY <1>1, <1>4, <1>6, Zenon

IsEncodings(code, items) ==
    code = [n \in 0 .. Len(items) |-> IF n = 0 THEN <<>> ELSE Grown(code[n - 1], items, n)]

(* The encodings of some items are what their definition says they are. *)
LEMMA EncodingsAre ==
    ASSUME NEW items \in Seq(Item)
    PROVE  LET e == Encodings(items)
           IN  /\ e[0] = <<>>
               /\ \A n \in 1 .. Len(items) : e[n] = Grown(e[n - 1], items, n)
               /\ \A n \in 0 .. Len(items) : e[n] \in Seq(Int)
<1> DEFINE S == Seq(Int)
           L == Len(items)
           step == [p \in (1 .. L) \X S |-> Grown(p[2], items, p[1])]
           h == CHOOSE h : IsEncodings(h, items)
<1>1. L \in Nat
    OBVIOUS
<1>2. step \in [(1 .. L) \X S -> S]
    <2>1. ASSUME NEW p \in (1 .. L) \X S
          PROVE  Grown(p[2], items, p[1]) \in S
        <3>1. p[1] \in 1 .. Len(items) /\ p[2] \in Seq(Int)
            OBVIOUS
        <3>2. Header(items, p[1]) \in Seq(Int) /\ Bytes(items, p[1]) \in Seq(Int)
            BY <3>1, PieceTypes
        <3>3. p[2] \o Header(items, p[1]) \in Seq(Int)
            BY <3>1, <3>2, ConcatProperties
        <3> QED
            BY <3>2, <3>3, ConcatProperties DEF Grown
    <2> QED
        BY <2>1
<1>3. \A n \in 1 .. L : \A o \in S : step[<<n, o>>] = Grown(o, items, n)
    OBVIOUS
<1> HIDE DEF step, L
<1>4. <<>> \in S
    OBVIOUS
<1> HIDE DEF S
<1>5. PICK f : Recurs(f, L, S, <<>>, step)
    BY <1>1, <1>2, <1>4, RecursionExists
<1>6. IsEncodings(f, items)
    <2>1. f \in [0 .. L -> S] /\ f[0] = <<>>
        BY <1>5 DEF Recurs
    <2>2. ASSUME NEW n \in 1 .. L
          PROVE  f[n] = Grown(f[n - 1], items, n)
        <3>1. f[n - 1] \in S
            BY <1>1, <2>1
        <3>2. f[n] = step[<<n, f[n - 1]>>]
            BY <1>5 DEF Recurs
        <3> QED
            BY <1>3, <3>1, <3>2
    <2>3. f = [n \in 0 .. L |-> f[n]]
        BY <2>1
    <2>4. \A n \in 0 .. L : n = 0 \/ n \in 1 .. L
        BY <1>1
    <2>5. \A n \in 0 .. L : f[n] = IF n = 0 THEN <<>> ELSE Grown(f[n - 1], items, n)
        BY <2>1, <2>2, <2>4, Zenon
    <2> QED
        BY <2>3, <2>5 DEF IsEncodings, L
<1>7. IsEncodings(h, items)
    BY <1>6, Zenon
<1>8. Encodings(items) = h
    BY DEF Encodings, IsEncodings, Grown, Header, Bytes
<1> HIDE DEF h
<1>9. \A n \in 0 .. L : h[n] = IF n = 0 THEN <<>> ELSE Grown(h[n - 1], items, n)
    BY <1>7, Zenon DEF IsEncodings, L
<1>10. 0 \in 0 .. L /\ \A n \in 1 .. L : n \in 0 .. L /\ n # 0
    BY <1>1
<1>11. h[0] = <<>> /\ \A n \in 1 .. L : h[n] = Grown(h[n - 1], items, n)
    BY <1>9, <1>10, Zenon
<1>12. Continues(h, L, S, step)
    BY <1>3, <1>11, Zenon DEF Continues
<1>13. \A n \in 0 .. L : h[n] \in S
    BY <1>1, <1>2, <1>4, <1>11, <1>12, RecursionStays
<1> QED
    BY <1>8, <1>11, <1>13, Zenon DEF S, L

(* Two sequences one behind the other. *)
Joined(w, a, z) ==
    /\ Len(w) = Len(a) + Len(z)
    /\ \A i_ \in 1 .. Len(a) : w[i_] = a[i_]
    /\ \A i_ \in 1 .. Len(z) : w[Len(a) + i_] = z[i_]

(* \o joins two sequences. *)
LEMMA JoinedSeq ==
    ASSUME NEW a \in Seq(Int), NEW z \in Seq(Int)
    PROVE  a \o z \in Seq(Int) /\ Joined(a \o z, a, z)
<1>1. /\ a \o z \in Seq(Int) /\ Len(a \o z) = Len(a) + Len(z)
      /\ \A p \in 1 .. Len(a) + Len(z) :
            (a \o z)[p] = IF p <= Len(a) THEN a[p] ELSE z[p - Len(a)]
    BY ConcatProperties
<1>2. Len(a) \in Nat /\ Len(z) \in Nat
    OBVIOUS
<1>3. ASSUME NEW p \in 1 .. Len(z)
      PROVE  (a \o z)[Len(a) + p] = z[p]
    <2>1. Len(a) + p \in 1 .. Len(a) + Len(z) /\ ~(Len(a) + p <= Len(a))
          /\ (Len(a) + p) - Len(a) = p
        BY <1>2
    <2> QED
        BY <1>1, <2>1
<1>4. ASSUME NEW p \in 1 .. Len(a)
      PROVE  (a \o z)[p] = a[p]
    <2>1. p \in 1 .. Len(a) + Len(z) /\ p <= Len(a)
        BY <1>2
    <2> QED
        BY <1>1, <2>1
<1> QED
    BY <1>1, <1>3, <1>4 DEF Joined

(* One item more: what was there, its header and its bytes. *)
Grows(w, code, h, b) ==
    /\ Len(code) \in Nat /\ Len(h) \in Nat /\ Len(b) \in Nat
    /\ Len(w) = Len(code) + Len(h) + Len(b)
    /\ \A i_ \in 1 .. Len(code) : w[i_] = code[i_]
    /\ \A i_ \in 1 .. Len(h) : w[Len(code) + i_] = h[i_]
    /\ \A i_ \in 1 .. Len(b) : w[Len(code) + Len(h) + i_] = b[i_]

(* Grown grows so. *)
LEMMA GrownParts ==
    ASSUME NEW items \in Seq(Item), NEW n \in 1 .. Len(items), NEW code \in Seq(Int)
    PROVE  Grows(Grown(code, items, n), code, Header(items, n), Bytes(items, n))
<1> DEFINE w == Grown(code, items, n)
           h == Header(items, n)
           b == Bytes(items, n)
<1>1. h \in Seq(Int) /\ b \in Seq(Int)
    BY PieceTypes
<1>2. w = code \o h \o b
    BY DEF Grown
<1> HIDE DEF w, h, b
<1>3. PICK v : v \in Seq(Int) /\ v = code \o h /\ Joined(v, code, h)
    BY <1>1, JoinedSeq
<1>4. Joined(w, v, b)
    BY <1>1, <1>2, <1>3, JoinedSeq
<1>5. /\ Len(code) \in Nat /\ Len(h) \in Nat /\ Len(b) \in Nat
    BY <1>1, LenProperties
<1>6. Len(v) = Len(code) + Len(h)
    BY <1>3 DEF Joined
<1>7. Len(w) = Len(code) + Len(h) + Len(b)
    BY <1>4, <1>6 DEF Joined
<1>8. ASSUME NEW p \in 1 .. Len(code)
      PROVE  w[p] = code[p]
    <2>1. p \in 1 .. Len(v)
        BY <1>5, <1>6
    <2> QED
        BY <1>3, <1>4, <2>1, Zenon DEF Joined
<1>9. ASSUME NEW p \in 1 .. Len(h)
      PROVE  w[Len(code) + p] = h[p]
    <2>1. Len(code) + p \in 1 .. Len(v)
        BY <1>5, <1>6
    <2> QED
        BY <1>3, <1>4, <2>1, Zenon DEF Joined
<1>10. ASSUME NEW p \in 1 .. Len(b)
       PROVE  w[Len(code) + Len(h) + p] = b[p]
    BY <1>4, <1>6, Zenon DEF Joined
<1> QED
    BY <1>5, <1>7, <1>8, <1>9, <1>10, Zenon DEF Grows, w, h, b

(* What was encoded stays. *)
LEMMA EncodingsAgree ==
    ASSUME NEW items \in Seq(Item)
    PROVE  \A n \in 0 .. Len(items) :
              /\ Len(Encodings(items)[n]) \in Nat
              /\ Len(Encodings(items)[n]) <= Len(Encoded(items))
              /\ \A p \in 1 .. Len(Encodings(items)[n]) : Encoded(items)[p] = Encodings(items)[n][p]
<1> DEFINE L == Len(items)
           e == Encodings(items)
           Good(n) == /\ Len(e[n]) <= Len(e[L])
                      /\ \A p \in 1 .. Len(e[n]) : e[L][p] = e[n][p]
           Bad == {m \in 0 .. L : ~Good(L - m)}
<1>1. L \in Nat
    OBVIOUS
<1>2. /\ \A n \in 1 .. Len(items) : e[n] = Grown(e[n - 1], items, n)
      /\ \A n \in 0 .. Len(items) : e[n] \in Seq(Int)
    BY EncodingsAre
<1> HIDE DEF e
<1>3. \A n \in 0 .. L : e[n] \in Seq(Int) /\ Len(e[n]) \in Nat
    BY <1>2, LenProperties
<1>4. Good(L)
    BY <1>1, <1>3
<1>5. ASSUME NEW n \in 1 .. L, Good(n)
      PROVE  Good(n - 1)
    <2>1. n - 1 \in 0 .. L /\ n \in 0 .. L
        BY <1>1
    <2>2. e[n - 1] \in Seq(Int) /\ Len(e[n - 1]) \in Nat /\ Len(e[n]) \in Nat /\ Len(e[L]) \in Nat
        BY <1>1, <1>3, <2>1
    <2>3. /\ Len(Header(items, n)) \in Nat /\ Len(Bytes(items, n)) \in Nat
          /\ Len(e[n]) = Len(e[n - 1]) + Len(Header(items, n)) + Len(Bytes(items, n))
          /\ \A p \in 1 .. Len(e[n - 1]) : e[n][p] = e[n - 1][p]
        <3>1. e[n] = Grown(e[n - 1], items, n)
            BY <1>2
        <3>2. Grows(e[n], e[n - 1], Header(items, n), Bytes(items, n))
            BY <2>2, <3>1, GrownParts
        <3> QED
            BY <3>2, Zenon DEF Grows
    <2>4. Len(e[n - 1]) <= Len(e[n])
        BY <2>2, <2>3
    <2>5. Len(e[n - 1]) <= Len(e[L])
        BY <1>5, <2>2, <2>4
    <2>6. ASSUME NEW p \in 1 .. Len(e[n - 1])
          PROVE  e[L][p] = e[n - 1][p]
        <3>1. p \in 1 .. Len(e[n])
            BY <2>2, <2>4
        <3> QED
            BY <1>5, <2>3, <3>1, Zenon
    <2> QED
        BY <2>5, <2>6
<1> HIDE DEF Good
<1>6. Bad = {}
    <2> SUFFICES ASSUME Bad # {} PROVE FALSE
        OBVIOUS
    <2> HIDE DEF L
    <2>1. Bad \in SUBSET Nat
        BY <1>1
    <2>2. PICK m \in Bad : \A o \in Bad : m <= o
        <3> HIDE DEF Bad
        <3> QED
            BY <2>1, SmallestIn
    <2>3. m \in 0 .. L /\ ~Good(L - m)
        BY <2>2
    <2>4. m # 0
        <3>1. L - 0 = L
            BY <1>1
        <3> QED
            BY <1>4, <2>3, <3>1
    <2>5. m - 1 \in 0 .. L /\ ~(m <= m - 1) /\ L - (m - 1) \in 1 .. L /\ (L - (m - 1)) - 1 = L - m
        BY <1>1, <2>3, <2>4
    <2>6. Good(L - (m - 1))
        BY <2>2, <2>5
    <2> QED
        BY <1>5, <2>3, <2>5, <2>6
<1>7. ASSUME NEW n \in 0 .. L
      PROVE  Good(n)
    <2>1. L - n \in 0 .. L /\ L - (L - n) = n
        BY <1>1
    <2> QED
        BY <1>6, <2>1
<1> QED
    BY <1>3, <1>7 DEF Good, L, e, Encoded

(* Where the parts of an item are. *)
LEMMA EncodedAt ==
    ASSUME NEW items \in Seq(Item), NEW n \in 1 .. Len(items)
    PROVE  LET A == Len(Encodings(items)[n - 1])
               H == IF Place(n) = 0 THEN 1 ELSE 0
               B == IF IsLiteral(items[n]) THEN 1 ELSE 2
           IN  /\ A \in Nat
               /\ Len(Encodings(items)[n]) = A + H + B
               /\ Place(n) = 0 => Encoded(items)[A + 1] = Flags(items)[n]
               /\ \A p \in 1 .. B : Encoded(items)[A + H + p] = Bytes(items, n)[p]
<1> DEFINE e == Encodings(items)
           A == Len(e[n - 1])
           H == Len(Header(items, n))
           B == Len(Bytes(items, n))
<1>1. n - 1 \in 0 .. Len(items) /\ n \in 0 .. Len(items)
    OBVIOUS
<1>2. e[n] = Grown(e[n - 1], items, n) /\ e[n - 1] \in Seq(Int)
    BY <1>1, EncodingsAre
<1>3. /\ A \in Nat /\ H \in Nat /\ B \in Nat
      /\ Len(e[n]) = A + H + B
      /\ \A p \in 1 .. H : e[n][A + p] = Header(items, n)[p]
      /\ \A p \in 1 .. B : e[n][A + H + p] = Bytes(items, n)[p]
    <2> HIDE DEF e
    <2>1. Grows(e[n], e[n - 1], Header(items, n), Bytes(items, n))
        BY <1>2, GrownParts
    <2> QED
        BY <2>1, Zenon DEF Grows
<1>4. \A p \in 1 .. Len(e[n]) : Encoded(items)[p] = e[n][p]
    BY <1>1, EncodingsAgree
<1> HIDE DEF e
<1>5. /\ H = (IF Place(n) = 0 THEN 1 ELSE 0)
      /\ Place(n) = 0 => Header(items, n)[1] = Flags(items)[n]
      /\ B = (IF IsLiteral(items[n]) THEN 1 ELSE 2)
    BY PieceTypes
<1> HIDE DEF A, H, B
<1>6. ASSUME Place(n) = 0
      PROVE  Encoded(items)[A + 1] = Flags(items)[n]
    <2>1. H = 1 /\ 1 \in 1 .. H /\ A + 1 \in 1 .. Len(e[n])
        BY <1>3, <1>5, <1>6
    <2> QED
        BY <1>3, <1>4, <1>5, <1>6, <2>1, Zenon
<1>7. ASSUME NEW p \in 1 .. B
      PROVE  Encoded(items)[A + H + p] = Bytes(items, n)[p]
    <2>1. A + H + p \in 1 .. Len(e[n])
        BY <1>3
    <2> QED
        BY <1>3, <1>4, <2>1, Zenon
<1>8. A \in Nat /\ Len(e[n]) = A + H + B
    BY <1>3
<1> QED
    BY <1>5, <1>6, <1>7, <1>8, Zenon DEF A, e

-----------------------------------------------------------------------------
(* The flags with their mark, when item n is the next one. *)
MarkAbove(items, n) == Flags(items)[n] + Powers[FlagCount - Place(n)] * (ByteValues - 1)

(* No power of 2 up to that of FlagCount is above ByteValues. *)
LEMMA PowerBounded == \A n \in 0 .. FlagCount : Powers[n] <= ByteValues
<1> DEFINE Bad == {m \in 0 .. FlagCount : ~(Powers[FlagCount - m] <= ByteValues)}
<1>1. FlagCount \in Nat \ {0}
    BY FlagsAssumption
<1>2. /\ Powers[FlagCount] = ByteValues
      /\ \A n \in 1 .. FlagCount : Powers[n] = 2 * Powers[n - 1]
      /\ \A n \in 0 .. FlagCount : Powers[n] \in Nat \ {0}
    BY PowersAre
<1>3. Bad = {}
    <2> SUFFICES ASSUME Bad # {} PROVE FALSE
        OBVIOUS
    <2>1. Bad \in SUBSET Nat
        BY <1>1
    <2>2. PICK m \in Bad : \A o \in Bad : m <= o
        <3> HIDE DEF Bad
        <3> QED
            BY <2>1, SmallestIn
    <2>3. m \in 0 .. FlagCount /\ ~(Powers[FlagCount - m] <= ByteValues)
        BY <2>2
    <2>4. m # 0
        <3>1. FlagCount - 0 = FlagCount /\ ByteValues \in Nat
            BY <1>1, Sizes
        <3> QED
            BY <1>2, <2>3, <3>1
    <2>5. /\ m - 1 \in 0 .. FlagCount /\ ~(m <= m - 1)
          /\ FlagCount - (m - 1) \in 1 .. FlagCount /\ (FlagCount - (m - 1)) - 1 = FlagCount - m
          /\ FlagCount - m \in 0 .. FlagCount
        BY <1>1, <2>3, <2>4
    <2>6. Powers[FlagCount - (m - 1)] <= ByteValues
        BY <2>2, <2>5
    <2>7. Powers[FlagCount - (m - 1)] = 2 * Powers[FlagCount - m] /\ Powers[FlagCount - m] \in Nat
        BY <1>2, <2>5
    <2> QED
        BY <2>3, <2>6, <2>7, Sizes
<1>4. ASSUME NEW n \in 0 .. FlagCount
      PROVE  Powers[n] <= ByteValues
    <2>1. FlagCount - n \in 0 .. FlagCount /\ FlagCount - (FlagCount - n) = n
        BY <1>1
    <2> QED
        BY <1>3, <2>1
<1> QED
    BY <1>4

(* The power of 2 above the flags that are left. *)
LEMMA PlacePower ==
    ASSUME NEW n \in Nat \ {0}
    PROVE  LET P == Powers[FlagCount - Place(n)]
               Q == Powers[FlagCount - Place(n) - 1]
           IN  /\ P \in Nat \ {0} /\ Q \in Nat \ {0} /\ P = 2 * Q /\ P <= ByteValues
               /\ n % FlagCount = 0 => Q = 1
               /\ n % FlagCount # 0 => Q = Powers[FlagCount - Place(n + 1)]
<1>1. FlagCount \in Nat \ {0}
    BY FlagsAssumption
<1>2. /\ Place(n) \in 0 .. FlagCount - 1
      /\ n % FlagCount = 0 <=> Place(n) = FlagCount - 1
      /\ Place(n + 1) = IF n % FlagCount = 0 THEN 0 ELSE Place(n) + 1
    BY Places
<1>3. FlagCount - Place(n) \in 1 .. FlagCount
    BY <1>1, <1>2
<1>4. FlagCount - Place(n) \in 0 .. FlagCount /\ FlagCount - Place(n) - 1 \in 0 .. FlagCount
    BY <1>1, <1>3
<1>5. ASSUME n % FlagCount = 0
      PROVE  FlagCount - Place(n) - 1 = 0
    BY <1>1, <1>2, <1>5
<1>6. ASSUME n % FlagCount # 0
      PROVE  FlagCount - Place(n) - 1 = FlagCount - Place(n + 1)
    BY <1>1, <1>2, <1>6
<1> QED
    BY <1>3, <1>4, <1>5, <1>6, PowersAre, PowerBounded, Zenon

(* The lowest bit is the flag of the next item, the others are those that  *)
(* follow it, under the mark.                                              *)
LEMMA FlagTaken ==
    ASSUME NEW items \in Seq(Item), NEW n \in 1 .. Len(items)
    PROVE  /\ MarkAbove(items, n) \in Nat
           /\ MarkAbove(items, n) % 2 = Flag(items[n])
           /\ MarkAbove(items, n) \div 2 = IF n % FlagCount = 0 THEN ByteValues - 1
                                           ELSE MarkAbove(items, n + 1)
<1> DEFINE P == Powers[FlagCount - Place(n)]
           Q == Powers[FlagCount - Place(n) - 1]
           x == IF n % FlagCount = 0 THEN 0 ELSE Flags(items)[n + 1]
           b == ByteValues - 1
           f == Flag(items[n])
<1>1. n \in Nat \ {0} /\ n \in 1 .. Len(items) + 1 /\ n + 1 \in 1 .. Len(items) + 1
    OBVIOUS
<1>2. /\ P \in Nat \ {0} /\ Q \in Nat \ {0} /\ P = 2 * Q /\ P <= ByteValues
      /\ n % FlagCount = 0 => Q = 1
      /\ n % FlagCount # 0 => Q = Powers[FlagCount - Place(n + 1)]
    BY <1>1, PlacePower
<1>3. f \in 0 .. 2 - 1 /\ f \in Nat
    BY DEF Flag
<1>4. x \in Nat
    BY <1>1, FlagsBelow
<1>5. Flags(items)[n] = f + 2 * x
    <2>1. Flags(items)[n] = f + (IF n % FlagCount = 0 THEN 0 ELSE 2 * Flags(items)[n + 1])
        BY FlagsAre
    <2> QED
        BY <2>1
<1>6. b \in Nat
    BY <1>2, Sizes
<1> DEFINE y == x + Q * b
<1> HIDE DEF P, Q, x, b, f
<1>7. Q * b \in Nat
    BY <1>2, <1>6
<1>8. P * b = 2 * (Q * b)
    BY <1>2, <1>6
<1>9. y \in Nat /\ (f + 2 * x) + P * b = 2 * y + f
    BY <1>3, <1>4, <1>7, <1>8
<1>10. MarkAbove(items, n) = 2 * y + f
    BY <1>5, <1>9 DEF MarkAbove, P, b
<1>11. y = IF n % FlagCount = 0 THEN ByteValues - 1 ELSE MarkAbove(items, n + 1)
    <2>1. CASE n % FlagCount = 0
        <3>1. x = 0 /\ Q = 1
            BY <1>2, <2>1 DEF x
        <3>2. y = b
            BY <1>6, <3>1
        <3> QED
            BY <2>1, <3>2 DEF b
    <2>2. CASE n % FlagCount # 0
        <3>1. x = Flags(items)[n + 1] /\ Q = Powers[FlagCount - Place(n + 1)]
            BY <1>2, <2>2 DEF x
        <3> QED
            BY <2>2, <3>1 DEF MarkAbove, b
    <2> QED
        BY <2>1, <2>2
<1> HIDE DEF y
<1>12. 2 * y + f \in Nat /\ (2 * y + f) % 2 = f /\ (2 * y + f) \div 2 = y
    BY <1>3, <1>9, Residue
<1> QED
    BY <1>10, <1>11, <1>12 DEF f

(* When there are no more items there are no more flags: the next is 0.    *)
LEMMA NoFlagTaken ==
    ASSUME NEW items \in Seq(Item)
    PROVE  /\ MarkAbove(items, Len(items) + 1) \in Nat
           /\ MarkAbove(items, Len(items) + 1) % 2 = 0
<1> DEFINE n == Len(items) + 1
           Q == Powers[FlagCount - Place(n) - 1]
           b == ByteValues - 1
<1>1. n \in Nat \ {0}
    OBVIOUS
<1> HIDE DEF n
<1>2. Q \in Nat \ {0} /\ Powers[FlagCount - Place(n)] = 2 * Q /\ 2 * Q <= ByteValues
    BY <1>1, PlacePower
<1>3. Flags(items)[n] = 0
    BY FlagsAre DEF n
<1> HIDE DEF Q
<1>4. b \in Nat
    BY <1>2, Sizes
<1>5. MarkAbove(items, n) = (2 * Q) * b
    BY <1>2, <1>3, <1>4 DEF MarkAbove
<1> HIDE DEF b
<1>6. Q * b \in Nat /\ (2 * Q) * b = 2 * (Q * b) + 0
    BY <1>2, <1>4
<1>7. 2 * (Q * b) + 0 \in Nat /\ (2 * (Q * b) + 0) % 2 = 0
    BY <1>6, Residue
<1> QED
    BY <1>5, <1>6, <1>7 DEF n

(* The mark tells whether there are flags left. *)
LEMMA MarkSeen ==
    ASSUME NEW items \in Seq(Item), NEW n \in 1 .. Len(items) + 1, Place(n) # 0
    PROVE  (MarkAbove(items, n) \div ByteValues) % 2 = 1
<1> DEFINE P == Powers[FlagCount - Place(n)]
           Q == Powers[FlagCount - Place(n) - 1]
           x == Flags(items)[n]
<1>1. n \in Nat \ {0}
    OBVIOUS
<1>2. P \in Nat \ {0} /\ Q \in Nat \ {0} /\ P = 2 * Q /\ P <= ByteValues
    BY <1>1, PlacePower
<1>3. x \in Nat /\ x < P
    BY FlagsBelow
<1>4. MarkAbove(items, n) = x + P * (ByteValues - 1)
    BY DEF MarkAbove
<1> HIDE DEF P, Q, x
<1>5. ByteValues \in Nat \ {0}
    BY <1>2, Sizes
<1>6. P * (ByteValues - 1) = ByteValues * (P - 1) + (ByteValues - P)
    BY <1>2, <1>5
<1>7. ByteValues - P + x \in 0 .. ByteValues - 1 /\ P - 1 \in Int
      /\ ByteValues * (P - 1) \in Int
    BY <1>2, <1>3, <1>5
<1>8. x + P * (ByteValues - 1) = ByteValues * (P - 1) + (ByteValues - P + x)
      /\ x + P * (ByteValues - 1) \in Int
    BY <1>2, <1>3, <1>5, <1>6, <1>7
<1>9. (x + P * (ByteValues - 1)) \div ByteValues = P - 1
    <2> DEFINE a == x + P * (ByteValues - 1)
               c == ByteValues - P + x
    <2>1. a = ByteValues * (P - 1) + c /\ a \in Int /\ c \in 0 .. ByteValues - 1
        BY <1>7, <1>8
    <2> HIDE DEF a, c
    <2>2. a \div ByteValues = P - 1
        BY <1>5, <1>7, <2>1, Residue
    <2> QED
        BY <2>2 DEF a
<1>10. (P - 1) % 2 = 1
    <2> DEFINE a == P - 1
               h == Q - 1
    <2>1. a = 2 * h + 1 /\ h \in Int /\ a \in Int /\ 1 \in 0 .. 2 - 1 /\ 2 \in Nat \ {0}
        BY <1>2
    <2> HIDE DEF a, h
    <2>2. a % 2 = 1
        BY <2>1, Residue
    <2> QED
        BY <2>2 DEF a
<1> QED
    BY <1>4, <1>9, <1>10

(* Without a mark, or with one that is used up, no flags are left. *)
LEMMA NoMarkSeen ==
    /\ ((ByteValues - 1) \div ByteValues) % 2 # 1
    /\ ((0 \div 2) \div ByteValues) % 2 # 1
<1>1. ByteValues \in Nat \ {0}
    BY Sizes DEF N
<1>2. (ByteValues - 1) \div ByteValues = 0
    <2>1. ByteValues - 1 = ByteValues * 0 + (ByteValues - 1) /\ ByteValues - 1 \in 0 .. ByteValues - 1
          /\ ByteValues - 1 \in Int
        BY <1>1
    <2> QED
        BY <1>1, <2>1, Residue
<1>3. 0 \div 2 = 0
    BY SMT
<1>4. 0 \div ByteValues = 0
    <2>1. 0 = ByteValues * 0 + 0 /\ 0 \in 0 .. ByteValues - 1
        BY <1>1
    <2> QED
        BY <1>1, <2>1, Residue
<1>5. 0 % 2 # 1
    BY SMT
<1> QED
    BY <1>2, <1>3, <1>4, <1>5

-----------------------------------------------------------------------------
(* Where a match starts in the ring. *)
Start(items, n) == (N - F + Len(Outputs(items)[n - 1]) - items[n].distance) % N

(* What some items stand for is an output. *)
LEMMA OutputLength ==
    ASSUME NEW items \in Seq(Item), NEW n \in 0 .. Len(items)
    PROVE  Outputs(items)[n] \in Seq(Value) /\ Len(Outputs(items)[n]) \in Nat
<1>1. Outputs(items)[n] \in Seq(Value)
    BY OutputsAre
<1> QED
    BY <1>1, LenProperties, Zenon

(* A match starts in the ring, its distance behind the end of the output. *)
LEMMA StartInRing ==
    ASSUME NEW items \in Seq(Item), NEW n \in 1 .. Len(items), ~IsLiteral(items[n])
    PROVE  /\ Start(items, n) \in 0 .. N - 1
           /\ \E p \in Int : N - F + Len(Outputs(items)[n - 1]) - items[n].distance
                                = N * p + Start(items, n)
<1> DEFINE a == N - F + Len(Outputs(items)[n - 1]) - items[n].distance
<1>1. items[n] \in Item /\ n - 1 \in 0 .. Len(items)
    OBVIOUS
<1>2. items[n].distance \in Int
    BY <1>1, ItemParts, Sizes
<1>3. N \in Nat \ {0} /\ F \in Nat
    BY Sizes
<1>4. a \in Int
    BY <1>1, <1>2, <1>3, OutputLength
<1> HIDE DEF a
<1>5. a % N \in 0 .. N - 1 /\ a \div N \in Int /\ a = N * (a \div N) + (a % N)
    BY <1>3, <1>4, SMT
<1>6. Start(items, n) = a % N
    BY DEF Start, a
<1>7. \E p \in Int : a = N * p + Start(items, n)
    BY <1>5, <1>6
<1> QED
    BY <1>5, <1>6, <1>7 DEF a

(* What Match computes from the two bytes of a match is what they stand    *)
(* for.                                                                    *)
LEMMA MatchRead ==
    ASSUME NEW items \in Seq(Item), NEW n \in 1 .. Len(items), ~IsLiteral(items[n])
    PROVE  LET b == Bytes(items, n)
           IN  /\ b[1] + ByteValues * (b[2] \div LengthValues) = Start(items, n)
               /\ (b[2] % LengthValues) + THRESHOLD = items[n].length - 1
<1> DEFINE at == Start(items, n)
           l == items[n].length - THRESHOLD - 1
           h == at \div ByteValues
           c == at % ByteValues
<1>1. items[n] \in Item
    OBVIOUS
<1>2. /\ ByteValues \in Nat \ {0} /\ LengthValues \in Nat \ {0} /\ THRESHOLD \in Nat
      /\ F = LengthValues + THRESHOLD
    BY Sizes DEF N, F
<1>3. l \in 0 .. LengthValues - 1 /\ l + THRESHOLD = items[n].length - 1
    BY <1>1, <1>2, ItemParts
<1>4. at \in Int
    BY StartInRing
<1>5. Bytes(items, n) = <<c, h * LengthValues + l>>
    <2>1. Bytes(items, n) = <<at % ByteValues,
                (at \div ByteValues) * LengthValues + (items[n].length - THRESHOLD - 1)>>
        BY Zenon DEF Bytes, ItemBytes, Start
    <2> QED
        BY <2>1
<1> HIDE DEF at, l
<1>6. h \in Int /\ at = ByteValues * h + c /\ c \in Int
    BY <1>2, <1>4, SMT
<1> HIDE DEF h, c
<1> DEFINE e == h * LengthValues + l
<1>7. e \in Int /\ e = LengthValues * h + l
    BY <1>2, <1>3, <1>6
<1> HIDE DEF e
<1>8. e % LengthValues = l /\ e \div LengthValues = h
    BY <1>2, <1>3, <1>6, <1>7, Residue
<1>9. Bytes(items, n)[1] = c /\ Bytes(items, n)[2] = e
    BY <1>5 DEF e
<1>10. c + ByteValues * h = at
    BY <1>2, <1>6
<1> QED
    BY <1>3, <1>8, <1>9, <1>10, Zenon DEF at

-----------------------------------------------------------------------------
(* The ring is written where the output ends. *)
RingPlace == \E q \in Int : N - F + Len(dst) = N * q + r

(* Putting out a byte moves both. *)
LEMMA PlaceMoves ==
    ASSUME TypeOK, RingPlace, NEW c \in Value, Put(c)
    PROVE  RingPlace'
<1>1. PICK q \in Int : N - F + Len(dst) = N * q + r
    BY DEF RingPlace
<1>2. N \in Nat /\ F \in Nat /\ r \in 0 .. N - 1
    BY Sizes DEF TypeOK
<1>3. Len(dst) \in Nat /\ Len(dst') = Len(dst) + 1
    BY DEF TypeOK, Value, Put
<1>4. CASE r + 1 < N
    <2>1. r' = r + 1
        BY <1>4, Zenon DEF Put, Wrap
    <2>2. N - F + Len(dst') = N * q + r'
        BY <1>1, <1>2, <1>3, <2>1
    <2> QED
        BY <2>2 DEF RingPlace
<1>5. CASE ~(r + 1 < N)
    <2>1. r' = (r + 1) - N
        BY <1>5, Zenon DEF Put, Wrap
    <2>2. N * (q + 1) = N * q + N
        BY <1>2
    <2>3. N - F + Len(dst') = N * (q + 1) + r' /\ q + 1 \in Int
        BY <1>1, <1>2, <1>3, <2>1, <2>2
    <2> QED
        BY <2>3 DEF RingPlace
<1> QED
    BY <1>4, <1>5

(* The k-th byte of a match is as far behind the end of the output as the  *)
(* first one was.                                                          *)
LEMMA MatchMoves ==
    ASSUME TypeOK, RingPlace, NEW d \in 1 .. N, NEW n \in Nat, Len(dst) = n + k,
           NEW p \in Int, N - F + n - d = N * p + i
    PROVE  Wrap(i + k) = Behind(d)
<1>1. PICK q \in Int : N - F + Len(dst) = N * q + r
    BY DEF RingPlace
<1>2. /\ N \in Nat \ {0} /\ F \in Nat /\ F < N
      /\ r \in 0 .. N - 1 /\ i \in 0 .. N - 1 /\ k \in 0 .. F
    BY Sizes DEF TypeOK
<1> DEFINE a == N - F + n + k - d
<1>3. \E x \in Int : a = N * x + Wrap(i + k)
    <2>1. CASE i + k < N
        <3>1. a = N * p + Wrap(i + k)
            BY <1>2, <2>1 DEF Wrap
        <3> QED
            BY <3>1
    <2>2. CASE ~(i + k < N)
        <3>1. N * (p + 1) = N * p + N
            BY <1>2
        <3>2. a = N * (p + 1) + Wrap(i + k) /\ p + 1 \in Int
            BY <1>2, <2>2, <3>1 DEF Wrap
        <3> QED
            BY <3>2
    <2> QED
        BY <2>1, <2>2
<1>4. \E x \in Int : a = N * x + Behind(d)
    <2>1. CASE d <= r
        <3>1. a = N * q + Behind(d)
            BY <1>1, <1>2, <2>1 DEF Behind
        <3> QED
            BY <3>1
    <2>2. CASE ~(d <= r)
        <3>1. N * (q - 1) = N * q - N
            BY <1>2
        <3>2. a = N * (q - 1) + Behind(d) /\ q - 1 \in Int
            BY <1>1, <1>2, <2>2, <3>1 DEF Behind
        <3> QED
            BY <3>2
    <2> QED
        BY <2>1, <2>2
<1>5. Wrap(i + k) \in 0 .. N - 1
    BY <1>2, WrapInRing
<1>6. Behind(d) \in 0 .. N - 1
    BY <1>2 DEF Behind
<1>7. a \in Int
    BY <1>2
<1> HIDE DEF a
<1>8. ASSUME NEW w \in 0 .. N - 1, \E x \in Int : a = N * x + w
      PROVE  a % N = w
    <2>1. PICK x \in Int : a = N * x + w
        BY <1>8
    <2> QED
        BY <1>2, <1>7, <2>1, Residue
<1>9. a % N = Wrap(i + k) /\ a % N = Behind(d)
    BY <1>3, <1>4, <1>5, <1>6, <1>8, Zenon
<1> QED
    BY <1>9

-----------------------------------------------------------------------------
(* How far a run has come in the items: those behind it, the flags that    *)
(* are left, and of a match the part that is copied.                       *)
FlagState(items, n) ==
    IF n % FlagCount = 0 THEN ~FlagsLeft ELSE shifted = MarkAbove(items, n + 1)

AtTop(items, n) ==
    /\ src = Len(Encodings(items)[n])
    /\ dst = Outputs(items)[n]
    /\ FlagState(items, n)

AtItem(items, n) ==
    /\ src = Len(Encodings(items)[n]) + (IF Place(n + 1) = 0 THEN 1 ELSE 0)
    /\ dst = Outputs(items)[n]
    /\ flags = MarkAbove(items, n + 1)
    /\ n = Len(items) => Place(n + 1) # 0

AtCopy(items, n) ==
    /\ n # 0
    /\ ~IsLiteral(items[n])
    /\ src = Len(Encodings(items)[n])
    /\ i = Start(items, n)
    /\ j = items[n].length - 1
    /\ k <= j
    /\ dst = Copied(Outputs(items)[n - 1], items[n].distance, items[n].length)[k]
    /\ FlagState(items, n)

AtEnd(items, n) ==
    /\ Len(Encodings(items)[n]) <= Len(stream.bytes)
    /\ n < Len(items) => Len(Encodings(items)[n + 1]) > Len(stream.bytes)
    /\ dst = Outputs(items)[n]

Reached(items, n) ==
    /\ pc = "shift" => AtTop(items, n)
    /\ pc = "item" => AtItem(items, n)
    /\ pc = "copy" => AtCopy(items, n)
    /\ pc = "done" => AtEnd(items, n)

Follows(items) == \E n \in 0 .. Len(items) : Reached(items, n)

(* The inductive invariant. *)
FollowsItems ==
    /\ stream \in Streams
    /\ src <= Len(stream.bytes)
    /\ RingPlace
    /\ \A items \in stream.packs : Follows(items)

(* The beginning of a sequence has its elements. *)
LEMMA BeginningIs ==
    ASSUME NEW S, NEW a, NEW L \in Nat, \A p \in 1 .. L : a[p] \in S
    PROVE  \A p \in 1 .. L : SubSeq(a, 1, L)[p] = a[p]
<1>1. 1 \in Int /\ L \in Int
    OBVIOUS
<1>2. \A p \in 1 .. L - 1 + 1 : SubSeq(a, 1, L)[p] = a[1 + p - 1]
    BY <1>1, SubSeqProperties
<1> QED
    BY <1>2

(* The input is the beginning of the encoding. *)
LEMMA InputIs ==
    ASSUME TypeOK, NEW items \in Seq(Item), IsPrefix(stream.bytes, Encoded(items))
    PROVE  /\ Len(stream.bytes) \in Nat
           /\ Len(stream.bytes) <= Len(Encoded(items))
           /\ \A p \in 1 .. Len(stream.bytes) : stream.bytes[p] = Encoded(items)[p]
<1> DEFINE s == stream.bytes
           t == Encoded(items)
           L == Len(s)
<1>1. s \in Seq(Byte) /\ L \in Nat
    BY DEF TypeOK
<1>2. Len(items) \in 0 .. Len(items)
    OBVIOUS
<1>3. t \in Seq(Int) /\ Len(t) \in Nat
    <2>1. t \in Seq(Int)
        BY <1>2, EncodingsAre DEF Encoded
    <2> QED
        BY <2>1, LenProperties
<1>4. L <= Len(t) /\ SubSeq(s, 1, L) = SubSeq(t, 1, L)
    BY Zenon DEF IsPrefix
<1> HIDE DEF s, t, L
<1>5. \A p \in 1 .. L : s[p] \in Byte /\ t[p] \in Int
    <2>1. \A p \in 1 .. L : s[p] \in Byte
        BY <1>1 DEF L
    <2>2. \A p \in 1 .. L : t[p] \in Int
        BY <1>1, <1>3, <1>4
    <2> QED
        BY <2>1, <2>2
<1>6. \A p \in 1 .. L : SubSeq(s, 1, L)[p] = s[p]
    BY <1>1, <1>5, BeginningIs
<1>7. \A p \in 1 .. L : SubSeq(t, 1, L)[p] = t[p]
    BY <1>1, <1>5, BeginningIs
<1>8. \A p \in 1 .. L : s[p] = t[p]
    BY <1>4, <1>6, <1>7, Zenon
<1> QED
    BY <1>1, <1>4, <1>8 DEF s, t, L

(* A step of the run keeps it with the items; one lemma for each action.   *)
Together(items) ==
    /\ TypeOK /\ RingMirrors /\ RingPlace
    /\ items \in Seq(Item) /\ IsPrefix(stream.bytes, Encoded(items))
    /\ src <= Len(stream.bytes)

(* A flag is taken while there are some. *)
LEMMA ShiftFollows ==
    ASSUME NEW items, Together(items), Follows(items), Shift
    PROVE  Follows(items)'
<1>1. items \in Seq(Item) /\ TypeOK
    BY DEF Together
<1>2. PICK n \in 0 .. Len(items) : AtTop(items, n)
    BY DEF Follows, Reached, Shift
<1>3. n % FlagCount # 0 /\ shifted = MarkAbove(items, n + 1)
    BY <1>2 DEF AtTop, FlagState, Shift
<1>4. Place(n + 1) # 0
    <2>1. n \in Nat /\ (n + 1) - 1 = n
        BY <1>1
    <2> QED
        BY <1>3, <2>1 DEF Place
<1>5. AtItem(items, n)'
    <2>1. src' = Len(Encodings(items)[n]) /\ dst' = Outputs(items)[n] /\ flags' = shifted
          /\ Len(Encodings(items)[n]) \in Nat
        BY <1>1, <1>2, EncodingsAgree DEF AtTop, Shift
    <2> QED
        BY <1>3, <1>4, <2>1 DEF AtItem
<1>6. pc' = "item"
    BY DEF Shift
<1> QED
    BY <1>5, <1>6 DEF Follows, Reached

(* After an item the flags are those of the items that follow. *)
LEMMA FlagStateIs ==
    ASSUME NEW items \in Seq(Item), NEW n \in 1 .. Len(items), flags = MarkAbove(items, n)
    PROVE  FlagState(items, n)
<1>1. shifted = IF n % FlagCount = 0 THEN ByteValues - 1 ELSE MarkAbove(items, n + 1)
    BY FlagTaken DEF shifted
<1> QED
    BY <1>1, NoMarkSeen DEF FlagState, FlagsLeft

(* What the input holds from A on is item n: its flags, if it has H = 1    *)
(* byte of them, and its B bytes.                                          *)
HeaderBytes(n) == IF Place(n) = 0 THEN 1 ELSE 0
OwnBytes(item) == IF IsLiteral(item) THEN 1 ELSE 2

Ahead(items, n, A, H, B) ==
    /\ n \in 1 .. Len(items) /\ items[n] \in Item
    /\ Len(Encodings(items)[n]) = A + H + B
    /\ (Place(n) = 0 /\ A + 1 <= Len(stream.bytes)) => stream.bytes[A + 1] = Flags(items)[n]
    /\ \A i_ \in 1 .. B : A + H + i_ <= Len(stream.bytes) =>
                              stream.bytes[A + H + i_] = Bytes(items, n)[i_]

(* Where the input and the items are, when n items are read. *)
LEMMA InputAt ==
    ASSUME NEW items, Together(items), NEW n \in 0 .. Len(items)
    PROVE  /\ Len(Encodings(items)[n]) \in Nat /\ Len(stream.bytes) \in Nat
           /\ n = Len(items) => Len(Encodings(items)[n]) >= Len(stream.bytes)
           /\ n < Len(items) =>
                 Ahead(items, n + 1, Len(Encodings(items)[n]),
                       HeaderBytes(n + 1), OwnBytes(items[n + 1]))
<1> DEFINE A == Len(Encodings(items)[n])
           H == IF Place(n + 1) = 0 THEN 1 ELSE 0
           B == IF IsLiteral(items[n + 1]) THEN 1 ELSE 2
           L == Len(stream.bytes)
<1>1. items \in Seq(Item) /\ TypeOK /\ IsPrefix(stream.bytes, Encoded(items))
    BY DEF Together
<1>2. /\ L \in Nat /\ L <= Len(Encoded(items))
      /\ \A p \in 1 .. L : stream.bytes[p] = Encoded(items)[p]
    BY <1>1, InputIs
<1>3. A \in Nat
    BY <1>1, EncodingsAgree
<1>4. n = Len(items) => A >= L
    BY <1>2 DEF Encoded
<1>5. ASSUME n < Len(items)
      PROVE  /\ n + 1 \in 1 .. Len(items) /\ items[n + 1] \in Item /\ (n + 1) - 1 = n
             /\ Len(Encodings(items)[n + 1]) = A + H + B
             /\ (Place(n + 1) = 0 /\ A + 1 <= L) => stream.bytes[A + 1] = Flags(items)[n + 1]
             /\ \A p \in 1 .. B :
                  A + H + p <= L => stream.bytes[A + H + p] = Bytes(items, n + 1)[p]
    <2>1. n + 1 \in 1 .. Len(items) /\ items[n + 1] \in Item /\ (n + 1) - 1 = n
        BY <1>1, <1>5
    <2>2. /\ Len(Encodings(items)[n + 1]) = A + H + B
          /\ Place(n + 1) = 0 => Encoded(items)[A + 1] = Flags(items)[n + 1]
          /\ \A p \in 1 .. B : Encoded(items)[A + H + p] = Bytes(items, n + 1)[p]
        <3> DEFINE m == n + 1
        <3>1. /\ Len(Encodings(items)[m]) = Len(Encodings(items)[m - 1]) + H + B
              /\ Place(m) = 0 => Encoded(items)[Len(Encodings(items)[m - 1]) + 1] = Flags(items)[m]
              /\ \A p \in 1 .. B : Encoded(items)[Len(Encodings(items)[m - 1]) + H + p]
                                      = Bytes(items, m)[p]
            <4>1. m \in 1 .. Len(items)
                BY <2>1
            <4>2. H = (IF Place(m) = 0 THEN 1 ELSE 0) /\ B = (IF IsLiteral(items[m]) THEN 1 ELSE 2)
                OBVIOUS
            <4> HIDE DEF m, H, B
            <4> QED
                BY <1>1, <4>1, <4>2, EncodedAt
        <3>2. Len(Encodings(items)[m - 1]) = A
            BY <2>1
        <3> DEFINE C == Len(Encodings(items)[m - 1])
        <3>3. C = A
            BY <3>2
        <3>4. /\ Len(Encodings(items)[m]) = C + H + B
              /\ Place(m) = 0 => Encoded(items)[C + 1] = Flags(items)[m]
              /\ \A p \in 1 .. B : Encoded(items)[C + H + p] = Bytes(items, m)[p]
            BY <3>1, Zenon
        <3> HIDE DEF A, B, C, H
        <3> QED
            BY <3>3, <3>4, Zenon
    <2>3. H \in {0, 1} /\ B \in {1, 2}
        OBVIOUS
    <2> HIDE DEF A, H, B, L
    <2>4. (Place(n + 1) = 0 /\ A + 1 <= L) => stream.bytes[A + 1] = Flags(items)[n + 1]
        <3>1. A + 1 <= L => A + 1 \in 1 .. L
            BY <1>2, <1>3
        <3> QED
            BY <1>2, <2>2, <3>1, Zenon
    <2>5. ASSUME NEW p \in 1 .. B, A + H + p <= L
          PROVE  stream.bytes[A + H + p] = Bytes(items, n + 1)[p]
        <3>1. A + H + p \in 1 .. L
            BY <1>2, <1>3, <2>3, <2>5
        <3> QED
            BY <1>2, <2>2, <3>1, Zenon
    <2> QED
        BY <2>1, <2>2, <2>4, <2>5, Zenon
<1>6. n < Len(items) => Ahead(items, n + 1, A, H, B)
    BY <1>5, Zenon DEF Ahead
<1>7. H = HeaderBytes(n + 1) /\ B = OwnBytes(items[n + 1])
    BY DEF HeaderBytes, OwnBytes
<1> HIDE DEF H, B
<1> QED
    BY <1>2, <1>3, <1>4, <1>6, <1>7, Zenon

(* The flags are read when those of the last byte are used up, not before. *)
LEMMA ReadFlagsFollows ==
    ASSUME NEW items, Together(items), Follows(items), ReadFlags
    PROVE  Follows(items)'
<1>1. items \in Seq(Item) /\ TypeOK
    BY DEF Together
<1>2. PICK n \in 0 .. Len(items) : AtTop(items, n)
    BY DEF Follows, Reached, ReadFlags
<1> DEFINE A == Len(Encodings(items)[n])
<1>3. /\ src = A /\ src + 1 <= Len(stream.bytes) /\ dst = Outputs(items)[n]
      /\ A \in Nat /\ Len(stream.bytes) \in Nat
    BY <1>2, InputAt DEF AtTop, ReadFlags, Left
<1>4. n < Len(items)
    <2>1. n = Len(items) => A >= Len(stream.bytes)
        BY InputAt
    <2> HIDE DEF A
    <2>2. ~(A >= Len(stream.bytes))
        BY <1>3
    <2>3. n # Len(items)
        BY <2>1, <2>2, Zenon
    <2> DEFINE m == Len(items)
    <2>4. m \in Nat /\ n \in 0 .. m /\ n # m
        BY <1>1, <2>3
    <2> HIDE DEF m
    <2>5. n < m
        BY <2>4
    <2> QED
        BY <2>5 DEF m
<1>5. n \in Nat /\ n + 1 \in 1 .. Len(items) + 1 /\ (n + 1) - 1 = n
    BY <1>1
<1>6. Place(n + 1) = 0
    <2> SUFFICES ASSUME Place(n + 1) # 0 PROVE FALSE
        OBVIOUS
    <2>1. n % FlagCount # 0
        BY <1>5 DEF Place
    <2>2. shifted = MarkAbove(items, n + 1)
        BY <1>2, <2>1 DEF AtTop, FlagState
    <2>3. FlagsLeft
        BY <1>1, <1>5, <2>2, MarkSeen DEF FlagsLeft
    <2> QED
        BY <2>3 DEF ReadFlags
<1>7. byte(1) = Flags(items)[n + 1]
    <2>1. Ahead(items, n + 1, A, HeaderBytes(n + 1), OwnBytes(items[n + 1]))
        BY <1>4, InputAt
    <2>2. A + 1 <= Len(stream.bytes) => stream.bytes[A + 1] = Flags(items)[n + 1]
        BY <1>6, <2>1, Zenon DEF Ahead
    <2> QED
        BY <1>3, <2>2, Zenon DEF byte
<1>8. Marked(byte(1)) = MarkAbove(items, n + 1)
    <2>1. FlagCount - Place(n + 1) = FlagCount
        BY <1>6, FlagsAssumption
    <2>2. MarkAbove(items, n + 1) = Flags(items)[n + 1] + ByteValues * (ByteValues - 1)
        BY <2>1, PowersAre, Zenon DEF MarkAbove
    <2>3. Flags(items)[n + 1] \in Nat
        BY <1>1, <1>5, FlagsBelow
    <2>4. ByteValues * (ByteValues - 1) = (ByteValues - 1) * ByteValues
        BY Sizes
    <2> QED
        BY <1>7, <2>2, <2>4, Zenon DEF Marked
<1>9. AtItem(items, n)'
    <2>1. src' = A + 1 /\ dst' = Outputs(items)[n] /\ flags' = MarkAbove(items, n + 1)
        BY <1>3, <1>8 DEF ReadFlags
    <2> QED
        BY <1>4, <1>6, <2>1 DEF AtItem
<1>10. pc' = "item"
    BY DEF ReadFlags
<1> QED
    BY <1>9, <1>10 DEF Follows, Reached

(* An item is there to be read only if there is one. *)
LEMMA ItemIsThere ==
    ASSUME NEW items, Together(items), NEW n \in 0 .. Len(items), AtItem(items, n),
           flags % 2 = 1 \/ Left(2)
    PROVE  /\ n < Len(items)
           /\ flags % 2 = Flag(items[n + 1])
           /\ FlagState(items, n + 1)
<1>1. items \in Seq(Item) /\ TypeOK
    BY DEF Together
<1> DEFINE A == Len(Encodings(items)[n])
<1>2. /\ A \in Nat /\ Len(stream.bytes) \in Nat
      /\ n = Len(items) => A >= Len(stream.bytes)
    BY InputAt
<1>3. n # Len(items)
    <2> SUFFICES ASSUME n = Len(items) PROVE FALSE
        OBVIOUS
    <2>1. flags % 2 = 0
        BY <1>1, NoFlagTaken DEF AtItem
    <2>2. src = A
        BY <1>2 DEF AtItem
    <2>3. src + 2 <= Len(stream.bytes)
        BY <2>1 DEF Left
    <2> HIDE DEF A
    <2> QED
        BY <1>2, <2>2, <2>3
<1>4. n < Len(items) /\ n + 1 \in 1 .. Len(items)
    BY <1>1, <1>3
<1>5. flags = MarkAbove(items, n + 1)
    BY DEF AtItem
<1>6. flags % 2 = Flag(items[n + 1])
    BY <1>1, <1>4, <1>5, FlagTaken
<1>7. FlagState(items, n + 1)
    BY <1>1, <1>4, <1>5, FlagStateIs
<1> QED
    BY <1>4, <1>6, <1>7

(* A literal is put out. *)
LEMMA LiteralFollows ==
    ASSUME NEW items, Together(items), Follows(items), Literal
    PROVE  Follows(items)'
<1>1. items \in Seq(Item) /\ TypeOK
    BY DEF Together
<1>2. PICK n \in 0 .. Len(items) : AtItem(items, n)
    BY DEF Follows, Reached, Literal
<1> DEFINE A == Len(Encodings(items)[n])
           H == HeaderBytes(n + 1)
           m == n + 1
<1>3. n < Len(items) /\ flags % 2 = Flag(items[m]) /\ FlagState(items, m)
    BY <1>2, ItemIsThere DEF Literal
<1>4. IsLiteral(items[m])
    BY <1>3 DEF Literal, Flag
<1>5. /\ A \in Nat /\ Len(stream.bytes) \in Nat
      /\ m \in 1 .. Len(items) /\ items[m] \in Item /\ m - 1 = n
      /\ Len(Encodings(items)[m]) = A + H + 1
      /\ A + H + 1 <= Len(stream.bytes) => stream.bytes[A + H + 1] = Bytes(items, m)[1]
    <2>1. A \in Nat /\ Len(stream.bytes) \in Nat /\ Ahead(items, m, A, H, OwnBytes(items[m]))
        BY <1>3, InputAt
    <2>2. OwnBytes(items[m]) = 1 /\ 1 \in 1 .. 1
        BY <1>4 DEF OwnBytes
    <2>3. m - 1 = n
        OBVIOUS
    <2> HIDE DEF A, H, m
    <2> QED
        BY <2>1, <2>2, <2>3, Zenon DEF Ahead
<1>6. src = A + H /\ dst = Outputs(items)[n]
    BY <1>2 DEF AtItem, HeaderBytes
<1>7. byte(1) = items[m].byte
    <2>1. stream.bytes[A + H + 1] = Bytes(items, m)[1]
        BY <1>5, <1>6 DEF Literal, Left
    <2>2. Bytes(items, m) = <<items[m].byte>>
        BY <1>4 DEF Bytes, ItemBytes
    <2>3. Bytes(items, m)[1] = items[m].byte
        BY <2>2
    <2> QED
        BY <1>6, <2>1, <2>3, Zenon DEF byte
<1>8. dst' = Outputs(items)[m]
    <2>1. Outputs(items)[m] = Extended(Outputs(items)[m - 1], items[m])
        BY <1>1, <1>5, OutputsAre
    <2>2. dst' = Append(Outputs(items)[n], items[m].byte)
        BY <1>6, <1>7 DEF Literal, Put
    <2> QED
        BY <1>4, <1>5, <2>1, <2>2, Zenon DEF Extended
<1>9. src' = Len(Encodings(items)[m])
    BY <1>5, <1>6 DEF Literal
<1>10. FlagState(items, m)'
    BY <1>3 DEF FlagState, FlagsLeft, shifted, Literal
<1>11. m \in 0 .. Len(items)
    BY <1>5
<1> HIDE DEF m
<1>12. AtTop(items, m)' /\ pc' = "shift"
    BY <1>8, <1>9, <1>10 DEF AtTop, Literal
<1> QED
    BY <1>11, <1>12 DEF Follows, Reached

(* A match is found where it starts, nothing of it copied. *)
LEMMA MatchFollows ==
    ASSUME NEW items, Together(items), Follows(items), Match
    PROVE  Follows(items)'
<1>1. items \in Seq(Item) /\ TypeOK
    BY DEF Together
<1>2. PICK n \in 0 .. Len(items) : AtItem(items, n)
    BY DEF Follows, Reached, Match
<1> DEFINE A == Len(Encodings(items)[n])
           H == HeaderBytes(n + 1)
           m == n + 1
<1>3. n < Len(items) /\ flags % 2 = Flag(items[m]) /\ FlagState(items, m)
    BY <1>2, ItemIsThere DEF Match
<1>4. ~IsLiteral(items[m])
    BY <1>3 DEF Match, Flag
<1>5. /\ A \in Nat /\ Len(stream.bytes) \in Nat
      /\ m \in 1 .. Len(items) /\ items[m] \in Item /\ m - 1 = n
      /\ Len(Encodings(items)[m]) = A + H + 2
      /\ \A p \in 1 .. 2 :
            A + H + p <= Len(stream.bytes) => stream.bytes[A + H + p] = Bytes(items, m)[p]
    <2>1. A \in Nat /\ Len(stream.bytes) \in Nat /\ Ahead(items, m, A, H, OwnBytes(items[m]))
        BY <1>3, InputAt
    <2>2. OwnBytes(items[m]) = 2
        BY <1>4 DEF OwnBytes
    <2>3. m - 1 = n
        OBVIOUS
    <2> HIDE DEF A, H, m
    <2> QED
        BY <2>1, <2>2, <2>3, Zenon DEF Ahead
<1>6. src = A + H /\ dst = Outputs(items)[n]
    BY <1>2 DEF AtItem, HeaderBytes
<1>7. byte(1) = Bytes(items, m)[1] /\ byte(2) = Bytes(items, m)[2]
    <2>1. src + 1 <= Len(stream.bytes) /\ src + 2 <= Len(stream.bytes)
          /\ 1 \in 1 .. 2 /\ 2 \in 1 .. 2
        <3>1. H \in {0, 1} /\ src + 2 <= Len(stream.bytes)
            BY DEF Match, Left, HeaderBytes
        <3> HIDE DEF A, H, m
        <3> QED
            BY <1>5, <1>6, <3>1
    <2> QED
        BY <1>5, <1>6, <2>1, Zenon DEF byte
<1>8. items[m].distance \in 1 .. N /\ items[m].length \in THRESHOLD + 1 .. F
      /\ items[m].length \in Nat /\ items[m].length > 0
    <2>1. items[m].distance \in 1 .. N /\ items[m].length \in THRESHOLD + 1 .. F
          /\ items[m].length \in Nat
        BY <1>4, <1>5, ItemParts
    <2> QED
        BY <2>1, Sizes
<1>9. i' = Start(items, m) /\ j' = items[m].length - 1
    BY <1>1, <1>4, <1>5, <1>7, MatchRead DEF Match
<1>10. dst' = Copied(Outputs(items)[m - 1], items[m].distance, items[m].length)[0]
    <2>1. Outputs(items)[n] \in Seq(Value)
        BY <1>1, OutputLength
    <2>2. Copied(Outputs(items)[n], items[m].distance, items[m].length)[0] = Outputs(items)[n]
        BY <1>8, <2>1, CopiedAre
    <2>3. dst' = dst
        BY DEF Match
    <2> QED
        BY <1>5, <1>6, <2>2, <2>3, Zenon
<1>11. src' = Len(Encodings(items)[m])
    BY <1>5, <1>6 DEF Match
<1>12. FlagState(items, m)'
    BY <1>3 DEF FlagState, FlagsLeft, shifted, Match
<1>13. k' = 0 /\ 0 <= j' /\ pc' = "copy"
    BY <1>8, <1>9 DEF Match
<1>14. m \in 0 .. Len(items) /\ m # 0
    BY <1>5
<1> HIDE DEF m
<1>15. AtCopy(items, m)'
    BY <1>4, <1>9, <1>10, <1>11, <1>12, <1>13, <1>14, Zenon DEF AtCopy
<1> QED
    BY <1>13, <1>14, <1>15 DEF Follows, Reached

(* The byte a match copies next is the one its distance back in the output. *)
LEMMA ByteCopied ==
    ASSUME NEW items, Together(items), NEW n \in 1 .. Len(items), AtCopy(items, n)
    PROVE  /\ text_buf[Wrap(i + k)] = Recent(dst, items[n].distance)
           /\ items[n].length \in Nat /\ k + 1 \in 1 .. items[n].length
           /\ Copied(Outputs(items)[n - 1], items[n].distance, items[n].length)[k + 1]
                = Append(dst, Recent(dst, items[n].distance))
<1> DEFINE o == Outputs(items)[n - 1]
           d == items[n].distance
           l == items[n].length
<1>1. items \in Seq(Item) /\ TypeOK /\ RingPlace /\ RingMirrors
    BY DEF Together
<1>2. items[n] \in Item /\ n - 1 \in 0 .. Len(items)
    BY <1>1
<1>3. d \in 1 .. N /\ l \in Nat
    BY <1>2, ItemParts DEF AtCopy
<1>4. o \in Seq(Value) /\ Len(o) \in Nat
    BY <1>1, <1>2, OutputLength
<1>5. k \in Nat /\ j = l - 1 /\ k <= j
    BY <1>1 DEF TypeOK, AtCopy
<1>6. dst = Copied(o, d, l)[k]
    BY DEF AtCopy
<1>7. PICK p \in Int : N - F + Len(o) - d = N * p + i
    BY <1>1, StartInRing DEF AtCopy
<1> HIDE DEF o, d, l
<1>8. k + 1 \in 1 .. l /\ k \in 0 .. l /\ (k + 1) - 1 = k
    BY <1>3, <1>5
<1>9. Len(dst) = Len(o) + k
    BY <1>3, <1>4, <1>6, <1>8, CopiedLength
<1>10. Wrap(i + k) = Behind(d)
    BY <1>1, <1>3, <1>4, <1>7, <1>9, MatchMoves
<1>11. text_buf[Behind(d)] = Recent(dst, d)
    BY <1>1, <1>3 DEF RingMirrors
<1>12. Copied(o, d, l)[k + 1] = Append(Copied(o, d, l)[k], Recent(Copied(o, d, l)[k], d))
    <2>1. \A q \in 1 .. l : Copied(o, d, l)[q]
                = Append(Copied(o, d, l)[q - 1], Recent(Copied(o, d, l)[q - 1], d))
        BY <1>3, <1>4, CopiedAre
    <2> QED
        BY <1>8, <2>1
<1> QED
    BY <1>3, <1>6, <1>8, <1>10, <1>11, <1>12, Zenon DEF o, d, l

(* Each byte of a match brings the output one copy further. *)
LEMMA CopyByteFollows ==
    ASSUME NEW items, Together(items), Follows(items), CopyByte
    PROVE  Follows(items)'
<1>1. items \in Seq(Item) /\ TypeOK
    BY DEF Together
<1>2. PICK n \in 0 .. Len(items) : AtCopy(items, n)
    BY DEF Follows, Reached, CopyByte
<1>3. n \in 1 .. Len(items) /\ n - 1 \in 0 .. Len(items)
    BY <1>1, <1>2 DEF AtCopy
<1> DEFINE o == Outputs(items)[n - 1]
           d == items[n].distance
           l == items[n].length
<1>4. /\ text_buf[Wrap(i + k)] = Recent(dst, d)
      /\ l \in Nat /\ k + 1 \in 1 .. l
      /\ Copied(o, d, l)[k + 1] = Append(dst, Recent(dst, d))
    BY <1>2, <1>3, ByteCopied
<1>5. dst' = Copied(o, d, l)[k + 1]
    BY <1>4, Zenon DEF CopyByte, Put
<1>6. src' = Len(Encodings(items)[n]) /\ i' = i /\ j' = j /\ k' = k + 1 /\ j = l - 1
    BY <1>2 DEF AtCopy, CopyByte
<1>7. k \in Nat
    BY <1>1 DEF TypeOK
<1>8. FlagState(items, n)'
    BY <1>2 DEF AtCopy, FlagState, FlagsLeft, shifted, CopyByte
<1>9. CASE k < j
    <2>1. pc' = "copy" /\ k' <= j'
        BY <1>4, <1>6, <1>7, <1>9 DEF CopyByte
    <2>2. AtCopy(items, n)'
        <3>1. n # 0 /\ ~IsLiteral(items[n]) /\ i = Start(items, n)
            BY <1>2 DEF AtCopy
        <3>2. dst' = Copied(o, d, l)[k']
            BY <1>5, <1>6
        <3> QED
            BY <1>6, <1>8, <2>1, <3>1, <3>2, Zenon DEF AtCopy
    <2> QED
        BY <2>1, <2>2 DEF Follows, Reached
<1>10. CASE ~(k < j)
    <2>1. pc' = "shift" /\ k + 1 = l
        BY <1>4, <1>6, <1>7, <1>10 DEF CopyByte
    <2>2. dst' = Outputs(items)[n]
        <3>1. Outputs(items)[n] = Extended(o, items[n])
            BY <1>1, <1>3, OutputsAre
        <3>2. Extended(o, items[n]) = Copied(o, d, l)[l]
            BY <1>2 DEF Extended, AtCopy
        <3> QED
            BY <1>5, <2>1, <3>1, <3>2, Zenon
    <2>3. AtTop(items, n)'
        BY <1>6, <1>8, <2>2 DEF AtTop
    <2> QED
        BY <2>1, <2>3 DEF Follows, Reached
<1> QED
    BY <1>9, <1>10

(* Where the input ends, the next item is not complete. *)
LEMMA InputEndsFollows ==
    ASSUME NEW items, Together(items), Follows(items), InputEnds
    PROVE  Follows(items)'
<1>1. items \in Seq(Item) /\ TypeOK /\ src \in Nat /\ src <= Len(stream.bytes)
    BY DEF Together, TypeOK
<1>2. PICK n \in 0 .. Len(items) : Reached(items, n)
    BY DEF Follows
<1> DEFINE A == Len(Encodings(items)[n])
           L == Len(stream.bytes)
           H == HeaderBytes(n + 1)
           B == OwnBytes(items[n + 1])
<1>3. A \in Nat /\ L \in Nat
    BY InputAt
<1>4. H \in {0, 1} /\ B \in {1, 2}
    BY DEF HeaderBytes, OwnBytes
<1>5. n < Len(items) => Len(Encodings(items)[n + 1]) = A + H + B
    BY InputAt, Zenon DEF Ahead
<1>6. AtEnd(items, n)
    <2>1. CASE pc = "shift" /\ ~Left(1)
        <3>1. src = A /\ dst = Outputs(items)[n] /\ ~(src + 1 <= L)
            BY <1>2, <2>1 DEF Reached, AtTop, Left
        <3>2. A <= L /\ (n < Len(items) => Len(Encodings(items)[n + 1]) > L)
            <4>1. src <= L
                BY <1>1
            <4> HIDE DEF A, L, H, B
            <4> QED
                BY <1>3, <1>4, <1>5, <3>1, <4>1
        <3> QED
            BY <1>1, <3>1, <3>2 DEF AtEnd
    <2>2. CASE pc = "item"
        <3>1. AtItem(items, n)
            BY <1>2, <2>2 DEF Reached
        <3>2. src = A + H /\ dst = Outputs(items)[n]
            BY <3>1 DEF AtItem, HeaderBytes
        <3>3. A <= L
            BY <1>1, <1>3, <1>4, <3>2
        <3>4. ASSUME n < Len(items) PROVE Len(Encodings(items)[n + 1]) > L
            <4>1. n + 1 \in 1 .. Len(items)
                BY <1>1, <3>4
            <4>2. flags % 2 = Flag(items[n + 1])
                BY <1>1, <3>1, <4>1, FlagTaken DEF AtItem
            <4>3. flags % 2 = 1 => B = 1
                BY <4>2 DEF Flag, OwnBytes
            <4>4. flags % 2 = 0 => B = 2
                BY <4>2 DEF Flag, OwnBytes
            <4>5. ~(src + B <= L)
                BY <2>2, <4>3, <4>4 DEF InputEnds, Left
            <4>6. Len(Encodings(items)[n + 1]) = A + H + B
                BY <1>5, <3>4
            <4> HIDE DEF A, L, H, B
            <4> QED
                BY <1>1, <1>3, <1>4, <3>2, <4>5, <4>6
        <3> QED
            BY <3>2, <3>3, <3>4 DEF AtEnd
    <2> QED
        BY <2>1, <2>2 DEF InputEnds
<1>7. AtEnd(items, n)' /\ pc' = "done"
    BY <1>6 DEF AtEnd, InputEnds
<1> QED
    BY <1>7 DEF Follows, Reached

(* A run starts with no item read. *)
LEMMA StartsTogether == Init => FollowsItems
<1> SUFFICES ASSUME Init PROVE FollowsItems
    OBVIOUS
<1>1. stream \in Streams /\ stream.bytes \in Seq(Byte)
    BY StreamsAssumption DEF Init
<1>2. src <= Len(stream.bytes)
    BY <1>1 DEF Init
<1>3. RingPlace
    <2>1. N - F + Len(dst) = N * 0 + r /\ 0 \in Int
        BY Sizes DEF Init
    <2> QED
        BY <2>1 DEF RingPlace
<1>4. ASSUME NEW items \in stream.packs
      PROVE  Follows(items)
    <2>1. items \in Seq(Item) /\ 0 \in 0 .. Len(items)
        BY <1>1, StreamsAssumption
    <2>2. Encodings(items)[0] = <<>> /\ Outputs(items)[0] = <<>> /\ Len(<<>>) = 0
        BY <2>1, EncodingsAre, OutputsAre
    <2>3. FlagState(items, 0)
        <3>1. 0 % FlagCount = 0
            <4>1. 0 = FlagCount * 0 + 0 /\ 0 \in 0 .. FlagCount - 1 /\ FlagCount \in Nat \ {0}
                BY FlagsAssumption
            <4> QED
                BY <4>1, Residue
        <3> QED
            BY <3>1, NoMarkSeen, Zenon DEF FlagState, FlagsLeft, shifted, Init
    <2>4. AtTop(items, 0) /\ pc = "shift"
        BY <2>2, <2>3, Zenon DEF AtTop, Init
    <2> QED
        BY <2>1, <2>4 DEF Follows, Reached
<1> QED
    BY <1>1, <1>2, <1>3, <1>4 DEF FollowsItems

(* One step for each action. *)
LEMMA StaysTogether ==
    TypeOK /\ RingMirrors /\ FollowsItems /\ [Next]_vars => FollowsItems'
<1> SUFFICES ASSUME TypeOK, RingMirrors, FollowsItems, [Next]_vars PROVE FollowsItems'
    OBVIOUS
<1>1. stream \in Streams /\ src <= Len(stream.bytes) /\ RingPlace
    BY DEF FollowsItems
<1>2. ASSUME NEW items \in stream.packs
      PROVE  Together(items) /\ Follows(items)
    <2>1. items \in Seq(Item) /\ IsPrefix(stream.bytes, Encoded(items))
        BY <1>1, StreamsAssumption, Zenon
    <2> QED
        BY <1>1, <2>1, Zenon DEF Together, FollowsItems
<1>3. stream' = stream
    BY DEF Next, vars, Shift, ReadFlags, Literal, Match, CopyByte, InputEnds
<1>4. src' <= Len(stream.bytes)
    BY <1>1 DEF TypeOK, Next, vars, Shift, ReadFlags, Literal, Match, CopyByte, InputEnds, Left
<1>5. RingPlace'
    <2>1. CASE Literal
        <3>1. byte(1) \in Value /\ Put(byte(1))
            BY <2>1, ByteRead DEF Literal, Value
        <3> QED
            BY <1>1, <3>1, PlaceMoves
    <2>2. CASE CopyByte
        <3>1. Wrap(i + k) \in 0 .. N - 1
            BY WrapInRing DEF TypeOK
        <3>2. text_buf[Wrap(i + k)] \in Value /\ Put(text_buf[Wrap(i + k)])
            BY <2>2, <3>1 DEF TypeOK, Value, CopyByte
        <3> QED
            BY <1>1, <3>2, PlaceMoves
    <2>3. CASE UNCHANGED <<r, dst>>
        BY <1>1, <2>3 DEF RingPlace
    <2> QED
        BY <2>1, <2>2, <2>3 DEF Next, vars, Shift, ReadFlags, Match, InputEnds
<1>6. ASSUME NEW items \in stream.packs
      PROVE  Follows(items)'
    <2>1. Together(items) /\ Follows(items)
        BY <1>2
    <2>2. CASE UNCHANGED vars
        BY <2>1, <2>2 DEF vars, Follows, Reached, AtTop, AtItem, AtCopy, AtEnd,
                          FlagState, FlagsLeft, shifted
    <2> QED
        BY <2>1, <2>2, ShiftFollows, ReadFlagsFollows, LiteralFollows, MatchFollows,
           CopyByteFollows, InputEndsFollows, Zenon DEF Next
<1> QED
    BY <1>1, <1>3, <1>4, <1>5, <1>6, Zenon DEF FollowsItems

(* decompress_lzss puts out what the items of its input stand for, and of  *)
(* an input that is cut off every item that is complete: for every size of *)
(* byte and of ring, and for every sequence of items.                      *)
THEOREM UnpacksTheItems == Spec => []UnpacksWhatWasPacked
<1> DEFINE I == TypeOK /\ RingMirrors /\ FollowsItems
<1>1. Init => I
    BY InitHolds, StartsTogether
<1>2. I /\ [Next]_vars => I'
    BY NextHolds, StaysTogether
<1>3. I => UnpacksWhatWasPacked
    <2> SUFFICES ASSUME FollowsItems, pc = "done", NEW items \in stream.packs
                 PROVE  \E n \in 0 .. Len(items) : AtEnd(items, n)
        BY Zenon DEF UnpacksWhatWasPacked, AtEnd
    <2> QED
        BY Zenon DEF FollowsItems, Follows, Reached
<1> HIDE DEF I
<1> QED
    BY <1>1, <1>2, <1>3, PTL DEF Spec
=============================================================================
