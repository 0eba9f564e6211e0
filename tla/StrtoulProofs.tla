---------------------------- MODULE StrtoulProofs ----------------------------
(***************************************************************************)
(* The overflow test of strtoul is exact in every base and for every size  *)
(* of word, and every numeral is read as the number it stands for.         *)
(***************************************************************************)
EXTENDS Strtoul, SequenceTheorems, WellFoundedInduction, TLAPS

(* A digit is below its base.                                              *)
LEMMA DigitBelow ==
    ASSUME NEW c, NEW b \in Nat, IsDigitOf(c, b)
    PROVE  DigitValue[c] \in Nat /\ DigitValue[c] < b
<1>1. c \in {"0", "1", "2", "3", "7", "9", "b", "f", "x"}
    BY DEF IsDigitOf, DigitValue
<1>2. DigitValue[c] \in Nat
    BY <1>1 DEF DigitValue
<1> QED
    BY <1>2 DEF IsDigitOf

(* The limit is the quotient and the remainder of the largest word.        *)
LEMMA LimitParts ==
    ASSUME NEW b \in Bases \ {0}
    PROVE  /\ ULONG_MAX \div b \in Nat
           /\ ULONG_MAX % b \in 0 .. b - 1
           /\ ULONG_MAX = (ULONG_MAX \div b) * b + (ULONG_MAX % b)
BY WordAssumption, SMT DEF Bases

(* What fits a word is not changed by keeping its width.                   *)
LEMMA FitsWord ==
    ASSUME NEW a \in 0 .. ULONG_MAX
    PROVE  a % (ULONG_MAX + 1) = a
<1>1. ULONG_MAX + 1 \in Nat \ {0} /\ a \in Nat /\ a < ULONG_MAX + 1
    BY WordAssumption, SMT
<1> DEFINE w == ULONG_MAX + 1
<1>2. w \in Nat \ {0} /\ a \in Nat /\ a < w
    BY <1>1
<1> HIDE DEF w
<1>3. a % w = a
    BY <1>2, SMT
<1> QED
    BY <1>3 DEF w

(* One more digit takes a number over the limit exactly if the number is   *)
(* over the quotient, or is the quotient and the digit over the remainder. *)
LEMMA LimitExact ==
    ASSUME NEW b \in Bases \ {0}, NEW a \in Nat, NEW c \in 0 .. b - 1
    PROVE  /\ a * b + c \in Nat
           /\ (a * b + c > ULONG_MAX) <=>
                (a > ULONG_MAX \div b \/ (a = ULONG_MAX \div b /\ c > ULONG_MAX % b))
<1> DEFINE q == ULONG_MAX \div b
           m == ULONG_MAX % b
<1>1. q \in Nat /\ m \in 0 .. b - 1 /\ ULONG_MAX = q * b + m
    BY LimitParts
<1> HIDE DEF q, m
<1>2. /\ a * b + c \in Nat
      /\ (a * b + c > ULONG_MAX) <=> (a > q \/ (a = q /\ c > m))
    <2>1. CASE b = 2
        BY <1>1, <2>1, SMT
    <2>2. CASE b = 8
        BY <1>1, <2>2, SMT
    <2>3. CASE b = 10
        BY <1>1, <2>3, SMT
    <2>4. CASE b = 16
        BY <1>1, <2>4, SMT
    <2> QED
        BY <2>1, <2>2, <2>3, <2>4 DEF Bases
<1> QED
    BY <1>2 DEF q, m

-----------------------------------------------------------------------------
Inv == TypeOK /\ OverflowExact /\ ResultExact

LEMMA InitHolds == Init => Inv
<1> SUFFICES ASSUME Init PROVE Inv
    OBVIOUS
<1>1. base \in Bases
    BY TextsAssumption DEF Init
<1>2. neg \in BOOLEAN
    BY DEF Init
<1> QED
    BY <1>1, <1>2, WordAssumption DEF Init, Inv, TypeOK, OverflowExact, ResultExact

(* Only a digit and the end of the number change what is accumulated.      *)
LEMMA NextHolds == Inv /\ [Next]_vars => Inv'
<1> SUFFICES ASSUME Inv, [Next]_vars PROVE Inv'
    OBVIOUS
<1> USE DEF Inv
<1>1. CASE SkipSpace
    BY <1>1, SMT DEF SkipSpace, TypeOK, OverflowExact, ResultExact
<1>2. CASE ReadSign
    <2>1. neg' \in BOOLEAN /\ s' \in Nat
        BY <1>2, SMT DEF ReadSign, TypeOK
    <2> QED
        BY <1>2, <2>1, SMT DEF ReadSign, TypeOK, OverflowExact, ResultExact
<1>3. CASE ReadPrefix
    <2>1. base' \in Bases \ {0} /\ s' \in Nat
        <3>1. prefix \in {0, 2, 16}
            BY DEF prefix
        <3> QED
            BY <1>3, <3>1, SMT DEF ReadPrefix, TypeOK, Bases
    <2> QED
        BY <1>3, <2>1, SMT DEF ReadPrefix, TypeOK, OverflowExact, ResultExact
<1>4. CASE ReadDigit
    <2> DEFINE c == DigitValue[char(0)]
    <2>1. base \in Bases \ {0} /\ base \in Nat
        BY <1>4, SMT DEF ReadDigit, TypeOK, Bases
    <2>2. c \in 0 .. base - 1
        <3>1. c \in Nat /\ c < base
            BY <1>4, <2>1, DigitBelow DEF ReadDigit
        <3> QED
            BY <2>1, <3>1, SMT
    <2> HIDE DEF c
    <2>3. acc \in Nat /\ exact \in Nat /\ any \in {-1, 0, 1} /\ ULONG_MAX \in Nat
          /\ acc <= ULONG_MAX
        BY WordAssumption, SMT DEF TypeOK
    <2>4. acc * base + c \in Nat /\ exact * base + c \in Nat
        BY <2>1, <2>2, <2>3, LimitExact
    <2>5. overflows(c) <=> (any < 0 \/ acc * base + c > ULONG_MAX)
        BY <2>1, <2>2, <2>3, LimitExact DEF overflows, cutoff, cutlim
    <2>6. /\ exact' = exact * base + c
          /\ IF overflows(c) THEN any' = -1 /\ acc' = acc
             ELSE any' = 1 /\ acc' = acc * base + c
        <3>1. /\ exact' = exact * base + c
              /\ IF overflows(c) THEN any' = -1 /\ acc' = acc
                 ELSE any' = 1 /\ acc' = (acc * base + c) % (ULONG_MAX + 1)
            BY <1>4 DEF ReadDigit, c
        <3>2. ASSUME ~overflows(c) PROVE acc * base + c \in 0 .. ULONG_MAX
            BY <2>3, <2>4, <2>5, <3>2, SMT
        <3> QED
            BY <3>1, <3>2, FitsWord
    <2>7. any < 0 => exact' > ULONG_MAX
        <3>1. ASSUME any < 0 PROVE exact > ULONG_MAX
            BY <1>4, <3>1 DEF ReadDigit, OverflowExact
        <3>2. exact * base + c >= exact
            <4>1. CASE base = 2
                BY <2>2, <2>3, <4>1, SMT
            <4>2. CASE base = 8
                BY <2>2, <2>3, <4>2, SMT
            <4>3. CASE base = 10
                BY <2>2, <2>3, <4>3, SMT
            <4>4. CASE base = 16
                BY <2>2, <2>3, <4>4, SMT
            <4> QED
                BY <2>1, <4>1, <4>2, <4>3, <4>4 DEF Bases
        <3> QED
            BY <2>3, <2>4, <2>6, <3>1, <3>2, SMT
    <2>8. ~(any < 0) => acc = exact
        BY <1>4 DEF ReadDigit, OverflowExact
    <2>9. OverflowExact'
        <3>1. CASE overflows(c)
            BY <2>3, <2>4, <2>5, <2>6, <2>7, <2>8, <3>1, SMT DEF OverflowExact
        <3>2. CASE ~overflows(c)
            BY <2>3, <2>4, <2>5, <2>6, <2>8, <3>2, SMT DEF OverflowExact
        <3> QED
            BY <3>1, <3>2
    <2>10. TypeOK'
        <3>1. acc' \in 0 .. ULONG_MAX /\ any' \in {-1, 0, 1} /\ exact' \in Nat
            BY <2>3, <2>4, <2>5, <2>6, SMT
        <3> QED
            BY <1>4, <3>1, SMT DEF ReadDigit, TypeOK
    <2> QED
        BY <1>4, <2>9, <2>10 DEF ReadDigit, ResultExact
<1>5. CASE NumberEnds
    <2>1. acc \in Nat /\ acc <= ULONG_MAX /\ exact \in Nat /\ ULONG_MAX \in Nat
        BY WordAssumption, SMT DEF TypeOK
    <2>2. IF any < 0 THEN exact > ULONG_MAX ELSE acc = exact
        BY <1>5 DEF NumberEnds, OverflowExact
    <2>3. acc' = IF any < 0 THEN ULONG_MAX
                 ELSE IF neg /\ acc # 0 THEN ULONG_MAX + 1 - acc ELSE acc
        BY <1>5 DEF NumberEnds
    <2>4. acc' \in 0 .. ULONG_MAX
        BY <2>1, <2>3, SMT
    <2>5. acc' = IF exact > ULONG_MAX THEN ULONG_MAX
                 ELSE IF neg /\ exact # 0 THEN ULONG_MAX + 1 - exact ELSE exact
        <3>1. any < 0 <=> exact > ULONG_MAX
            BY <2>1, <2>2, SMT
        <3> QED
            BY <2>2, <2>3, <3>1
    <2>6. ResultExact'
        BY <1>5, <2>5 DEF NumberEnds, ResultExact
    <2> QED
        BY <1>5, <2>4, <2>6 DEF NumberEnds, TypeOK, OverflowExact
<1>6. CASE UNCHANGED vars
    BY <1>6 DEF vars, TypeOK, OverflowExact, ResultExact
<1> QED
    BY <1>1, <1>2, <1>3, <1>4, <1>5, <1>6 DEF Next

(* Until the number ends, what is accumulated is the number read, or the   *)
(* number is over the largest word; nothing has wrapped.                   *)
THEOREM OverflowCorrect == Spec => [](TypeOK /\ OverflowExact)
<1>1. Inv => TypeOK /\ OverflowExact
    BY DEF Inv
<1> QED
    BY InitHolds, NextHolds, <1>1, PTL DEF Spec

(* The number returned is the one read, negated modulo the word after a    *)
(* '-', and the largest word in place of every number over it.             *)
THEOREM ResultCorrect == Spec => []ResultExact
<1>1. Inv => ResultExact
    BY DEF Inv
<1> QED
    BY InitHolds, NextHolds, <1>1, PTL DEF Spec

-----------------------------------------------------------------------------
(* What the first digits of a numeral stand for is a recursive function.   *)
(* That there is one is shown over the shortest numeral without.           *)
IsValues(v, digits, b) ==
    v = [k \in 0 .. Len(digits) |->
            IF k = 0 THEN 0 ELSE v[k - 1] * b + DigitValue[digits[k]]]

(* The same, of the first m digits. *)
ValuesUpto(v, digits, b, m) ==
    /\ v \in [0 .. m -> Nat]
    /\ v[0] = 0
    /\ \A k \in 1 .. m : v[k] = v[k - 1] * b + DigitValue[digits[k]]

DigitsOf(b) == {c \in DOMAIN DigitValue : IsDigitOf(c, b)}

(* Every set of numbers that is not empty has a smallest one. *)
LEMMA SmallestOf ==
    ASSUME NEW S \in SUBSET Nat, S # {}
    PROVE  \E x \in S : \A y \in S : x <= y
<1>1. PICK x \in S : \A y \in S : ~(<<y, x>> \in OpToRel(<, Nat))
    BY NatLessThanWellFounded, WFMin
<1>2. \A r : r \in OpToRel(<, Nat) <=> r \in Nat \X Nat /\ r[1] < r[2]
    BY Zenon DEF OpToRel
<1>3. ASSUME NEW y \in S
      PROVE  x <= y
    <2>1. <<y, x>> \in Nat \X Nat /\ <<y, x>>[1] = y /\ <<y, x>>[2] = x
        BY SMT
    <2>2. ~(y < x)
        BY <1>1, <1>2, <2>1, Zenon
    <2> QED
        BY <2>2, SMT
<1> QED
    BY <1>3

(* One digit more is one step more. *)
LEMMA ValuesGrow ==
    ASSUME NEW b \in Bases \ {0}, NEW digits \in Seq(DigitsOf(b)),
           NEW m \in 1 .. Len(digits), NEW v, ValuesUpto(v, digits, b, m - 1)
    PROVE  \E w : ValuesUpto(w, digits, b, m)
<1> DEFINE c == DigitValue[digits[m]]
           x == v[m - 1] * b + c
           w == [k \in 0 .. m |-> IF k = m THEN x ELSE v[k]]
<1>1. m \in Nat \ {0} /\ v \in [0 .. m - 1 -> Nat] /\ v[0] = 0
    BY DEF ValuesUpto
<1>2. x \in Nat
    <2>1. v[m - 1] \in Nat
        BY <1>1
    <2>2. digits[m] \in DigitsOf(b)
        BY SMT
    <2>3. c \in 0 .. b - 1
        <3>1. b \in Nat
            BY DEF Bases
        <3>2. c \in Nat /\ c < b
            BY <2>2, <3>1, DigitBelow DEF DigitsOf
        <3> QED
            BY <3>1, <3>2
    <2> QED
        BY <2>1, <2>3, LimitExact
<1> HIDE DEF x
<1>3. w \in [0 .. m -> Nat] /\ w[0] = 0
    BY <1>1, <1>2
<1>4. ASSUME NEW k \in 1 .. m
      PROVE  w[k] = w[k - 1] * b + DigitValue[digits[k]]
    <2>1. w[k - 1] = v[k - 1]
        BY <1>1
    <2>2. CASE k = m
        BY <1>1, <2>1, <2>2 DEF x
    <2>3. CASE k # m
        <3>1. k \in 1 .. m - 1 /\ w[k] = v[k]
            BY <1>1, <2>3
        <3> QED
            BY <2>1, <3>1 DEF ValuesUpto
    <2> QED
        BY <2>2, <2>3
<1> HIDE DEF w
<1> QED
    BY <1>3, <1>4 DEF ValuesUpto

LEMMA ValuesExist ==
    ASSUME NEW b \in Bases \ {0}, NEW digits \in Seq(DigitsOf(b))
    PROVE  \E v : ValuesUpto(v, digits, b, Len(digits))
<1> DEFINE Good(m) == \E v : ValuesUpto(v, digits, b, m)
           Bad == {m \in 0 .. Len(digits) : ~Good(m)}
<1>1. Len(digits) \in Nat
    OBVIOUS
<1>2. Good(0)
    <2> DEFINE v == [k \in 0 .. 0 |-> 0]
    <2>1. v \in [0 .. 0 -> Nat] /\ v[0] = 0 /\ 1 .. 0 = {}
        OBVIOUS
    <2> QED
        BY <2>1 DEF ValuesUpto
<1>3. ASSUME NEW m \in 1 .. Len(digits), Good(m - 1)
      PROVE  Good(m)
    BY <1>3, ValuesGrow
<1> HIDE DEF Good
<1>4. Bad = {}
    <2> SUFFICES ASSUME Bad # {} PROVE FALSE
        OBVIOUS
    <2>1. Bad \in SUBSET Nat
        BY <1>1
    <2>2. PICK m \in Bad : \A k \in Bad : m <= k
        <3> HIDE DEF Bad
        <3> QED
            BY <2>1, SmallestOf
    <2>3. m \in 1 .. Len(digits) /\ m - 1 \in 0 .. Len(digits) /\ ~(m <= m - 1)
        BY <1>1, <1>2, <2>2
    <2>4. Good(m - 1)
        BY <2>2, <2>3
    <2> QED
        BY <1>3, <2>2, <2>3, <2>4
<1>5. Good(Len(digits))
    BY <1>1, <1>4
<1> QED
    BY <1>5 DEF Good

(* The digits from the first on: times the base, and one digit more.       *)
LEMMA ValuesAre ==
    ASSUME NEW b \in Bases \ {0}, NEW digits \in Seq(DigitsOf(b))
    PROVE  /\ Values(digits, b)[0] = 0
           /\ \A k \in 1 .. Len(digits) :
                Values(digits, b)[k] = Values(digits, b)[k - 1] * b + DigitValue[digits[k]]
<1> DEFINE h == CHOOSE h : IsValues(h, digits, b)
<1>1. PICK v : ValuesUpto(v, digits, b, Len(digits))
    BY ValuesExist
<1>2. IsValues(v, digits, b)
    <2>1. Len(digits) \in Nat
        OBVIOUS
    <2>2. v = [k \in 0 .. Len(digits) |-> v[k]]
        BY <1>1 DEF ValuesUpto
    <2>3. \A k \in 0 .. Len(digits) :
            v[k] = IF k = 0 THEN 0 ELSE v[k - 1] * b + DigitValue[digits[k]]
        <3>1. \A k \in 0 .. Len(digits) : k = 0 \/ k \in 1 .. Len(digits)
            BY <2>1
        <3> QED
            BY <1>1, <3>1 DEF ValuesUpto
    <2> QED
        BY <2>2, <2>3 DEF IsValues
<1>3. IsValues(h, digits, b)
    BY <1>2, Zenon
<1>4. Values(digits, b) = h
    BY DEF Values, IsValues
<1> HIDE DEF h
<1>5. Len(digits) \in Nat
    OBVIOUS
<1>6. \A k \in 0 .. Len(digits) :
        h[k] = IF k = 0 THEN 0 ELSE h[k - 1] * b + DigitValue[digits[k]]
    BY <1>3, Zenon DEF IsValues
<1>7. 0 \in 0 .. Len(digits) /\ \A k \in 1 .. Len(digits) : k \in 0 .. Len(digits) /\ k # 0
    BY <1>5
<1> QED
    BY <1>4, <1>6, <1>7, Zenon

-----------------------------------------------------------------------------
(* Where the sign, the prefix and the digits of a numeral begin.           *)
SignAt(n) == Len(n.blanks)
PrefixAt(n) == SignAt(n) + Len(n.sign)
DigitsAt(n) == PrefixAt(n) + Len(n.prefix)

Characters == STRING \cup DOMAIN DigitValue \cup {" ", "-", "+", "0", "x", "b"}

CharAt(t, i) == IF i < Len(t.chars) THEN t.chars[i + 1] ELSE "NUL"

(* Two sequences one behind the other. *)
Behind(w, a, z) ==
    /\ Len(w) = Len(a) + Len(z)
    /\ \A i \in 1 .. Len(a) : w[i] = a[i]
    /\ \A i \in 1 .. Len(z) : w[Len(a) + i] = z[i]

LEMMA ConcatParts ==
    ASSUME NEW U, NEW a \in Seq(U), NEW z \in Seq(U)
    PROVE  a \o z \in Seq(U) /\ Behind(a \o z, a, z)
<1>1. /\ a \o z \in Seq(U) /\ Len(a \o z) = Len(a) + Len(z)
      /\ \A i \in 1 .. Len(a) + Len(z) :
            (a \o z)[i] = IF i <= Len(a) THEN a[i] ELSE z[i - Len(a)]
    BY ConcatProperties
<1>2. Len(a) \in Nat /\ Len(z) \in Nat
    OBVIOUS
<1>3. ASSUME NEW i \in 1 .. Len(z)
      PROVE  (a \o z)[Len(a) + i] = z[i]
    <2>1. Len(a) + i \in 1 .. Len(a) + Len(z) /\ ~(Len(a) + i <= Len(a))
          /\ (Len(a) + i) - Len(a) = i
        BY <1>2
    <2> QED
        BY <1>1, <2>1
<1> QED
    BY <1>1, <1>2, <1>3 DEF Behind

(* The characters of a text, part by part. *)
ConsistsOf(t, bl, si, pr, di, ta) ==
    LET B == Len(bl)
        S == B + Len(si)
        P == S + Len(pr)
        D == P + Len(di)
    IN  /\ \A i \in 0 .. Len(bl) - 1 : CharAt(t, i) = bl[i + 1]
        /\ \A i \in 0 .. Len(si) - 1 : CharAt(t, B + i) = si[i + 1]
        /\ \A i \in 0 .. Len(pr) - 1 : CharAt(t, S + i) = pr[i + 1]
        /\ \A i \in 0 .. Len(di) - 1 : CharAt(t, P + i) = di[i + 1]
        /\ CharAt(t, D) = IF ta = <<>> THEN "NUL" ELSE ta[1]

LEMMA Parts ==
    ASSUME NEW U, NEW bl \in Seq(U), NEW si \in Seq(U), NEW pr \in Seq(U),
           NEW di \in Seq(U), NEW ta \in Seq(U), NEW t,
           t.chars = bl \o si \o (pr \o di \o ta)
    PROVE  ConsistsOf(t, bl, si, pr, di, ta)
<1> DEFINE B == Len(bl)
           S == B + Len(si)
           P == S + Len(pr)
           D == P + Len(di)
<1>1. /\ Len(bl) \in Nat /\ Len(si) \in Nat /\ Len(pr) \in Nat /\ Len(di) \in Nat
      /\ Len(ta) \in Nat
    OBVIOUS
<1>2. PICK head : head \in Seq(U) /\ head = bl \o si /\ Behind(head, bl, si)
    BY ConcatParts
<1>3. PICK number : number \in Seq(U) /\ number = pr \o di /\ Behind(number, pr, di)
    BY ConcatParts
<1>4. PICK rest : rest \in Seq(U) /\ rest = number \o ta /\ Behind(rest, number, ta)
    BY <1>3, ConcatParts
<1>5. t.chars = head \o rest
    BY <1>2, <1>3, <1>4, Zenon
<1>6. Behind(t.chars, head, rest)
    BY <1>2, <1>4, <1>5, ConcatParts
<1> USE DEF Behind
<1>7. ASSUME NEW i \in 0 .. Len(bl) - 1
      PROVE  CharAt(t, i) = bl[i + 1]
    <2>1. i < Len(t.chars) /\ i + 1 \in 1 .. S /\ i + 1 \in 1 .. Len(bl)
        BY <1>1, <1>2, <1>3, <1>4, <1>6
    <2> QED
        BY <1>2, <1>6, <2>1 DEF CharAt
<1>8. ASSUME NEW i \in 0 .. Len(si) - 1
      PROVE  CharAt(t, B + i) = si[i + 1]
    <2>1. B + i < Len(t.chars) /\ B + i + 1 \in 1 .. S /\ i + 1 \in 1 .. Len(si)
          /\ B + i + 1 = B + (i + 1)
        BY <1>1, <1>2, <1>3, <1>4, <1>6
    <2> QED
        BY <1>2, <1>6, <2>1 DEF CharAt
<1>9. ASSUME NEW i \in 0 .. Len(pr) - 1
      PROVE  CharAt(t, S + i) = pr[i + 1]
    <2>1. /\ S + i < Len(t.chars) /\ S + i + 1 = S + (i + 1)
          /\ i + 1 \in 1 .. Len(rest) /\ i + 1 \in 1 .. Len(number) /\ i + 1 \in 1 .. Len(pr)
        BY <1>1, <1>2, <1>3, <1>4, <1>6
    <2> QED
        BY <1>2, <1>3, <1>4, <1>6, <2>1 DEF CharAt
<1>10. ASSUME NEW i \in 0 .. Len(di) - 1
       PROVE  CharAt(t, P + i) = di[i + 1]
    <2> DEFINE j == Len(pr) + (i + 1)
    <2>1. /\ P + i < Len(t.chars) /\ P + i + 1 = S + j
          /\ j \in 1 .. Len(rest) /\ j \in 1 .. Len(number) /\ i + 1 \in 1 .. Len(di)
        BY <1>1, <1>2, <1>3, <1>4, <1>6
    <2>2. number[j] = di[i + 1]
        BY <1>3, <2>1
    <2> HIDE DEF j
    <2>3. t.chars[Len(head) + j] = rest[j] /\ rest[j] = number[j]
        BY <1>4, <1>6, <2>1, Zenon
    <2>4. P + i + 1 = Len(head) + j
        BY <1>2, <2>1
    <2>5. t.chars[P + i + 1] = di[i + 1]
        BY <2>2, <2>3, <2>4, Zenon
    <2> QED
        BY <2>1, <2>5, Zenon DEF CharAt
<1>11. CharAt(t, D) = IF ta = <<>> THEN "NUL" ELSE ta[1]
    <2>1. CASE ta = <<>>
        <3>1. D = Len(t.chars)
            BY <1>1, <1>2, <1>3, <1>4, <1>6, <2>1
        <3> QED
            BY <1>1, <2>1, <3>1 DEF CharAt
    <2>2. CASE ta # <<>>
        <3> DEFINE j == Len(number) + 1
        <3>1. /\ D < Len(t.chars) /\ D + 1 = S + j
              /\ j \in 1 .. Len(rest) /\ 1 \in 1 .. Len(ta)
            BY <1>1, <1>2, <1>3, <1>4, <1>6, <2>2
        <3>2. rest[j] = ta[1]
            BY <1>4, <3>1
        <3> HIDE DEF j
        <3>3. t.chars[Len(head) + j] = rest[j]
            BY <1>6, <3>1, Zenon
        <3>4. D + 1 = Len(head) + j
            BY <1>2, <3>1
        <3>5. t.chars[D + 1] = ta[1]
            BY <3>2, <3>3, <3>4, Zenon
        <3> QED
            BY <2>2, <3>1, <3>5, Zenon DEF CharAt
    <2> QED
        BY <2>1, <2>2
<1> HIDE DEF B, S, P, D
<1> QED
    BY <1>7, <1>8, <1>9, <1>10, <1>11 DEF B, S, P, D, ConsistsOf

(* What IsNumeral says of the parts by themselves. *)
LEMMA NumeralParts ==
    ASSUME NEW t, NEW n, t.base \in Bases, n.base # 0, IsNumeral(n, t)
    PROVE  /\ n.base \in Bases \ {0}
           /\ n.blanks \in Seq({" "}) /\ n.blanks \in Seq(Characters)
           /\ n.sign \in {<<>>, <<"-">>, <<"+">>} /\ n.sign \in Seq(Characters)
           /\ n.prefix \in {<<>>, <<"0">>, <<"0", "x">>, <<"0", "b">>}
           /\ n.prefix \in Seq(Characters)
           /\ n.digits \in Seq(DigitsOf(n.base)) /\ n.digits \in Seq(Characters)
           /\ n.tail \in Seq(Characters)
           /\ n.tail # <<>> => ~IsDigitOf(n.tail[1], n.base)
           /\ n.digits = <<>> => n.prefix = <<"0">>
           /\ t.chars = n.blanks \o n.sign \o (n.prefix \o n.digits \o n.tail)
           /\ ConsistsOf(t, n.blanks, n.sign, n.prefix, n.digits, n.tail)
<1>1. /\ {" "} \subseteq Characters /\ STRING \subseteq Characters
      /\ DigitsOf(n.base) \subseteq Characters
    BY DEF DigitsOf, Characters
<1>2. n.digits \in Seq(DigitsOf(n.base)) /\ n.blanks \in Seq({" "})
    BY DEF IsNumeral, DigitsOf
<1>3. n.digits \in Seq(Characters) /\ n.blanks \in Seq(Characters)
    BY <1>1, <1>2, SeqMonotonic, Zenon
<1>4. n.sign \in {<<>>, <<"-">>, <<"+">>} /\ n.tail \in Seq(STRING)
    BY DEF IsNumeral
<1>5. n.tail \in Seq(Characters)
    BY <1>1, <1>4, SeqMonotonic, Zenon
<1>6. n.prefix \in {<<>>, <<"0">>, <<"0", "x">>, <<"0", "b">>}
    BY DEF IsNumeral
<1>7. n.sign \in Seq(Characters) /\ n.prefix \in Seq(Characters)
    <2>1. \A c \in {"-", "+", "0", "x", "b"} : c \in Characters
        BY DEF Characters
    <2>2. /\ <<>> \in Seq(Characters) /\ <<"-">> \in Seq(Characters)
          /\ <<"+">> \in Seq(Characters) /\ <<"0">> \in Seq(Characters)
        BY <2>1
    <2>3. <<"0", "x">> \in Seq(Characters) /\ <<"0", "b">> \in Seq(Characters)
        BY <2>1
    <2> QED
        BY <1>4, <1>6, <2>2, <2>3
<1>8. n.base \in Bases \ {0}
    BY DEF IsNumeral, Bases
<1>9. n.tail # <<>> => ~IsDigitOf(n.tail[1], n.base)
    BY DEF IsNumeral
<1>10. n.digits = <<>> => n.prefix = <<"0">>
    BY DEF IsNumeral
<1>11. t.chars = n.blanks \o n.sign \o (n.prefix \o n.digits \o n.tail)
    BY DEF IsNumeral
<1>12. ConsistsOf(t, n.blanks, n.sign, n.prefix, n.digits, n.tail)
    BY <1>3, <1>5, <1>7, <1>11, Parts
<1> QED
    BY <1>2, <1>3, <1>4, <1>5, <1>6, <1>7, <1>8, <1>9, <1>10, <1>11, <1>12, Zenon

(* A prefix begins with a 0. *)
LEMMA PrefixBegins ==
    ASSUME NEW p \in {<<"0">>, <<"0", "x">>, <<"0", "b">>}
    PROVE  0 \in 0 .. Len(p) - 1 /\ p[0 + 1] = "0"
<1>1. CASE p = <<"0">>
    <2>1. Len(<<"0">>) = 1 /\ <<"0">>[1] = "0"
        OBVIOUS
    <2> QED
        BY <1>1, <2>1
<1>2. ASSUME NEW e, p = <<"0", e>>
      PROVE  0 \in 0 .. Len(p) - 1 /\ p[0 + 1] = "0"
    <2>1. Len(<<"0", e>>) = 2 /\ <<"0", e>>[1] = "0"
        OBVIOUS
    <2> QED
        BY <1>2, <2>1
<1> QED
    BY <1>1, <1>2, Zenon

(* What a numeral looks like to the code that reads it: blanks, a sign or  *)
(* none, something that is a digit of some base, the digits of its own     *)
(* base and behind them something that is none.                            *)
LEMMA NumeralChars ==
    ASSUME NEW t, NEW n, t.base \in Bases, n.base # 0, IsNumeral(n, t)
    PROVE  /\ SignAt(n) \in Nat /\ PrefixAt(n) \in Nat /\ DigitsAt(n) \in Nat
           /\ Len(n.digits) \in Nat
           /\ \A i \in 0 .. SignAt(n) - 1 : CharAt(t, i) = " "
           /\ \/ /\ n.sign # <<"-">> /\ PrefixAt(n) = SignAt(n)
                 /\ CharAt(t, SignAt(n)) \in DOMAIN DigitValue
              \/ /\ n.sign # <<"-">> /\ PrefixAt(n) = SignAt(n) + 1
                 /\ CharAt(t, SignAt(n)) = "+"
              \/ /\ n.sign = <<"-">> /\ PrefixAt(n) = SignAt(n) + 1
                 /\ CharAt(t, SignAt(n)) = "-"
           /\ \A i \in 0 .. Len(n.digits) - 1 :
                CharAt(t, DigitsAt(n) + i) = n.digits[i + 1] /\ IsDigitOf(n.digits[i + 1], n.base)
           /\ ~IsDigitOf(CharAt(t, DigitsAt(n) + Len(n.digits)), n.base)
<1> DEFINE N == Len(n.digits)
<1>1. /\ n.blanks \in Seq({" "}) /\ n.blanks \in Seq(Characters)
      /\ n.sign \in {<<>>, <<"-">>, <<"+">>} /\ n.sign \in Seq(Characters)
      /\ n.prefix \in {<<>>, <<"0">>, <<"0", "x">>, <<"0", "b">>}
      /\ n.prefix \in Seq(Characters)
      /\ n.digits \in Seq(DigitsOf(n.base)) /\ n.digits \in Seq(Characters)
      /\ n.tail \in Seq(Characters)
      /\ n.tail # <<>> => ~IsDigitOf(n.tail[1], n.base)
      /\ n.digits = <<>> => n.prefix = <<"0">>
    BY NumeralParts
<1>2. /\ \A i \in 0 .. Len(n.blanks) - 1 : CharAt(t, i) = n.blanks[i + 1]
      /\ \A i \in 0 .. Len(n.sign) - 1 : CharAt(t, SignAt(n) + i) = n.sign[i + 1]
      /\ \A i \in 0 .. Len(n.prefix) - 1 : CharAt(t, PrefixAt(n) + i) = n.prefix[i + 1]
      /\ \A i \in 0 .. N - 1 : CharAt(t, DigitsAt(n) + i) = n.digits[i + 1]
      /\ CharAt(t, DigitsAt(n) + N) = IF n.tail = <<>> THEN "NUL" ELSE n.tail[1]
    <2>1. ConsistsOf(t, n.blanks, n.sign, n.prefix, n.digits, n.tail)
        BY NumeralParts
    <2> QED
        BY <2>1, Zenon DEF ConsistsOf, SignAt, PrefixAt, DigitsAt
<1>3. /\ Len(n.blanks) \in Nat /\ Len(n.sign) \in Nat /\ Len(n.prefix) \in Nat /\ N \in Nat
    BY <1>1, LenProperties, Zenon
<1>4. SignAt(n) \in Nat /\ PrefixAt(n) \in Nat /\ DigitsAt(n) \in Nat
    <2>1. \A a, b, c \in Nat : a + b \in Nat /\ a + b + c \in Nat
        OBVIOUS
    <2> QED
        BY <1>3, <2>1, Zenon DEF SignAt, PrefixAt, DigitsAt
<1>5. ASSUME NEW i \in 0 .. SignAt(n) - 1
      PROVE  CharAt(t, i) = " "
    <2>1. i \in 0 .. Len(n.blanks) - 1 /\ i + 1 \in 1 .. Len(n.blanks)
        BY <1>3 DEF SignAt
    <2>2. n.blanks[i + 1] \in {" "}
        BY <1>1, <2>1, ElementOfSeq
    <2> QED
        BY <1>2, <2>1, <2>2
<1>6. \/ n.sign = <<>> /\ PrefixAt(n) = SignAt(n)
      \/ /\ n.sign \in {<<"-">>, <<"+">>} /\ PrefixAt(n) = SignAt(n) + 1
         /\ CharAt(t, SignAt(n)) = n.sign[1]
    <2>1. CASE n.sign = <<>>
        BY <1>4, <2>1 DEF PrefixAt
    <2>2. CASE n.sign \in {<<"-">>, <<"+">>}
        <3>1. Len(n.sign) = 1
            BY <2>2
        <3>2. CharAt(t, SignAt(n) + 0) = n.sign[0 + 1]
            BY <1>2, <3>1
        <3>3. SignAt(n) + 0 = SignAt(n)
            BY <1>4
        <3> QED
            BY <2>2, <3>1, <3>2, <3>3 DEF PrefixAt
    <2> QED
        BY <1>1, <2>1, <2>2
<1>7. ASSUME NEW i \in 0 .. N - 1
      PROVE  /\ CharAt(t, DigitsAt(n) + i) = n.digits[i + 1]
             /\ n.digits[i + 1] \in DOMAIN DigitValue /\ IsDigitOf(n.digits[i + 1], n.base)
    <2>1. i + 1 \in 1 .. N
        BY <1>3
    <2>2. n.digits[i + 1] \in DigitsOf(n.base)
        BY <1>1, <2>1, ElementOfSeq
    <2> QED
        BY <1>2, <2>2 DEF DigitsOf
<1>8. CharAt(t, PrefixAt(n)) \in DOMAIN DigitValue
    <2>1. CASE n.prefix = <<>>
        <3>1. 0 \in 0 .. N - 1
            <4>1. n.digits # <<>>
                <5>1. <<>> # <<"0">>
                    BY SMT
                <5> QED
                    BY <1>1, <2>1, <5>1, Zenon
            <4>2. N # 0
                BY <1>1, <4>1, EmptySeq, Zenon
            <4> QED
                BY <1>3, <4>2
        <3>2. DigitsAt(n) + 0 = PrefixAt(n)
            BY <1>4, <2>1 DEF DigitsAt
        <3> QED
            BY <1>7, <3>1, <3>2
    <2>2. CASE n.prefix # <<>>
        <3>1. 0 \in 0 .. Len(n.prefix) - 1 /\ n.prefix[0 + 1] = "0"
            <4>1. n.prefix \in {<<"0">>, <<"0", "x">>, <<"0", "b">>}
                BY <1>1, <2>2, Zenon
            <4> QED
                BY <4>1, PrefixBegins, Zenon
        <3>2. CharAt(t, PrefixAt(n) + 0) = "0" /\ PrefixAt(n) + 0 = PrefixAt(n)
            BY <1>2, <1>4, <3>1
        <3> QED
            BY <3>2 DEF DigitValue
    <2> QED
        BY <2>1, <2>2
<1>9. ~IsDigitOf(CharAt(t, DigitsAt(n) + N), n.base)
    <2>1. ~IsDigitOf("NUL", n.base)
        BY DEF IsDigitOf, DigitValue
    <2> QED
        BY <1>1, <1>2, <2>1
<1>10. \/ /\ n.sign # <<"-">> /\ PrefixAt(n) = SignAt(n)
          /\ CharAt(t, SignAt(n)) \in DOMAIN DigitValue
       \/ /\ n.sign # <<"-">> /\ PrefixAt(n) = SignAt(n) + 1
          /\ CharAt(t, SignAt(n)) = "+"
       \/ /\ n.sign = <<"-">> /\ PrefixAt(n) = SignAt(n) + 1
          /\ CharAt(t, SignAt(n)) = "-"
    <2>1. <<>> # <<"-">> /\ <<"+">> # <<"-">> /\ <<"-">>[1] = "-" /\ <<"+">>[1] = "+"
        OBVIOUS
    <2>2. CASE n.sign = <<>>
        <3>1. <<>> # <<"-">> /\ <<>> # <<"+">>
            OBVIOUS
        <3> QED
            BY <1>6, <1>8, <2>1, <2>2, <3>1, Zenon
    <2>3. CASE n.sign = <<"-">>
        BY <1>6, <2>1, <2>3, Zenon
    <2>4. CASE n.sign = <<"+">>
        <3>1. <<"+">> # <<>>
            OBVIOUS
        <3> QED
            BY <1>6, <2>1, <2>4, <3>1, Zenon
    <2> QED
        BY <1>1, <2>2, <2>3, <2>4, Zenon
<1> QED
    BY <1>3, <1>4, <1>5, <1>7, <1>9, <1>10, Zenon

(* The characters of a prefix are there; where two characters look like    *)
(* one in the base given, they are.                                        *)
LEMMA PrefixChars ==
    ASSUME NEW t, NEW n, t.base \in Bases, n.base # 0, IsNumeral(n, t)
    PROVE  LET c == CharAt(t, PrefixAt(n))
               d == CharAt(t, PrefixAt(n) + 1)
           IN  /\ n.prefix \in {<<"0">>, <<"0", "x">>, <<"0", "b">>} => c = "0"
               /\ n.prefix = <<"0", "x">> => d = "x"
               /\ n.prefix = <<"0", "b">> => d = "b"
               /\ c = "0" /\ d = "x" /\ t.base \in {0, 16} => n.prefix = <<"0", "x">>
               /\ c = "0" /\ d = "b" /\ t.base \in {0, 2} => n.prefix = <<"0", "b">>
<1> DEFINE S == PrefixAt(n)
           c == CharAt(t, S)
           d == CharAt(t, S + 1)
           number == n.prefix \o n.digits \o n.tail
<1>1. /\ n.blanks \in Seq(Characters) /\ n.sign \in Seq(Characters)
      /\ n.prefix \in {<<>>, <<"0">>, <<"0", "x">>, <<"0", "b">>}
      /\ n.prefix \in Seq(Characters)
      /\ n.digits \in Seq(Characters) /\ n.tail \in Seq(Characters)
      /\ t.chars = n.blanks \o n.sign \o (n.prefix \o n.digits \o n.tail)
    BY NumeralParts
<1>2. S \in Nat
    BY NumeralChars
<1>3. \A i \in 0 .. Len(n.prefix) - 1 : CharAt(t, S + i) = n.prefix[i + 1]
    <2>1. ConsistsOf(t, n.blanks, n.sign, n.prefix, n.digits, n.tail)
        BY NumeralParts
    <2> QED
        BY <2>1, Zenon DEF ConsistsOf, SignAt, PrefixAt
<1>4. number \in Seq(Characters)
    <2>1. n.prefix \o n.digits \in Seq(Characters)
        BY <1>1, ConcatParts
    <2> QED
        BY <1>1, <2>1, ConcatParts
<1>5. /\ \A i \in 0 .. Len(number) - 1 : CharAt(t, S + i) = number[i + 1]
      /\ CharAt(t, S + Len(number)) = "NUL"
    <2>1. <<>> \in Seq(Characters)
        OBVIOUS
    <2>2. number \o <<>> \o <<>> = number
        BY <1>4, ConcatEmptySeq
    <2>3. t.chars = n.blanks \o n.sign \o (number \o <<>> \o <<>>)
        BY <1>1, <2>2
    <2> HIDE DEF number
    <2>4. ConsistsOf(t, n.blanks, n.sign, number, <<>>, <<>>)
        BY <1>1, <1>4, <2>1, <2>3, Parts
    <2>5. Len(<<>>) = 0
        OBVIOUS
    <2>6. Len(number) \in Nat
        BY <1>4, LenProperties
    <2>7. S + Len(number) + 0 = S + Len(number)
        BY <1>2, <2>6
    <2>8. /\ \A i \in 0 .. Len(number) - 1 : CharAt(t, S + i) = number[i + 1]
          /\ CharAt(t, S + Len(number) + 0) = "NUL"
        BY <2>4, <2>5, Zenon DEF ConsistsOf, SignAt, PrefixAt
    <2> QED
        BY <2>7, <2>8
<1>6. S + 0 = S
    BY <1>2
<1>7. ASSUME c = "0", NEW e \in {"x", "b"}, d = e
      PROVE  IsPrefix(<<"0", e>>, number)
    <2> HIDE DEF number
    <2>1. Len(number) # 0 /\ Len(number) # 1
        BY <1>5, <1>6, <1>7
    <2>2. Len(number) \in Nat /\ Len(number) >= 2
        <3> DEFINE l == Len(number)
        <3>1. l \in Nat /\ l # 0 /\ l # 1
            BY <1>4, <2>1, LenProperties, Zenon
        <3> HIDE DEF l
        <3>2. l \in Nat /\ l >= 2
            BY <3>1
        <3> QED
            BY <3>2 DEF l
    <2>3. number[0 + 1] = "0" /\ number[1 + 1] = e
        BY <1>5, <1>6, <1>7, <2>2
    <2>4. /\ SubSeq(number, 1, 2) \in Seq(Characters) /\ Len(SubSeq(number, 1, 2)) = 2
          /\ SubSeq(number, 1, 2)[1] = "0" /\ SubSeq(number, 1, 2)[2] = e
        BY <1>4, <2>2, <2>3
    <2>5. /\ <<"0", e>> \in Seq(Characters) /\ Len(<<"0", e>>) = 2
          /\ SubSeq(<<"0", e>>, 1, 2) = <<"0", e>>
        <3>1. "0" \in Characters /\ e \in Characters
            BY DEF Characters
        <3>2. <<"0", e>> \in Seq(Characters) /\ Len(<<"0", e>>) = 2
            BY <3>1
        <3>3. SubSeq(<<"0", e>>, 1, Len(<<"0", e>>)) = <<"0", e>>
            BY <3>2, SubSeqFull, Zenon
        <3> QED
            BY <3>2, <3>3
    <2>6. SubSeq(number, 1, 2) = <<"0", e>>
        <3>2. \A i \in 1 .. 2 : SubSeq(number, 1, 2)[i] = <<"0", e>>[i]
            BY <2>4
        <3> QED
            BY <2>4, <2>5, <3>2, SeqEqual
    <2> QED
        BY <2>2, <2>5, <2>6 DEF IsPrefix
<1>8. /\ IsPrefix(<<"0", "x">>, number) /\ t.base \in {0, 16} => n.prefix = <<"0", "x">>
      /\ IsPrefix(<<"0", "b">>, number) /\ t.base \in {0, 2} => n.prefix = <<"0", "b">>
    BY DEF IsNumeral
<1> HIDE DEF number
<1>9. n.prefix \in {<<"0">>, <<"0", "x">>, <<"0", "b">>} => c = "0"
    <2> SUFFICES ASSUME n.prefix \in {<<"0">>, <<"0", "x">>, <<"0", "b">>} PROVE c = "0"
        OBVIOUS
    <2>1. 0 \in 0 .. Len(n.prefix) - 1 /\ n.prefix[0 + 1] = "0"
        BY PrefixBegins, Zenon
    <2> QED
        BY <1>3, <1>6, <2>1, Zenon
<1>10. n.prefix = <<"0", "x">> => d = "x"
    BY <1>3
<1>11. n.prefix = <<"0", "b">> => d = "b"
    BY <1>3
<1> HIDE DEF c, d
<1> QED
    BY <1>7, <1>8, <1>9, <1>10, <1>11 DEF c, d

-----------------------------------------------------------------------------
(* How far a numeral has been read, in the base given: up to its blanks,   *)
(* its sign, its prefix, or some of its digits.  The 0 that makes it octal *)
(* is read as a digit.                                                     *)
ReadUpto(n, given) ==
    /\ pc = "space" => s <= SignAt(n) /\ base = given /\ exact = 0
    /\ pc = "prefix" => s = PrefixAt(n) /\ base = given /\ exact = 0
    /\ pc = "digits" =>
        /\ base = n.base
        /\ \/ n.prefix = <<"0">> /\ n.base = 8 /\ s = PrefixAt(n) /\ exact = 0
           \/ \E k \in 0 .. Len(n.digits) :
                s = DigitsAt(n) + k /\ exact = Values(n.digits, n.base)[k]
    /\ pc = "done" => exact = ValueOf(n)
    /\ pc # "space" => neg = (n.sign = <<"-">>)

NumeralInv ==
    \E t \in Texts : nptr = t.chars /\ says = t.says /\ \A n \in says : ReadUpto(n, t.base)

LEMMA SpaceStep ==
    ASSUME Inv, SkipSpace \/ ReadSign,
           NEW t, nptr = t.chars, NEW n, t.base \in Bases, n.base # 0, IsNumeral(n, t),
           ReadUpto(n, t.base)
    PROVE  ReadUpto(n, t.base)'
<1>1. /\ SignAt(n) \in Nat /\ PrefixAt(n) \in Nat
      /\ \A i \in 0 .. SignAt(n) - 1 : CharAt(t, i) = " "
    BY NumeralChars, Zenon
<1> DEFINE minus == n.sign = <<"-">>
<1>2. \/ ~minus /\ PrefixAt(n) = SignAt(n) /\ CharAt(t, SignAt(n)) \in DOMAIN DigitValue
      \/ ~minus /\ PrefixAt(n) = SignAt(n) + 1 /\ CharAt(t, SignAt(n)) = "+"
      \/ minus /\ PrefixAt(n) = SignAt(n) + 1 /\ CharAt(t, SignAt(n)) = "-"
    BY NumeralChars, Zenon
<1> HIDE DEF minus
<1>3. s \in Nat /\ pc = "space"
    BY DEF Inv, TypeOK, SkipSpace, ReadSign
<1>4. char(0) = CharAt(t, s)
    BY <1>3 DEF char, CharAt
<1>5. s <= SignAt(n) /\ base = t.base /\ exact = 0
    BY <1>3 DEF ReadUpto
<1>6. \A c \in DOMAIN DigitValue : c # " " /\ c # "-" /\ c # "+"
    BY DEF DigitValue
<1>7. CASE s < SignAt(n)
    <2>1. char(0) = " "
        <3>1. \A a, z \in Nat : a < z => a \in 0 .. z - 1
            BY SMT
        <3>2. s \in 0 .. SignAt(n) - 1
            BY <1>1, <1>3, <1>7, <3>1, Zenon
        <3> QED
            BY <1>1, <1>4, <3>2, Zenon
    <2>2. SkipSpace
        BY <2>1 DEF ReadSign, isspace
    <2>3. s' <= SignAt(n)
        <3>1. \A a, z \in Nat : a < z => a + 1 <= z
            BY SMT
        <3>2. s' = s + 1
            BY <2>2 DEF SkipSpace
        <3> QED
            BY <1>1, <1>3, <1>7, <3>1, <3>2, Zenon
    <2> QED
        BY <1>3, <1>5, <2>2, <2>3 DEF SkipSpace, ReadUpto
<1>8. CASE s = SignAt(n)
    <2>1. /\ char(0) # " "
          /\ minus <=> (char(0) = "-")
          /\ PrefixAt(n) = IF char(0) \in {"-", "+"} THEN s + 1 ELSE s
        BY <1>2, <1>4, <1>6, <1>8
    <2>2. ReadSign
        BY <2>1 DEF SkipSpace, isspace
    <2>3. s' = PrefixAt(n) /\ pc' = "prefix" /\ base' = base /\ exact' = exact
        BY <2>1, <2>2 DEF ReadSign
    <2>4. neg' = (n.sign = <<"-">>)
        BY <2>1, <2>2, Zenon DEF ReadSign, minus
    <2> QED
        BY <1>5, <2>3, <2>4 DEF ReadUpto
<1>9. s < SignAt(n) \/ s = SignAt(n)
    <2>1. \A a, z \in Nat : a <= z => a < z \/ a = z
        BY SMT
    <2> QED
        BY <1>1, <1>3, <1>5, <2>1, Zenon
<1> QED
    BY <1>7, <1>8, <1>9, Zenon

LEMMA PrefixStep ==
    ASSUME Inv, ReadPrefix,
           NEW t, nptr = t.chars, NEW n, t.base \in Bases, n.base # 0, IsNumeral(n, t),
           ReadUpto(n, t.base)
    PROVE  ReadUpto(n, t.base)'
<1> DEFINE c == char(0)
           d == char(1)
<1>1. /\ pc = "prefix" /\ s = PrefixAt(n) /\ base = t.base /\ exact = 0
      /\ neg = (n.sign = <<"-">>)
    BY DEF ReadPrefix, ReadUpto
<1>2. c = CharAt(t, PrefixAt(n)) /\ d = CharAt(t, PrefixAt(n) + 1)
    <2>1. s \in Nat
        BY DEF Inv, TypeOK
    <2> QED
        BY <1>1, <2>1 DEF char, CharAt
<1>3. /\ n.prefix \in {<<"0">>, <<"0", "x">>, <<"0", "b">>} => c = "0"
      /\ n.prefix = <<"0", "x">> => d = "x"
      /\ n.prefix = <<"0", "b">> => d = "b"
      /\ c = "0" /\ d = "x" /\ t.base \in {0, 16} => n.prefix = <<"0", "x">>
      /\ c = "0" /\ d = "b" /\ t.base \in {0, 2} => n.prefix = <<"0", "b">>
    BY <1>2, PrefixChars, Zenon
<1>4. prefix = IF t.base \in {0, 16} /\ c = "0" /\ d = "x" THEN 16
               ELSE IF t.base \in {0, 2} /\ c = "0" /\ d = "b" THEN 2
               ELSE 0
    BY <1>1 DEF prefix
<1>5. /\ s' = IF prefix # 0 THEN s + 2 ELSE s
      /\ base' = IF prefix # 0 THEN prefix ELSE IF base # 0 THEN base ELSE IF c = "0" THEN 8 ELSE 10
      /\ pc' = "digits" /\ exact' = exact /\ neg' = neg
    BY DEF ReadPrefix
<1>6. PrefixAt(n) \in Nat /\ Len(n.digits) \in Nat
    BY NumeralChars
<1>7. n.digits \in Seq(DigitsOf(n.base)) /\ n.base \in Bases \ {0}
    BY NumeralParts
<1>8. Values(n.digits, n.base)[0] = 0
    BY <1>7, ValuesAre
<1>9. ASSUME base' = n.base, s' = DigitsAt(n)
      PROVE  ReadUpto(n, t.base)'
    <2>1. 0 \in 0 .. Len(n.digits) /\ DigitsAt(n) + 0 = DigitsAt(n)
        <3>1. DigitsAt(n) \in Nat
            BY NumeralChars
        <3> QED
            BY <1>6, <3>1
    <2>2. exact' = Values(n.digits, n.base)[0] /\ s' = DigitsAt(n) + 0
        BY <1>1, <1>5, <1>8, <1>9, <2>1
    <2> QED
        BY <1>1, <1>5, <1>9, <2>1, <2>2, Zenon DEF ReadUpto
<1> HIDE DEF c, d
<1>10. CASE n.prefix = <<"0", "x">> /\ n.base = 16 /\ t.base \in {0, 16}
    <2>1. prefix = 16
        BY <1>3, <1>4, <1>10
    <2>2. DigitsAt(n) = PrefixAt(n) + 2
        BY <1>10 DEF DigitsAt
    <2> QED
        BY <1>1, <1>5, <1>9, <1>10, <2>1, <2>2
<1>11. CASE n.prefix = <<"0", "b">> /\ n.base = 2 /\ t.base \in {0, 2}
    <2>1. prefix = 2
        BY <1>3, <1>4, <1>11
    <2>2. DigitsAt(n) = PrefixAt(n) + 2
        BY <1>11 DEF DigitsAt
    <2> QED
        BY <1>1, <1>5, <1>9, <1>11, <2>1, <2>2
<1>12. ASSUME n.prefix # <<"0", "x">>, n.prefix # <<"0", "b">>
       PROVE  prefix = 0
    BY <1>3, <1>4, <1>12
<1>13. CASE n.prefix = <<"0">> /\ n.base = 8 /\ t.base \in {0, 8}
    <2>1. <<"0">> # <<"0", "x">> /\ <<"0">> # <<"0", "b">>
        OBVIOUS
    <2>2. prefix = 0 /\ c = "0"
        BY <1>3, <1>12, <1>13, <2>1
    <2>3. base' = n.base /\ s' = PrefixAt(n) /\ exact' = 0
        BY <1>1, <1>5, <1>13, <2>2
    <2> QED
        BY <1>1, <1>5, <1>13, <2>3, Zenon DEF ReadUpto
<1>14. CASE n.prefix = <<>>
    <2>1. <<>> # <<"0", "x">> /\ <<>> # <<"0", "b">>
        OBVIOUS
    <2>2. prefix = 0
        BY <1>12, <1>14, <2>1
    <2>3. DigitsAt(n) = PrefixAt(n)
        BY <1>6, <1>14 DEF DigitsAt
    <2>4. CASE n.base = t.base
        BY <1>1, <1>5, <1>9, <2>2, <2>3, <2>4
    <2>5. CASE n.base = 10 /\ t.base = 0 /\ n.digits[1] # "0"
        <3>1. n.digits # <<>>
            <4>1. <<>> # <<"0">>
                BY SMT
            <4> QED
                BY <1>14, <4>1, NumeralParts, Zenon
        <3>2. Len(n.digits) # 0
            BY <1>7, <3>1, EmptySeq, Zenon
        <3>3. 0 \in 0 .. Len(n.digits) - 1 /\ DigitsAt(n) + 0 = PrefixAt(n)
            BY <1>6, <2>3, <3>2
        <3>4. CharAt(t, DigitsAt(n) + 0) = n.digits[0 + 1]
            BY <3>3, NumeralChars
        <3>5. c # "0"
            BY <1>2, <2>5, <3>3, <3>4
        <3> QED
            BY <1>1, <1>5, <1>9, <2>2, <2>3, <2>5, <3>5
    <2>6. \/ n.base = t.base
          \/ n.base = 10 /\ t.base = 0 /\ n.digits[1] # "0"
        <3>1. <<>> # <<"0">>
            BY SMT
        <3> QED
            BY <1>14, <2>1, <3>1, Zenon DEF IsNumeral
    <2> QED
        BY <2>4, <2>5, <2>6
<1>15. \/ n.prefix = <<"0", "x">> /\ n.base = 16 /\ t.base \in {0, 16}
       \/ n.prefix = <<"0", "b">> /\ n.base = 2 /\ t.base \in {0, 2}
       \/ n.prefix = <<"0">> /\ n.base = 8 /\ t.base \in {0, 8}
       \/ n.prefix = <<>>
    BY Zenon DEF IsNumeral
<1> QED
    BY <1>10, <1>11, <1>13, <1>14, <1>15, Zenon

LEMMA DigitStep ==
    ASSUME Inv, ReadDigit \/ NumberEnds,
           NEW t, nptr = t.chars, NEW n, t.base \in Bases, n.base # 0, IsNumeral(n, t),
           ReadUpto(n, t.base)
    PROVE  ReadUpto(n, t.base)'
<1> DEFINE N == Len(n.digits)
           v == Values(n.digits, n.base)
<1>1. pc = "digits" /\ base = n.base /\ neg = (n.sign = <<"-">>)
    BY DEF ReadDigit, NumberEnds, ReadUpto
<1>2. s \in Nat /\ char(0) = CharAt(t, s)
    <2>1. s \in Nat
        BY DEF Inv, TypeOK
    <2> QED
        BY <2>1 DEF char, CharAt
<1>3. /\ PrefixAt(n) \in Nat /\ DigitsAt(n) \in Nat /\ N \in Nat
      /\ \A i \in 0 .. N - 1 :
            CharAt(t, DigitsAt(n) + i) = n.digits[i + 1] /\ IsDigitOf(n.digits[i + 1], n.base)
      /\ ~IsDigitOf(CharAt(t, DigitsAt(n) + N), n.base)
    BY NumeralChars, Zenon
<1>4. v[0] = 0 /\ \A k \in 1 .. N : v[k] = v[k - 1] * n.base + DigitValue[n.digits[k]]
    <2>1. n.digits \in Seq(DigitsOf(n.base)) /\ n.base \in Bases \ {0}
        BY NumeralParts
    <2> QED
        BY <2>1, ValuesAre
<1> HIDE DEF v, N
<1>5. ASSUME NEW k \in 0 .. N, s' = DigitsAt(n) + k, exact' = v[k], ReadDigit
      PROVE  ReadUpto(n, t.base)'
    <2>1. pc' = "digits" /\ base' = n.base /\ neg' = (n.sign = <<"-">>)
        BY <1>1, <1>5 DEF ReadDigit
    <2> QED
        BY <1>5, <2>1 DEF ReadUpto, v, N
<1>6. CASE n.prefix = <<"0">> /\ n.base = 8 /\ s = PrefixAt(n) /\ exact = 0
    <2>1. char(0) = "0"
        <3>1. CharAt(t, PrefixAt(n)) = "0"
            BY <1>6, PrefixChars, Zenon
        <3> QED
            BY <1>2, <1>6, <3>1
    <2>2. IsDigitOf(char(0), base) /\ DigitValue[char(0)] = 0
        <3>1. "0" \in DOMAIN DigitValue /\ DigitValue["0"] = 0
            BY DEF DigitValue
        <3>2. 0 < 8
            OBVIOUS
        <3> QED
            BY <1>1, <1>6, <2>1, <3>1, <3>2, Zenon DEF IsDigitOf
    <2>3. ReadDigit
        BY <2>2 DEF NumberEnds
    <2>4. exact' = v[0]
        BY <1>1, <1>4, <1>6, <2>2, <2>3 DEF ReadDigit
    <2>5. s' = DigitsAt(n) + 0 /\ 0 \in 0 .. N
        <3>1. Len(n.prefix) = 1
            BY <1>6
        <3>2. DigitsAt(n) = PrefixAt(n) + 1 /\ s' = PrefixAt(n) + 1
            BY <1>6, <2>3, <3>1, Zenon DEF ReadDigit, DigitsAt
        <3> QED
            BY <1>3, <3>2
    <2> QED
        BY <1>5, <2>3, <2>4, <2>5
<1>7. ASSUME NEW k \in 0 .. N, s = DigitsAt(n) + k, exact = v[k]
      PROVE  ReadUpto(n, t.base)'
    <2>1. CASE k < N
        <3>1. k \in 0 .. N - 1 /\ k + 1 \in 1 .. N /\ (k + 1) - 1 = k
            BY <1>3, <2>1
        <3>2. char(0) = n.digits[k + 1] /\ IsDigitOf(char(0), base)
            BY <1>1, <1>2, <1>3, <1>7, <3>1, Zenon
        <3>3. ReadDigit
            BY <3>2 DEF NumberEnds
        <3>4. exact' = v[k] * n.base + DigitValue[n.digits[k + 1]] /\ s' = s + 1
            BY <1>1, <1>7, <3>2, <3>3 DEF ReadDigit
        <3>5. exact' = v[k + 1]
            BY <1>4, <3>1, <3>4
        <3>6. s' = DigitsAt(n) + (k + 1) /\ k + 1 \in 0 .. N
            BY <1>3, <1>7, <3>1, <3>4
        <3> QED
            BY <1>5, <3>3, <3>5, <3>6
    <2>2. CASE k = N
        <3>1. ~IsDigitOf(char(0), base)
            BY <1>1, <1>2, <1>3, <1>7, <2>2, Zenon
        <3>2. NumberEnds
            BY <3>1 DEF ReadDigit
        <3>3. pc' = "done" /\ exact' = exact /\ neg' = neg
            BY <3>2 DEF NumberEnds
        <3>4. exact' = ValueOf(n)
            BY <1>7, <2>2, <3>3 DEF ValueOf, v, N
        <3> QED
            BY <1>1, <3>3, <3>4 DEF ReadUpto
    <2> QED
        BY <1>3, <2>1, <2>2
<1>8. \/ n.prefix = <<"0">> /\ n.base = 8 /\ s = PrefixAt(n) /\ exact = 0
      \/ \E k \in 0 .. N : s = DigitsAt(n) + k /\ exact = v[k]
    BY <1>1, Zenon DEF ReadUpto, v, N
<1> QED
    BY <1>6, <1>7, <1>8, Zenon

LEMMA NumeralNext == Inv /\ NumeralInv /\ [Next]_vars => NumeralInv'
<1> SUFFICES ASSUME Inv, NumeralInv, [Next]_vars PROVE NumeralInv'
    OBVIOUS
<1>1. PICK t \in Texts : nptr = t.chars /\ says = t.says /\ \A n \in says : ReadUpto(n, t.base)
    BY DEF NumeralInv
<1>2. nptr' = nptr /\ says' = says
    BY DEF Next, SkipSpace, ReadSign, ReadPrefix, ReadDigit, NumberEnds, vars
<1>3. ASSUME NEW n \in says
      PROVE  ReadUpto(n, t.base)'
    <2>1. t.base \in Bases /\ n.base # 0 /\ IsNumeral(n, t)
        BY <1>1, TextsAssumption
    <2>2. nptr = t.chars /\ ReadUpto(n, t.base)
        BY <1>1
    <2>3. CASE SkipSpace \/ ReadSign
        BY <2>1, <2>2, <2>3, SpaceStep
    <2>4. CASE ReadPrefix
        BY <2>1, <2>2, <2>4, PrefixStep
    <2>5. CASE ReadDigit \/ NumberEnds
        BY <2>1, <2>2, <2>5, DigitStep
    <2>6. CASE UNCHANGED vars
        BY <2>2, <2>6 DEF vars, ReadUpto
    <2> QED
        BY <2>3, <2>4, <2>5, <2>6 DEF Next
<1> QED
    BY <1>1, <1>2, <1>3 DEF NumeralInv

LEMMA NumeralInit == Init => NumeralInv
<1> SUFFICES ASSUME Init PROVE NumeralInv
    OBVIOUS
<1>1. PICK t \in Texts : nptr = t.chars /\ base = t.base /\ says = t.says
    BY DEF Init
<1>2. ASSUME NEW n \in says
      PROVE  ReadUpto(n, t.base)
    <2>1. SignAt(n) \in Nat
        BY <1>1, TextsAssumption, NumeralChars
    <2> QED
        BY <1>1, <2>1 DEF Init, ReadUpto
<1> QED
    BY <1>1, <1>2 DEF NumeralInv

(* A numeral behind blanks and a sign, with the prefix of its base or none,*)
(* is read as the number it stands for, negated modulo the word after a    *)
(* '-', or as the largest word; whatever the length and what follows.      *)
THEOREM NumeralsAreRead == Spec => []ReadsNumeral
<1>1. Inv /\ NumeralInv => ReadsNumeral
    <2> SUFFICES ASSUME Inv, NumeralInv, pc = "done", NEW n \in says
                 PROVE  acc = IF ValueOf(n) > ULONG_MAX THEN ULONG_MAX
                              ELSE IF n.sign = <<"-">>
                              THEN (ULONG_MAX + 1 - ValueOf(n)) % (ULONG_MAX + 1)
                              ELSE ValueOf(n)
        BY DEF ReadsNumeral
    <2>1. exact = ValueOf(n) /\ neg = (n.sign = <<"-">>)
        BY DEF NumeralInv, ReadUpto
    <2>2. exact \in Nat /\ ULONG_MAX \in Nat
        BY WordAssumption DEF Inv, TypeOK
    <2>3. acc = IF exact > ULONG_MAX THEN ULONG_MAX
                ELSE IF neg /\ exact # 0 THEN ULONG_MAX + 1 - exact ELSE exact
        BY DEF Inv, ResultExact
    <2>4. ASSUME ~(exact > ULONG_MAX), exact # 0
          PROVE  (ULONG_MAX + 1 - exact) % (ULONG_MAX + 1) = ULONG_MAX + 1 - exact
        <3>1. ULONG_MAX + 1 - exact \in 0 .. ULONG_MAX
            BY <2>2, <2>4
        <3> QED
            BY <3>1, FitsWord, Zenon
    <2>5. (ULONG_MAX + 1 - 0) % (ULONG_MAX + 1) = 0
        <3> DEFINE w == ULONG_MAX + 1
        <3>1. w \in Nat \ {0}
            BY <2>2
        <3> HIDE DEF w
        <3>2. (w - 0) % w = 0
            BY <3>1
        <3>3. ULONG_MAX + 1 - 0 = w - 0
            BY <2>2 DEF w
        <3>4. w = ULONG_MAX + 1
            BY DEF w
        <3> QED
            BY <3>2, <3>3, <3>4, Zenon
    <2>6. CASE n.sign = <<"-">>
        <3>1. CASE exact = 0
            BY <2>1, <2>3, <2>5, <2>6, <3>1, Zenon
        <3>2. CASE exact # 0
            BY <2>1, <2>3, <2>4, <2>6, <3>2, Zenon
        <3> QED
            BY <3>1, <3>2
    <2>7. CASE n.sign # <<"-">>
        BY <2>1, <2>3, <2>7, Zenon
    <2> QED
        BY <2>6, <2>7
<1> QED
    BY <1>1, InitHolds, NextHolds, NumeralInit, NumeralNext, PTL DEF Spec
=============================================================================
