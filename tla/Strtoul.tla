------------------------------- MODULE Strtoul -------------------------------
(***************************************************************************)
(* strtoul (main/strol.c), which reads the numbers of both kinds of device *)
(* tree.  One character is read per step.  Both parsers call it with base  *)
(* 0 and no endptr.                                                        *)
(***************************************************************************)
EXTENDS Integers, Sequences, SequencesExt

CONSTANTS
    ULONG_MAX,
    Texts       \* the characters before the NUL, the base they are read in
                \* and, as a set of at most one, the numeral they begin with,
                \* see IsNumeral

Bases == {0, 2, 8, 10, 16}

ASSUME WordAssumption == ULONG_MAX \in Nat /\ ULONG_MAX >= 16

(* Digits and letters, as many as tell the bases apart. *)
DigitValue ==
    [c \in {"0", "1", "2", "3", "7", "9", "b", "f", "x"} |->
        CASE c = "0" -> 0 [] c = "1" -> 1 [] c = "2" -> 2 [] c = "3" -> 3 [] c = "7" -> 7
          [] c = "9" -> 9 [] c = "b" -> 11 [] c = "f" -> 15 [] c = "x" -> 33]

IsDigitOf(c, b) == c \in DOMAIN DigitValue /\ DigitValue[c] < b

(* The numbers the first 0, 1, 2 ... of some digits stand for. *)
Values(digits, b) ==
    LET value[k \in 0 .. Len(digits)] ==
            IF k = 0 THEN 0 ELSE value[k - 1] * b + DigitValue[digits[k]]
    IN  value

ValueOf(n) == Values(n.digits, n.base)[Len(n.digits)]

(* A numeral, with the blanks before it and what follows it: the digits of *)
(* its base, as many as there are, behind a prefix if the base it is read  *)
(* in leaves that open.  There a lone 0 is octal, a decimal numeral begins *)
(* with another digit, and what looks like a prefix is one.                *)
IsNumeral(n, t) ==
    LET number == n.prefix \o n.digits \o n.tail
    IN  /\ t.chars = n.blanks \o n.sign \o number
        /\ n.blanks \in Seq({" "})
        /\ n.sign \in {<<>>, <<"-">>, <<"+">>}
        /\ n.digits \in Seq({c \in DOMAIN DigitValue : IsDigitOf(c, n.base)})
        /\ n.tail \in Seq(STRING)
        /\ n.tail # <<>> => ~IsDigitOf(n.tail[1], n.base)
        /\ n.digits = <<>> => n.prefix = <<"0">>
        /\ \/ n.prefix = <<"0", "x">> /\ n.base = 16 /\ t.base \in {0, 16}
           \/ n.prefix = <<"0", "b">> /\ n.base = 2 /\ t.base \in {0, 2}
           \/ n.prefix = <<"0">> /\ n.base = 8 /\ t.base \in {0, 8}
           \/ n.prefix = <<>> /\ n.base = t.base
           \/ n.prefix = <<>> /\ n.base = 10 /\ t.base = 0 /\ n.digits[1] # "0"
        /\ IsPrefix(<<"0", "x">>, number) /\ t.base \in {0, 16} => n.prefix = <<"0", "x">>
        /\ IsPrefix(<<"0", "b">>, number) /\ t.base \in {0, 2} => n.prefix = <<"0", "b">>

ASSUME TextsAssumption ==
    \A t \in Texts :
        /\ t.base \in Bases
        /\ \A n \in t.says : n.base # 0 /\ IsNumeral(n, t)

VARIABLES
    nptr,       \* the text
    says,       \* the numeral it was made from
    s,          \* the characters read
    base,       \* as given, then as found out
    neg,        \* a '-' was read
    acc,        \* the number so far
    any,        \* 1 after a digit, -1 after an overflow
    exact,      \* history: the number the digits so far stand for
    pc          \* "space", "prefix", "digits" or "done"

vars == <<nptr, says, s, base, neg, acc, any, exact, pc>>

Init ==
    /\ \E t \in Texts : nptr = t.chars /\ base = t.base /\ says = t.says
    /\ s = 0
    /\ neg = FALSE
    /\ acc = 0
    /\ any = 0
    /\ exact = 0
    /\ pc = "space"

-----------------------------------------------------------------------------
(* The character n behind the next one, "NUL" at the end. *)
char(n) == IF s + n < Len(nptr) THEN nptr[s + n + 1] ELSE "NUL"

isspace(c) == c = " "

SkipSpace ==
    /\ pc = "space"
    /\ isspace(char(0))
    /\ s' = s + 1
    /\ UNCHANGED <<nptr, says, base, neg, acc, any, exact, pc>>

(* One sign, or none. *)
ReadSign ==
    /\ pc = "space"
    /\ ~isspace(char(0))
    /\ neg' = (char(0) = "-")
    /\ s' = IF char(0) \in {"-", "+"} THEN s + 1 ELSE s
    /\ pc' = "prefix"
    /\ UNCHANGED <<nptr, says, base, acc, any, exact>>

(* Mutant: "0b" is always a prefix. *)
prefix_AnyBase ==
    IF base \in {0, 16} /\ char(0) = "0" /\ char(1) = "x" THEN 16
    ELSE IF char(0) = "0" /\ char(1) = "b" THEN 2
    ELSE 0

(* The base of a "0x" or "0b", which base 16 and base 2 allow for; 0 for   *)
(* none.                                                                   *)
prefix ==
    IF base \in {0, 16} /\ char(0) = "0" /\ char(1) = "x" THEN 16
    ELSE IF base \in {0, 2} /\ char(0) = "0" /\ char(1) = "b" THEN 2
    ELSE 0

ReadPrefix ==
    /\ pc = "prefix"
    /\ s' = IF prefix # 0 THEN s + 2 ELSE s
    /\ base' = IF prefix # 0 THEN prefix
               ELSE IF base # 0 THEN base
               ELSE IF char(0) = "0" THEN 8 ELSE 10
    /\ pc' = "digits"
    /\ UNCHANGED <<nptr, says, neg, acc, any, exact>>

cutoff == ULONG_MAX \div base
cutlim == ULONG_MAX % base

(* Mutant: the last digit is not compared. *)
overflows_NoLimit(c) == any < 0 \/ acc > cutoff

(* Once over the limit, always. *)
overflows(c) == any < 0 \/ acc > cutoff \/ (acc = cutoff /\ c > cutlim)

ReadDigit ==
    /\ pc = "digits"
    /\ IsDigitOf(char(0), base)
    /\ LET c == DigitValue[char(0)]
       IN  /\ IF overflows(c)
              THEN any' = -1 /\ UNCHANGED acc
              ELSE any' = 1 /\ acc' = (acc * base + c) % (ULONG_MAX + 1)
           /\ exact' = exact * base + c
    /\ s' = s + 1
    /\ UNCHANGED <<nptr, says, base, neg, pc>>

(* Any other character ends the number, a digit too large among them.      *)
NumberEnds ==
    /\ pc = "digits"
    /\ ~IsDigitOf(char(0), base)
    /\ acc' = IF any < 0 THEN ULONG_MAX
              ELSE IF neg /\ acc # 0 THEN ULONG_MAX + 1 - acc
              ELSE acc
    /\ pc' = "done"
    /\ UNCHANGED <<nptr, says, s, base, neg, any, exact>>

Next == SkipSpace \/ ReadSign \/ ReadPrefix \/ ReadDigit \/ NumberEnds

Spec == Init /\ [][Next]_vars

-----------------------------------------------------------------------------
(* Every variable keeps its type; a number is read in a base.              *)
TypeOK ==
    /\ s \in Nat
    /\ base \in Bases
    /\ pc \in {"digits", "done"} => base # 0
    /\ neg \in BOOLEAN
    /\ acc \in 0 .. ULONG_MAX
    /\ any \in {-1, 0, 1}
    /\ exact \in Nat
    /\ pc \in {"space", "prefix", "digits", "done"}

(* The test on two parts of the limit is exact in every base: a digit is   *)
(* refused if and only if the number it completes is over ULONG_MAX, and   *)
(* until then no multiplication has wrapped.                               *)
OverflowExact ==
    pc \in {"space", "prefix", "digits"} =>
        IF any < 0 THEN exact > ULONG_MAX ELSE acc = exact

(* The result is the number the digits stand for, its negative modulo the  *)
(* word, or ULONG_MAX.                                                     *)
ResultExact ==
    pc = "done" =>
        acc = IF exact > ULONG_MAX THEN ULONG_MAX
              ELSE IF neg /\ exact # 0 THEN ULONG_MAX + 1 - exact
              ELSE exact

(* A numeral after blanks and a sign, with the prefix of its base, is read *)
(* as the number it stands for, whatever follows it.                       *)
ReadsNumeral ==
    pc = "done" => \A n \in says :
        acc = IF ValueOf(n) > ULONG_MAX THEN ULONG_MAX
              ELSE IF n.sign = <<"-">> THEN (ULONG_MAX + 1 - ValueOf(n)) % (ULONG_MAX + 1)
              ELSE ValueOf(n)
=============================================================================
