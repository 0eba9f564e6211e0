------------------------------ MODULE MCStrtoul ------------------------------
(***************************************************************************)
(* Numerals of up to three digits (six in base 2) around a limit of 31,    *)
(* with the heads and tails they may have.                                 *)
(***************************************************************************)
EXTENDS Strtoul

Below(b) == {c \in DOMAIN DigitValue : DigitValue[c] < b}

Upto(n, S) == UNION {[1 .. m -> S] : m \in 1 .. n}

Heads == {<<<<>>, <<>>>>, <<<<" ">>, <<>>>>, <<<<>>, <<"-">>>>, <<<<" ", " ">>, <<"+">>>>}

Numeral(h, pre, digits, b, given, tail) ==
    [chars |-> h[1] \o h[2] \o pre \o digits \o tail, base |-> given,
     says |-> {[blanks |-> h[1], sign |-> h[2], prefix |-> pre, digits |-> digits,
                base |-> b, tail |-> tail]}]

Numerals ==
    {Numeral(h, <<"0", "x">>, d, 16, g, <<>>) : h \in Heads, d \in Upto(3, Below(16)), g \in {0, 16}} \cup
    {Numeral(h, <<>>, d, 16, 16, <<" ">>) : h \in Heads, d \in Upto(3, Below(16))} \cup
    {Numeral(h, <<"0", "b">>, d, 2, g, <<"2">>) : h \in Heads, d \in Upto(6, Below(2)), g \in {0, 2}} \cup
    {Numeral(h, <<"0">>, d, 8, g, <<"9">>) :
        h \in Heads, d \in {<<>>} \cup Upto(3, Below(8)), g \in {0, 8}} \cup
    {Numeral(h, <<>>, d, 10, 10, <<"x">>) : h \in Heads, d \in Upto(3, Below(10))} \cup
    {Numeral(h, <<>>, d, 10, 0, <<"f">>) :
        h \in Heads, d \in {e \in Upto(3, Below(10)) : e[1] # "0"}}

(* Texts that are no numeral. *)
Others ==
    {[chars |-> c, base |-> g, says |-> {}] :
        c \in {<<>>} \cup Upto(3, {" ", "-", "0", "x", "b"}), g \in {0, 2, 16}}

MCTexts == Numerals \cup Others
=============================================================================
