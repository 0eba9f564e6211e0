-------------------------------- MODULE MCJsdt --------------------------------
(***************************************************************************)
(* Documents for TLC: well-formed ones of up to three levels, and          *)
(* some of them with one lexeme removed, replaced or inserted.             *)
(***************************************************************************)
EXTENDS Jsdt

Object(entries) == <<"{">> \o entries \o <<"}">>

DataEntries == {<<"S", "S">>, <<"S", ",", "P">>, <<"S", "[", "]">>, <<"S", "[", "S", ",", "P", "]">>}

ChildEntry(children) == <<"@", "[">> \o children \o <<"]">>

Leaves == {Object(e) : e \in {<<>>, <<"S", "P">>, <<"S", "[", "P", "S", "]">>, <<"@", "[", "]">>}}

Pairs == {a \o <<",">> \o b : a \in Leaves, b \in {Object(<<>>), Object(<<"S", "P">>)}}

Parents ==
    {Object(ChildEntry(c)) : c \in Leaves \cup Pairs} \cup
    {Object(d \o ChildEntry(c)) : d \in DataEntries, c \in Leaves}

WellFormedDocs ==
    {Object(d) : d \in DataEntries} \cup
    {Object(ChildEntry(<<"{", "}">>) \o d) : d \in DataEntries} \cup
    Leaves \cup Parents \cup
    {Object(ChildEntry(Object(ChildEntry(c)))) : c \in Leaves}

Changed(docs, lexemes) ==
    UNION {{RemoveAt(d, k) : k \in DOMAIN d} : d \in docs} \cup
    UNION {{ReplaceAt(d, k, c) : k \in DOMAIN d, c \in lexemes} : d \in docs}

AllDocs ==
    {<<>>, <<",">>, Object(ChildEntry(Object(<<"S">>)) \o <<"S">>)} \cup
    WellFormedDocs \cup
    Changed(WellFormedDocs, {"{", "]", "S", "@"}) \cup
    Changed(Leaves, Lexemes) \cup
    UNION {{InsertAt(d, k, c) : k \in 1 .. Len(d) + 1, c \in Lexemes} : d \in Leaves}
=============================================================================
