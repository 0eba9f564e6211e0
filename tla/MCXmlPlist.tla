------------------------------ MODULE MCXmlPlist ------------------------------
(***************************************************************************)
(* Well-formed documents of up to three levels, and all that are one item  *)
(* away from a few of them.                                                *)
(***************************************************************************)
EXTENDS XmlDeviceTree

One == <<"integer", "1">>
A == <<"string", "a">>
B == <<"string", "b">>
Array(elements) == <<"array", elements>>
Children(dicts) == <<"@", <<"children", dicts>>>>

Scalars == {One, A}

Values == Scalars \cup {<<"data", "a">>, <<"true", "">>, Array(<<One>>), Array(<<A, One>>)}

Leaves == {<<>>} \cup {<< <<"a", v>> >> : v \in Values}

Siblings == {<<>>, << <<"b", A>> >>, << <<"a", Array(<<B, A>>)>> >>}

Parents ==
    {<<Children(<<c>>)>> : c \in Leaves} \cup
    {<<Children(<<c, d>>), <<"b", v>> >> : c \in Siblings, d \in Siblings, v \in Scalars}

MCDictionaries ==
    Leaves \cup Parents \cup
    {<< <<"a", v>>, <<"b", w>> >> : v \in Scalars, w \in Scalars} \cup
    {<< <<"b", One>>, Children(<<p>>) >> : p \in Parents}

Changed ==
    LET few == {TextOf(d) : d \in {<<>>, << <<"a", One>> >>, << <<"a", Array(<<A, One>>)>> >>,
                                   <<Children(<< <<>> >>), <<"a", B>> >>}}
        items == {[text |-> "", tag |-> t] : t \in {"dict", "dict/", "array", "array/", "key",
                                                    "string", "integer"}} \cup
                 {[text |-> "a", tag |-> t] : t \in {"/dict", "/key", "!--"}}
    IN  UNION {{RemoveAt(t, k) : k \in DOMAIN t} : t \in few} \cup
        UNION {{ReplaceAt(t, k, i) : k \in DOMAIN t, i \in items} : t \in few} \cup
        UNION {{InsertAt(t, k, i) : k \in 1 .. Len(t) + 1, i \in items} : t \in few}

Prologue == Item("", "?xml") \o Item("", "plist")

Described == {Document(d) : d \in MCDictionaries}

MCDocs ==
    Described \cup
    {[items |-> c, says |-> UNION {d.says : d \in {e \in Described : e.items = c}}] : c \in Changed} \cup
    {[items |-> Prologue \o d.items, says |-> d.says] : d \in {Document(l) : l \in Leaves}} \cup
    {[items |-> Prologue \o Element("string", "a") \o TextOf(<<>>), says |-> {TreeOf(<<>>)}]}

(* One with a symbol twice, one that is larger, one that ends early. *)
MCLaterDocs ==
    {Document(<< <<"a", A>> >>), Document(<<Children(<< <<>>, << <<"b", One>> >> >>)>>),
     [items |-> Front(TextOf(<< <<"b", A>> >>)), says |-> {}]}
=============================================================================
