-------------------------------- MODULE MCLzss --------------------------------
(***************************************************************************)
(* Bytes of two bits: a ring of 8 bytes, matches of 2 or 3.  All short     *)
(* streams cut at every byte, and longer ones that go round the ring; and  *)
(* all streams of up to five bytes, whatever they were made from.          *)
(***************************************************************************)
EXTENDS Lzss

Literals == {Literal_(1), Literal_(2)}

Matches(distances) == {Match_(d, n) : d \in distances, n \in {2, 3}}

Upto(n, S) == UNION {[1 .. m -> S] : m \in 0 .. n}

Cut(items) == {[packs |-> {items}, bytes |-> SubSeq(Encoded(items), 1, n)] :
                n \in 0 .. Len(Encoded(items))}

MCStreams ==
    UNION {Cut(items) : items \in Upto(3, Literals \cup Matches({1, 2, 7, 8}))} \cup
    {[packs |-> {items}, bytes |-> Encoded(items)] :
        items \in [1 .. 5 -> {Literal_(1), Match_(1, 3), Match_(3, 2), Match_(8, 3)}]} \cup
    {[packs |-> {}, bytes |-> b] : b \in Upto(5, Byte)}
=============================================================================
