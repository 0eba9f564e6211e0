----------------------------- MODULE Image3Proofs -----------------------------
(***************************************************************************)
(* Proofs about Image3, for all sizes of headers and tags and any number   *)
(* of tags.                                                                *)
(***************************************************************************)
EXTENDS Image3, TLAPS

(***************************************************************************)
(* The strengthening.  image3_find_tag trusts total_length to lead from    *)
(* tag to tag: every tag ends where another starts or at the end, none     *)
(* starts inside another, and what the walk has passed is not of the type. *)
(***************************************************************************)
Tag == [type : Types, total_length : Nat, data_length : Nat]

TagEnd(o) == o + head.tags[o].total_length

Chain ==
    /\ head.full_size \in Nat
    /\ head.unpacked_size \in Nat
    /\ head.full_size = HeaderSize + head.unpacked_size
    /\ DOMAIN head.tags \subseteq Nat
    /\ HeaderSize \in DOMAIN head.tags \cup {head.full_size}
    /\ \A o \in DOMAIN head.tags :
          /\ head.tags[o] \in Tag
          /\ head.tags[o].total_length = TagSize + head.tags[o].data_length
          /\ HeaderSize <= o
          /\ TagEnd(o) \in DOMAIN head.tags \cup {head.full_size}
          /\ TagEnd(o) <= head.full_size
    /\ \A o, p \in DOMAIN head.tags : o < p => TagEnd(o) <= p
    /\ \A a \in HeaderSize .. (head.full_size - 1) :
          \E o \in DOMAIN head.tags : o <= a /\ a < TagEnd(o)

Passed ==
    /\ tag \in DOMAIN head.tags \cup {head.full_size}
    /\ \A o \in DOMAIN head.tags : o < tag => head.tags[o].type # type

Walk ==
    /\ find \in {"running", "found"} => Passed
    /\ find = "found" => tag \in DOMAIN head.tags /\ head.tags[tag].type = type
    /\ find = "undefined" => Passed /\ tag = head.full_size
    /\ find # "NULL"

Sound == built => Chain /\ Walk

-----------------------------------------------------------------------------
(* A tag of a chain, in numbers. *)
LEMMA TagFacts ==
    ASSUME Chain, NEW o \in DOMAIN head.tags
    PROVE  /\ o \in Nat /\ head.tags[o] \in Tag
           /\ head.tags[o].total_length \in Nat
           /\ head.tags[o].data_length \in Nat
           /\ TagEnd(o) \in Nat
           /\ HeaderSize <= o
           /\ o + TagSize <= TagEnd(o) /\ TagEnd(o) <= head.full_size
           /\ TagBytes(o) = o .. (TagEnd(o) - 1)
<1>1. /\ o \in Nat /\ head.tags[o] \in Tag
      /\ head.tags[o].total_length = TagSize + head.tags[o].data_length
      /\ HeaderSize <= o /\ TagEnd(o) <= head.full_size
    BY DEF Chain
<1>2. /\ head.tags[o].total_length \in Nat /\ head.tags[o].data_length \in Nat
      /\ TagSize \in Nat
    BY <1>1, SizesAssumption DEF Tag
<1>3. TagEnd(o) = o + head.tags[o].total_length
    BY DEF TagEnd
<1>4. TagBytes(o) = o .. (TagEnd(o) - 1)
    <2>1. o + TagSize + head.tags[o].data_length - 1 = TagEnd(o) - 1
        BY <1>1, <1>2, <1>3
    <2> QED
        BY <2>1 DEF TagBytes
<1> QED
    BY <1>1, <1>2, <1>3, <1>4

(* An image without tags ends behind its header. *)
LEMMA NewSound ==
    ASSUME image3_new
    PROVE  Sound'
<1>1. /\ head'.full_size = HeaderSize /\ head'.unpacked_size = 0
      /\ head'.tags = <<>> /\ find' = "none"
    BY DEF image3_new, Null
<1>2. DOMAIN head'.tags = {}
    BY <1>1
<1>3. Chain'
    BY <1>1, <1>2, SizesAssumption DEF Chain, TagEnd
<1>4. Walk'
    BY <1>1 DEF Walk
<1> QED
    BY <1>3, <1>4 DEF Sound

(* A tag goes where the last one ends, and ends where the image now does.  *)
LEMMA ReserveSound ==
    ASSUME Sound, NEW type_ \in Types, NEW data_length \in Lengths,
           image3_reserve_tag(type_, data_length)
    PROVE  Sound'
<1> DEFINE len == total_length(data_length)
           end == head.full_size
           T == DOMAIN head.tags
<1>1. /\ built /\ find' = "none"
      /\ head'.tags = [o \in T \cup {end} |->
                        IF o = end
                        THEN [type |-> type_, total_length |-> len, data_length |-> data_length]
                        ELSE head.tags[o]]
      /\ head'.full_size = end + len
      /\ head'.unpacked_size = head.unpacked_size + len
    <2>1. DEFINE new == [o \in T \cup {end} |->
                        IF o = end
                        THEN [type |-> type_, total_length |-> len, data_length |-> data_length]
                        ELSE head.tags[o]]
    <2>2. head' = [head EXCEPT !.tags = new, !.full_size = @ + len,
                               !.unpacked_size = @ + len]
        BY DEF image3_reserve_tag
    <2> HIDE DEF new
    <2> QED
        BY <2>2 DEF image3_reserve_tag, new
<1>2. Chain
    BY <1>1 DEF Sound
<1>3. /\ HeaderSize \in Nat \ {0} /\ TagSize \in Nat \ {0} /\ data_length \in Nat
      /\ len = TagSize + data_length /\ len \in Nat \ {0}
      /\ end \in Nat /\ HeaderSize <= end /\ T \subseteq Nat
    BY <1>2, SizesAssumption DEF Chain, total_length
<1>4. \A o \in T :
        o \in Nat /\ head.tags[o] \in Tag /\ o < TagEnd(o) /\ TagEnd(o) <= end
    BY <1>2, <1>3, TagFacts
<1>5. end \notin T
    <2>1. \A o \in T : TagEnd(o) \in Nat
        BY <1>2, TagFacts
    <2> QED
        BY <1>3, <1>4, <2>1
<1> HIDE DEF len, end, T
<1>6. /\ DOMAIN head'.tags = T \cup {end}
      /\ \A o \in T : head'.tags[o] = head.tags[o]
      /\ head'.tags[end]
            = [type |-> type_, total_length |-> len, data_length |-> data_length]
    BY <1>1, <1>5
<1>7. /\ \A o \in T : TagEnd(o)' = TagEnd(o)
      /\ \A o : o = end => TagEnd(o)' = end + len
    BY <1>6 DEF TagEnd
<1>8. Chain'
    <2>1. /\ head'.full_size \in Nat /\ head'.unpacked_size \in Nat
          /\ head'.full_size = HeaderSize + head'.unpacked_size
          /\ DOMAIN head'.tags \subseteq Nat
        <3>1. end = HeaderSize + head.unpacked_size /\ head.unpacked_size \in Nat
            BY <1>2 DEF Chain, end
        <3>2. DOMAIN head'.tags \subseteq Nat
            BY <1>3, <1>6
        <3>3. /\ end + len \in Nat /\ head.unpacked_size + len \in Nat
              /\ end + len = HeaderSize + (head.unpacked_size + len)
            BY <1>3, <3>1
        <3> QED
            BY <1>1, <3>2, <3>3
    <2>2. HeaderSize \in DOMAIN head'.tags
        BY <1>2, <1>6 DEF Chain, end, T
    <2>3. ASSUME NEW o \in DOMAIN head'.tags
          PROVE  /\ head'.tags[o] \in Tag
                 /\ head'.tags[o].total_length = TagSize + head'.tags[o].data_length
                 /\ HeaderSize <= o
                 /\ TagEnd(o)' \in DOMAIN head'.tags \cup {head'.full_size}
                 /\ TagEnd(o)' <= head'.full_size
        <3>1. CASE o \in T
            <4>1. /\ head.tags[o].total_length = TagSize + head.tags[o].data_length
                  /\ HeaderSize <= o /\ TagEnd(o) \in T \cup {end}
                BY <1>2, <3>1 DEF Chain, T, end
            <4>2. TagEnd(o) \in Nat /\ TagEnd(o) <= end + len
                <5>1. TagEnd(o) \in Nat /\ TagEnd(o) <= end
                    BY <1>2, <1>4, <3>1, TagFacts DEF T
                <5> QED
                    BY <1>3, <5>1
            <4> QED
                BY <1>1, <1>4, <1>6, <1>7, <3>1, <4>1, <4>2
        <3>2. CASE o = end
            BY <1>1, <1>3, <1>6, <1>7, <3>2 DEF Tag
        <3> QED
            BY <1>6, <2>3, <3>1, <3>2
    <2>4. ASSUME NEW o \in DOMAIN head'.tags, NEW p \in DOMAIN head'.tags, o < p
          PROVE  TagEnd(o)' <= p
        <3>1. CASE o \in T /\ p \in T
            BY <1>2, <1>7, <2>4, <3>1 DEF Chain, T
        <3>2. CASE o \in T /\ p = end
            BY <1>4, <1>7, <3>2
        <3>3. CASE o = end
            <4>1. p \in T => p < end
                <5>1. ASSUME p \in T PROVE p < end
                    <6>1. p \in Nat /\ TagEnd(p) \in Nat
                        BY <1>2, <5>1, TagFacts DEF T
                    <6> QED
                        BY <1>3, <1>4, <5>1, <6>1
                <5> QED
                    BY <5>1
            <4>2. p \in T \/ p = end
                BY <1>6, <2>4
            <4>3. p \in Nat /\ end \in Nat
                BY <1>3, <1>4, <4>2
            <4>4. end < p
                BY <2>4, <3>3
            <4> QED
                BY <4>1, <4>2, <4>3, <4>4
        <3> QED
            BY <1>6, <2>4, <3>1, <3>2, <3>3
    <2>5. ASSUME NEW a \in HeaderSize .. (head'.full_size - 1)
          PROVE  \E o \in DOMAIN head'.tags : o <= a /\ a < TagEnd(o)'
        <3>1. CASE a < end
            <4>1. a \in HeaderSize .. (end - 1)
                BY <1>3, <2>5, <3>1
            <4>2. \E o \in T : o <= a /\ a < TagEnd(o)
                BY <1>2, <4>1 DEF Chain, T, end
            <4> QED
                BY <1>6, <1>7, <4>2
        <3>2. CASE ~(a < end)
            BY <1>1, <1>3, <1>6, <1>7, <2>5, <3>2
        <3> QED
            BY <3>1, <3>2
    <2> QED
        BY <2>1, <2>2, <2>3, <2>4, <2>5 DEF Chain
<1>9. Walk'
    BY <1>1 DEF Walk
<1> QED
    BY <1>8, <1>9 DEF Sound

(* One step of the walk: it passes a tag of another type, and nothing      *)
(* starts between that tag and where it ends.                              *)
LEMMA WalkSound ==
    ASSUME Sound, walk
    PROVE  Sound'
<1> SUFFICES ASSUME built' PROVE Chain' /\ Walk'
    BY DEF Sound
<1>1. /\ built /\ UNCHANGED <<head, type>> /\ find = "running"
      /\ Chain /\ Passed
    BY DEF Sound, walk, TagFound, NextTag, NoTag, Walk
<1>2. Chain'
    BY <1>1 DEF Chain, TagEnd
<1>3. HeaderSize \in Nat \ {0} /\ TagSize \in Nat \ {0} /\ head.full_size \in Nat
    BY <1>1, SizesAssumption DEF Chain
<1>4. \A o \in DOMAIN head.tags :
        /\ o \in Nat /\ head.tags[o].total_length \in Nat
        /\ o + TagSize <= TagEnd(o) /\ TagEnd(o) <= head.full_size
    BY <1>1, TagFacts
<1>5. tag \in DOMAIN head.tags <=> IsTag(tag)
    BY <1>3, <1>4 DEF IsTag, TagEnd
<1>6. CASE TagFound
    <2>1. /\ find' = "found" /\ tag' = tag /\ tag \in DOMAIN head.tags
          /\ head.tags[tag].type = type
        BY <1>5, <1>6 DEF TagFound
    <2> QED
        BY <1>1, <1>2, <2>1 DEF Walk, Passed
<1>7. CASE NextTag
    <2>1. tag \in DOMAIN head.tags /\ tag' = TagEnd(tag) /\ head.tags[tag].type # type
        BY <1>5, <1>7 DEF NextTag, TagEnd
    <2>2. tag' \in DOMAIN head.tags \cup {head.full_size} /\ tag' <= head.full_size
        BY <1>1, <2>1 DEF Chain
    <2>3. find' = "running"
        <3>1. tag' \in Nat
            BY <1>3, <1>4, <2>2
        <3> QED
            BY <1>3, <1>7, <2>2, <3>1 DEF NextTag, PastEnd
    <2>4. ASSUME NEW o \in DOMAIN head.tags, o < tag'
          PROVE  head.tags[o].type # type
        <3>1. CASE o < tag
            BY <1>1, <3>1 DEF Passed
        <3>2. CASE o = tag
            BY <2>1, <3>2
        <3>3. CASE tag < o
            <4>1. TagEnd(tag) <= o
                BY <1>1, <2>1, <3>3 DEF Chain
            <4> QED
                BY <1>3, <1>4, <2>1, <2>2, <2>4, <4>1
        <3> QED
            BY <1>4, <2>1, <3>1, <3>2, <3>3
    <2> QED
        BY <1>1, <1>2, <2>2, <2>3, <2>4 DEF Walk, Passed
<1>8. CASE NoTag
    <2>1. tag = head.full_size /\ tag' = tag /\ find' = "undefined"
        BY <1>1, <1>5, <1>8 DEF NoTag, Passed
    <2> QED
        BY <1>1, <1>2, <2>1 DEF Walk, Passed
<1> QED
    BY <1>6, <1>7, <1>8 DEF walk

(* Whatever a client calls, in whatever order. *)
LEMMA SoundStep ==
    ASSUME Sound, [Next]_vars
    PROVE  Sound'
<1>1. CASE image3_new
    BY <1>1, NewSound
<1>2. CASE \E buffer \in Buffers : image3_from_buffer(buffer)
    BY <1>2 DEF image3_from_buffer, Sound
<1>3. CASE \E type_ \in Types, data_length \in Lengths :
                image3_reserve_tag(type_, data_length)
    BY <1>3, ReserveSound
<1>4. CASE ReserveInBuffer
    BY <1>4 DEF ReserveInBuffer, Sound
<1>5. CASE \E type_ \in Types : image3_find_tag(type_)
    <2>1. /\ UNCHANGED <<head, built>> /\ tag' = HeaderSize /\ find' = "running"
        BY <1>5 DEF image3_find_tag
    <2> SUFFICES ASSUME built PROVE Chain' /\ Walk'
        BY <2>1 DEF Sound
    <2>2. Chain /\ Chain'
        BY <2>1 DEF Sound, Chain, TagEnd
    <2>3. Passed'
        <3>1. \A o \in DOMAIN head.tags : o \in Nat /\ HeaderSize <= o
            BY <2>2 DEF Chain
        <3>2. HeaderSize \in Nat
            BY SizesAssumption
        <3> QED
            BY <2>1, <2>2, <3>1, <3>2 DEF Passed, Chain
    <2> QED
        BY <2>1, <2>2, <2>3 DEF Walk
<1>6. CASE walk
    BY <1>6, WalkSound
<1>7. CASE UNCHANGED vars
    BY <1>7 DEF vars, Sound, Chain, Walk, Passed, TagEnd
<1> QED
    BY <1>1, <1>2, <1>3, <1>4, <1>5, <1>6, <1>7 DEF Next

(* Every image that was built is a chain of tags, and the walk over it has *)
(* passed no tag of the type it looks for.                                 *)
THEOREM ChainCorrect == Spec => []Sound
<1>1. Init => Sound
    BY DEF Init, Sound
<1> QED
    BY <1>1, SoundStep, PTL DEF Spec

(* image3_reserve_tag lays the tags end to end, and the sizes it writes to *)
(* the header are those of the tags.                                       *)
THEOREM TagsStayChained == Spec => []TagsChained
<1>1. ASSUME Sound PROVE TagsChained
    <2> SUFFICES ASSUME built PROVE
            /\ head.full_size = HeaderSize + head.unpacked_size
            /\ UNION {TagBytes(o) : o \in DOMAIN head.tags}
                  = HeaderSize .. (head.full_size - 1)
            /\ \A o, p \in DOMAIN head.tags :
                  o # p => TagBytes(o) \cap TagBytes(p) = {}
        BY DEF TagsChained
    <2>1. Chain /\ HeaderSize \in Nat /\ TagSize \in Nat
        BY <1>1, SizesAssumption DEF Sound
    <2>2. \A o \in DOMAIN head.tags :
            /\ o \in Nat /\ TagEnd(o) \in Nat
            /\ HeaderSize <= o /\ TagEnd(o) <= head.full_size
            /\ TagBytes(o) = o .. (TagEnd(o) - 1)
        BY <2>1, TagFacts
    <2>3. ASSUME NEW a
          PROVE  a \in UNION {TagBytes(o) : o \in DOMAIN head.tags}
                    <=> a \in HeaderSize .. (head.full_size - 1)
        <3>1. ASSUME NEW o \in DOMAIN head.tags, a \in TagBytes(o)
              PROVE  a \in HeaderSize .. (head.full_size - 1)
            BY <2>1, <2>2, <3>1 DEF Chain
        <3>2. ASSUME a \in HeaderSize .. (head.full_size - 1)
              PROVE  \E o \in DOMAIN head.tags : a \in TagBytes(o)
            <4>1. PICK o \in DOMAIN head.tags : o <= a /\ a < TagEnd(o)
                BY <2>1, <3>2 DEF Chain
            <4>2. a \in Int
                BY <3>2
            <4> QED
                BY <2>2, <4>1, <4>2
        <3> QED
            BY <3>1, <3>2
    <2>4. UNION {TagBytes(o) : o \in DOMAIN head.tags}
            = HeaderSize .. (head.full_size - 1)
        BY <2>3, Zenon
    <2>5. ASSUME NEW o \in DOMAIN head.tags, NEW p \in DOMAIN head.tags, o # p
          PROVE  TagBytes(o) \cap TagBytes(p) = {}
        <3>1. TagEnd(o) <= p \/ TagEnd(p) <= o
            BY <2>1, <2>2, <2>5 DEF Chain
        <3> QED
            BY <2>2, <3>1
    <2> QED
        BY <2>1, <2>4, <2>5 DEF Chain
<1> QED
    BY <1>1, ChainCorrect, PTL

(* image3_find_tag answers the first tag of a type in what was built.      *)
(* Without such a tag it reads a header behind the image, and never says   *)
(* that there is none.                                                     *)
THEOREM FindIsExact == Spec => []FindExact
<1>1. ASSUME Sound PROVE FindExact
    <2> DEFINE those == {o \in DOMAIN head.tags : head.tags[o].type = type}
    <2> SUFFICES ASSUME built PROVE
            /\ find = "found" => those # {} /\ tag = Min(those)
            /\ find = "undefined" => those = {} /\ tag = head.full_size
            /\ find # "NULL"
        BY DEF FindExact
    <2>1. Chain /\ Walk /\ TagSize \in Nat \ {0} /\ HeaderSize \in Nat
        BY <1>1, SizesAssumption DEF Sound
    <2>2. ASSUME find = "found" PROVE those # {} /\ tag = Min(those)
        <3>1. tag \in those /\ \A o \in those : ~(o < tag)
            BY <2>1, <2>2 DEF Walk, Passed
        <3>2. those \subseteq Nat
            BY <2>1 DEF Chain
        <3>3. \A o \in those : tag <= o
            BY <3>1, <3>2
        <3> HIDE DEF those
        <3>4. \A x \in those : (\A y \in those : x <= y) => x = tag
            BY <3>1, <3>2, <3>3
        <3>5. Min(those) = tag
            BY <3>1, <3>3, <3>4 DEF Min
        <3> QED
            BY <3>1, <3>5
    <2>3. ASSUME find = "undefined" PROVE those = {} /\ tag = head.full_size
        <3>1. Passed /\ tag = head.full_size
            BY <2>1, <2>3 DEF Walk
        <3>2. \A o \in DOMAIN head.tags : o < head.full_size
            <4>1. \A o \in DOMAIN head.tags :
                    /\ o \in Nat /\ TagEnd(o) \in Nat /\ head.full_size \in Nat
                    /\ o + TagSize <= TagEnd(o) /\ TagEnd(o) <= head.full_size
                BY <2>1, TagFacts DEF Chain
            <4> QED
                BY <2>1, <4>1
        <3> QED
            BY <3>1, <3>2 DEF Passed
    <2>4. find # "NULL"
        BY <2>1 DEF Walk
    <2> QED
        BY <2>2, <2>3, <2>4
<1> QED
    BY <1>1, ChainCorrect, PTL
=============================================================================
