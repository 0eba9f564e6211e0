-------------------------------- MODULE Image3 --------------------------------
(***************************************************************************)
(* IMAGE3 containers (image3/image3.c): a header and tags, each of which   *)
(* says how far the next is.  A client builds one tag by tag, or takes a   *)
(* buffer for one, and looks for tags.  Nothing in the sources does.       *)
(*                                                                         *)
(* The bytes of an image are a function from the offsets where a tag       *)
(* header was written to its fields.                                       *)
(***************************************************************************)
EXTENDS Integers, FiniteSetsExt

CONSTANTS
    Types,          \* those of tags
    HeaderSize,     \* sizeof(img3_header_t)
    TagSize,        \* sizeof(img3_tag_t)
    Lengths,        \* the data_length a client asks for
    Buffers,        \* what image3_from_buffer is given
    MaxSize,        \* the bound on full_size of what is built
    MaxCalls        \* the bound on the calls of a run

ASSUME SizesAssumption ==
    /\ HeaderSize \in Nat \ {0} /\ TagSize \in Nat \ {0}
    /\ Lengths \subseteq Nat /\ MaxSize \in Nat /\ MaxCalls \in Nat

VARIABLES
    head,       \* the image, Null before the first
    dynamic,    \* of the context: the image may grow
    built,      \* history: it was made by image3_new
    tag,        \* image3_find_tag: the offset it has come to
    type,       \* what it looks for
    find,       \* "running", "found", "NULL", "undefined" once it has read a
                \* header that is no tag's; "none" if the image is newer,
                \* "halted" once realloc was given a buffer
    calls       \* the calls so far

vars == <<head, dynamic, built, tag, type, find, calls>>

Null == [magic |-> FALSE, full_size |-> 0, unpacked_size |-> 0, tags |-> <<>>]

Init ==
    /\ head = Null
    /\ dynamic = FALSE
    /\ built = FALSE
    /\ tag = 0
    /\ type \in Types
    /\ find = "none"
    /\ calls = 0

-----------------------------------------------------------------------------
Calls ==
    /\ find \notin {"running", "halted"}
    /\ calls < MaxCalls
    /\ calls' = calls + 1

image3_new ==
    /\ Calls
    /\ head' = [Null EXCEPT !.magic = TRUE, !.full_size = HeaderSize]
    /\ dynamic' = TRUE
    /\ built' = TRUE
    /\ find' = "none"
    /\ UNCHANGED <<tag, type>>

(* A buffer without the magic is refused.  The context is the client's and *)
(* its dynamic is not set.                                                 *)
image3_from_buffer(buffer) ==
    /\ Calls
    /\ buffer.magic
    /\ head' = buffer
    /\ dynamic' \in BOOLEAN
    /\ built' = FALSE
    /\ find' = "none"
    /\ UNCHANGED <<tag, type>>

(* Mutant: the tag reaches as far as its data. *)
total_length_NoHeader(data_length) == data_length

total_length(data_length) == data_length + TagSize

(* The new tag goes behind what there is. *)
image3_reserve_tag(type_, data_length) ==
    /\ Calls
    /\ dynamic
    /\ built
    /\ LET len == total_length(data_length)
       IN  /\ head.full_size + len <= MaxSize
           /\ head' = [head EXCEPT
                !.tags = [o \in DOMAIN @ \cup {head.full_size} |->
                            IF o = head.full_size
                            THEN [type |-> type_, total_length |-> len, data_length |-> data_length]
                            ELSE @[o]],
                !.full_size = @ + len,
                !.unpacked_size = @ + len]
    /\ find' = "none"
    /\ UNCHANGED <<dynamic, built, tag, type>>

(* realloc of memory that malloc did not give. *)
ReserveInBuffer ==
    /\ Calls
    /\ dynamic
    /\ ~built
    /\ find' = "halted"
    /\ UNCHANGED <<head, dynamic, built, tag, type>>

-----------------------------------------------------------------------------
image3_find_tag(type_) ==
    /\ Calls
    /\ head # Null
    /\ type' = type_
    /\ tag' = HeaderSize
    /\ find' = "running"
    /\ UNCHANGED <<head, dynamic, built>>

(* A tag's header lies there, whole. *)
IsTag(o) == o \in DOMAIN head.tags /\ o + TagSize <= head.full_size

TagFound ==
    /\ find = "running"
    /\ IsTag(tag)
    /\ head.tags[tag].type = type
    /\ find' = "found"
    /\ UNCHANGED <<head, dynamic, built, tag, type, calls>>

(* Mutant: a tag that reaches the end is taken for it. *)
PastEnd_Early(o) == o + TagSize >= head.full_size

(* "Reached the end" *)
PastEnd(o) == o > head.full_size

NextTag ==
    /\ find = "running"
    /\ IsTag(tag)
    /\ head.tags[tag].type # type
    /\ tag' = tag + head.tags[tag].total_length
    /\ find' = IF PastEnd(tag') THEN "NULL" ELSE "running"
    /\ UNCHANGED <<head, dynamic, built, type, calls>>

(* What the code reads there is whatever the memory holds. *)
NoTag ==
    /\ find = "running"
    /\ ~IsTag(tag)
    /\ find' = "undefined"
    /\ UNCHANGED <<head, dynamic, built, tag, type, calls>>

walk == TagFound \/ NextTag \/ NoTag

Next ==
    \/ image3_new
    \/ \E buffer \in Buffers : image3_from_buffer(buffer)
    \/ \E type_ \in Types, data_length \in Lengths : image3_reserve_tag(type_, data_length)
    \/ ReserveInBuffer
    \/ \E type_ \in Types : image3_find_tag(type_)
    \/ walk

Spec == Init /\ [][Next]_vars

-----------------------------------------------------------------------------
(* The bytes of a tag, its header and its data. *)
TagBytes(o) == o .. (o + TagSize + head.tags[o].data_length - 1)

(* In what was built the tags lie end to end: each byte behind the header  *)
(* belongs to one of them and no byte to two, and the sizes in the header  *)
(* agree with them.                                                        *)
TagsChained ==
    built =>
        /\ head.full_size = HeaderSize + head.unpacked_size
        /\ UNION {TagBytes(o) : o \in DOMAIN head.tags}
              = HeaderSize .. (head.full_size - 1)
        /\ \A o, p \in DOMAIN head.tags : o # p => TagBytes(o) \cap TagBytes(p) = {}

(* In what was built the walk finds the first tag of a type if there is    *)
(* one, and nothing else before the end.  If there is none, it does not    *)
(* say so from what is in the image: the end of the last tag is not past   *)
(* the end, so the walk takes it for one more tag and reads a header       *)
(* behind the image first.                                                 *)
FindExact ==
    LET those == {o \in DOMAIN head.tags : head.tags[o].type = type}
    IN  built =>
        /\ find = "found" => those # {} /\ tag = Min(those)
        /\ find = "undefined" => those = {} /\ tag = head.full_size
        /\ find # "NULL"
=============================================================================
