------------------------------- MODULE MCImage3 -------------------------------
(***************************************************************************)
(* Images of up to three tags, and buffers whose sizes do not agree.       *)
(***************************************************************************)
EXTENDS Image3

T(type_, total) == [type |-> type_, total_length |-> total, data_length |-> 1]

Second(first, t) == [o \in {HeaderSize, HeaderSize + first} |-> IF o = HeaderSize THEN T("a", first) ELSE t]

MCBuffers ==
    {[magic |-> m, full_size |-> size, unpacked_size |-> 0, tags |-> Second(first, T(type_, total))] :
        m \in BOOLEAN, size \in {4, 8, 10, 12}, first \in {2, 4}, type_ \in Types, total \in {0, 3, 4}}
=============================================================================
