--------------------------------- MODULE Lzss ---------------------------------
(***************************************************************************)
(* decompress_lzss (compressed/lzss.c), by which the loader unpacks        *)
(* compressed Mach-O files.                                                *)
(*                                                                         *)
(* One flag per item, FlagCount flags to a byte: a literal is a byte, a    *)
(* match two, which say where in a ring of the last N bytes it starts and  *)
(* how long it is.                                                         *)
(***************************************************************************)
EXTENDS Integers, Sequences, SequencesExt

CONSTANTS
    FlagCount,      \* the bits of a byte, 8
    ByteValues,     \* 256
    LengthValues,   \* those of the low half of a match's second byte, 16
    THRESHOLD,      \* the longest match that is not worth encoding
    Streams         \* the inputs: bytes and, as a set of at most one, the items
                    \* whose encoding, cut off somewhere, they are

Byte == 0 .. ByteValues - 1

N == ByteValues * (ByteValues \div LengthValues)
F == LengthValues + THRESHOLD

ASSUME SizesAssumption ==
    /\ ByteValues \in Nat /\ LengthValues \in Nat /\ THRESHOLD \in Nat
    /\ LengthValues > 0
    /\ ByteValues % LengthValues = 0
    /\ F < N

-----------------------------------------------------------------------------
(***************************************************************************)
(* What the encoding means, without a ring.  An item is a literal byte or  *)
(* the distance back to the start of a match and its length; before the    *)
(* output come N - F blanks.                                               *)
(***************************************************************************)
Blank == 0      \* ' '
Unset == -1     \* what lies in the part of the ring nothing initializes

Literal_(c) == [byte |-> c, distance |-> 0, length |-> 0]
Match_(d, n) == [byte |-> 0, distance |-> d, length |-> n]

IsLiteral(item) == item.length = 0

Item == {Literal_(c) : c \in Byte} \cup {Match_(d, n) : d \in 1 .. N, n \in THRESHOLD + 1 .. F}

(* The byte d back from the end of an output. *)
Recent(out, d) ==
    IF d <= Len(out) THEN out[Len(out) + 1 - d]
    ELSE IF d - Len(out) <= N - F THEN Blank ELSE Unset

(* An output with the first 0, 1, 2 ... bytes of a match behind it.        *)
Copied(out, d, length) ==
    LET copied[n \in 0 .. length] ==
            IF n = 0 THEN out ELSE Append(copied[n - 1], Recent(copied[n - 1], d))
    IN  copied

(* The output with one item more. *)
Extended(out, item) ==
    IF IsLiteral(item) THEN Append(out, item.byte)
    ELSE Copied(out, item.distance, item.length)[item.length]

(* What the first 0, 1, 2 ... items stand for. *)
Outputs(items) ==
    LET out[n \in 0 .. Len(items)] ==
            IF n = 0 THEN <<>> ELSE Extended(out[n - 1], items[n])
    IN  out

Flag(item) == IF IsLiteral(item) THEN 1 ELSE 0

(* The flags of the items from the first, second ... to the last that      *)
(* shares a byte with it, the first flag in the lowest bit.                *)
Flags(items) ==
    LET from[n \in 1 .. Len(items) + 1] ==
            IF n > Len(items) THEN 0
            ELSE Flag(items[n]) + (IF n % FlagCount = 0 THEN 0 ELSE 2 * from[n + 1])
    IN  from

(* The bytes of an item with an output of length n behind it. *)
ItemBytes(item, n) ==
    LET at == (N - F + n - item.distance) % N
    IN  IF IsLiteral(item) THEN <<item.byte>>
        ELSE <<at % ByteValues,
               (at \div ByteValues) * LengthValues + (item.length - THRESHOLD - 1)>>

(* The encodings of the first 0, 1, 2 ... of some items: a byte of flags   *)
(* before every FlagCount of them.                                         *)
Encodings(items) ==
    LET code[n \in 0 .. Len(items)] ==
            IF n = 0 THEN <<>>
            ELSE code[n - 1]
                 \o (IF (n - 1) % FlagCount = 0 THEN <<Flags(items)[n]>> ELSE <<>>)
                 \o ItemBytes(items[n], Len(Outputs(items)[n - 1]))
    IN  code

Encoded(items) == Encodings(items)[Len(items)]

Powers == LET power[n \in 0 .. FlagCount] == IF n = 0 THEN 1 ELSE 2 * power[n - 1]
          IN  power

ASSUME FlagsAssumption == FlagCount \in Nat \ {0} /\ ByteValues = Powers[FlagCount]

ASSUME StreamsAssumption ==
    \A s \in Streams :
        /\ s.bytes \in Seq(Byte)
        /\ \A items \in s.packs : items \in Seq(Item) /\ IsPrefix(s.bytes, Encoded(items))

VARIABLES
    stream,     \* the input
    src,        \* the bytes read from it
    flags,      \* the flags left, with a mark above them
    i, j, k,    \* of the match being copied
    r,          \* where the ring is written next
    text_buf,   \* the ring
    dst,        \* the bytes written out
    pc          \* "shift" at the top of the loop, "item", "copy", "done"

vars == <<stream, src, flags, i, j, k, r, text_buf, dst, pc>>

Init ==
    /\ stream \in Streams
    /\ src = 0
    /\ flags = 0
    /\ i = 0 /\ j = 0 /\ k = 0
    /\ r = N - F
    /\ text_buf = [q \in 0 .. N - 1 |-> IF q < N - F THEN Blank ELSE Unset]
    /\ dst = <<>>
    /\ pc = "shift"

-----------------------------------------------------------------------------
(* x & (N - 1), for sums of a position and less than N. *)
Wrap(x) == IF x < N THEN x ELSE x - N

Left(n) == src + n <= Len(stream.bytes)

byte(n) == stream.bytes[src + n]

(* Mutant: the ring is not wound back to its start. *)
Put_Clamped(c) ==
    /\ dst' = Append(dst, c)
    /\ text_buf' = [text_buf EXCEPT ![r] = c]
    /\ r' = IF r + 1 < N THEN r + 1 ELSE r

(* A byte goes to the output and into the ring. *)
Put(c) ==
    /\ dst' = Append(dst, c)
    /\ text_buf' = [text_buf EXCEPT ![r] = c]
    /\ r' = Wrap(r + 1)

shifted == flags \div 2

(* Mutant: one bit too few in the mark. *)
Marked_Short(c) == c + (ByteValues \div 2 - 1) * ByteValues

(* The high byte is used up one bit per flag. *)
Marked(c) == c + (ByteValues - 1) * ByteValues

FlagsLeft == (shifted \div ByteValues) % 2 = 1

Shift ==
    /\ pc = "shift"
    /\ FlagsLeft
    /\ flags' = shifted
    /\ pc' = "item"
    /\ UNCHANGED <<stream, src, i, j, k, r, text_buf, dst>>

ReadFlags ==
    /\ pc = "shift"
    /\ ~FlagsLeft
    /\ Left(1)
    /\ flags' = Marked(byte(1))
    /\ src' = src + 1
    /\ pc' = "item"
    /\ UNCHANGED <<stream, i, j, k, r, text_buf, dst>>

Literal ==
    /\ pc = "item"
    /\ flags % 2 = 1
    /\ Left(1)
    /\ Put(byte(1))
    /\ src' = src + 1
    /\ pc' = "shift"
    /\ UNCHANGED <<stream, flags, i, j, k>>

(* The high half of the second byte goes above the first. *)
Match ==
    /\ pc = "item"
    /\ flags % 2 = 0
    /\ Left(2)
    /\ i' = byte(1) + ByteValues * (byte(2) \div LengthValues)
    /\ j' = (byte(2) % LengthValues) + THRESHOLD
    /\ k' = 0
    /\ src' = src + 2
    /\ pc' = "copy"
    /\ UNCHANGED <<stream, flags, r, text_buf, dst>>

(* The copy may read what it has just written. *)
CopyByte ==
    /\ pc = "copy"
    /\ k <= j
    /\ Put(text_buf[Wrap(i + k)])
    /\ k' = k + 1
    /\ pc' = IF k < j THEN "copy" ELSE "shift"
    /\ UNCHANGED <<stream, src, flags, i, j>>

(* The input may end before any byte, inside a match too: no error. *)
InputEnds ==
    /\ \/ pc = "shift" /\ ~FlagsLeft /\ ~Left(1)
       \/ pc = "item" /\ flags % 2 = 1 /\ ~Left(1)
       \/ pc = "item" /\ flags % 2 = 0 /\ ~Left(2)
    /\ pc' = "done"
    /\ UNCHANGED <<stream, src, flags, i, j, k, r, text_buf, dst>>

Next == Shift \/ ReadFlags \/ Literal \/ Match \/ CopyByte \/ InputEnds

Spec == Init /\ [][Next]_vars

-----------------------------------------------------------------------------
(* What is unpacked is what the items say, for streams that are cut off    *)
(* exactly the items that are complete: overlapping matches, matches that  *)
(* wrap around the ring and matches into the blanks before the output      *)
(* included.                                                               *)
UnpacksWhatWasPacked ==
    pc = "done" => \A items \in stream.packs :
        \E n \in 0 .. Len(items) :
            /\ Len(Encodings(items)[n]) <= Len(stream.bytes)
            /\ n < Len(items) => Len(Encodings(items)[n + 1]) > Len(stream.bytes)
            /\ dst = Outputs(items)[n]

(* The position d behind the one written next. *)
Behind(d) == IF d <= r THEN r - d ELSE r - d + N

(* Every variable keeps its type: positions stay in the ring, a match is   *)
(* at most F bytes.                                                        *)
TypeOK ==
    /\ stream.bytes \in Seq(Byte)
    /\ src \in Nat
    /\ flags \in Nat
    /\ i \in 0 .. N - 1 /\ j \in 0 .. F - 1 /\ k \in 0 .. F
    /\ r \in 0 .. N - 1
    /\ text_buf \in [0 .. N - 1 -> Byte \cup {Unset}]
    /\ dst \in Seq(Byte \cup {Unset})
    /\ pc \in {"shift", "item", "copy", "done"}

(* At every step the ring holds the last N bytes of the output, and where  *)
(* there is less output the blanks before it: what a match of any distance *)
(* copies is what was put out that many bytes ago.                         *)
RingMirrors == \A d \in 1 .. N : text_buf[Behind(d)] = Recent(dst, d)
=============================================================================
