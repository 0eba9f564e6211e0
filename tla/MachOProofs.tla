---------------------------- MODULE MachOProofs ----------------------------
(***************************************************************************)
(* Proofs about MachO: for files with any number of load commands, in any  *)
(* order, and memories of any size.                                        *)
(***************************************************************************)
EXTENDS MachO, TLAPS

(***************************************************************************)
(* The strengthening.  The loops read their bounds and commands back from  *)
(* memory.  While the file is intact, turn XXi reads command XXi + 1, and  *)
(* what the loops have collected is what the first XXi commands say.       *)
(***************************************************************************)
N == Len(file.lcs)

FileIn(f, m) ==
    \A a \in image_address(f) .. image_address(f) + f.len - 1 :
        m[a] = FileCell(a - image_address(f))

Types ==
    /\ file \in Files
    /\ DOMAIN mem = 0 .. MemEnd - 1
    /\ XXi \in Nat /\ seg_count \in Nat /\ nsect \in Nat
    /\ has_symtab \in BOOLEAN

AtCommand == XXi \in 0 .. N /\ (XXi < N => lcp = XXi + 1)

(* There is a command of this kind among the first i. *)
HasUpto(cmd, i) == \E k \in 1 .. N : k <= i /\ file.lcs[k].cmd = cmd
NoneUpto(cmd, i) == \A k \in 1 .. N : k <= i => file.lcs[k].cmd # cmd

SmallFilesizes == \A k \in Segments(file) : file.lcs[k].filesize <= file.lcs[k].vmsize

(* The sum of the sizes up to command i, if each segment starts where the  *)
(* one before it ends.                                                     *)
SizeUpto(i) ==
    file.filetype = "EXECUTE" =>
        /\ sc \in Nat
        /\ Contiguous(file) /\ SmallFilesizes =>
              /\ \A k \in Segments(file) : k <= i => SegmentEnd(file, k) <= LoadAddr + sc
              /\ NoneUpto("SEGMENT", i) => sc = 0
              /\ sc = 0 \/ \E k \in Segments(file) : SegmentEnd(file, k) = LoadAddr + sc
              /\ \A k \in Segments(file) :
                    LastUpto(file, k, i) => SegmentEnd(file, k) = LoadAddr + sc

(* What mach_file_vmsize has found when it has seen i commands. *)
SizedUpto(i) ==
    /\ file.magic /\ file.filetype \in {"EXECUTE", "OBJECT"}
    /\ file.filetype = "OBJECT" =>
          \A j, k \in Segments(file) : j <= i /\ k <= i => j = k
    /\ has_symtab <=> HasUpto("SYMTAB", i)
    /\ SizeUpto(i)

Sized ==
    /\ SizedUpto(N)
    /\ file.filetype = "OBJECT" => HasUpto("SYMTAB", N)

(* What mach_file_map has come past. *)
AllowedUpto(i) ==
    /\ NoneUpto("DYLD_INFO", i)
    /\ file.filetype = "EXECUTE" /\ file.vm_bias = 0 =>
          \A k \in Segments(file) :
              k <= i /\ (\A l \in Segments(file) : k <= l) => file.lcs[k].vmaddr = 0

MappedUpto(i) ==
    file.filetype = "EXECUTE" =>
        /\ SegmentsDisjoint(file) =>
              \A a \in 0 .. MemEnd - 1 :
                  /\ \A k \in Segments(file) :
                        k <= i /\ Covers(file, k, a) => mem[a] = Content(file, k, a)
                  /\ (\A k \in Segments(file) : k <= i => ~Covers(file, k, a))
                        => mem[a] = WithFile(file)[a]
        /\ \A k \in 1 .. N :
              /\ k <= i /\ file.lcs[k].cmd = "UNIXTHREAD"
              /\ \A l \in 1 .. N : l <= i /\ file.lcs[l].cmd = "UNIXTHREAD" => l <= k
              => entry_point = file.lcs[k].pc

InSize ==
    pc = "vmsize" =>
        /\ AtCommand
        /\ SizedUpto(XXi)
        /\ file.filetype = "OBJECT" => (seg_count = 0 <=> NoneUpto("SEGMENT", XXi))

InMap ==
    pc = "map" /\ Apart(file) =>
        /\ AtCommand
        /\ AllowedUpto(XXi)
        /\ MappedUpto(XXi)
        /\ nsect > 0 => /\ file.filetype = "OBJECT" /\ XXi < N
                        /\ lc.cmd = "SEGMENT"
        /\ seg_count = 0 <=> NoneUpto("SEGMENT", XXi)

AfterMap == pc = "entry" /\ Apart(file) => AllowedUpto(N) /\ MappedUpto(N)

Loading ==
    /\ Types
    /\ pc \in {"init", "vmsize"} => mem = WithFile(file) /\ nsect = 0
    /\ pc = "init" => sc = 0 /\ ~has_symtab
    /\ Apart(file) => FileIn(file, mem) /\ pc # "undefined"
    /\ pc # "done" => ret = "LOADER_SUCCESS"
    /\ pc \in {"map", "entry", "undefined"} => Sized
    /\ InSize /\ InMap /\ AfterMap
    /\ pc = "done" /\ ret = "LOADER_SUCCESS" =>
          Sized /\ file.filetype = "EXECUTE" /\ (Apart(file) => MappedUpto(N))
    /\ pc = "done" /\ Apart(file) => ret = Verdict(file)

-----------------------------------------------------------------------------
LEMMA FileTypes ==
    ASSUME file \in Files
    PROVE  /\ N \in Nat /\ DOMAIN file.lcs = 1 .. N /\ file.len \in Nat /\ N < file.len
           /\ LoadAddr \in Nat /\ MemEnd \in Nat /\ file.vm_bias \in Nat
           /\ image_address(file) \in Nat
           /\ image_address(file) + file.len <= MemEnd
           /\ Segments(file) \subseteq 1 .. N
           /\ \A k \in 1 .. N : k \in Segments(file) <=> file.lcs[k].cmd = "SEGMENT"
           /\ file.magic \in BOOLEAN /\ file.filetype \in {"EXECUTE", "OBJECT", "OTHER"}
           /\ MappedBelow(file, MemEnd)
<1>1. /\ N \in Nat /\ DOMAIN file.lcs = 1 .. N /\ file.len \in Nat /\ N < file.len
      /\ LoadAddr \in Nat /\ MemEnd \in Nat /\ file.vm_bias \in Nat /\ file.staged \in Nat
      /\ LoadAddr + 5 * file.len <= MemEnd /\ file.staged + file.len <= MemEnd
      /\ file.magic \in BOOLEAN /\ file.filetype \in {"EXECUTE", "OBJECT", "OTHER"}
      /\ MappedBelow(file, MemEnd)
    BY FilesAssumption DEF N
<1>2. image_address(file) \in Nat /\ image_address(file) + file.len <= MemEnd
    BY <1>1 DEF image_address
<1> QED
    BY <1>1, <1>2 DEF Segments

LEMMA SegmentTypes ==
    ASSUME file \in Files, NEW k \in Segments(file)
    PROVE  /\ file.lcs[k].vmaddr \in Nat /\ file.lcs[k].vmaddr >= file.vm_bias
           /\ file.lcs[k].vmsize \in Nat
           /\ file.lcs[k].fileoff \in Nat /\ file.lcs[k].filesize \in Nat
           /\ file.lcs[k].fileoff + file.lcs[k].filesize <= file.len
           /\ file.lcs[k].sects \in Seq(Section)
           /\ SegmentStart(file, k) \in Nat /\ SegmentEnd(file, k) \in Nat
           /\ SegmentStart(file, k) >= LoadAddr
           /\ SegmentStart(file, k) + file.lcs[k].vmsize <= SegmentEnd(file, k)
           /\ SegmentStart(file, k) + file.lcs[k].filesize <= SegmentEnd(file, k)
           /\ \/ SegmentEnd(file, k) = SegmentStart(file, k) + file.lcs[k].vmsize
                   /\ file.lcs[k].filesize <= file.lcs[k].vmsize
              \/ SegmentEnd(file, k) = SegmentStart(file, k) + file.lcs[k].filesize
                   /\ file.lcs[k].vmsize < file.lcs[k].filesize
<1>1. /\ file.lcs[k].vmaddr \in Nat /\ file.lcs[k].vmaddr >= file.vm_bias
      /\ file.lcs[k].vmsize \in Nat
      /\ file.lcs[k].fileoff \in Nat /\ file.lcs[k].filesize \in Nat
      /\ file.lcs[k].fileoff + file.lcs[k].filesize <= file.len
      /\ file.lcs[k].sects \in Seq(Section)
      /\ LoadAddr \in Nat /\ file.vm_bias \in Nat
    BY FilesAssumption
<1>2. SegmentStart(file, k) \in Nat /\ SegmentStart(file, k) >= LoadAddr
    BY <1>1 DEF SegmentStart
<1> DEFINE start == SegmentStart(file, k)
           end == SegmentEnd(file, k)
           v == file.lcs[k].vmsize
           s == file.lcs[k].filesize
<1>3. end = start + (IF v >= s THEN v ELSE s)
    BY DEF SegmentEnd
<1>4. start \in Nat /\ v \in Nat /\ s \in Nat
    BY <1>1, <1>2
<1> HIDE DEF start, end, v, s
<1>5. /\ end \in Nat /\ start + v <= end /\ start + s <= end
      /\ (end = start + v /\ s <= v) \/ (end = start + s /\ v < s)
    BY <1>3, <1>4
<1> QED
    BY <1>1, <1>2, <1>5 DEF start, end, v, s

(* The memory the loader starts with has the file in it. *)
LEMMA FileWritten ==
    ASSUME file \in Files
    PROVE  FileIn(file, WithFile(file)) /\ DOMAIN WithFile(file) = 0 .. MemEnd - 1
<1>1. /\ image_address(file) \in Nat /\ MemEnd \in Nat /\ file.len \in Nat
      /\ image_address(file) + file.len <= MemEnd
    BY FileTypes
<1> QED
    BY <1>1 DEF FileIn, WithFile

(* A file that is intact is read back as it is. *)
LEMMA ReadBack ==
    ASSUME file \in Files, NEW m, FileIn(file, m)
    PROVE  /\ m[image_address(file)] = FileCell(0)
           /\ lcp \in 1 .. N => Intact(m) /\ ~Zeroed(m) /\ ~Clobbered(m)
<1>1. /\ image_address(file) \in Nat /\ file.len \in Nat /\ N \in Nat /\ N < file.len
    BY FileTypes
<1>2. m[image_address(file)] = FileCell(0)
    BY <1>1 DEF FileIn
<1>3. ASSUME lcp \in 1 .. N PROVE Intact(m) /\ ~Zeroed(m)
    <2>1. m[image_address(file) + lcp] = FileCell(lcp)
        BY <1>1, <1>3 DEF FileIn
    <2> QED
        BY <2>1 DEF Intact, Zeroed, CellOf, FileCell, Zero
<1> QED
    BY <1>2, <1>3 DEF Clobbered

LEMMA AtTurn ==
    ASSUME Types, FileIn(file, mem), AtCommand
    PROVE  /\ ncmds = N /\ (InLoop <=> XXi < N) /\ N \in Nat
           /\ XXi < N => /\ lcp = XXi + 1 /\ lcp \in 1 .. N /\ lc = file.lcs[lcp]
                         /\ Intact(mem) /\ ~Zeroed(mem)
                         /\ lcp \in Segments(file) <=> lc.cmd = "SEGMENT"
           /\ ~(XXi < N) => XXi = N
<1>1. N \in Nat /\ file \in Files /\ XXi \in 0 .. N
    BY FileTypes DEF Types, AtCommand
<1>2. ncmds = N
    BY <1>1, ReadBack DEF ncmds, HeadIntact, Head_, N
<1>3. XXi < N => lcp = XXi + 1 /\ lcp \in 1 .. N
    BY <1>1 DEF AtCommand
<1> QED
    BY <1>1, <1>2, <1>3, ReadBack, FileTypes DEF InLoop, lc

LEMMA NextTurn ==
    ASSUME Types, AtCommand, XXi < N, NEW m, Intact(m), NextCommand(m), file' = file
    PROVE  XXi' = XXi + 1 /\ AtCommand' /\ XXi' \in Nat
<1>1. N \in Nat /\ N' = N /\ XXi \in 0 .. N /\ lcp = XXi + 1
    BY FileTypes DEF Types, AtCommand, N
<1>2. XXi' = XXi + 1 /\ (lcp < N => lcp' = lcp + 1)
    BY DEF NextCommand, N
<1> QED
    BY <1>1, <1>2 DEF AtCommand

-----------------------------------------------------------------------------
(* The target of bcopy and bzero. *)
LEMMA Target ==
    ASSUME NEW dst \in Nat, NEW n \in Nat
    PROVE  \A a \in 0 .. MemEnd - 1 : a \in dst .. (dst + n - 1) <=> dst <= a /\ a < dst + n
OBVIOUS

(* What is written elsewhere leaves the file intact. *)
LEMMA FileKept ==
    ASSUME file \in Files, NEW m, NEW m2, FileIn(file, m),
           \A a \in 0 .. MemEnd - 1 :
              image_address(file) <= a /\ a < image_address(file) + file.len => m2[a] = m[a]
    PROVE  FileIn(file, m2)
<1>1. /\ image_address(file) \in Nat /\ MemEnd \in Nat /\ file.len \in Nat
      /\ image_address(file) + file.len <= MemEnd
    BY FileTypes
<1>2. \A a \in image_address(file) .. image_address(file) + file.len - 1 :
         /\ a \in 0 .. MemEnd - 1
         /\ image_address(file) <= a /\ a < image_address(file) + file.len
    BY <1>1
<1> QED
    BY <1>2 DEF FileIn

(* A segment of an executable is copied from the file and cleared behind   *)
(* what the file has of it.                                                *)
LEMMA SegmentCopied ==
    ASSUME Types, Apart(file), FileIn(file, mem), file.filetype = "EXECUTE",
           NEW k \in Segments(file)
    PROVE  LET m1 == CopySegment(file.lcs[k])
               m2 == ZeroDelta(m1, file.lcs[k])
           IN  /\ DOMAIN m2 = 0 .. MemEnd - 1
               /\ \A a \in 0 .. MemEnd - 1 :
                     m2[a] = IF Covers(file, k, a) THEN Content(file, k, a) ELSE mem[a]
               /\ FileIn(file, m1) /\ FileIn(file, m2)
<1> DEFINE img == image_address(file)
           start == SegmentStart(file, k)
           end == SegmentEnd(file, k)
           v == file.lcs[k].vmsize
           s == file.lcs[k].filesize
           off == file.lcs[k].fileoff
           src == img + off
           m1 == CopySegment(file.lcs[k])
           m2 == ZeroDelta(m1, file.lcs[k])
<1>1. /\ file \in Files /\ DOMAIN mem = 0 .. MemEnd - 1
      /\ start \in Nat /\ end \in Nat /\ v \in Nat /\ s \in Nat /\ off \in Nat
      /\ off + s <= file.len /\ file.len \in Nat
      /\ start + v <= end /\ start + s <= end
      /\ (end = start + v /\ s <= v) \/ (end = start + s /\ v < s)
      /\ img \in Nat /\ MemEnd \in Nat /\ img + file.len <= MemEnd
    BY SegmentTypes, FileTypes DEF Types
<1>2. end <= img \/ img + file.len <= start
    <2>1. LoadAddr \in Nat /\ LoadAddr <= start
        BY <1>1, FileTypes, SegmentTypes
    <2>2. CASE MappedBelow(file, img)
        BY <2>2 DEF MappedBelow
    <2>3. Apart(file) <=> MappedBelow(file, img) \/ img + file.len <= LoadAddr
        BY DEF Apart
    <2> HIDE DEF img, start
    <2>4. CASE img + file.len <= LoadAddr
        BY <1>1, <2>1, <2>4
    <2> QED
        BY <2>2, <2>3, <2>4
<1>3. m1 = bcopy(mem, src, start, s)
    BY DEF CopySegment, SegmentStart
<1>4. m2 = IF v > s THEN bzero(m1, start + s, v - s) ELSE m1
    BY DEF ZeroDelta, SegmentStart
<1>5. \A a : Covers(file, k, a) <=> start <= a /\ a < end
    BY DEF Covers
<1>6. \A a : Content(file, k, a) = IF a - start < s THEN FileCell(off + (a - start)) ELSE Zero
    BY DEF Content
<1>7. \A a \in img .. img + file.len - 1 : mem[a] = FileCell(a - img)
    BY DEF FileIn
<1> HIDE DEF img, start, end, v, s, off, src, m1, m2
<1>8. /\ DOMAIN m1 = 0 .. MemEnd - 1
      /\ \A a \in 0 .. MemEnd - 1 :
            m1[a] = IF start <= a /\ a < start + s THEN mem[src + (a - start)] ELSE mem[a]
    BY <1>1, <1>3, Target DEF bcopy
<1>9. \A a \in 0 .. MemEnd - 1 :
         m1[a] = IF start <= a /\ a < start + s THEN FileCell(off + (a - start)) ELSE mem[a]
    <2> TAKE a \in 0 .. MemEnd - 1
    <2>1. CASE start <= a /\ a < start + s
        <3> DEFINE c == src + (a - start)
        <3>1. c \in img .. img + file.len - 1 /\ c - img = off + (a - start)
            BY <1>1, <2>1 DEF src
        <3>2. mem[c] = FileCell(c - img)
            BY <1>7, <3>1
        <3> QED
            BY <1>8, <2>1, <3>1, <3>2
    <2> QED
        BY <1>8, <2>1
<1>10. /\ DOMAIN m2 = 0 .. MemEnd - 1
       /\ \A a \in 0 .. MemEnd - 1 :
             m2[a] = IF v > s /\ start + s <= a /\ a < start + v THEN Zero ELSE m1[a]
    <2>1. CASE v > s
        <3>1. start + s \in Nat /\ v - s \in Nat /\ (start + s) + (v - s) = start + v
            BY <1>1, <2>1
        <3>2. /\ DOMAIN m2 = 0 .. MemEnd - 1
              /\ \A a \in 0 .. MemEnd - 1 :
                    m2[a] = IF start + s <= a /\ a < (start + s) + (v - s) THEN Zero ELSE m1[a]
            BY <1>4, <1>8, <2>1, <3>1, Target DEF bzero
        <3> QED
            BY <2>1, <3>1, <3>2
    <2>2. CASE ~(v > s)
        BY <1>4, <1>8, <2>2
    <2> QED
        BY <2>1, <2>2
<1>11. \A a \in 0 .. MemEnd - 1 :
          m2[a] = IF Covers(file, k, a) THEN Content(file, k, a) ELSE mem[a]
    <2> TAKE a \in 0 .. MemEnd - 1
    <2>1. CASE start <= a /\ a < start + s
        <3>1. m2[a] = m1[a] /\ Covers(file, k, a) /\ a - start < s
            BY <1>1, <1>5, <1>10, <2>1
        <3> QED
            BY <1>6, <1>9, <2>1, <3>1
    <2>2. CASE v > s /\ start + s <= a /\ a < start + v
        <3>1. m2[a] = Zero
            BY <1>10, <2>2
        <3>2. Covers(file, k, a) /\ ~(a - start < s)
            BY <1>1, <1>5, <2>2
        <3> QED
            BY <1>6, <3>1, <3>2
    <2>3. CASE ~(start <= a /\ a < start + s) /\ ~(v > s /\ start + s <= a /\ a < start + v)
        <3>1. m2[a] = m1[a] /\ m1[a] = mem[a]
            BY <1>9, <1>10, <2>3
        <3>2. ~Covers(file, k, a)
            BY <1>1, <1>5, <2>3
        <3> QED
            BY <3>1, <3>2
    <2> QED
        BY <2>1, <2>2, <2>3
<1>12. FileIn(file, m1)
    <2>1. \A a \in 0 .. MemEnd - 1 : img <= a /\ a < img + file.len => m1[a] = mem[a]
        BY <1>1, <1>2, <1>9
    <2> QED
        BY <1>1, <2>1, FileKept DEF img
<1>13. FileIn(file, m2)
    <2>1. \A a \in 0 .. MemEnd - 1 : img <= a /\ a < img + file.len => m2[a] = mem[a]
        BY <1>1, <1>2, <1>5, <1>11
    <2> QED
        BY <1>1, <2>1, FileKept DEF img
<1> QED
    BY <1>10, <1>11, <1>12, <1>13 DEF m1, m2

(* So is a section of an object. *)
LEMMA SectionCopied ==
    ASSUME Types, Apart(file), FileIn(file, mem), file.filetype = "OBJECT",
           NEW k \in Segments(file), NEW j \in 1 .. Len(file.lcs[k].sects)
    PROVE  LET m2 == _map_section(mem, file.lcs[k].sects[j])
           IN  DOMAIN m2 = 0 .. MemEnd - 1 /\ FileIn(file, m2)
<1> DEFINE img == image_address(file)
           s == file.lcs[k].sects[j]
           dst == LoadAddr + s.addr
           src == img + s.offset
           m2 == _map_section(mem, s)
<1>1. file \in Files /\ DOMAIN mem = 0 .. MemEnd - 1 /\ LoadAddr \in Nat
      /\ img \in Nat /\ file.len \in Nat
    BY FileTypes DEF Types
<1>2. file.lcs[k].sects \in Seq(Section) /\ j \in DOMAIN file.lcs[k].sects
    BY <1>1, SegmentTypes
<1>3. s \in Section
    BY <1>2
<1>4. s.addr \in Nat /\ s.size \in Nat
    BY <1>3 DEF Section
<1>5. /\ SectionEnd(file, k, j) = dst + s.size
      /\ m2 = IF s.zerofill THEN bzero(mem, dst, s.size) ELSE bcopy(mem, src, dst, s.size)
    BY DEF SectionEnd, _map_section
<1> HIDE DEF s
<1>6. dst \in Nat /\ LoadAddr <= dst
    BY <1>1, <1>4
<1>7. dst + s.size <= img \/ img + file.len <= dst
    <2>1. MappedBelow(file, img) => dst + s.size <= img
        BY <1>2, <1>5 DEF MappedBelow
    <2>2. Apart(file) <=> MappedBelow(file, img) \/ img + file.len <= LoadAddr
        BY DEF Apart
    <2> HIDE DEF img, dst
    <2>3. img + file.len <= LoadAddr => img + file.len <= dst
        BY <1>1, <1>6
    <2> QED
        BY <2>1, <2>2, <2>3
<1> HIDE DEF m2, img, dst, src
<1>8. DOMAIN m2 = 0 .. MemEnd - 1 /\ \A a \in 0 .. MemEnd - 1 :
         img <= a /\ a < img + file.len => m2[a] = mem[a]
    <2>1. CASE s.zerofill
        <3>1. /\ DOMAIN m2 = 0 .. MemEnd - 1
              /\ \A a \in 0 .. MemEnd - 1 :
                    m2[a] = IF dst <= a /\ a < dst + s.size THEN Zero ELSE mem[a]
            BY <1>1, <1>4, <1>5, <1>6, <2>1, Target DEF bzero
        <3> QED
            BY <1>1, <1>4, <1>6, <1>7, <3>1
    <2>2. CASE ~s.zerofill
        <3>1. /\ DOMAIN m2 = 0 .. MemEnd - 1
              /\ \A a \in 0 .. MemEnd - 1 :
                    m2[a] = IF dst <= a /\ a < dst + s.size
                            THEN mem[src + (a - dst)] ELSE mem[a]
            BY <1>1, <1>4, <1>5, <1>6, <2>2, Target DEF bcopy
        <3> QED
            BY <1>1, <1>4, <1>6, <1>7, <3>1
    <2> QED
        BY <2>1, <2>2
<1>9. FileIn(file, m2)
    BY <1>1, <1>8, FileKept DEF img
<1> QED
    BY <1>8, <1>9 DEF m2, s

-----------------------------------------------------------------------------
(* One command more has been looked at. *)
LEMMA OneMore ==
    ASSUME Types, NEW i \in Nat, i < N
    PROVE  /\ i + 1 \in 1 .. N
           /\ \A k \in 1 .. N : k <= i + 1 <=> k <= i \/ k = i + 1
           /\ \A k \in 1 .. N : k <= i => k < i + 1 /\ k # i + 1
           /\ \A k \in Segments(file) : k \in 1 .. N
BY FileTypes DEF Types

(* A command that is no segment adds nothing to the size. *)
LEMMA SizeOther ==
    ASSUME Types, NEW i \in Nat, i < N, file.lcs[i + 1].cmd # "SEGMENT", SizeUpto(i)
    PROVE  SizeUpto(i + 1)
<1>1. i + 1 \in 1 .. N /\ i + 1 \notin Segments(file)
    BY OneMore, FileTypes DEF Types
<1>2. \A k \in Segments(file) : k <= i + 1 <=> k <= i
    BY <1>1, OneMore
<1>3. \A k \in Segments(file) : LastUpto(file, k, i + 1) <=> LastUpto(file, k, i)
    BY <1>2 DEF LastUpto
<1>4. NoneUpto("SEGMENT", i + 1) <=> NoneUpto("SEGMENT", i)
    BY <1>1, OneMore DEF NoneUpto
<1> QED
    BY <1>2, <1>3, <1>4 DEF SizeUpto

(* A segment adds its size, and ends where the sum then reaches. *)
LEMMA SizeSegment ==
    ASSUME Types, NEW i \in Nat, i < N, file.filetype = "EXECUTE",
           i + 1 \in Segments(file), SizeUpto(i),
           file' = file, sc' = sc + file.lcs[i + 1].vmsize
    PROVE  SizeUpto(i + 1)'
<1> DEFINE new == i + 1
           size == file.lcs[i + 1].vmsize
<1>1. /\ sc \in Nat /\ size \in Nat /\ sc' = sc + size /\ LoadAddr \in Nat
      /\ file.lcs[new].vmaddr \in Nat /\ file.vm_bias \in Nat
    BY SegmentTypes, FileTypes DEF SizeUpto, Types
<1>2. sc' \in Nat
    BY <1>1
<1>3. /\ \A k \in Segments(file) : SegmentEnd(file, k) \in Nat
      /\ \A k \in Segments(file) : k \in Int
    BY SegmentTypes, OneMore DEF Types
<1>4. ASSUME Contiguous(file), SmallFilesizes
      PROVE  SegmentEnd(file, new) = LoadAddr + sc'
    <2>1. SegmentEnd(file, new) = SegmentStart(file, new) + size
        BY <1>4, SegmentTypes DEF SmallFilesizes, Types
    <2>2. SegmentStart(file, new) = LoadAddr + sc
        <3>1. CASE \A l \in Segments(file) : new <= l
            <4>1. NoneUpto("SEGMENT", i)
                BY <3>1, OneMore, FileTypes DEF NoneUpto, Types
            <4>2. sc = 0 /\ file.lcs[new].vmaddr = file.vm_bias
                BY <1>4, <3>1, <4>1 DEF SizeUpto, Contiguous
            <4> QED
                BY <1>1, <4>2 DEF SegmentStart
        <3>2. CASE ~(\A l \in Segments(file) : new <= l)
            <4>1. PICK j \in Segments(file) :
                    /\ LastUpto(file, j, new - 1)
                    /\ file.lcs[new].vmaddr = file.lcs[j].vmaddr + file.lcs[j].vmsize
                BY <1>4, <3>2 DEF Contiguous
            <4>2. LastUpto(file, j, i)
                BY <4>1
            <4>3. SegmentEnd(file, j) = LoadAddr + sc
                BY <1>4, <4>2 DEF SizeUpto
            <4>4. /\ SegmentEnd(file, j) = SegmentStart(file, j) + file.lcs[j].vmsize
                  /\ file.lcs[j].vmaddr \in Nat /\ file.lcs[j].vmsize \in Nat
                <5>1. file.lcs[j].filesize <= file.lcs[j].vmsize /\ file \in Files
                    BY <1>4 DEF SmallFilesizes, Types
                <5>2. /\ file.lcs[j].vmaddr \in Nat /\ file.lcs[j].vmsize \in Nat
                      /\ file.lcs[j].filesize \in Nat
                      /\ \/ SegmentEnd(file, j) = SegmentStart(file, j) + file.lcs[j].vmsize
                         \/ file.lcs[j].vmsize < file.lcs[j].filesize
                    BY <5>1, SegmentTypes
                <5> QED
                    BY <5>1, <5>2
            <4>5. SegmentStart(file, new) = SegmentStart(file, j) + file.lcs[j].vmsize
                BY <1>1, <4>1, <4>4 DEF SegmentStart
            <4> QED
                BY <4>3, <4>4, <4>5
        <3> QED
            BY <3>1, <3>2
    <2> QED
        BY <1>1, <2>1, <2>2
<1>5. ASSUME Contiguous(file), SmallFilesizes, NEW k \in Segments(file), k <= new
      PROVE  SegmentEnd(file, k) <= LoadAddr + sc'
    <2>1. CASE k = new
        BY <1>1, <1>2, <1>4, <1>5, <2>1
    <2>2. CASE k # new
        <3>1. k <= i
            BY <1>3, <1>5, <2>2
        <3>2. SegmentEnd(file, k) <= LoadAddr + sc
            BY <1>5, <3>1 DEF SizeUpto
        <3> QED
            BY <1>1, <1>3, <3>2
    <2> QED
        BY <2>1, <2>2
<1>6. \A k \in Segments(file) : LastUpto(file, k, new) => k = new
    BY <1>3 DEF LastUpto
<1>7. ~NoneUpto("SEGMENT", new)
    BY OneMore, FileTypes DEF NoneUpto, Types
<1>8. NoneUpto("SEGMENT", new)' <=> NoneUpto("SEGMENT", new)
    BY DEF NoneUpto, N
<1>9. SmallFilesizes' <=> SmallFilesizes
    BY DEF SmallFilesizes
<1> HIDE DEF size
<1> QED
    BY <1>2, <1>4, <1>5, <1>6, <1>7, <1>8, <1>9 DEF SizeUpto

(* The symbol table is seen when its command is. *)
LEMMA HasNext ==
    ASSUME Types, NEW i \in Nat, i < N, NEW cmd
    PROVE  /\ HasUpto(cmd, i + 1) <=> HasUpto(cmd, i) \/ file.lcs[i + 1].cmd = cmd
           /\ NoneUpto(cmd, i + 1) <=> NoneUpto(cmd, i) /\ file.lcs[i + 1].cmd # cmd
BY OneMore DEF HasUpto, NoneUpto

LEMMA FileSame ==
    ASSUME file' = file
    PROVE  /\ N' = N
           /\ \A cmd, i : (HasUpto(cmd, i)' <=> HasUpto(cmd, i))
                       /\ (NoneUpto(cmd, i)' <=> NoneUpto(cmd, i))
           /\ \A i : AllowedUpto(i)' <=> AllowedUpto(i)
           /\ has_symtab' = has_symtab /\ sc' = sc =>
                \A i : SizedUpto(i)' <=> SizedUpto(i)
           /\ mem' = mem /\ entry_point' = entry_point =>
                \A i : MappedUpto(i)' <=> MappedUpto(i)
<1>1. N' = N
    BY DEF N
<1>2. \A cmd, i : (HasUpto(cmd, i)' <=> HasUpto(cmd, i))
               /\ (NoneUpto(cmd, i)' <=> NoneUpto(cmd, i))
    BY <1>1 DEF HasUpto, NoneUpto
<1>3. \A i : AllowedUpto(i)' <=> AllowedUpto(i)
    BY <1>2 DEF AllowedUpto
<1>4. ASSUME has_symtab' = has_symtab, sc' = sc
      PROVE  \A i : SizedUpto(i)' <=> SizedUpto(i)
    BY <1>2, <1>4 DEF SizedUpto, SizeUpto, SmallFilesizes
<1>5. ASSUME mem' = mem, entry_point' = entry_point
      PROVE  \A i : MappedUpto(i)' <=> MappedUpto(i)
    BY <1>1, <1>5 DEF MappedUpto
<1> QED
    BY <1>1, <1>2, <1>3, <1>4, <1>5

-----------------------------------------------------------------------------
(* A segment of a kernel more is in memory: the ones before it lie apart.  *)
LEMMA MappedSegment ==
    ASSUME Types, Apart(file), FileIn(file, mem), NEW i \in Nat, i < N,
           file.filetype = "EXECUTE", file.lcs[i + 1].cmd = "SEGMENT",
           MappedUpto(i),
           file' = file, entry_point' = entry_point,
           mem' = ZeroDelta(CopySegment(file.lcs[i + 1]), file.lcs[i + 1])
    PROVE  /\ MappedUpto(i + 1)'
           /\ DOMAIN mem' = 0 .. MemEnd - 1 /\ FileIn(file, mem')
           /\ FileIn(file, CopySegment(file.lcs[i + 1]))
<1> DEFINE new == i + 1
<1>1. /\ new \in 1 .. N
      /\ \A k \in 1 .. N : k <= new <=> k <= i \/ k = new
      /\ \A k \in 1 .. N : k <= i => k < new /\ k # new
      /\ \A k \in Segments(file) : k \in 1 .. N
    BY OneMore
<1>2. new \in Segments(file) /\ file \in Files
    BY <1>1, FileTypes DEF Types
<1>3. /\ DOMAIN mem' = 0 .. MemEnd - 1
      /\ \A a \in 0 .. MemEnd - 1 :
            mem'[a] = IF Covers(file, new, a) THEN Content(file, new, a) ELSE mem[a]
      /\ FileIn(file, CopySegment(file.lcs[new])) /\ FileIn(file, mem')
    BY <1>2, SegmentCopied
<1>4. ASSUME SegmentsDisjoint(file), NEW a \in 0 .. MemEnd - 1
      PROVE  /\ \A k \in Segments(file) :
                   k <= new /\ Covers(file, k, a) => mem'[a] = Content(file, k, a)
             /\ (\A k \in Segments(file) : k <= new => ~Covers(file, k, a))
                   => mem'[a] = WithFile(file)[a]
    <2>1. ASSUME NEW k \in Segments(file), k <= new, Covers(file, k, a)
          PROVE  mem'[a] = Content(file, k, a)
        <3>1. CASE k = new
            BY <1>3, <2>1, <3>1
        <3>2. CASE k # new
            <4>1. k <= i /\ k < new
                BY <1>1, <2>1, <3>2
            <4>2. mem[a] = Content(file, k, a)
                BY <1>4, <2>1, <4>1 DEF MappedUpto
            <4>3. \/ SegmentEnd(file, k) <= SegmentStart(file, new)
                  \/ SegmentEnd(file, new) <= SegmentStart(file, k)
                BY <1>2, <1>4, <4>1 DEF SegmentsDisjoint
            <4>4. /\ SegmentEnd(file, k) \in Nat /\ SegmentStart(file, k) \in Nat
                  /\ SegmentEnd(file, new) \in Nat /\ SegmentStart(file, new) \in Nat
                BY <1>2, SegmentTypes
            <4>5. ~Covers(file, new, a)
                BY <2>1, <4>3, <4>4 DEF Covers
            <4> QED
                BY <1>3, <4>2, <4>5
        <3> QED
            BY <3>1, <3>2
    <2>2. ASSUME \A k \in Segments(file) : k <= new => ~Covers(file, k, a)
          PROVE  mem'[a] = WithFile(file)[a]
        <3>1. ~Covers(file, new, a) /\ \A k \in Segments(file) : k <= i => ~Covers(file, k, a)
            BY <1>1, <1>2, <2>2
        <3> QED
            BY <1>3, <1>4, <3>1 DEF MappedUpto
    <2> QED
        BY <2>1, <2>2
<1>5. \A k \in 1 .. N :
         /\ k <= new /\ file.lcs[k].cmd = "UNIXTHREAD"
         /\ \A l \in 1 .. N : l <= new /\ file.lcs[l].cmd = "UNIXTHREAD" => l <= k
         => entry_point = file.lcs[k].pc
    BY <1>1 DEF MappedUpto
<1>6. MappedUpto(new)'
    BY <1>4, <1>5, FileSame DEF MappedUpto
<1> QED
    BY <1>3, <1>6

(* A command that is no segment maps nothing; that of a thread sets the    *)
(* entry point, over that of a thread before it.                           *)
LEMMA MappedOther ==
    ASSUME Types, NEW i \in Nat, i < N, MappedUpto(i),
           file.lcs[i + 1].cmd # "SEGMENT",
           file' = file, mem' = mem,
           entry_point' = IF file.lcs[i + 1].cmd = "UNIXTHREAD"
                          THEN file.lcs[i + 1].pc ELSE entry_point
    PROVE  MappedUpto(i + 1)'
<1> DEFINE new == i + 1
<1>1. /\ new \in 1 .. N
      /\ \A k \in 1 .. N : k <= new <=> k <= i \/ k = new
      /\ \A k \in 1 .. N : k <= i => k < new /\ k # new /\ ~(new <= k)
      /\ \A k \in Segments(file) : k \in 1 .. N
    BY OneMore
<1>2. \A k \in Segments(file) : k <= new <=> k <= i
    BY <1>1, FileTypes DEF Types
<1>3. ASSUME NEW k \in 1 .. N, k <= new, file.lcs[k].cmd = "UNIXTHREAD",
             file.filetype = "EXECUTE",
             \A l \in 1 .. N : l <= new /\ file.lcs[l].cmd = "UNIXTHREAD" => l <= k
      PROVE  entry_point' = file.lcs[k].pc
    <2>1. CASE file.lcs[new].cmd = "UNIXTHREAD"
        <3>1. k = new
            BY <1>1, <1>3, <2>1
        <3> QED
            BY <2>1, <3>1
    <2>2. CASE file.lcs[new].cmd # "UNIXTHREAD"
        <3>1. k <= i /\ \A l \in 1 .. N : l <= i /\ file.lcs[l].cmd = "UNIXTHREAD" => l <= k
            BY <1>1, <1>3, <2>2
        <3>2. entry_point = file.lcs[k].pc
            BY <1>3, <3>1 DEF MappedUpto
        <3> QED
            BY <2>2, <3>2
    <2> QED
        BY <2>1, <2>2
<1> HIDE DEF new
<1>4. MappedUpto(new)'
    BY <1>2, <1>3, FileSame DEF MappedUpto
<1> QED
    BY <1>4 DEF new

(* A segment is allowed unless it is the first of a file that is not       *)
(* biased, and not at 0.                                                   *)
LEMMA AllowedNext ==
    ASSUME Types, NEW i \in Nat, i < N, AllowedUpto(i),
           file.lcs[i + 1].cmd # "DYLD_INFO",
           \/ file.lcs[i + 1].cmd # "SEGMENT" \/ file.filetype = "OBJECT"
           \/ file.vm_bias # 0 \/ file.lcs[i + 1].vmaddr = 0 \/ ~NoneUpto("SEGMENT", i)
    PROVE  AllowedUpto(i + 1)
<1>1. NoneUpto("DYLD_INFO", i + 1)
    BY HasNext DEF AllowedUpto
<1>2. ASSUME file.filetype = "EXECUTE", file.vm_bias = 0,
             NEW k \in Segments(file), k <= i + 1, \A l \in Segments(file) : k <= l
      PROVE  file.lcs[k].vmaddr = 0
    <2>1. k \in 1 .. N /\ file.lcs[k].cmd = "SEGMENT" /\ (k <= i \/ k = i + 1)
        BY <1>2, OneMore, FileTypes DEF Types
    <2>2. CASE k <= i
        BY <1>2, <2>2 DEF AllowedUpto
    <2>3. CASE k = i + 1
        <3>1. NoneUpto("SEGMENT", i)
            <4> SUFFICES ASSUME NEW l \in 1 .. N, l <= i, file.lcs[l].cmd = "SEGMENT"
                         PROVE  FALSE
                BY DEF NoneUpto
            <4>1. l \in Segments(file) /\ ~(i + 1 <= l)
                BY FileTypes DEF Types
            <4> QED
                BY <1>2, <2>3, <4>1
        <3> QED
            BY <1>2, <2>1, <2>3, <3>1
    <2> QED
        BY <2>1, <2>2, <2>3
<1> QED
    BY <1>1, <1>2 DEF AllowedUpto

(* Up to no command there is nothing. *)
LEMMA UptoNone ==
    ASSUME Types
    PROVE  /\ \A cmd : ~HasUpto(cmd, 0) /\ NoneUpto(cmd, 0)
           /\ AllowedUpto(0)
           /\ mem = WithFile(file) => MappedUpto(0)
           /\ file.magic /\ file.filetype \in {"EXECUTE", "OBJECT"} /\ sc = 0 /\ ~has_symtab
                 => SizedUpto(0)
<1>1. \A k \in 1 .. N : ~(k <= 0)
    BY FileTypes DEF Types
<1>2. \A k \in Segments(file) : ~(k <= 0)
    BY <1>1, FileTypes DEF Types
<1>3. \A cmd : ~HasUpto(cmd, 0) /\ NoneUpto(cmd, 0)
    BY <1>1 DEF HasUpto, NoneUpto
<1>4. AllowedUpto(0)
    BY <1>2, <1>3 DEF AllowedUpto
<1>5. MappedUpto(0) \/ mem # WithFile(file)
    BY <1>1, <1>2 DEF MappedUpto
<1>6. sc = 0 => SizeUpto(0)
    BY <1>2, <1>3 DEF SizeUpto, LastUpto
<1> QED
    BY <1>2, <1>3, <1>4, <1>5, <1>6 DEF SizedUpto, Types

-----------------------------------------------------------------------------
LEMMA LoadingInit == Init => Loading
<1> SUFFICES ASSUME Init PROVE Loading
    OBVIOUS
<1>1. Types
    BY FileWritten DEF Init, Types
<1>2. FileIn(file, mem)
    BY FileWritten DEF Init
<1> QED
    BY <1>1, <1>2 DEF Init, Loading, InSize, InMap, AfterMap

LEMMA LoadingHeader ==
    ASSUME Loading, mach_file_init
    PROVE  Loading'
<1>1. /\ Types /\ pc = "init" /\ mem = WithFile(file) /\ nsect = 0 /\ sc = 0 /\ ~has_symtab
      /\ file' = file /\ mem' = mem /\ sc' = sc /\ has_symtab' = has_symtab
      /\ nsect' = nsect /\ (Apart(file) => FileIn(file, mem)) /\ ret = "LOADER_SUCCESS"
    BY DEF Loading, mach_file_init
<1>2. CASE ~file.magic /\ Done("LOADER_BADMAGIC") /\ UNCHANGED <<XXi, lcp, seg_count>>
    <2>1. Types' /\ Verdict(file) = "LOADER_BADMAGIC"
        BY <1>1, <1>2 DEF Types, Verdict
    <2> QED
        BY <1>1, <1>2, <2>1 DEF Loading, Done, InSize, InMap, AfterMap
<1>3. CASE /\ file.magic /\ file.filetype \notin {"EXECUTE", "OBJECT"}
           /\ Done("LOADER_BADFILETYPE") /\ UNCHANGED <<XXi, lcp, seg_count>>
    <2>1. file.filetype = "OTHER"
        BY <1>1, <1>3, FileTypes DEF Types
    <2>2. Types' /\ Verdict(file) = "LOADER_BADFILETYPE"
        BY <1>1, <1>3, <2>1 DEF Types, Verdict
    <2> QED
        BY <1>1, <1>3, <2>2 DEF Loading, Done, InSize, InMap, AfterMap
<1>4. CASE /\ file.magic /\ file.filetype \in {"EXECUTE", "OBJECT"}
           /\ StartLoop("vmsize") /\ UNCHANGED ret
    <2>1. Types'
        BY <1>1, <1>4 DEF Types, StartLoop
    <2>2. AtCommand'
        BY <1>1, <1>4, FileTypes, FileSame DEF Types, AtCommand, StartLoop
    <2>3. SizedUpto(0)' /\ NoneUpto("SEGMENT", 0)'
        BY <1>1, <1>4, UptoNone, FileSame
    <2>4. InSize'
        BY <1>4, <2>2, <2>3 DEF InSize, StartLoop
    <2> QED
        BY <1>1, <1>4, <2>1, <2>4 DEF Loading, StartLoop, InMap, AfterMap
<1> QED
    BY <1>2, <1>3, <1>4 DEF mach_file_init

LEMMA LoadingSize ==
    ASSUME Loading, mach_file_vmsize
    PROVE  Loading'
<1>1. /\ Types /\ pc = "vmsize" /\ mem = WithFile(file) /\ nsect = 0
      /\ file' = file /\ mem' = mem /\ nsect' = nsect /\ ret = "LOADER_SUCCESS"
      /\ AtCommand /\ SizedUpto(XXi)
      /\ file.filetype = "OBJECT" => (seg_count = 0 <=> NoneUpto("SEGMENT", XXi))
    BY DEF Loading, InSize, mach_file_vmsize
<1>2. FileIn(file, mem) /\ N \in Nat
    BY <1>1, FileWritten, FileTypes DEF Types
<1>3. /\ InLoop <=> XXi < N
      /\ XXi < N => /\ lcp = XXi + 1 /\ lcp \in 1 .. N /\ lc = file.lcs[XXi + 1]
                    /\ Intact(mem) /\ (lcp \in Segments(file) <=> lc.cmd = "SEGMENT")
      /\ ~(XXi < N) => XXi = N
      /\ XXi \in Nat /\ seg_count \in Nat
    BY <1>1, <1>2, AtTurn DEF lc, Types
<1> PICK i \in Nat : i = XXi
    BY <1>3
<1>4. \A k \in Segments(file) : k \in 1 .. N /\ file.lcs[k].cmd = "SEGMENT"
    BY <1>1, FileTypes DEF Types
<1>5. ASSUME XXi < N, Types', AtCommand', XXi' = XXi + 1, SizedUpto(i + 1)',
             file.filetype = "OBJECT" => (seg_count' = 0 <=> NoneUpto("SEGMENT", XXi + 1)),
             UNCHANGED <<pc, ret>>
      PROVE  Loading'
    <2>1. InSize'
        BY <1>1, <1>5, FileSame DEF InSize
    <2> QED
        BY <1>1, <1>2, <1>5, <2>1 DEF Loading, InMap, AfterMap
<1>6. ASSUME InLoop, VmsizeSegment
      PROVE  Loading'
    <2>1. /\ lcp = XXi + 1 /\ XXi + 1 \in Segments(file) /\ file.lcs[XXi + 1].cmd = "SEGMENT"
          /\ lc = file.lcs[XXi + 1] /\ XXi < N /\ Intact(mem)
        BY <1>3, <1>6 DEF VmsizeSegment
    <2>2. CASE file.filetype = "OBJECT" /\ seg_count > 0
        <3>1. ~NoneUpto("SEGMENT", XXi)
            BY <1>1, <1>3, <2>2
        <3>2. PICK k \in 1 .. N : k <= XXi /\ file.lcs[k].cmd = "SEGMENT"
            BY <3>1 DEF NoneUpto
        <3>3. k \in Segments(file) /\ k < XXi + 1
            BY <1>1, <1>3, <3>2, FileTypes DEF Types
        <3>4. Verdict(file) = "LOADER_OBJECT_BADSEGMENT"
            BY <1>1, <2>1, <2>2, <3>3 DEF Verdict, SizedUpto
        <3>5. /\ Done("LOADER_OBJECT_BADSEGMENT")
              /\ UNCHANGED <<XXi, lcp, sc, seg_count, has_symtab>>
            BY <1>6, <2>2 DEF VmsizeSegment
        <3>6. Types'
            BY <1>1, <3>5 DEF Types
        <3> QED
            BY <1>1, <1>2, <3>4, <3>5, <3>6 DEF Loading, Done, InSize, InMap, AfterMap
    <2>3. CASE ~(file.filetype = "OBJECT" /\ seg_count > 0)
        <3>1. /\ sc' = sc + (IF file.filetype = "EXECUTE" THEN lc.vmsize
                                                          ELSE SectionSizes(lc))
              /\ seg_count' = seg_count + (IF file.filetype = "OBJECT" THEN 1 ELSE 0)
              /\ NextCommand(mem) /\ UNCHANGED <<pc, ret, has_symtab>>
            BY <1>6, <2>3 DEF VmsizeSegment
        <3>2. XXi' = XXi + 1 /\ AtCommand' /\ XXi' \in Nat
            BY <1>1, <2>1, <3>1, NextTurn
        <3>3. Types'
            BY <1>1, <1>3, <3>1, <3>2 DEF Types
        <3>4. SizeUpto(i + 1)'
            <4>1. CASE file.filetype = "EXECUTE"
                BY <1>1, <1>3, <2>1, <3>1, <4>1, SizeSegment DEF SizedUpto
            <4>2. CASE file.filetype # "EXECUTE"
                BY <1>1, <4>2 DEF SizeUpto
            <4> QED
                BY <4>1, <4>2
        <3>5. file.filetype = "OBJECT" => NoneUpto("SEGMENT", XXi)
            BY <1>1, <1>3, <2>3
        <3>6. file.filetype = "OBJECT" =>
                 \A j, k \in Segments(file) : j <= XXi + 1 /\ k <= XXi + 1 => j = k
            BY <1>3, <1>4, <3>5 DEF NoneUpto
        <3>7. has_symtab' <=> HasUpto("SYMTAB", i + 1)'
            BY <1>1, <1>3, <2>1, <3>1, HasNext, FileSame DEF SizedUpto
        <3>8. SizedUpto(i + 1)'
            BY <1>1, <3>4, <3>6, <3>7, <3>2 DEF SizedUpto
        <3>9. file.filetype = "OBJECT" => (seg_count' = 0 <=> NoneUpto("SEGMENT", XXi + 1))
            <4>1. ~NoneUpto("SEGMENT", XXi + 1)
                BY <1>1, <1>3, <2>1, HasNext
            <4> QED
                BY <1>3, <3>1, <4>1
        <3> QED
            BY <1>5, <2>1, <3>1, <3>2, <3>3, <3>8, <3>9
    <2> QED
        BY <2>2, <2>3
<1>7. ASSUME InLoop, VmsizeOther
      PROVE  Loading'
    <2>1. /\ lcp = XXi + 1 /\ file.lcs[XXi + 1].cmd # "SEGMENT"
          /\ lc = file.lcs[XXi + 1] /\ XXi < N /\ Intact(mem)
          /\ has_symtab' = (has_symtab \/ lc.cmd = "SYMTAB")
          /\ NextCommand(mem) /\ UNCHANGED <<pc, ret, sc, seg_count>>
        BY <1>3, <1>7 DEF VmsizeOther
    <2>2. XXi' = XXi + 1 /\ AtCommand' /\ XXi' \in Nat
        BY <1>1, <2>1, NextTurn
    <2>3. Types'
        BY <1>1, <1>3, <2>1, <2>2 DEF Types
    <2>4. SizeUpto(XXi + 1)
        BY <1>1, <1>3, <2>1, SizeOther DEF SizedUpto
    <2>5. SizeUpto(i + 1)'
        BY <1>1, <2>1, <2>4, FileSame DEF SizeUpto, SmallFilesizes
    <2>6. file.filetype = "OBJECT" =>
             \A j, k \in Segments(file) : j <= XXi + 1 /\ k <= XXi + 1 => j = k
        <3>1. \A k \in Segments(file) : k <= XXi + 1 => k <= XXi
            BY <1>3, <1>4, <2>1
        <3> QED
            BY <1>1, <3>1 DEF SizedUpto
    <2>7. has_symtab' <=> HasUpto("SYMTAB", i + 1)'
        BY <1>1, <1>3, <2>1, HasNext, FileSame DEF SizedUpto
    <2>8. SizedUpto(i + 1)'
        BY <1>1, <2>2, <2>5, <2>6, <2>7 DEF SizedUpto
    <2>9. file.filetype = "OBJECT" => (seg_count' = 0 <=> NoneUpto("SEGMENT", XXi + 1))
        BY <1>1, <1>3, <2>1, HasNext
    <2> QED
        BY <1>5, <2>1, <2>2, <2>3, <2>8, <2>9
<1>8. ASSUME ~InLoop, VmsizeEnd
      PROVE  Loading'
    <2>1. XXi = N /\ SizedUpto(N)
        BY <1>1, <1>3, <1>8
    <2>2. CASE file.filetype = "OBJECT" /\ ~has_symtab
        <3>1. Done("LOADER_NOSYMTAB") /\ UNCHANGED <<XXi, lcp, seg_count, sc, has_symtab>>
            BY <1>8, <2>2 DEF VmsizeEnd
        <3>2. ~Has(file, "SYMTAB")
            BY <1>1, <1>2, <2>1, <2>2, FileTypes DEF SizedUpto, HasUpto, Has, Types
        <3>3. \A j, k \in Segments(file) : ~(j < k)
            BY <1>4, <2>1, <2>2 DEF SizedUpto
        <3>4. Verdict(file) = "LOADER_NOSYMTAB"
            BY <2>1, <2>2, <3>2, <3>3 DEF Verdict, SizedUpto
        <3>5. Types'
            BY <1>1, <3>1 DEF Types
        <3> QED
            BY <1>1, <1>2, <3>1, <3>4, <3>5 DEF Loading, Done, InSize, InMap, AfterMap
    <2>3. CASE ~(file.filetype = "OBJECT" /\ ~has_symtab)
        <3>1. StartLoop("map") /\ UNCHANGED <<ret, sc, has_symtab>>
            BY <1>8, <2>3 DEF VmsizeEnd
        <3>2. Types' /\ AtCommand'
            BY <1>1, <1>2, <3>1, FileSame DEF Types, AtCommand, StartLoop
        <3>3. Sized
            BY <2>1, <2>3 DEF Sized, SizedUpto
        <3>4. Sized'
            BY <1>1, <3>1, <3>3, FileSame DEF Sized
        <3>5. NoneUpto("SEGMENT", 0)' /\ AllowedUpto(0)'
            BY <1>1, UptoNone, FileSame
        <3>6. MappedUpto(0)'
            <4>1. MappedUpto(0)
                BY <1>1, UptoNone
            <4> QED
                BY <1>1, <4>1, <3>2 DEF MappedUpto
        <3>7. InMap'
            BY <1>1, <3>1, <3>2, <3>5, <3>6 DEF InMap, StartLoop
        <3> QED
            BY <1>1, <1>2, <3>1, <3>2, <3>4, <3>7 DEF Loading, StartLoop, InSize, AfterMap
    <2> QED
        BY <2>2, <2>3
<1> QED
    BY <1>6, <1>7, <1>8 DEF mach_file_vmsize

(* Whatever mach_file_map reads back, it does not change what the size     *)
(* pass has found, and stops with an error or goes on.                     *)
LEMMA MapTypes ==
    ASSUME Loading, mach_file_map
    PROVE  /\ Types /\ pc = "map" /\ ret = "LOADER_SUCCESS" /\ Sized
           /\ Types' /\ Sized' /\ file' = file
           /\ pc' \in {"map", "entry", "undefined", "done"}
           /\ pc' # "done" => ret' = "LOADER_SUCCESS"
           /\ pc' = "done" => ret' # "LOADER_SUCCESS"
<1>1. /\ Types /\ pc = "map" /\ ret = "LOADER_SUCCESS" /\ Sized
      /\ file' = file /\ sc' = sc /\ has_symtab' = has_symtab
    BY DEF Loading, mach_file_map
<1>2. Sized'
    BY <1>1, FileSame DEF Sized
<1> DEFINE Fine == /\ DOMAIN mem' = DOMAIN mem
                   /\ XXi' \in Nat /\ seg_count' \in Nat /\ nsect' \in Nat
                   /\ pc' \in {"map", "entry", "undefined", "done"}
                   /\ pc' # "done" => ret' = "LOADER_SUCCESS"
                   /\ pc' = "done" => ret' # "LOADER_SUCCESS"
<1>3. /\ \A m : NextCommand(m) => XXi' \in Nat
      /\ XXi \in Nat /\ seg_count \in Nat /\ nsect \in Nat
      /\ seg_count + 1 \in Nat /\ nsect + 1 \in Nat
    BY <1>1 DEF Types, NextCommand
<1>4. ASSUME MapSegment, UNCHANGED nsect PROVE Fine
    <2>1. DOMAIN ZeroDelta(CopySegment(lc), lc) = DOMAIN mem
        BY DEF ZeroDelta, CopySegment, bcopy, bzero
    <2> QED
        BY <1>1, <1>3, <1>4, <2>1 DEF MapSegment, Done
<1>5. ASSUME MapObject PROVE Fine
    BY <1>1, <1>3, <1>5 DEF MapObject, Done
<1>6. ASSUME MapSection PROVE Fine
    <2>1. DOMAIN mem' = DOMAIN mem
        BY <1>6 DEF MapSection, _map_section, bcopy, bzero
    <2> QED
        BY <1>1, <1>3, <1>6, <2>1 DEF MapSection
<1>7. ASSUME SectionsEnd PROVE Fine
    BY <1>1, <1>3, <1>7 DEF SectionsEnd
<1>8. ASSUME MapThread \/ MapOther \/ MapZeroed, UNCHANGED nsect PROVE Fine
    BY <1>1, <1>3, <1>8 DEF MapThread, MapOther, MapZeroed
<1>9. ASSUME MapDyldInfo, UNCHANGED nsect PROVE Fine
    BY <1>1, <1>3, <1>9 DEF MapDyldInfo, Done
<1>10. ASSUME MapEnd, UNCHANGED nsect PROVE Fine
    BY <1>1, <1>3, <1>10 DEF MapEnd
<1>11. Fine
    BY <1>4, <1>5, <1>6, <1>7, <1>8, <1>9, <1>10 DEF mach_file_map
<1>12. Types'
    BY <1>1, <1>11 DEF Types
<1> QED
    BY <1>1, <1>2, <1>11, <1>12

(* The command after one that is mapped, when the file stays intact. *)
LEMMA MappedOne ==
    ASSUME Loading, mach_file_map, Apart(file), AtCommand, NEW i \in Nat, i = XXi, i < N,
           AllowedUpto(i + 1), MappedUpto(i + 1)', FileIn(file, mem'),
           NEW m, Intact(m), NextCommand(m), UNCHANGED <<pc, ret>>, nsect' = 0,
           seg_count' = 0 <=> NoneUpto("SEGMENT", i + 1)
    PROVE  Loading'
<1>1. /\ Types /\ Types' /\ Sized' /\ pc = "map" /\ file' = file /\ ret = "LOADER_SUCCESS"
    BY MapTypes
<1>2. XXi' = i + 1 /\ AtCommand'
    BY <1>1, NextTurn
<1>3. AllowedUpto(i + 1)' /\ (NoneUpto("SEGMENT", i + 1)' <=> NoneUpto("SEGMENT", i + 1))
    BY <1>1, FileSame
<1>4. InMap'
    BY <1>1, <1>2, <1>3 DEF InMap
<1> QED
    BY <1>1, <1>4 DEF Loading, InSize, AfterMap

(* An end of the mapping with an answer. *)
LEMMA MapStops ==
    ASSUME Loading, mach_file_map, Apart(file), FileIn(file, mem'), pc' = "done",
           ret' = Verdict(file)
    PROVE  Loading'
<1>1. /\ Types' /\ file' = file /\ ret' # "LOADER_SUCCESS"
    BY MapTypes
<1> QED
    BY <1>1 DEF Loading, InSize, InMap, AfterMap

LEMMA MapAt ==
    ASSUME Loading, pc = "map", Apart(file)
    PROVE  /\ Types /\ FileIn(file, mem) /\ AtCommand /\ Sized
           /\ AllowedUpto(XXi) /\ MappedUpto(XXi)
           /\ nsect > 0 => file.filetype = "OBJECT" /\ XXi < N /\ lc.cmd = "SEGMENT"
           /\ seg_count = 0 <=> NoneUpto("SEGMENT", XXi)
           /\ InLoop <=> XXi < N
           /\ XXi < N => /\ lcp = XXi + 1 /\ XXi + 1 \in 1 .. N /\ lc = file.lcs[XXi + 1]
                         /\ Intact(mem) /\ ~Zeroed(mem)
                         /\ XXi + 1 \in Segments(file) <=> lc.cmd = "SEGMENT"
           /\ ~(XXi < N) => XXi = N
           /\ XXi \in Nat /\ seg_count \in Nat /\ nsect \in Nat /\ N \in Nat
<1>1. /\ Types /\ FileIn(file, mem) /\ AtCommand /\ Sized
      /\ AllowedUpto(XXi) /\ MappedUpto(XXi)
      /\ nsect > 0 => file.filetype = "OBJECT" /\ XXi < N /\ lc.cmd = "SEGMENT"
      /\ seg_count = 0 <=> NoneUpto("SEGMENT", XXi)
    BY DEF Loading, InMap
<1> QED
    BY <1>1, AtTurn DEF Types, lc

LEMMA LoadingSegment ==
    ASSUME Loading, mach_file_map, Apart(file), nsect = 0, UNCHANGED nsect, InLoop, MapSegment
    PROVE  Loading'
<1> PICK i \in Nat : i = XXi
    BY MapTypes DEF Types
<1>1. /\ Types /\ pc = "map" /\ FileIn(file, mem) /\ AtCommand /\ Sized /\ file' = file
      /\ AllowedUpto(i) /\ MappedUpto(i) /\ (seg_count = 0 <=> NoneUpto("SEGMENT", i))
      /\ i < N /\ lcp = i + 1 /\ i + 1 \in 1 .. N /\ lc = file.lcs[i + 1] /\ Intact(mem)
      /\ i + 1 \in Segments(file) /\ lc.cmd = "SEGMENT" /\ file.filetype = "EXECUTE"
      /\ seg_count \in Nat
    BY MapAt, MapTypes DEF MapSegment
<1>2. CASE file.vm_bias = 0 /\ seg_count = 0 /\ lc.vmaddr # 0
    <2>1. Done("LOADER_EXEC_UNSUPPORTED") /\ mem' = mem
        BY <1>2 DEF MapSegment
    <2>2. \A j \in Segments(file) : i + 1 <= j
        BY <1>1, <1>2, FileTypes DEF NoneUpto, Types
    <2>3. Verdict(file) = "LOADER_EXEC_UNSUPPORTED"
        BY <1>1, <1>2, <2>2 DEF Verdict, Sized, SizedUpto
    <2> QED
        BY <1>1, <2>1, <2>3, MapStops DEF Done
<1>3. CASE ~(file.vm_bias = 0 /\ seg_count = 0 /\ lc.vmaddr # 0)
    <2>1. /\ mem' = ZeroDelta(CopySegment(lc), lc)
          /\ IF Clobbered(CopySegment(lc)) \/ Clobbered(mem')
             THEN pc' = "undefined" /\ UNCHANGED <<XXi, lcp>>
             ELSE NextCommand(mem') /\ UNCHANGED pc
          /\ seg_count' = seg_count + 1
          /\ UNCHANGED <<ret, entry_point>>
        BY <1>3 DEF MapSegment
    <2>2. /\ MappedUpto(i + 1)' /\ FileIn(file, mem') /\ FileIn(file, CopySegment(lc))
        BY <1>1, <2>1, MappedSegment
    <2>3. ~Clobbered(CopySegment(lc)) /\ ~Clobbered(mem') /\ Intact(mem')
        BY <1>1, <2>2, ReadBack DEF Types
    <2>4. NextCommand(mem') /\ UNCHANGED <<pc, ret>>
        BY <2>1, <2>3
    <2>5. AllowedUpto(i + 1)
        BY <1>1, <1>3, AllowedNext
    <2>6. seg_count' # 0 /\ ~NoneUpto("SEGMENT", i + 1)
        BY <1>1, <2>1, HasNext
    <2> QED
        BY <1>1, <2>2, <2>3, <2>4, <2>5, <2>6, MappedOne
<1> QED
    BY <1>2, <1>3

(* The second segment of an object was refused by the size pass already. *)
LEMMA LoadingObject ==
    ASSUME Loading, mach_file_map, Apart(file), nsect = 0, InLoop, MapObject
    PROVE  Loading'
<1> PICK i \in Nat : i = XXi
    BY MapTypes DEF Types
<1>1. /\ Types /\ Types' /\ pc = "map" /\ FileIn(file, mem) /\ AtCommand /\ Sized /\ Sized'
      /\ file' = file /\ ret = "LOADER_SUCCESS"
      /\ AllowedUpto(i) /\ MappedUpto(i) /\ (seg_count = 0 <=> NoneUpto("SEGMENT", i))
      /\ i < N /\ lc = file.lcs[i + 1] /\ i + 1 \in Segments(file) /\ lc.cmd = "SEGMENT"
      /\ file.filetype = "OBJECT" /\ seg_count \in Nat
    BY MapAt, MapTypes DEF MapObject
<1>2. seg_count = 0
    <2> SUFFICES ASSUME seg_count # 0 PROVE FALSE
        OBVIOUS
    <2>1. PICK k \in 1 .. N : k <= i /\ file.lcs[k].cmd = "SEGMENT"
        BY <1>1 DEF NoneUpto
    <2>2. k \in Segments(file) /\ k # i + 1 /\ k <= N /\ i + 1 <= N
        BY <1>1, <2>1, FileTypes DEF Types
    <2> QED
        BY <1>1, <2>2 DEF Sized, SizedUpto
<1>3. nsect' = 1 /\ UNCHANGED <<pc, ret, XXi, lcp, seg_count, mem, entry_point>>
    BY <1>1, <1>2 DEF MapObject
<1>4. AllowedUpto(i)' /\ MappedUpto(i)' /\ (NoneUpto("SEGMENT", i)' <=> NoneUpto("SEGMENT", i))
    BY <1>1, <1>3, FileSame
<1>5. AtCommand' /\ N' = N /\ lc' = lc
    BY <1>1, <1>3 DEF AtCommand, N, lc
<1>6. InMap'
    BY <1>1, <1>3, <1>4, <1>5 DEF InMap
<1> QED
    BY <1>1, <1>3, <1>6 DEF Loading, InSize, AfterMap

LEMMA LoadingSection ==
    ASSUME Loading, mach_file_map, Apart(file), nsect > 0, MapSection
    PROVE  Loading'
<1> PICK i \in Nat : i = XXi
    BY MapTypes DEF Types
<1>1. /\ Types /\ Types' /\ pc = "map" /\ FileIn(file, mem) /\ AtCommand /\ Sized /\ Sized'
      /\ file' = file /\ ret = "LOADER_SUCCESS" /\ nsect \in Nat
      /\ AllowedUpto(i) /\ (seg_count = 0 <=> NoneUpto("SEGMENT", i))
      /\ i < N /\ lcp = i + 1 /\ i + 1 \in 1 .. N
      /\ lc = file.lcs[i + 1] /\ i + 1 \in Segments(file) /\ lc.cmd = "SEGMENT"
      /\ file.filetype = "OBJECT"
    BY MapAt, MapTypes
<1>2. /\ nsect <= Len(lc.sects)
      /\ mem' = _map_section(mem, lc.sects[nsect])
      /\ IF Clobbered(mem') THEN pc' = "undefined" /\ UNCHANGED nsect
                            ELSE nsect' = nsect + 1 /\ UNCHANGED pc
      /\ UNCHANGED <<XXi, lcp, ret, seg_count, entry_point>>
    BY DEF MapSection, HasSection
<1>3. lc.sects \in Seq(Section)
    BY <1>1, SegmentTypes DEF Types
<1>4. nsect \in 1 .. Len(file.lcs[i + 1].sects)
    BY <1>1, <1>2, <1>3
<1>5. FileIn(file, mem')
    BY <1>1, <1>2, <1>4, SectionCopied
<1>6. nsect' = nsect + 1 /\ pc' = pc
    BY <1>1, <1>2, <1>5, ReadBack DEF Types
<1>7. /\ AllowedUpto(i)' /\ (NoneUpto("SEGMENT", i)' <=> NoneUpto("SEGMENT", i))
      /\ AtCommand' /\ N' = N /\ lc' = lc
    BY <1>1, <1>2, FileSame DEF AtCommand, N, lc
<1>8. MappedUpto(i)'
    BY <1>1 DEF MappedUpto
<1>9. InMap'
    BY <1>1, <1>2, <1>6, <1>7, <1>8 DEF InMap
<1> QED
    BY <1>1, <1>2, <1>5, <1>6, <1>9 DEF Loading, InSize, AfterMap

LEMMA LoadingSections ==
    ASSUME Loading, mach_file_map, Apart(file), nsect > 0, SectionsEnd
    PROVE  Loading'
<1> PICK i \in Nat : i = XXi
    BY MapTypes DEF Types
<1>1. /\ Types /\ FileIn(file, mem) /\ AtCommand /\ file' = file
      /\ AllowedUpto(i) /\ i < N /\ lc = file.lcs[i + 1] /\ Intact(mem)
      /\ lc.cmd = "SEGMENT" /\ file.filetype = "OBJECT" /\ seg_count \in Nat
    BY MapAt, MapTypes
<1>2. /\ nsect' = 0 /\ seg_count' = seg_count + 1 /\ NextCommand(mem)
      /\ UNCHANGED <<pc, ret, mem, entry_point>>
    BY DEF SectionsEnd
<1>3. AllowedUpto(i + 1) /\ ~NoneUpto("SEGMENT", i + 1)
    BY <1>1, AllowedNext, HasNext
<1>4. MappedUpto(i + 1)'
    BY <1>1 DEF MappedUpto
<1> QED
    BY <1>1, <1>2, <1>3, <1>4, MappedOne

LEMMA LoadingCommand ==
    ASSUME Loading, mach_file_map, Apart(file), nsect = 0, UNCHANGED nsect, InLoop,
           MapThread \/ MapOther \/ MapDyldInfo
    PROVE  Loading'
<1> PICK i \in Nat : i = XXi
    BY MapTypes DEF Types
<1>1. /\ Types /\ FileIn(file, mem) /\ AtCommand /\ file' = file /\ Sized
      /\ AllowedUpto(i) /\ MappedUpto(i) /\ i < N /\ lc = file.lcs[i + 1] /\ Intact(mem)
      /\ (seg_count = 0 <=> NoneUpto("SEGMENT", i)) /\ i + 1 \in 1 .. N
    BY MapAt, MapTypes
<1>2. CASE MapThread \/ MapOther
    <2>1. /\ NextCommand(mem) /\ UNCHANGED <<pc, ret, seg_count, mem>>
          /\ lc.cmd \notin {"SEGMENT", "DYLD_INFO"}
          /\ entry_point' = IF lc.cmd = "UNIXTHREAD" THEN lc.pc ELSE entry_point
        BY <1>2 DEF MapThread, MapOther
    <2>2. AllowedUpto(i + 1) /\ MappedUpto(i + 1)'
        BY <1>1, <2>1, AllowedNext, MappedOther
    <2>3. seg_count' = 0 <=> NoneUpto("SEGMENT", i + 1)
        BY <1>1, <2>1, HasNext
    <2> QED
        BY <1>1, <2>1, <2>2, <2>3, MappedOne
<1>3. CASE MapDyldInfo
    <2>1. Done("LOADER_EXEC_UNSUPPORTED") /\ mem' = mem /\ lc.cmd = "DYLD_INFO"
        BY <1>3 DEF MapDyldInfo
    <2>2. Has(file, "DYLD_INFO")
        BY <1>1, <2>1, FileTypes DEF Has, Types
    <2>3. CASE file.filetype = "EXECUTE"
        <3>1. Verdict(file) = "LOADER_EXEC_UNSUPPORTED"
            BY <1>1, <2>2, <2>3 DEF Verdict, Sized, SizedUpto
        <3> QED
            BY <1>1, <2>1, <3>1, MapStops DEF Done
    <2>4. CASE file.filetype = "OBJECT"
        <3>1. \A j, k \in Segments(file) : ~(j < k)
            BY <1>1, <2>4, FileTypes DEF Sized, SizedUpto, Types
        <3>2. Has(file, "SYMTAB")
            BY <1>1, <2>4, FileTypes DEF Sized, HasUpto, Has, Types
        <3>3. Verdict(file) = "LOADER_EXEC_UNSUPPORTED"
            BY <1>1, <2>2, <2>4, <3>1, <3>2 DEF Verdict, Sized, SizedUpto
        <3> QED
            BY <1>1, <2>1, <3>3, MapStops DEF Done
    <2> QED
        BY <1>1, <2>3, <2>4 DEF Sized, SizedUpto
<1> QED
    BY <1>2, <1>3

LEMMA LoadingMap ==
    ASSUME Loading, mach_file_map
    PROVE  Loading'
<1>1. CASE ~Apart(file)
    BY <1>1, MapTypes DEF Loading, InSize, InMap, AfterMap
<1>2. CASE Apart(file)
    <2>1. ASSUME nsect = 0, InLoop, Zeroed(mem)
          PROVE  Loading'
        BY <1>2, <2>1, MapAt, MapTypes
    <2>2. ASSUME nsect = 0, ~InLoop, MapEnd
          PROVE  Loading'
        <3>1. /\ Types' /\ Sized' /\ file' = file /\ FileIn(file, mem)
              /\ AllowedUpto(N) /\ MappedUpto(N) /\ ret = "LOADER_SUCCESS"
            BY <1>2, <2>2, MapAt, MapTypes
        <3>2. pc' = "entry" /\ UNCHANGED <<ret, mem, entry_point>>
            BY <2>2 DEF MapEnd
        <3>3. AfterMap'
            BY <3>1, <3>2, FileSame DEF AfterMap
        <3> QED
            BY <3>1, <3>2, <3>3 DEF Loading, InSize, InMap
    <2> QED
        BY <1>2, <2>1, <2>2, LoadingSegment, LoadingObject, LoadingSection, LoadingSections,
           LoadingCommand DEF mach_file_map
<1> QED
    BY <1>1, <1>2

LEMMA LoadingEntry ==
    ASSUME Loading, mach_file_get_entry_point
    PROVE  Loading'
<1>1. /\ Types /\ Sized /\ pc = "entry" /\ pc' = "done"
      /\ UNCHANGED <<file, mem, XXi, lcp, sc, seg_count, has_symtab, nsect, entry_point>>
      /\ ret' = IF file.filetype = "EXECUTE" THEN "LOADER_SUCCESS" ELSE "LOADER_BADFILETYPE"
      /\ Apart(file) => FileIn(file, mem) /\ AllowedUpto(N) /\ MappedUpto(N)
    BY DEF Loading, AfterMap, mach_file_get_entry_point, Done
<1>2. Types' /\ Sized' /\ (Apart(file) => MappedUpto(N)')
    BY <1>1, FileSame DEF Types, Sized
<1>3. /\ N \in Nat /\ DOMAIN file.lcs = 1 .. N
      /\ \A k \in Segments(file) : k \in 1 .. N
      /\ file.magic /\ file.filetype \in {"EXECUTE", "OBJECT"}
    BY <1>1, FileTypes DEF Types, Sized, SizedUpto
<1>4. ASSUME Apart(file)
      PROVE  ret' = Verdict(file)
    <2>1. ~Has(file, "DYLD_INFO")
        BY <1>1, <1>3, <1>4 DEF Has, AllowedUpto, NoneUpto
    <2>2. CASE file.filetype = "EXECUTE"
        <3>1. ~(/\ file.vm_bias = 0
                /\ \E k \in Segments(file) :
                      (\A j \in Segments(file) : k <= j) /\ file.lcs[k].vmaddr # 0)
            BY <1>1, <1>3, <1>4, <2>2 DEF AllowedUpto
        <3> QED
            BY <1>1, <1>3, <2>1, <2>2, <3>1 DEF Verdict
    <2>3. CASE file.filetype = "OBJECT"
        <3>1. \A j, k \in Segments(file) : ~(j < k)
            BY <1>1, <1>3, <2>3 DEF Sized, SizedUpto
        <3>2. Has(file, "SYMTAB")
            BY <1>1, <1>3, <2>3 DEF Sized, HasUpto, Has
        <3> QED
            BY <1>1, <1>3, <2>1, <2>3, <3>1, <3>2 DEF Verdict
    <2> QED
        BY <1>3, <2>2, <2>3
<1>5. ret' = "LOADER_SUCCESS" => file.filetype = "EXECUTE"
    BY <1>1
<1> QED
    BY <1>1, <1>2, <1>4, <1>5, FileSame DEF Loading, InSize, InMap, AfterMap

LEMMA LoadingStutters ==
    ASSUME Loading, UNCHANGED vars
    PROVE  Loading'
<1>1. UNCHANGED <<file, mem, pc, XXi, lcp, sc, seg_count, has_symtab, nsect, entry_point, ret>>
    BY DEF vars
<1>2. Types' /\ AtCommand' = AtCommand /\ Sized' = Sized /\ lc' = lc /\ N' = N
    BY <1>1, FileSame DEF Loading, Types, AtCommand, Sized, lc
<1> QED
    BY <1>1, <1>2, FileSame DEF Loading, InSize, InMap, AfterMap

(* What the passes over the load commands have found is what the file's    *)
(* commands so far say, for every file and at every step.                  *)
THEOREM LoadingCorrect == Spec => []Loading
<1>1. Loading /\ [Next]_vars => Loading'
    BY LoadingHeader, LoadingSize, LoadingMap, LoadingEntry, LoadingStutters DEF Next, load_macho
<1> QED
    BY LoadingInit, <1>1, PTL DEF Spec

-----------------------------------------------------------------------------
(* The answer of load_macho is the one the load commands call for,         *)
(* wherever in the list the command that decides stands.                   *)
THEOREM ResultIsSpecified == Spec => []ResultAsSpecified
<1>1. Loading => ResultAsSpecified
    BY DEF Loading, ResultAsSpecified
<1> QED
    BY LoadingCorrect, <1>1, PTL

(* A kernel that is reported as loaded is there: every segment holds its   *)
(* part of the file followed by zeros, nothing else has changed, and the   *)
(* entry point is that of the file's last thread, if it has one.           *)
THEOREM MappingIsExact == Spec => []MapExact
<1>1. Loading => MapExact
    <2> SUFFICES ASSUME Loading, pc = "done", ret = "LOADER_SUCCESS", Apart(file),
                        SegmentsDisjoint(file)
                 PROVE  MapExact
        BY DEF MapExact
    <2>1. /\ Types /\ file.filetype = "EXECUTE" /\ MappedUpto(N)
        BY DEF Loading
    <2>2. /\ N \in Nat /\ DOMAIN file.lcs = 1 .. N /\ DOMAIN mem = 0 .. MemEnd - 1
          /\ \A k \in 1 .. N : k <= N
          /\ \A k \in Segments(file) : k <= N
        BY <2>1, FileTypes DEF Types
    <2>3. \A a \in DOMAIN mem :
             /\ \A k \in Segments(file) : Covers(file, k, a) => mem[a] = Content(file, k, a)
             /\ (\A k \in Segments(file) : ~Covers(file, k, a)) => mem[a] = WithFile(file)[a]
        BY <2>1, <2>2 DEF MappedUpto
    <2>4. \A k \in DOMAIN file.lcs :
             /\ file.lcs[k].cmd = "UNIXTHREAD"
             /\ \A l \in DOMAIN file.lcs : file.lcs[l].cmd = "UNIXTHREAD" => l <= k
             => entry_point = file.lcs[k].pc
        BY <2>1, <2>2 DEF MappedUpto
    <2> QED
        BY <2>3, <2>4 DEF MapExact
<1> QED
    BY LoadingCorrect, <1>1, PTL

(* For contiguous segments the size that mach_file_vmsize adds up is the   *)
(* memory they occupy.                                                     *)
THEOREM SizeIsExact == Spec => []VmsizeExact
<1>1. Loading => VmsizeExact
    <2> SUFFICES ASSUME Loading, pc = "done", ret = "LOADER_SUCCESS", Contiguous(file),
                        SmallFilesizes, NEW limit \in LoadAddr .. MemEnd
                 PROVE  MappedBelow(file, limit) <=> LoadAddr + sc <= limit
        BY DEF VmsizeExact, SmallFilesizes
    <2>1. Types /\ file.filetype = "EXECUTE" /\ SizeUpto(N)
        BY DEF Loading, Sized, SizedUpto
    <2>2. /\ N \in Nat /\ LoadAddr \in Nat /\ MemEnd \in Nat
          /\ \A k \in Segments(file) : k <= N /\ SegmentEnd(file, k) \in Nat
        BY <2>1, FileTypes, SegmentTypes DEF Types
    <2>3. /\ sc \in Nat
          /\ \A k \in Segments(file) : SegmentEnd(file, k) <= LoadAddr + sc
          /\ sc = 0 \/ \E k \in Segments(file) : SegmentEnd(file, k) = LoadAddr + sc
        BY <2>1, <2>2 DEF SizeUpto
    <2>4. MappedBelow(file, limit) <=> \A k \in Segments(file) : SegmentEnd(file, k) <= limit
        BY <2>1, <2>2 DEF MappedBelow
    <2> QED
        BY <2>2, <2>3, <2>4
<1> QED
    BY LoadingCorrect, <1>1, PTL
=============================================================================
