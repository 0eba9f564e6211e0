------------------------------- MODULE MachO --------------------------------
(***************************************************************************)
(* How a kernel image gets from its file into memory: load_macho of        *)
(* main/loader.c and the functions of mach-o/macho.c that it calls, one    *)
(* load command at a time.                                                 *)
(*                                                                         *)
(* The file is in memory while it is parsed, and a compressed kernel's     *)
(* file lies above the area the kernel is mapped to, at the distance the   *)
(* loader chooses.  The header and each load command take one cell of the  *)
(* file; the loops read them from memory at every turn, so a segment that  *)
(* reaches the file changes what the rest of the loop sees.                *)
(***************************************************************************)
EXTENDS Integers, Sequences, Functions

CONSTANTS
    Files,      \* Mach-O files, see below
    LoadAddr,   \* the physical address it is mapped to
    MemEnd,     \* the end of the memory
    Garbage     \* what an uninitialized entry_point may hold

(***************************************************************************)
(* A file is a record:                                                     *)
(*   magic       whether the magic is MH_MAGIC                             *)
(*   filetype    "EXECUTE", "OBJECT" or "OTHER"                            *)
(*   lcs         its load commands                                         *)
(*   len         its length in cells                                       *)
(*   compressed  whether the loader had to decompress it                   *)
(*   staged      where it lies if the loader had not to                    *)
(*   vm_bias     the load address of the command, set as its vm bias       *)
(* A load command has a cmd, and                                           *)
(*   "SEGMENT"     vmaddr, vmsize, fileoff, filesize, sects                *)
(*   "UNIXTHREAD"  pc                                                      *)
(* and a section addr, size, offset and zerofill.                          *)
(***************************************************************************)
Segments(f) == {k \in DOMAIN f.lcs : f.lcs[k].cmd = "SEGMENT"}

(* The cells of memory a command writes: from, to (exclusive). *)
SegmentStart(f, k) == LoadAddr + (f.lcs[k].vmaddr - f.vm_bias)
SegmentEnd(f, k) ==
    SegmentStart(f, k) + (IF f.lcs[k].vmsize >= f.lcs[k].filesize
                          THEN f.lcs[k].vmsize ELSE f.lcs[k].filesize)
SectionEnd(f, k, j) == LoadAddr + f.lcs[k].sects[j].addr + f.lcs[k].sects[j].size

(* The memory the contents of the file are mapped to ends at or below.     *)
MappedBelow(f, limit) ==
    /\ LoadAddr <= limit
    /\ \A k \in Segments(f) :
          IF f.filetype = "EXECUTE"
          THEN SegmentEnd(f, k) <= limit
          ELSE \A j \in DOMAIN f.lcs[k].sects : SectionEnd(f, k, j) <= limit

Section == [addr : Nat, size : Nat, offset : Nat, zerofill : BOOLEAN]

ASSUME FilesAssumption ==
    /\ LoadAddr \in Nat /\ MemEnd \in Nat
    /\ \A f \in Files :
          /\ f.magic \in BOOLEAN /\ f.compressed \in BOOLEAN
          /\ f.filetype \in {"EXECUTE", "OBJECT", "OTHER"}
          /\ f.vm_bias \in Nat /\ f.len \in Nat /\ f.staged \in Nat
          /\ Len(f.lcs) \in Nat /\ DOMAIN f.lcs = 1 .. Len(f.lcs)
          /\ f.len > Len(f.lcs)
          /\ \A k \in Segments(f) :
                /\ f.lcs[k].vmaddr \in Nat /\ f.lcs[k].vmaddr >= f.vm_bias
                /\ f.lcs[k].vmsize \in Nat
                /\ f.lcs[k].fileoff \in Nat /\ f.lcs[k].filesize \in Nat
                /\ f.lcs[k].fileoff + f.lcs[k].filesize <= f.len
                /\ f.lcs[k].sects \in Seq(Section)
                /\ \A j \in DOMAIN f.lcs[k].sects :
                      ~f.lcs[k].sects[j].zerofill =>
                          f.lcs[k].sects[j].offset + f.lcs[k].sects[j].size <= f.len
          /\ MappedBelow(f, MemEnd)
          /\ LoadAddr + 5 * f.len <= MemEnd
          /\ f.staged + f.len <= MemEnd

VARIABLES
    file,           \* the file being loaded
    mem,            \* the memory
    pc,             \* the function of macho.c that runs, or "done"
    XXi, lcp,       \* for_each_lc: the turn and the cell of the command
    sc,             \* mach_file_vmsize: the sum so far, then full_size
    seg_count, has_symtab,
    nsect,          \* mach_file_map: the section it maps next, 0 outside of them
    entry_point,    \* the field of the context
    ret             \* what load_macho found: a loader_return_t

vars == <<file, mem, pc, XXi, lcp, sc, seg_count, has_symtab, nsect, entry_point, ret>>

(* Where the loader puts the file: decompressed, at 4 times its length     *)
(* above the area the kernel is mapped to.                                 *)
image_address(f) == IF f.compressed THEN LoadAddr + f.len * 4 ELSE f.staged

FileCell(k) == <<"file", k>>
Zero == <<"zero", 0>>
Old == <<"old", 0>>

WithFile(f) ==
    [a \in 0 .. (MemEnd - 1) |->
        IF a \in image_address(f) .. (image_address(f) + f.len - 1)
        THEN FileCell(a - image_address(f)) ELSE Old]

Init ==
    /\ file \in Files
    /\ mem = WithFile(file)
    /\ pc = "init"
    /\ XXi = 0
    /\ lcp = 1
    /\ sc = 0
    /\ seg_count = 0
    /\ has_symtab = FALSE
    /\ nsect = 0
    /\ entry_point \in Garbage
    /\ ret = "LOADER_SUCCESS"

(* What is read back from the file: the header and the load commands.      *)
Head_ == mem[image_address(file)]
HeadIntact == Head_ = FileCell(0)
ncmds == IF HeadIntact THEN Len(file.lcs) ELSE 0

CellOf(m) == m[image_address(file) + lcp]
Intact(m) == CellOf(m) = FileCell(lcp)
Zeroed(m) == CellOf(m) = Zero

(* A header or command overwritten by other file contents: the code goes   *)
(* on with whatever it reads.                                              *)
Clobbered(m) ==
    \/ m[image_address(file)] \notin {FileCell(0), Zero}
    \/ ~Intact(m) /\ ~Zeroed(m)

InLoop == XXi < ncmds
lc == file.lcs[lcp]

Done(code) == pc' = "done" /\ ret' = code

(* Mutant: only commands that were read are counted. *)
NextCommand_ReadOnly(m) ==
    /\ XXi' = IF Intact(m) THEN XXi + 1 ELSE XXi
    /\ lcp' = IF Intact(m) /\ lcp < Len(file.lcs) THEN lcp + 1 ELSE lcp

(* lcp moves by cmdsize, read after the body: a zeroed command has none.   *)
NextCommand(m) ==
    /\ XXi' = XXi + 1
    /\ lcp' = IF Intact(m) /\ lcp < Len(file.lcs) THEN lcp + 1 ELSE lcp

StartLoop(function) ==
    /\ pc' = function
    /\ XXi' = 0
    /\ lcp' = 1
    /\ seg_count' = 0

-----------------------------------------------------------------------------
mach_file_init ==
    /\ pc = "init"
    /\ \/ ~file.magic /\ Done("LOADER_BADMAGIC") /\ UNCHANGED <<XXi, lcp, seg_count>>
       \/ /\ file.magic
          /\ file.filetype \notin {"EXECUTE", "OBJECT"}
          /\ Done("LOADER_BADFILETYPE")
          /\ UNCHANGED <<XXi, lcp, seg_count>>
       \/ /\ file.magic
          /\ file.filetype \in {"EXECUTE", "OBJECT"}
          /\ StartLoop("vmsize")
          /\ UNCHANGED ret
    /\ UNCHANGED <<file, mem, sc, has_symtab, nsect, entry_point>>

-----------------------------------------------------------------------------
(* The size of a segment: its own, or the sum of an object's sections. *)
SectionSizes(seg) == FoldFunction(LAMBDA s, n : s.size + n, 0, seg.sects)

(* Mutant: the sizes in the file are added up. *)
VmsizeSegment_FileSizes ==
    /\ lc.cmd = "SEGMENT"
    /\ sc' = sc + lc.filesize
    /\ seg_count' = seg_count + 1
    /\ NextCommand(mem)
    /\ UNCHANGED <<pc, ret, has_symtab>>

VmsizeSegment ==
    /\ lc.cmd = "SEGMENT"
    /\ IF file.filetype = "OBJECT" /\ seg_count > 0
       THEN /\ Done("LOADER_OBJECT_BADSEGMENT")
            /\ UNCHANGED <<XXi, lcp, sc, seg_count, has_symtab>>
       ELSE /\ sc' = sc + (IF file.filetype = "EXECUTE" THEN lc.vmsize
                                                        ELSE SectionSizes(lc))
            /\ seg_count' = seg_count + (IF file.filetype = "OBJECT" THEN 1 ELSE 0)
            /\ NextCommand(mem)
            /\ UNCHANGED <<pc, ret, has_symtab>>

VmsizeOther ==
    /\ lc.cmd # "SEGMENT"
    /\ has_symtab' = (has_symtab \/ lc.cmd = "SYMTAB")
    /\ NextCommand(mem)
    /\ UNCHANGED <<pc, ret, sc, seg_count>>

(* Mutant: an object needs no symbol table. *)
VmsizeEnd_NoSymtab ==
    /\ StartLoop("map")
    /\ UNCHANGED <<ret, sc, has_symtab>>

VmsizeEnd ==
    /\ IF file.filetype = "OBJECT" /\ ~has_symtab
       THEN Done("LOADER_NOSYMTAB") /\ UNCHANGED <<XXi, lcp, seg_count>>
       ELSE StartLoop("map") /\ UNCHANGED ret
    /\ UNCHANGED <<sc, has_symtab>>

mach_file_vmsize ==
    /\ pc = "vmsize"
    /\ \/ InLoop /\ VmsizeSegment
       \/ InLoop /\ VmsizeOther
       \/ ~InLoop /\ VmsizeEnd
    /\ UNCHANGED <<file, mem, nsect, entry_point>>

-----------------------------------------------------------------------------
(* bcopy and bzero on cells.  The whole source is read before the target   *)
(* is written, which for a target below the source is also what a copy     *)
(* that goes up byte by byte does.                                         *)
bcopy(m, src, dst, n) ==
    [a \in DOMAIN m |-> IF a \in dst .. (dst + n - 1) THEN m[src + (a - dst)]
                                                     ELSE m[a]]
bzero(m, dst, n) ==
    [a \in DOMAIN m |-> IF a \in dst .. (dst + n - 1) THEN Zero ELSE m[a]]

CopySegment(seg) ==
    bcopy(mem, image_address(file) + seg.fileoff,
          LoadAddr + (seg.vmaddr - file.vm_bias), seg.filesize)

(* Mutant: the delta is cleared from the start of the segment. *)
ZeroDelta_FromStart(m, seg) ==
    IF seg.vmsize > seg.filesize
    THEN bzero(m, LoadAddr + (seg.vmaddr - file.vm_bias), seg.vmsize - seg.filesize)
    ELSE m

ZeroDelta(m, seg) ==
    IF seg.vmsize > seg.filesize
    THEN bzero(m, LoadAddr + (seg.vmaddr - file.vm_bias) + seg.filesize,
               seg.vmsize - seg.filesize)
    ELSE m

(* mach_file_map on a segment of an executable. *)
MapSegment ==
    /\ lc.cmd = "SEGMENT"
    /\ file.filetype = "EXECUTE"
    /\ IF file.vm_bias = 0 /\ seg_count = 0 /\ lc.vmaddr # 0
       THEN Done("LOADER_EXEC_UNSUPPORTED") /\ UNCHANGED <<XXi, lcp, seg_count, mem>>
       ELSE /\ mem' = ZeroDelta(CopySegment(lc), lc)
            /\ IF Clobbered(CopySegment(lc)) \/ Clobbered(mem')
               THEN pc' = "undefined" /\ UNCHANGED <<XXi, lcp>>
               ELSE NextCommand(mem') /\ UNCHANGED pc
            /\ seg_count' = seg_count + 1
            /\ UNCHANGED ret
    /\ UNCHANGED entry_point

_map_section(m, sect) ==
    IF sect.zerofill
    THEN bzero(m, LoadAddr + sect.addr, sect.size)
    ELSE bcopy(m, image_address(file) + sect.offset, LoadAddr + sect.addr, sect.size)

(* mach_file_map on the segment of an object: section by section. *)
MapObject ==
    /\ lc.cmd = "SEGMENT"
    /\ file.filetype = "OBJECT"
    /\ IF seg_count > 0
       THEN Done("LOADER_OBJECT_BADSEGMENT") /\ UNCHANGED nsect
       ELSE nsect' = 1 /\ UNCHANGED <<pc, ret>>
    /\ UNCHANGED <<XXi, lcp, seg_count, mem, entry_point>>

(* The number of sections is reread too; a zeroed segment has none. *)
HasSection == Intact(mem) /\ nsect <= Len(lc.sects)

MapSection ==
    /\ HasSection
    /\ mem' = _map_section(mem, lc.sects[nsect])
    /\ IF Clobbered(mem') THEN pc' = "undefined" /\ UNCHANGED nsect
                          ELSE nsect' = nsect + 1 /\ UNCHANGED pc
    /\ UNCHANGED <<XXi, lcp, ret, seg_count, entry_point>>

SectionsEnd ==
    /\ ~HasSection
    /\ nsect' = 0
    /\ seg_count' = seg_count + 1
    /\ NextCommand(mem)
    /\ UNCHANGED <<pc, ret, mem, entry_point>>

MapThread ==
    /\ lc.cmd = "UNIXTHREAD"
    /\ entry_point' = lc.pc
    /\ NextCommand(mem)
    /\ UNCHANGED <<pc, ret, seg_count, mem>>

MapDyldInfo ==
    /\ lc.cmd = "DYLD_INFO"
    /\ Done("LOADER_EXEC_UNSUPPORTED")
    /\ UNCHANGED <<XXi, lcp, seg_count, mem, entry_point>>

(* The symbol tables are only remembered; other commands are ignored. *)
MapOther ==
    /\ lc.cmd \notin {"SEGMENT", "UNIXTHREAD", "DYLD_INFO"}
    /\ NextCommand(mem)
    /\ UNCHANGED <<pc, ret, seg_count, mem, entry_point>>

MapZeroed ==
    /\ NextCommand(mem)
    /\ UNCHANGED <<pc, ret, seg_count, mem, entry_point>>

MapEnd ==
    /\ pc' = "entry"
    /\ UNCHANGED <<XXi, lcp, ret, seg_count, mem, entry_point>>

mach_file_map ==
    /\ pc = "map"
    /\ \/ /\ nsect = 0 /\ InLoop /\ Intact(mem)
          /\ \/ (MapSegment \/ MapThread \/ MapDyldInfo \/ MapOther) /\ UNCHANGED nsect
             \/ MapObject
       \/ nsect = 0 /\ InLoop /\ Zeroed(mem) /\ MapZeroed /\ UNCHANGED nsect
       \/ nsect = 0 /\ ~InLoop /\ MapEnd /\ UNCHANGED nsect
       \/ nsect > 0 /\ MapSection
       \/ nsect > 0 /\ SectionsEnd
    /\ UNCHANGED <<file, sc, has_symtab>>

-----------------------------------------------------------------------------
mach_file_get_entry_point ==
    /\ pc = "entry"
    /\ Done(IF file.filetype = "EXECUTE" THEN "LOADER_SUCCESS"
                                         ELSE "LOADER_BADFILETYPE")
    /\ UNCHANGED <<file, mem, XXi, lcp, sc, seg_count, has_symtab, nsect, entry_point>>

load_macho ==
    \/ mach_file_init
    \/ mach_file_vmsize
    \/ mach_file_map
    \/ mach_file_get_entry_point

Next == load_macho

(* The functions run to their end: nothing interrupts the loader. *)
Spec == Init /\ [][Next]_vars /\ WF_vars(Next)

-----------------------------------------------------------------------------
(***************************************************************************)
(* Properties.  The reference for a file is what its load commands say,    *)
(* read from the file at once and not in the course of the mapping.        *)
(***************************************************************************)
Has(f, cmd) == \E k \in DOMAIN f.lcs : f.lcs[k].cmd = cmd

Verdict(f) ==
    CASE ~f.magic -> "LOADER_BADMAGIC"
      [] f.magic /\ f.filetype = "OTHER" -> "LOADER_BADFILETYPE"
      [] f.magic /\ f.filetype = "OBJECT" ->
            IF \E j, k \in Segments(f) : j < k THEN "LOADER_OBJECT_BADSEGMENT"
            ELSE IF ~Has(f, "SYMTAB") THEN "LOADER_NOSYMTAB"
            ELSE IF Has(f, "DYLD_INFO") THEN "LOADER_EXEC_UNSUPPORTED"
            ELSE "LOADER_BADFILETYPE"
      [] f.magic /\ f.filetype = "EXECUTE" ->
            IF \/ Has(f, "DYLD_INFO")
               \/ /\ f.vm_bias = 0
                  /\ \E k \in Segments(f) :
                        (\A j \in Segments(f) : k <= j) /\ f.lcs[k].vmaddr # 0
            THEN "LOADER_EXEC_UNSUPPORTED" ELSE "LOADER_SUCCESS"

(* The mapping does not reach the file it reads from: the file lies behind *)
(* the end of the kernel or before its start.                              *)
Apart(f) ==
    \/ MappedBelow(f, image_address(f))
    \/ image_address(f) + f.len <= LoadAddr

SegmentsDisjoint(f) ==
    \A j, k \in Segments(f) :
        j < k => SegmentEnd(f, j) <= SegmentStart(f, k)
                     \/ SegmentEnd(f, k) <= SegmentStart(f, j)

(* Segment j is the last one up to command i. *)
LastUpto(f, j, i) ==
    /\ j \in Segments(f) /\ j <= i
    /\ \A l \in Segments(f) : l <= i => l <= j

(* The first segment is mapped to the load address, each other one to      *)
(* where the one before it ends.                                           *)
Contiguous(f) ==
    \A k \in Segments(f) :
        IF \A l \in Segments(f) : k <= l
        THEN f.lcs[k].vmaddr = f.vm_bias
        ELSE \E j \in Segments(f) :
                LastUpto(f, j, k - 1) /\ f.lcs[k].vmaddr = f.lcs[j].vmaddr + f.lcs[j].vmsize

(* The answer of load_macho is the one the load commands call for,         *)
(* wherever in the list the command that decides stands.                   *)
ResultAsSpecified == pc = "done" /\ Apart(file) => ret = Verdict(file)

Covers(f, k, a) == SegmentStart(f, k) <= a /\ a < SegmentEnd(f, k)

(* What a segment holds at an address: its part of the file, then zeros. *)
Content(f, k, a) ==
    LET off == a - SegmentStart(f, k)
    IN  IF off < f.lcs[k].filesize THEN FileCell(f.lcs[k].fileoff + off) ELSE Zero

(* A kernel that is reported as loaded is there: every segment holds its   *)
(* part of the file followed by zeros, nothing else has changed, and the   *)
(* entry point is that of the file's last thread, if it has one.           *)
MapExact ==
    pc = "done" /\ ret = "LOADER_SUCCESS" /\ Apart(file) /\ SegmentsDisjoint(file) =>
        /\ \A a \in DOMAIN mem :
              /\ \A k \in Segments(file) : Covers(file, k, a) => mem[a] = Content(file, k, a)
              /\ (\A k \in Segments(file) : ~Covers(file, k, a)) => mem[a] = WithFile(file)[a]
        /\ \A k \in DOMAIN file.lcs :
              /\ file.lcs[k].cmd = "UNIXTHREAD"
              /\ \A l \in DOMAIN file.lcs : file.lcs[l].cmd = "UNIXTHREAD" => l <= k
              => entry_point = file.lcs[k].pc

(* load_macho ends, although the loops reread their bounds from memory     *)
(* that the mapping may overwrite.                                         *)
LoadEnds == <>(pc \in {"done", "undefined"})

(* For contiguous segments the sum of the sizes is the memory occupied:    *)
(* nothing is mapped beyond it, and something up to it.                    *)
VmsizeExact ==
    /\ pc = "done"
    /\ ret = "LOADER_SUCCESS"
    /\ Contiguous(file)
    /\ \A k \in Segments(file) : file.lcs[k].filesize <= file.lcs[k].vmsize
    => \A limit \in LoadAddr .. MemEnd : MappedBelow(file, limit) <=> LoadAddr + sc <= limit
=============================================================================
