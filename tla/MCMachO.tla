------------------------------ MODULE MCMachO -------------------------------
(***************************************************************************)
(* Instances of MachO: kernels of up to two segments with a thread before, *)
(* between or after them, objects of two sections, and malformed files.    *)
(* Each file has one cell of header, one per command and two of data.      *)
(***************************************************************************)
EXTENDS MachO

Cmd(cmd) == [cmd |-> cmd, pc |-> 0]
Thread(addr) == [cmd |-> "UNIXTHREAD", pc |-> addr]
Segment(addr, size, off, filesize) ==
    [cmd |-> "SEGMENT", vmaddr |-> addr, vmsize |-> size, fileoff |-> off,
     filesize |-> filesize, sects |-> <<>>]

Link == 20      \* the address kernels are linked at

(* Where the file lies: decompressed, staged before or behind the kernel. *)
Unpacked == 0
Before == 8
Behind == 74

File(type, lcs, place, bias) ==
    [magic |-> TRUE, filetype |-> type, lcs |-> lcs, len |-> Len(lcs) + 3,
     compressed |-> place = Unpacked, staged |-> place, vm_bias |-> bias]

(* Two segments, the second after a gap; the data of the file follows the  *)
(* header and the three commands.                                          *)
Text(size, filesize) == Segment(Link, size, 4, filesize)
Data(addr, size, filesize) == Segment(addr, size, 5, filesize)

TwoSegments(gaps, sizes) ==
    {<<Text(n, x), Data(Link + n + g, m, y)>> :
        n \in sizes, m \in sizes, g \in gaps, x \in {0, 2}, y \in {0, 1}}

WithThread(segs) ==
    {<<Thread(Link), segs[1], segs[2]>>, <<segs[1], Thread(Link), segs[2]>>,
     <<segs[1], segs[2], Thread(Link + 1)>>}

Kernels(gaps, sizes, places) ==
    {File("EXECUTE", lcs, p, Link) :
        lcs \in UNION {WithThread(s) : s \in TwoSegments(gaps, sizes)},
        p \in places}

Object(lcs) == File("OBJECT", lcs, Behind, 0)
Sect(addr, size, zero) ==
    [addr |-> addr, size |-> size, offset |-> 1, zerofill |-> zero]
ObjectSegment ==
    [Segment(0, 3, 0, 0) EXCEPT !.sects = <<Sect(0, 1, FALSE), Sect(1, 2, TRUE)>>]

Others ==
    {[File("EXECUTE", <<Segment(Link, 2, 2, 2)>>, Before, Link) EXCEPT !.magic = FALSE],
     File("OTHER", <<Segment(Link, 2, 2, 2)>>, Behind, Link),
     File("EXECUTE", <<Text(2, 2), Cmd("DYLD_INFO"), Thread(Link)>>, Unpacked, Link),
     File("EXECUTE", <<Thread(Link), Text(2, 2), Thread(Link + 1)>>, Unpacked, Link),
     File("EXECUTE", <<Cmd("SYMTAB"), Segment(2, 2, 4, 2), Thread(Link)>>, Unpacked, 0),
     File("EXECUTE", <<Segment(0, 2, 3, 2), Segment(2, 1, 3, 1)>>, Unpacked, 0),
     Object(<<ObjectSegment, Cmd("SYMTAB")>>),
     Object(<<ObjectSegment>>),
     [Object(<<ObjectSegment, Cmd("SYMTAB")>>) EXCEPT !.staged = Before],
     Object(<<Cmd("SYMTAB"), Cmd("DYLD_INFO"), ObjectSegment>>),
     Object(<<ObjectSegment, ObjectSegment, Cmd("SYMTAB")>>)}

(* Well-behaved kernels and everything else, up to kernels that reach the  *)
(* file they are read from, be it decompressed or staged.                  *)
AllFiles ==
    Kernels({0, 1}, {1, 2, 3}, {Unpacked, Before, Behind})
        \cup Kernels({0, 3}, {22}, {Unpacked, Before})
        \cup Kernels({0}, {26}, {Unpacked}) \cup Kernels({0}, {31}, {Behind}) \cup Others
=============================================================================
