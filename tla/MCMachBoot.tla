----------------------------- MODULE MCMachBoot -----------------------------
(***************************************************************************)
(* Instances of MachBoot.  A page is 2 bytes, a section 8, the pad of a    *)
(* driver 1; a ramdisk has at least 2 bytes with its signature in the      *)
(* second.                                                                 *)
(***************************************************************************)
EXTENDS MachBoot

macho(flags, blob, decomp, info) ==
    [kind |-> "macho", flags |-> flags, blob_size |-> blob,
     decomp_size |-> decomp, unpacked |-> decomp, info_offset |-> info,
     load_address |-> 16, mappable |-> TRUE, vmsize |-> 0, span |-> 0,
     entry_points |-> {}]

kernel(flags, decomp, addr, size) ==
    [macho({"Kernel"} \cup flags, size, decomp, 0) EXCEPT
        !.load_address = addr, !.vmsize = size, !.span = size,
        !.entry_points = {addr + size - 1}]

tree(kind, parse) == [kind |-> kind, parse |-> parse]

(* Well-formed commands. *)
PlainKernel == kernel({}, 0, 16, 1)
SlidKernel == kernel({"QLZ"}, 1, 18, 2)
BadKernel == [kernel({}, 0, 18, 3) EXCEPT !.mappable = FALSE, !.span = 1]
Kext == macho({"Driver", "HasInfoPlist", "LZSS"}, 1, 2, 1)
PlistKext == macho({"Driver", "HasInfoPlist", "NoExec"}, 1, 0, 0)
BareKext == macho({"Driver"}, 1, 0, 0)
NoPlist == macho({"Driver", "NoExec"}, 1, 0, 0)
BadOffset == macho({"Driver", "HasInfoPlist"}, 1, 0, 2)
NeitherType == macho({"LZSS"}, 1, 1, 0)

(* Commands a kernel image may hold although it should not. *)
LongKext == [macho({"Driver", "HasInfoPlist", "LZSS"}, 1, 1, 1)
                EXCEPT !.unpacked = 3]
WrongQlz == [macho({"Driver", "QLZ"}, 1, 1, 0) EXCEPT !.unpacked = 2]
OddKernel == kernel({}, 0, 17, 3)
BssKernel == kernel({"LZSS"}, 1, 16, 6)
LostKernel == [kernel({}, 0, 16, 2) EXCEPT !.entry_points = {0, 17, 40}]
KernelKext == [macho({"Kernel", "Driver", "HasInfoPlist"}, 2, 0, 1)
                EXCEPT !.load_address = 16]

GoodCommands ==
    {PlainKernel, SlidKernel, BadKernel, Kext, PlistKext, BareKext, NoPlist,
     tree("xdt", "ok"), tree("jsdt", "syntax")}

AllCommands ==
    {PlainKernel, SlidKernel, BadKernel, Kext, BareKext, NoPlist, BadOffset,
     NeitherType, LongKext, WrongQlz, OddKernel, BssKernel, LostKernel, KernelKext,
     tree("xdt", "ok"), tree("jsdt", "ok"), tree("xdt", "syntax"),
     tree("jsdt", "syntax"), tree("jsdt", "malformed"),
     [kind |-> "toc"], [kind |-> "other"]}

Singles(S) == {<<c>> : c \in S}

(* Tables of contents: a whole system, and ones that fail half way. *)
GoodImages ==
    Singles(GoodCommands) \cup
    {<<PlainKernel, Kext, tree("xdt", "ok")>>,
     <<SlidKernel, tree("xdt", "ok"), NoPlist, Kext>>}

AllImages ==
    Singles(AllCommands) \cup
    {<<>>,
     <<PlainKernel, Kext, tree("xdt", "ok")>>,
     <<tree("jsdt", "ok"), [kind |-> "toc"], PlainKernel>>}

(* Images for the runs that look for one kind of malformed input. *)
TreeImages == {<<PlainKernel>>, <<tree("xdt", "ok")>>}
FailingImages == {<<SlidKernel>>, <<BadKernel>>, <<tree("xdt", "ok")>>}
=============================================================================
