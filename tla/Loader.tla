------------------------------- MODULE Loader -------------------------------
(***************************************************************************)
(* The image loader of the boot loader (main/loader.c): the imgx command,  *)
(* which loads a kernel, drivers and a device tree from one command or     *)
(* from a table of contents, the rdx command, which adopts the last loaded *)
(* file as the ramdisk, and the globals they share with mach_boot.         *)
(*                                                                         *)
(* The commands run one at a time on the U-Boot prompt.  imgx is modelled  *)
(* as one step that accepts an image (its load commands go to cmds) and    *)
(* one step per load command; no other command runs before cmds is empty.  *)
(*                                                                         *)
(* Memory is a function from addresses to the kind of content last written *)
(* there.  Images are read from a staging area outside this memory.        *)
(***************************************************************************)
EXTENDS BootMemory, Sequences

CONSTANTS
    DramStart,      \* bi_dram[0].start
    MemEnd,         \* the bound of the modelled memory: no write reaches it
    PageSize,       \* 0x1000, what increment_kernel_memory rounds to
    SectionSize,    \* 0x100000, the granule of the kernel's initial mapping
    DriverPad,      \* DRIVER_PAD_START
    SigOffset,      \* 1024, where a ramdisk's volume header starts
    MinRamdisk,     \* 1024 + sizeof(struct HFSPlusVolumeHeader)
    StagingAddr,    \* where images are staged, outside the modelled memory
    Commands,       \* the load commands images are made of
    Images,         \* sequences of load commands: what imgx can be given
    FileSizes,      \* the sizes of the files the operator loads
    Signatures,     \* what a file holds where a volume header would be
    LoadAddrs       \* addresses an operator may load a file to by hand

(***************************************************************************)
(* A load command is a record with a kind:                                 *)
(*   "macho"          load_macho_from_command                              *)
(*   "xdt", "jsdt"    the device tree commands; parse is the outcome of    *)
(*                    the parser: "ok", "syntax" or "malformed"            *)
(*   "toc", "other"   magics a table of contents refuses                   *)
(* The fields of a macho command are those of command_macho_t, plus what   *)
(* the decompressor and the Mach-O loader find in the blob that follows:   *)
(*   blob_size      its length                                             *)
(*   unpacked       the bytes the decompressor writes (for QuickLZ also    *)
(*                  the length its header announces)                       *)
(*   mappable       whether load_macho succeeds                            *)
(*   vmsize, span   the size mach_file_vmsize answers and the bytes from   *)
(*                  the load address on that mach_file_map writes          *)
(*   entry_points   what entry_point may be afterwards: one address, or    *)
(*                  anything if no LC_UNIXTHREAD sets it                   *)
(***************************************************************************)
Flags == {"Driver", "Kernel", "LZSS", "QLZ", "HasInfoPlist", "NoExec"}
Parses == {"ok", "syntax", "malformed"}
Trees == {"none", "partial", "parsed", "bare"}

ASSUME LayoutAssumption ==
    /\ DramStart \in Nat \ {0}
    /\ MemEnd \in Nat
    /\ PageSize \in Nat \ {0}
    /\ SectionSize \in Nat \ {0}
    /\ DriverPad \in Nat \ {0}
    /\ SigOffset \in Nat
    /\ MinRamdisk \in Nat
    /\ SigOffset < MinRamdisk
    /\ StagingAddr \in Nat
    /\ StagingAddr > MemEnd
    /\ FileSizes \subseteq Nat
    /\ LoadAddrs \subseteq Nat

(* DRAM starts on a page, and a section is a whole number of pages. *)
ASSUME AlignmentAssumption ==
    /\ DramStart % PageSize = 0
    /\ SectionSize % PageSize = 0

ASSUME CommandsAssumption ==
    \A c \in Commands :
        /\ c.kind \in {"macho", "xdt", "jsdt", "toc", "other"}
        /\ c.kind \in {"xdt", "jsdt"} => c.parse \in Parses
        /\ c.kind = "macho" =>
              /\ c.flags \subseteq Flags
              /\ c.blob_size \in Nat
              /\ c.decomp_size \in Nat
              /\ c.unpacked \in Nat
              /\ c.info_offset \in Nat
              /\ c.load_address \in Nat
              /\ c.mappable \in BOOLEAN
              /\ c.vmsize \in Nat
              /\ c.span \in Nat
              /\ c.entry_points \subseteq Nat

ASSUME ImagesAssumption == Images \subseteq Seq(Commands)

VARIABLES
    gKernelMemoryRange, gKernelMemoryTop, gKernelVirtualBase,
    gKernelPhysicalBase, gKernelEntryPoint,
    gLoadedDriverImages,  \* the list, its head last
    gRAMDiskRange, gHasDeviceTree,
    rootNode,             \* the tree of device_tree.c, by what is in it
    env,                  \* the variable KernelMemoryTop of the environment
    fileaddr, filesize,   \* the variables U-Boot sets when it loads a file
    mem,                  \* the content of the memory
    cmds,                 \* the load commands imgx has yet to process
    status                \* what the last command returned

kernelVars == <<gKernelMemoryRange, gKernelEntryPoint>>
baseVars == <<gKernelVirtualBase, gKernelPhysicalBase>>
topVars == <<gKernelMemoryTop, env>>
fileVars == <<fileaddr, filesize>>
treeVars == <<gHasDeviceTree, rootNode>>
loaderVars == <<kernelVars, baseVars, topVars, gLoadedDriverImages,
                gRAMDiskRange, treeVars, fileVars, mem, cmds, status>>

Memory == DramStart .. (MemEnd - 1)
Ranges == [base : Nat, size : Nat]
DriverImages == [range : Ranges, info_offset : Nat, has_exec : BOOLEAN]
Contents == {"free", "kernel", "scratch", "driver", "header", "args", "tree"}
                \cup Signatures

LoaderInit ==
    /\ gKernelMemoryRange = NullRange
    /\ gKernelMemoryTop = 0
    /\ gKernelVirtualBase = 0
    /\ gKernelPhysicalBase = 0
    /\ gKernelEntryPoint = 0
    /\ gLoadedDriverImages = <<>>
    /\ gRAMDiskRange = NullRange
    /\ gHasDeviceTree = FALSE
    /\ rootNode = "none"
    /\ env = 0
    /\ fileaddr = 0
    /\ filesize = 0
    /\ mem = [a \in Memory |-> "free"]
    /\ cmds = <<>>
    /\ status = 0

assert_kernel_load == ~RANGE_IS_NULL(gKernelMemoryRange)

(* Every write of a step, and the memory it takes, ends in the memory. *)
Fits(end) == end <= MemEnd

-----------------------------------------------------------------------------
(***************************************************************************)
(* load_macho_from_command: where the image goes.                          *)
(***************************************************************************)
IsKernel(c) == "Kernel" \in c.flags
IsDriver(c) == "Driver" \in c.flags
IsCompressed(c) == c.flags \cap {"LZSS", "QLZ"} # {}
IsQLZ(c) == "QLZ" \in c.flags /\ "LZSS" \notin c.flags

(* gKernelMemoryTop once the kernel memory pointer is set up. *)
load_top(c) ==
    IF IsKernel(c) THEN DramStart + (c.load_address % SectionSize)
                   ELSE gKernelMemoryTop

(* Mutant: the pad of a driver is forgotten. *)
raw_image_dest_NoPad(c) == load_top(c)

raw_image_dest(c) == IF IsDriver(c) THEN load_top(c) + DriverPad ELSE load_top(c)

decomp_image(c) ==
    IF IsDriver(c) THEN raw_image_dest(c)
                   ELSE raw_image_dest(c) + c.decomp_size * 4

image_size(c) == IF IsCompressed(c) THEN c.decomp_size ELSE c.blob_size

(* The memory after decompression, and after the copy of an uncompressed   *)
(* driver.                                                                 *)
unpack_range(c) ==
    memory_range(decomp_image(c), IF IsCompressed(c) THEN c.unpacked ELSE 0)

AfterUnpack(c) ==
    Fill(mem, unpack_range(c), IF IsDriver(c) THEN "driver" ELSE "scratch")

AfterDriverCopy(c) ==
    IF IsCompressed(c)
    THEN AfterUnpack(c)
    ELSE Fill(mem, memory_range(raw_image_dest(c), image_size(c)), "driver")

(* mach_file_map copies segments out of the image.  If the image was       *)
(* unpacked inside the area being mapped, its bytes are overwritten while  *)
(* they are still to be read and what arrives is not the kernel.           *)
AfterMap(c) ==
    LET target == memory_range(load_top(c), c.span)
    IN  Fill(AfterUnpack(c), target,
             IF IsCompressed(c) /\ ~Disjoint(target, unpack_range(c))
             THEN "scratch" ELSE "kernel")

(***************************************************************************)
(* A kernel image tears down what an earlier kernel left, before it is     *)
(* known whether the new one loads.                                        *)
(***************************************************************************)
tears_down(c) == IsKernel(c) /\ assert_kernel_load

(* Mutants: teardown forgets the range of the old kernel, or its drivers. *)
KeptRange_NotZeroed(c) == gKernelMemoryRange
KeptDrivers_NotFreed(c) == gLoadedDriverImages

KeptRange(c) == IF tears_down(c) THEN NullRange ELSE gKernelMemoryRange
KeptDrivers(c) == IF tears_down(c) THEN <<>> ELSE gLoadedDriverImages

(* Mutants: teardown forgets gHasDeviceTree, or the range of the ramdisk. *)
teardown_KeepsFlag(c) ==
    /\ gHasDeviceTree' = gHasDeviceTree
    /\ rootNode' = IF tears_down(c) /\ gHasDeviceTree THEN "none" ELSE rootNode
    /\ gRAMDiskRange' = IF tears_down(c) THEN NullRange ELSE gRAMDiskRange

teardown_KeepsRamdisk(c) ==
    /\ gHasDeviceTree' = (gHasDeviceTree /\ ~tears_down(c))
    /\ rootNode' = IF tears_down(c) /\ gHasDeviceTree THEN "none" ELSE rootNode
    /\ UNCHANGED gRAMDiskRange

teardown_old_loader_context(c) ==
    /\ gHasDeviceTree' = (gHasDeviceTree /\ ~tears_down(c))
    /\ rootNode' = IF tears_down(c) /\ gHasDeviceTree THEN "none" ELSE rootNode
    /\ gRAMDiskRange' = IF tears_down(c) THEN NullRange ELSE gRAMDiskRange

(* Mutants: the slide is not taken off the virtual base, or is added to    *)
(* the physical one.                                                       *)
SetupKernelMemory_VirtualSlid(c) ==
    /\ teardown_old_loader_context(c)
    /\ gKernelVirtualBase' = IF IsKernel(c) THEN c.load_address
                                            ELSE gKernelVirtualBase
    /\ gKernelPhysicalBase' = IF IsKernel(c) THEN DramStart
                                             ELSE gKernelPhysicalBase

SetupKernelMemory_PhysicalSlid(c) ==
    /\ teardown_old_loader_context(c)
    /\ gKernelVirtualBase' = IF IsKernel(c)
                             THEN align_down(c.load_address, SectionSize)
                             ELSE gKernelVirtualBase
    /\ gKernelPhysicalBase' = IF IsKernel(c) THEN load_top(c)
                                             ELSE gKernelPhysicalBase

SetupKernelMemory(c) ==
    /\ teardown_old_loader_context(c)
    /\ gKernelVirtualBase' = IF IsKernel(c)
                             THEN align_down(c.load_address, SectionSize)
                             ELSE gKernelVirtualBase
    /\ gKernelPhysicalBase' = IF IsKernel(c) THEN DramStart
                                             ELSE gKernelPhysicalBase

(* Mutants: the increment is rounded down, or not rounded. *)
increment_RoundedDown(top, by) ==
    /\ gKernelMemoryTop' = top + align_down(by, PageSize)
    /\ Fits(gKernelMemoryTop')
    /\ env' = gKernelMemoryTop'

increment_NotRounded(top, by) ==
    /\ gKernelMemoryTop' = top + by
    /\ Fits(gKernelMemoryTop')
    /\ env' = gKernelMemoryTop'

increment_kernel_memory(top, by) ==
    /\ gKernelMemoryTop' = top + align_up(by, PageSize)
    /\ Fits(gKernelMemoryTop')
    /\ env' = gKernelMemoryTop'

(* The rest of the table of contents is processed only after a 0. *)
Return(code) ==
    /\ status' = code
    /\ cmds' = IF code = 0 THEN Tail(cmds) ELSE <<>>
    /\ UNCHANGED fileVars

-----------------------------------------------------------------------------
(***************************************************************************)
(* load_macho_from_command: its exits, in the order of the code.           *)
(***************************************************************************)
MachoRefused(c) ==
    /\ ~IsKernel(c)
    /\ ~assert_kernel_load
    /\ Return(1)
    /\ UNCHANGED <<kernelVars, baseVars, topVars, gLoadedDriverImages,
                   gRAMDiskRange, treeVars, mem>>

(* Any later failure leaves the context torn down and the top moved. *)
MachoFails(c, after) ==
    /\ IsKernel(c) \/ assert_kernel_load
    /\ SetupKernelMemory(c)
    /\ gKernelMemoryTop' = load_top(c)
    /\ gKernelMemoryRange' = KeptRange(c)
    /\ gLoadedDriverImages' = KeptDrivers(c)
    /\ mem' = after
    /\ Return(1)
    /\ UNCHANGED <<env, gKernelEntryPoint>>

(* The announced size is wrong, or there is no memory for the decompressor *)
QLZFails(c) == IsQLZ(c) /\ MachoFails(c, mem)

Unpacks(c) ==
    /\ IsQLZ(c) => c.unpacked = c.decomp_size
    /\ Fits(End(unpack_range(c)))

DriverBadInfoOffset(c) ==
    /\ IsDriver(c)
    /\ Unpacks(c)
    /\ c.info_offset > image_size(c)
    /\ MachoFails(c, AfterUnpack(c))

DriverNoPlist(c) ==
    /\ IsDriver(c)
    /\ Unpacks(c)
    /\ c.info_offset <= image_size(c)
    /\ "NoExec" \in c.flags
    /\ "HasInfoPlist" \notin c.flags
    /\ Fits(raw_image_dest(c) + image_size(c))
    /\ MachoFails(c, AfterDriverCopy(c))

driver_image(c) ==
    [range |-> memory_range(load_top(c), image_size(c) + DriverPad),
     info_offset |-> IF "HasInfoPlist" \in c.flags THEN c.info_offset ELSE 0,
     has_exec |-> "NoExec" \notin c.flags]

DriverLoaded(c) ==
    /\ IsKernel(c) \/ assert_kernel_load
    /\ IsDriver(c)
    /\ Unpacks(c)
    /\ c.info_offset <= image_size(c)
    /\ "NoExec" \in c.flags => "HasInfoPlist" \in c.flags
    /\ SetupKernelMemory(c)
    /\ gKernelMemoryRange' = KeptRange(c)
    /\ gLoadedDriverImages' = Append(KeptDrivers(c), driver_image(c))
    /\ increment_kernel_memory(load_top(c), image_size(c) + DriverPad)
    /\ mem' = AfterDriverCopy(c)
    /\ Return(0)
    /\ UNCHANGED gKernelEntryPoint

KernelUnmappable(c) ==
    /\ IsKernel(c)
    /\ ~IsDriver(c)
    /\ Unpacks(c)
    /\ ~c.mappable
    /\ Fits(load_top(c) + c.span)
    /\ MachoFails(c, AfterMap(c))

KernelLoaded(c) ==
    /\ IsKernel(c)
    /\ ~IsDriver(c)
    /\ Unpacks(c)
    /\ c.mappable
    /\ Fits(load_top(c) + c.span)
    /\ SetupKernelMemory(c)
    /\ gKernelMemoryRange' = memory_range(load_top(c), c.vmsize)
    /\ gKernelEntryPoint' \in c.entry_points
    /\ increment_kernel_memory(load_top(c), c.vmsize)
    /\ gLoadedDriverImages' = KeptDrivers(c)
    /\ mem' = AfterMap(c)
    /\ Return(0)

MachoUnsupported(c) ==
    /\ ~IsKernel(c)
    /\ ~IsDriver(c)
    /\ Unpacks(c)
    /\ MachoFails(c, AfterUnpack(c))

load_macho_from_command(c) ==
    /\ c.kind = "macho"
    /\ \/ MachoRefused(c)
       \/ QLZFails(c)
       \/ DriverBadInfoOffset(c)
       \/ DriverNoPlist(c)
       \/ DriverLoaded(c)
       \/ KernelUnmappable(c)
       \/ KernelLoaded(c)
       \/ MachoUnsupported(c)

-----------------------------------------------------------------------------
(***************************************************************************)
(* parse_xdt_command and parse_jsdt_command.                               *)
(***************************************************************************)
DeviceTreeSkipped ==
    /\ gHasDeviceTree
    /\ Return(0)
    /\ UNCHANGED treeVars

DeviceTreeRefused ==
    /\ ~gHasDeviceTree
    /\ ~assert_kernel_load
    /\ Return(1)
    /\ UNCHANGED treeVars

(* Mutant: the flag is set whatever the parser answers. *)
DeviceTreeFails_SetsFlag(c) ==
    /\ ~gHasDeviceTree
    /\ assert_kernel_load
    /\ c.parse # "ok"
    /\ rootNode' = IF c.kind = "jsdt" /\ c.parse = "syntax" THEN rootNode
                                                            ELSE "partial"
    /\ Return(1)
    /\ gHasDeviceTree' = TRUE

(* The XML parser starts a new tree before it reads anything; the JSON one *)
(* only after the text has been split into tokens.                         *)
DeviceTreeFails(c) ==
    /\ ~gHasDeviceTree
    /\ assert_kernel_load
    /\ c.parse # "ok"
    /\ rootNode' = IF c.kind = "jsdt" /\ c.parse = "syntax" THEN rootNode
                                                            ELSE "partial"
    /\ Return(1)
    /\ UNCHANGED gHasDeviceTree

DeviceTreeParsed(c) ==
    /\ ~gHasDeviceTree
    /\ assert_kernel_load
    /\ c.parse = "ok"
    /\ rootNode' = "parsed"
    /\ gHasDeviceTree' = TRUE
    /\ Return(0)

parse_device_tree_command(c) ==
    /\ c.kind \in {"xdt", "jsdt"}
    /\ \/ DeviceTreeSkipped
       \/ DeviceTreeRefused
       \/ DeviceTreeFails(c)
       \/ DeviceTreeParsed(c)
    /\ UNCHANGED <<kernelVars, baseVars, topVars, gLoadedDriverImages,
                   gRAMDiskRange, mem>>

(* A nested table of contents and a command of an unknown type. *)
UnknownCommand(c) ==
    /\ c.kind \in {"toc", "other"}
    /\ Return(1)
    /\ UNCHANGED <<kernelVars, baseVars, topVars, gLoadedDriverImages,
                   gRAMDiskRange, treeVars, mem>>

(* One turn of the loop of parse_table_of_contents. *)
LoadCommand ==
    /\ cmds # <<>>
    /\ LET c == Head(cmds)
       IN  \/ load_macho_from_command(c)
           \/ parse_device_tree_command(c)
           \/ UnknownCommand(c)

-----------------------------------------------------------------------------
(***************************************************************************)
(* The commands of the U-Boot prompt.                                      *)
(***************************************************************************)
Prompt == cmds = <<>>

(* imgx is given the address of a staged image, or "last" for the file     *)
(* U-Boot loaded last: an image if that file went to the staging area,     *)
(* otherwise nothing with a known magic.                                   *)
do_imgx(last, image) ==
    /\ Prompt
    /\ IF last /\ fileaddr # StagingAddr
       THEN cmds' = <<>> /\ status' = 1
       ELSE cmds' = image /\ status' = 0
    /\ UNCHANGED <<kernelVars, baseVars, topVars, gLoadedDriverImages,
                   gRAMDiskRange, treeVars, fileVars, mem>>

(* U-Boot's own load commands: a file goes to memory at an address, or to  *)
(* the staging area.                                                       *)
LoadFile(addr, size, signature) ==
    /\ Prompt
    /\ \/ addr = StagingAddr
       \/ addr \in Memory /\ Fits(addr + size)
    /\ mem' = Fill(mem, memory_range(addr, size), signature)
    /\ fileaddr' = addr
    /\ filesize' = size
    /\ UNCHANGED <<kernelVars, baseVars, topVars, gLoadedDriverImages,
                   gRAMDiskRange, treeVars, cmds, status>>

(* The checks of rdx, in their order.  The signature is compared with that *)
(* of HFS+ and that of HFS.                                                *)
AcceptsRamdisk ==
    /\ fileaddr # 0
    /\ filesize # 0
    /\ fileaddr = gKernelMemoryTop
    /\ filesize >= MinRamdisk
    /\ mem[fileaddr + SigOffset] \in {"H+", "BD"}

RamdiskRefused ==
    /\ ~AcceptsRamdisk
    /\ status' = 1
    /\ UNCHANGED <<topVars, gRAMDiskRange>>

(* Mutant: the ramdisk's memory is not taken. *)
RamdiskAdded_NotTaken ==
    /\ AcceptsRamdisk
    /\ gRAMDiskRange' = memory_range(fileaddr, filesize)
    /\ UNCHANGED topVars
    /\ status' = 0

RamdiskAdded ==
    /\ AcceptsRamdisk
    /\ gRAMDiskRange' = memory_range(fileaddr, filesize)
    /\ increment_kernel_memory(gKernelMemoryTop, filesize)
    /\ status' = 0

do_rdx ==
    /\ Prompt
    /\ RamdiskRefused \/ RamdiskAdded
    /\ UNCHANGED <<kernelVars, baseVars, gLoadedDriverImages, treeVars,
                   fileVars, mem, cmds>>
=============================================================================
