------------------------------ MODULE MachBoot ------------------------------
(***************************************************************************)
(* The mach_boot command (main/mach_boot.c) on top of the loader: it puts  *)
(* the boot arguments and the flattened device tree above everything the   *)
(* loader placed, describes the placed images in the memory map, and jumps *)
(* to the kernel.                                                          *)
(*                                                                         *)
(* Two specifications share the actions.  Spec lets the operator type any  *)
(* command at any time, with any image.  OperatorSpec is the use the help  *)
(* texts describe: well-formed images, files to KernelMemoryTop or to the  *)
(* staging area, and rdx once a kernel is loaded.                          *)
(***************************************************************************)
EXTENDS Loader

CONSTANTS
    BootArgsSize,   \* sizeof(boot_args_t)
    MagicSize,      \* 4, the device tree magic in front of the tree
    FlatSizes,      \* the lengths DT__FlattenDeviceTree may answer
    MaxTurns        \* the bound on the commands typed at the prompt

ASSUME BootAssumption ==
    /\ BootArgsSize \in Nat \ {0}
    /\ MagicSize \in Nat
    /\ FlatSizes \subseteq Nat \ {0}
    /\ MaxTurns \in Nat

VARIABLES
    handoff,    \* what the kernel was started with: at most one record
    fresh,      \* history: a file was loaded to KernelMemoryTop with a
                \* kernel loaded, and since then no load command failed,
                \* no kernel was loaded and nothing was booted
    clean,      \* history: whether that was so when rdx adopted the file
    adopted,    \* history: the memory of the ramdisk when rdx adopted it
    turns       \* the number of commands typed so far

history == <<clean, adopted>>
vars == <<loaderVars, handoff, fresh, history, turns>>

-----------------------------------------------------------------------------
(***************************************************************************)
(* Everything mach_boot reserves lies above gKernelMemoryTop.              *)
(***************************************************************************)
kernel_mem == memory_region(gKernelPhysicalBase, gKernelMemoryTop, FALSE)

args_reserve == memory_reserve(kernel_mem, BootArgsSize, 0)
r_boot_args == memory_range(args_reserve.start, BootArgsSize)

tree_reserve(len) == memory_reserve(args_reserve.region, len + MagicSize, 0)
r_device_tree(len) == memory_range(tree_reserve(len).start + MagicSize, len)

data_end(len) == align_up(tree_reserve(len).region.pos, SectionSize)

(***************************************************************************)
(* The memory map.  create_memory_map adds /chosen/memory-map to the root; *)
(* with no root the node "chosen" itself becomes the root.                 *)
(***************************************************************************)
create_memory_map == IF rootNode = "none" THEN "bare" ELSE rootNode

(* A driver with an executable must have a property list. *)
NoInfoPlist(image) == image.info_offset = 0 /\ image.has_exec

(* Mutant: the length of the property list counts the pad. *)
booter_extension_PadCounted(image) ==
    LET base == image.range.base + DriverPad
    IN  [range |-> image.range,
         exec  |-> IF image.has_exec THEN memory_range(base, image.info_offset)
                                     ELSE NullRange,
         plist |-> memory_range(base + image.info_offset,
                                image.range.size - image.info_offset)]

(* What map_booter_extension tells the kernel about a driver: the range of *)
(* the memory map, the executable and the property list inside it.         *)
booter_extension(image) ==
    LET base == image.range.base + DriverPad
        size == image.range.size - DriverPad
    IN  [range |-> image.range,
         exec  |-> IF image.has_exec THEN memory_range(base, image.info_offset)
                                     ELSE NullRange,
         plist |-> memory_range(base + image.info_offset,
                                size - image.info_offset)]

(* The driver info goes to the pad in front of each image in I. *)
Pad(image) == memory_range(image.range.base, DriverPad)

AfterHeaders(m, I) ==
    [a \in DOMAIN m |-> IF \E i \in I : a \in Bytes(Pad(gLoadedDriverImages[i]))
                        THEN "header" ELSE m[a]]

AfterArgs == Fill(mem, r_boot_args, "args")

AllDrivers == DOMAIN gLoadedDriverImages

(* The list is walked from its head, the last image loaded; the walk stops *)
(* at the first image without a property list.                             *)
DriverFailsAt(k) ==
    /\ NoInfoPlist(gLoadedDriverImages[k])
    /\ \A i \in AllDrivers : i > k => ~NoInfoPlist(gLoadedDriverImages[i])

DriversAfter(k) == {i \in AllDrivers : i > k}

-----------------------------------------------------------------------------
(***************************************************************************)
(* mach_boot: its exits.  All but the first finalize the device tree.      *)
(***************************************************************************)
BootRefused ==
    /\ ~gHasDeviceTree
    /\ UNCHANGED <<gLoadedDriverImages, rootNode, mem, handoff>>

BootFails(after) ==
    /\ gHasDeviceTree
    /\ Fits(End(r_boot_args))
    /\ rootNode' = "none"
    /\ mem' = after
    /\ UNCHANGED handoff

(* map_add_info: no memory for an entry of the map. *)
BootInfoFails ==
    /\ BootFails(AfterArgs)
    /\ UNCHANGED gLoadedDriverImages

BootDriversFail ==
    \E k \in AllDrivers :
        /\ DriverFailsAt(k)
        /\ BootFails(AfterHeaders(AfterArgs, DriversAfter(k)))
        /\ UNCHANGED gLoadedDriverImages

DriversMapped == \A k \in AllDrivers : ~NoInfoPlist(gLoadedDriverImages[k])

(* map_add_ramdisk runs after the list of drivers has been released. *)
BootRamdiskFails ==
    /\ DriversMapped
    /\ ~RANGE_IS_NULL(gRAMDiskRange)
    /\ BootFails(AfterHeaders(AfterArgs, AllDrivers))
    /\ gLoadedDriverImages' = <<>>

boot_args(len) ==
    [entry     |-> kvtop(gKernelEntryPoint, gKernelPhysicalBase,
                         gKernelVirtualBase),
     phys_base |-> gKernelPhysicalBase,
     virt_base |-> gKernelVirtualBase,
     args      |-> r_boot_args,
     vm_args   |-> ptokv(r_boot_args.base, gKernelPhysicalBase,
                         gKernelVirtualBase),
     tree      |-> r_device_tree(len),
     dt_base   |-> ptokv(r_device_tree(len).base, gKernelPhysicalBase,
                         gKernelVirtualBase),
     data_end  |-> data_end(len),
     kernel    |-> gKernelMemoryRange,
     drivers   |-> {booter_extension(gLoadedDriverImages[i]) : i \in AllDrivers},
     ramdisk   |-> gRAMDiskRange,
     root      |-> create_memory_map]

BootSucceeds ==
    /\ gHasDeviceTree
    /\ DriversMapped
    /\ \E len \in FlatSizes :
          /\ Fits(tree_reserve(len).region.pos)
          /\ handoff' = {boot_args(len)}
          /\ mem' = Fill(AfterHeaders(AfterArgs, AllDrivers),
                         memory_range(tree_reserve(len).start, len + MagicSize),
                         "tree")
    /\ gLoadedDriverImages' = <<>>
    /\ rootNode' = "none"

mach_boot ==
    /\ Prompt
    /\ \/ BootRefused /\ status' = 1
       \/ BootInfoFails /\ status' = 1
       \/ BootDriversFail /\ status' = 1
       \/ BootRamdiskFails /\ status' = 1
       \/ BootSucceeds /\ status' = 0
    /\ UNCHANGED <<kernelVars, baseVars, topVars, gRAMDiskRange,
                   gHasDeviceTree, fileVars, cmds>>

-----------------------------------------------------------------------------
(***************************************************************************)
(* The prompt.  Once the kernel runs there is no prompt any more.          *)
(***************************************************************************)
Init ==
    /\ LoaderInit
    /\ handoff = {}
    /\ fresh = FALSE
    /\ clean = FALSE
    /\ adopted = <<>>
    /\ turns = 0

Running == handoff # {}

(* A command is typed: fresh becomes f. *)
Turn(f) ==
    /\ ~Running
    /\ turns < MaxTurns
    /\ turns' = turns + 1
    /\ fresh' = f

ImgxStep(images) ==
    /\ \E last \in BOOLEAN, image \in images : do_imgx(last, image)
    /\ Turn(fresh)
    /\ UNCHANGED <<handoff, history>>

LoadsKernel(c) == c.kind = "macho" /\ IsKernel(c)

CommandStep ==
    /\ LoadCommand
    /\ fresh' = (fresh /\ status' = 0 /\ ~LoadsKernel(Head(cmds)))
    /\ UNCHANGED <<handoff, history, turns>>

RdxStep ==
    /\ do_rdx
    /\ Turn(fresh)
    /\ IF AcceptsRamdisk
       THEN clean' = fresh /\ adopted' = [a \in Bytes(gRAMDiskRange') |-> mem[a]]
       ELSE UNCHANGED history
    /\ UNCHANGED handoff

LoadStep(addrs) ==
    \E addr \in addrs, size \in FileSizes, signature \in Signatures :
        /\ LoadFile(addr, size, signature)
        /\ Turn(addr = env /\ assert_kernel_load)
        /\ UNCHANGED <<handoff, history>>

BootStep == mach_boot /\ Turn(FALSE) /\ UNCHANGED history

Next ==
    \/ ImgxStep(Images)
    \/ CommandStep
    \/ RdxStep
    \/ LoadStep({env, StagingAddr} \cup LoadAddrs)
    \/ BootStep

Spec == Init /\ [][Next]_vars

(***************************************************************************)
(* What a well-formed image is.  The loader relies on it without checking: *)
(* a command is a kernel or a driver, its blob unpacks to decomp_size, a   *)
(* kernel's load address is page aligned, its segments are contiguous, its *)
(* entry point is one of its own addresses, and a compressed kernel is at  *)
(* most 4 times its unloaded form.                                         *)
(***************************************************************************)
WellFormed(c) ==
    c.kind = "macho" =>
        /\ ~(IsKernel(c) /\ IsDriver(c))
        /\ IsKernel(c) => c.load_address % PageSize = 0
        /\ IsCompressed(c) => c.unpacked = c.decomp_size
        /\ IsKernel(c) /\ c.mappable =>
              /\ c.span = c.vmsize
              /\ IsCompressed(c) => c.vmsize <= 4 * c.decomp_size
              /\ c.entry_points \subseteq
                    c.load_address .. (c.load_address + c.vmsize - 1)

WellFormedImages ==
    {image \in Images : \A i \in DOMAIN image : WellFormed(image[i])}

OperatorNext ==
    \/ ImgxStep(WellFormedImages)
    \/ CommandStep
    \/ assert_kernel_load /\ RdxStep
    \/ LoadStep({env, StagingAddr})
    \/ BootStep

OperatorSpec == Init /\ [][OperatorNext]_vars

-----------------------------------------------------------------------------
(***************************************************************************)
(* Properties of Spec: any command, any image, any order.                  *)
(***************************************************************************)

(* Every global of loader.c has the type it is declared with. *)
TypeOK ==
    /\ gKernelMemoryRange \in Ranges
    /\ gKernelMemoryTop \in Nat
    /\ gKernelVirtualBase \in Nat
    /\ gKernelPhysicalBase \in {0, DramStart}
    /\ gKernelEntryPoint \in Nat
    /\ gLoadedDriverImages \in Seq(DriverImages)
    /\ gRAMDiskRange \in Ranges
    /\ gHasDeviceTree \in BOOLEAN
    /\ rootNode \in Trees
    /\ env \in Nat
    /\ fileaddr \in Nat
    /\ filesize \in Nat
    /\ mem \in [Memory -> Contents]
    /\ cmds \in Seq(Commands)
    /\ status \in {0, 1}
    /\ fresh \in BOOLEAN /\ clean \in BOOLEAN
    /\ turns \in Nat

(* As long as a kernel is loaded, the variable KernelMemoryTop that the    *)
(* operator loads ramdisks to is the loader's own top, although a failed   *)
(* kernel load moves the top without updating the variable, and the whole  *)
(* kernel lies between the start of the memory and the top.                *)
EnvCurrent ==
    assert_kernel_load =>
        /\ env = gKernelMemoryTop
        /\ gKernelPhysicalBase = DramStart
        /\ DramStart <= gKernelMemoryRange.base
        /\ End(gKernelMemoryRange) <= gKernelMemoryTop

(* mach_boot tests only gHasDeviceTree.  That is enough: with the flag     *)
(* set a kernel is loaded, and no kernel is started without one.           *)
BootHasKernel ==
    /\ gHasDeviceTree => assert_kernel_load
    /\ \A h \in handoff : ~RANGE_IS_NULL(h.kernel)

(* A tree whose parse failed half way is never given to a kernel, although *)
(* it stays in device_tree.c until the next parse replaces it.             *)
NoPartialTree ==
    /\ gHasDeviceTree => rootNode # "partial"
    /\ \A h \in handoff : h.root # "partial"

-----------------------------------------------------------------------------
(***************************************************************************)
(* Properties of OperatorSpec.                                             *)
(***************************************************************************)

(* From the moment a kernel is loaded until it runs, no decompression,     *)
(* copy, file load or boot structure overwrites a byte of it.              *)
KernelIntact ==
    assert_kernel_load =>
        \A a \in Bytes(gKernelMemoryRange) : mem[a] = "kernel"

(* The image of every listed driver is intact behind its pad.              *)
DriversIntact ==
    \A i \in DOMAIN gLoadedDriverImages :
        LET r == gLoadedDriverImages[i].range
        IN  \A a \in (r.base + DriverPad) .. (End(r) - 1) : mem[a] = "driver"

(* Nothing writes over a ramdisk once rdx has adopted it.  It is the file  *)
(* U-Boot loaded if since then no load command failed, no kernel was       *)
(* loaded and nothing was booted: what was placed meanwhile has moved the  *)
(* top, and rdx refuses a file that is not on it.  A load or a boot that   *)
(* fails may write over the file without moving the top, and rdx then      *)
(* adopts what it has left there.                                          *)
RamdiskIntact ==
    ~RANGE_IS_NULL(gRAMDiskRange) =>
        /\ \A a \in Bytes(gRAMDiskRange) : mem[a] = adopted[a]
        /\ clean => \E s \in Signatures : \A a \in Bytes(gRAMDiskRange) : mem[a] = s

(* The ramdisk starts on a page, as increment_kernel_memory says.          *)
RamdiskAligned == gRAMDiskRange.base % PageSize = 0

(* What the kernel is given: its own range, the drivers, the ramdisk, the  *)
(* boot arguments and the device tree do not overlap, and all lie in the   *)
(* memory from phys_base to data_end that the kernel maps at first.        *)
HandoffParts(h) ==
    {<<"kernel", h.kernel>>, <<"args", h.args>>, <<"tree", h.tree>>}
        \cup {<<"driver", d.range>> : d \in h.drivers}
        \cup (IF RANGE_IS_NULL(h.ramdisk) THEN {} ELSE {<<"ramdisk", h.ramdisk>>})

HandoffLayout ==
    \A h \in handoff :
        /\ \A p \in HandoffParts(h) : h.phys_base <= p[2].base /\ End(p[2]) <= h.data_end
        /\ \A p, q \in HandoffParts(h) : p # q => Disjoint(p[2], q[2])

(* The executable and the property list of every driver are parts of its   *)
(* image, and the image is what was loaded.                                *)
HandoffDrivers ==
    \A h \in handoff : \A d \in h.drivers :
        /\ d.plist.size >= 0
        /\ End(d.plist) = End(d.range)
        /\ \A a \in Bytes(d.exec) \cup Bytes(d.plist) : mem[a] = "driver"

(* The physical address mach_boot jumps to is an address of the kernel,    *)
(* and holds a byte of it.                                                 *)
EntryInKernel ==
    \A h \in handoff : h.entry \in Bytes(h.kernel) /\ mem[h.entry] = "kernel"

(* The loader keeps kernel memory as a stack: every step that changes what *)
(* is placed, or the top, is one of KernelMemory.                          *)
placed ==
    {gLoadedDriverImages[i].range : i \in AllDrivers}
        \cup {r \in {gKernelMemoryRange, gRAMDiskRange} : ~RANGE_IS_NULL(r)}

KM == INSTANCE KernelMemory WITH regions <- placed, top <- gKernelMemoryTop

ImplementsKernelMemory == KM!Spec

-----------------------------------------------------------------------------
(***************************************************************************)
(* What the sources say and the code does not guarantee.                   *)
(***************************************************************************)

(* parse_xdt_command skips a device tree because one "is already loaded":  *)
(* whenever gHasDeviceTree is set, the tree is there.                      *)
TreeBehindFlag == ~Running /\ gHasDeviceTree => rootNode = "parsed"

(* rdx "adds" a ramdisk "to kernel memory": the ramdisk a kernel is given  *)
(* does not share memory with the kernel.                                  *)
RamdiskOutsideKernel ==
    \A h \in handoff :
        ~RANGE_IS_NULL(h.ramdisk) => Disjoint(h.ramdisk, h.kernel)
=============================================================================
