--------------------------- MODULE MachBootProofs ---------------------------
(***************************************************************************)
(* Proofs about Spec, any command, any image, any order, and then about    *)
(* OperatorSpec, well-formed images and rdx once a kernel is loaded:       *)
(* nothing placed in memory is ever overwritten, what is placed is a stack *)
(* of regions, and the kernel is started with a memory that is laid out as *)
(* its boot arguments say.                                                 *)
(***************************************************************************)
EXTENDS MachBoot, TLAPS

-----------------------------------------------------------------------------
(***************************************************************************)
(* Alignment, for every address and every boundary.                        *)
(***************************************************************************)

(* align_down of bootkit/runtime.h answers an address at or below its      *)
(* argument, by less than the boundary.                                    *)
LEMMA AlignDown ==
    ASSUME NEW x \in Nat, NEW n \in Nat \ {0}
    PROVE  /\ align_down(x, n) \in Nat
           /\ align_down(x, n) <= x
           /\ x < align_down(x, n) + n
           /\ x - align_down(x, n) = x % n
<1>1. x % n \in 0 .. (n - 1) /\ x % n <= x
    OBVIOUS
<1> QED
    BY <1>1 DEF align_down

(* align_up, as increment_kernel_memory uses it, never takes less than     *)
(* what was asked for, and not a whole page more.                          *)
LEMMA AlignUp ==
    ASSUME NEW x \in Nat, NEW n \in Nat \ {0}
    PROVE  /\ align_up(x, n) \in Nat
           /\ x <= align_up(x, n)
           /\ align_up(x, n) < x + n
<1>1. (x + (n - 1)) % n \in 0 .. (n - 1)
    OBVIOUS
<1> QED
    BY <1>1 DEF align_up, align_down

-----------------------------------------------------------------------------
(***************************************************************************)
(* Types.                                                                  *)
(***************************************************************************)

(* Filling a range keeps the memory a function of its addresses. *)
LEMMA FillType ==
    ASSUME NEW m \in [Memory -> Contents], NEW r, NEW content \in Contents
    PROVE  Fill(m, r, content) \in [Memory -> Contents]
BY DEF Fill

(* The numbers load_macho_from_command computes from a command. *)
LEMMA MachoNumbers ==
    ASSUME TypeOK, NEW c \in Commands, c.kind = "macho"
    PROVE  /\ load_top(c) \in Nat
           /\ raw_image_dest(c) \in Nat
           /\ decomp_image(c) \in Nat
           /\ image_size(c) \in Nat
           /\ IsKernel(c) => DramStart <= load_top(c)
           /\ load_top(c) <= raw_image_dest(c)
<1>1. c.load_address % SectionSize \in Nat
    BY LayoutAssumption, CommandsAssumption
<1>2. /\ DramStart \in Nat /\ DriverPad \in Nat /\ gKernelMemoryTop \in Nat
      /\ c.decomp_size \in Nat /\ c.blob_size \in Nat
    BY LayoutAssumption, CommandsAssumption DEF TypeOK
<1> QED
    BY <1>1, <1>2 DEF load_top, raw_image_dest, decomp_image, image_size

(* The memory after each of the writes of load_macho_from_command. *)
LEMMA MachoMemory ==
    ASSUME TypeOK, NEW c
    PROVE  /\ mem \in [Memory -> Contents]
           /\ AfterUnpack(c) \in [Memory -> Contents]
           /\ AfterDriverCopy(c) \in [Memory -> Contents]
           /\ AfterMap(c) \in [Memory -> Contents]
<1>1. mem \in [Memory -> Contents]
    BY DEF TypeOK
<1>2. {"driver", "scratch", "kernel"} \subseteq Contents
    BY DEF Contents
<1>3. AfterUnpack(c) \in [Memory -> Contents]
    BY <1>1, <1>2, FillType DEF AfterUnpack
<1>4. AfterDriverCopy(c) \in [Memory -> Contents]
    BY <1>1, <1>2, <1>3, FillType DEF AfterDriverCopy
<1>5. AfterMap(c) \in [Memory -> Contents]
    BY <1>2, <1>3, FillType DEF AfterMap
<1> QED
    BY <1>1, <1>3, <1>4, <1>5

(* Setting up the kernel memory, torn down or not, keeps the types of what *)
(* it assigns; whatever the step does, cmds and status keep theirs.        *)
LEMMA SetupType ==
    ASSUME TypeOK, NEW c \in Commands, c.kind = "macho", SetupKernelMemory(c)
    PROVE  /\ gHasDeviceTree' \in BOOLEAN
           /\ rootNode' \in Trees
           /\ gRAMDiskRange' \in Ranges
           /\ gKernelVirtualBase' \in Nat
           /\ gKernelPhysicalBase' \in {0, DramStart}
<1>1. NullRange \in Ranges
    BY DEF NullRange, memory_range, Ranges
<1>2. align_down(c.load_address, SectionSize) \in Nat
    BY AlignDown, LayoutAssumption, CommandsAssumption
<1> QED
    BY <1>1, <1>2 DEF TypeOK, SetupKernelMemory, teardown_old_loader_context, Trees

(* What a teardown leaves of the kernel's range and the drivers has their  *)
(* types.                                                                  *)
LEMMA KeptType ==
    ASSUME TypeOK, NEW c
    PROVE  KeptRange(c) \in Ranges /\ KeptDrivers(c) \in Seq(DriverImages)
BY DEF TypeOK, KeptRange, KeptDrivers, NullRange, memory_range, Ranges

(* The end of a command leaves the rest of the table of contents, or       *)
(* nothing, to be processed.                                               *)
LEMMA ReturnType ==
    ASSUME TypeOK, cmds # <<>>, NEW code \in {0, 1}, Return(code)
    PROVE  /\ cmds' \in Seq(Commands)
           /\ status' \in {0, 1}
           /\ fileaddr' \in Nat
           /\ filesize' \in Nat
BY DEF TypeOK, Return, fileVars

(* increment_kernel_memory rounds up an address and publishes it.          *)
LEMMA IncrementType ==
    ASSUME NEW top \in Nat, NEW by \in Nat, increment_kernel_memory(top, by)
    PROVE  /\ gKernelMemoryTop' \in Nat
           /\ env' = gKernelMemoryTop'
           /\ top + by <= gKernelMemoryTop'
           /\ gKernelMemoryTop' <= MemEnd
<1>1. align_up(by, PageSize) \in Nat /\ by <= align_up(by, PageSize)
    BY AlignUp, LayoutAssumption
<1> QED
    BY <1>1 DEF increment_kernel_memory, Fits

(* A typed command. *)
LEMMA TurnType ==
    ASSUME TypeOK, NEW f \in BOOLEAN, Turn(f)
    PROVE  fresh' \in BOOLEAN /\ turns' \in Nat
<1>1. fresh' = f /\ turns' = turns + 1
    BY DEF Turn
<1>2. turns \in Nat
    BY DEF TypeOK
<1> QED
    BY <1>1, <1>2

(* One exit of load_macho_from_command after another. *)
LEMMA MachoFailsType ==
    ASSUME TypeOK, cmds # <<>>, NEW c \in Commands, c.kind = "macho",
           NEW after \in [Memory -> Contents], MachoFails(c, after),
           fresh' \in BOOLEAN, UNCHANGED <<clean, turns>>
    PROVE  TypeOK'
<1>1. /\ gHasDeviceTree' \in BOOLEAN /\ rootNode' \in Trees
      /\ gRAMDiskRange' \in Ranges /\ gKernelVirtualBase' \in Nat
      /\ gKernelPhysicalBase' \in {0, DramStart}
    BY SetupType DEF MachoFails
<1>2. gKernelMemoryTop' \in Nat
    BY MachoNumbers DEF MachoFails
<1>3. gKernelMemoryRange' \in Ranges /\ gLoadedDriverImages' \in Seq(DriverImages)
    BY KeptType DEF MachoFails
<1>4. /\ cmds' \in Seq(Commands) /\ status' \in {0, 1}
      /\ fileaddr' \in Nat /\ filesize' \in Nat
    BY ReturnType DEF MachoFails
<1> QED
    BY <1>1, <1>2, <1>3, <1>4 DEF TypeOK, MachoFails

(* The exit that lists a driver.                                           *)
LEMMA DriverLoadedType ==
    ASSUME TypeOK, cmds # <<>>, NEW c \in Commands, c.kind = "macho",
           DriverLoaded(c), fresh' \in BOOLEAN, UNCHANGED <<clean, turns>>
    PROVE  TypeOK'
<1>1. /\ gHasDeviceTree' \in BOOLEAN /\ rootNode' \in Trees
      /\ gRAMDiskRange' \in Ranges /\ gKernelVirtualBase' \in Nat
      /\ gKernelPhysicalBase' \in {0, DramStart}
    BY SetupType DEF DriverLoaded
<1>2. load_top(c) \in Nat /\ image_size(c) + DriverPad \in Nat
    BY MachoNumbers, LayoutAssumption
<1>3. gKernelMemoryTop' \in Nat /\ env' \in Nat
    BY <1>2, IncrementType DEF DriverLoaded
<1>4. driver_image(c) \in DriverImages
    BY <1>2, CommandsAssumption
    DEF driver_image, DriverImages, Ranges, memory_range
<1>5. gKernelMemoryRange' \in Ranges /\ gLoadedDriverImages' \in Seq(DriverImages)
    BY <1>4, KeptType DEF DriverLoaded
<1>6. /\ cmds' \in Seq(Commands) /\ status' \in {0, 1}
      /\ fileaddr' \in Nat /\ filesize' \in Nat
    BY ReturnType DEF DriverLoaded
<1> QED
    BY <1>1, <1>3, <1>5, <1>6, MachoMemory DEF TypeOK, DriverLoaded

(* The exit that has mapped a kernel.                                      *)
LEMMA KernelLoadedType ==
    ASSUME TypeOK, cmds # <<>>, NEW c \in Commands, c.kind = "macho",
           KernelLoaded(c), fresh' \in BOOLEAN, UNCHANGED <<clean, turns>>
    PROVE  TypeOK'
<1>1. /\ gHasDeviceTree' \in BOOLEAN /\ rootNode' \in Trees
      /\ gRAMDiskRange' \in Ranges /\ gKernelVirtualBase' \in Nat
      /\ gKernelPhysicalBase' \in {0, DramStart}
    BY SetupType DEF KernelLoaded
<1>2. load_top(c) \in Nat /\ c.vmsize \in Nat /\ c.entry_points \subseteq Nat
    BY MachoNumbers, CommandsAssumption
<1>3. gKernelMemoryTop' \in Nat /\ env' \in Nat
    BY <1>2, IncrementType DEF KernelLoaded
<1>4. gKernelMemoryRange' \in Ranges /\ gKernelEntryPoint' \in Nat
    BY <1>2 DEF KernelLoaded, memory_range, Ranges
<1>5. gLoadedDriverImages' \in Seq(DriverImages)
    BY KeptType DEF KernelLoaded
<1>6. /\ cmds' \in Seq(Commands) /\ status' \in {0, 1}
      /\ fileaddr' \in Nat /\ filesize' \in Nat
    BY ReturnType DEF KernelLoaded
<1> QED
    BY <1>1, <1>3, <1>4, <1>5, <1>6, MachoMemory DEF TypeOK, KernelLoaded

(* One turn of the loop over the load commands. *)
LEMMA CommandType ==
    ASSUME TypeOK, CommandStep
    PROVE  TypeOK'
<1> DEFINE c == Head(cmds)
<1>1. /\ cmds # <<>> /\ c \in Commands
      /\ fresh' \in BOOLEAN /\ UNCHANGED <<clean, turns>>
    <2>1. cmds # <<>> /\ c \in Commands /\ UNCHANGED <<clean, turns>>
        BY DEF CommandStep, LoadCommand, TypeOK, history
    <2>2. fresh' \in BOOLEAN
        BY DEF CommandStep
    <2> QED
        BY <2>1, <2>2
<1>2. ASSUME load_macho_from_command(c) PROVE TypeOK'
    <2>1. CASE MachoRefused(c)
        <3>1. /\ cmds' \in Seq(Commands) /\ status' \in {0, 1}
              /\ fileaddr' \in Nat /\ filesize' \in Nat
            BY <1>1, <2>1, ReturnType DEF MachoRefused
        <3> QED
            BY <1>1, <2>1, <3>1
            DEF TypeOK, MachoRefused, kernelVars, baseVars, topVars, treeVars
    <2>2. CASE \E after \in [Memory -> Contents] : MachoFails(c, after)
        BY <1>1, <1>2, <2>2, MachoFailsType DEF load_macho_from_command
    <2>3. CASE DriverLoaded(c)
        BY <1>1, <1>2, <2>3, DriverLoadedType DEF load_macho_from_command
    <2>4. CASE KernelLoaded(c)
        BY <1>1, <1>2, <2>4, KernelLoadedType DEF load_macho_from_command
    <2> QED
        BY <1>1, <1>2, <2>1, <2>2, <2>3, <2>4, MachoMemory
        DEF load_macho_from_command, QLZFails, DriverBadInfoOffset, DriverNoPlist,
            KernelUnmappable, MachoUnsupported
<1>3. ASSUME parse_device_tree_command(c) PROVE TypeOK'
    <2>1. /\ cmds' \in Seq(Commands) /\ status' \in {0, 1}
          /\ fileaddr' \in Nat /\ filesize' \in Nat
        BY <1>1, <1>3, ReturnType
        DEF parse_device_tree_command, DeviceTreeSkipped, DeviceTreeRefused,
            DeviceTreeFails, DeviceTreeParsed
    <2>2. gHasDeviceTree' \in BOOLEAN /\ rootNode' \in Trees
        BY <1>3
        DEF TypeOK, Trees, treeVars, parse_device_tree_command, DeviceTreeSkipped,
            DeviceTreeRefused, DeviceTreeFails, DeviceTreeParsed
    <2> QED
        BY <1>1, <1>3, <2>1, <2>2
        DEF TypeOK, parse_device_tree_command, kernelVars, baseVars, topVars
<1>4. ASSUME UnknownCommand(c) PROVE TypeOK'
    <2>1. /\ cmds' \in Seq(Commands) /\ status' \in {0, 1}
          /\ fileaddr' \in Nat /\ filesize' \in Nat
        BY <1>1, <1>4, ReturnType DEF UnknownCommand
    <2> QED
        BY <1>1, <1>4, <2>1
        DEF TypeOK, UnknownCommand, kernelVars, baseVars, topVars, treeVars
<1> QED
    BY <1>2, <1>3, <1>4 DEF CommandStep, LoadCommand

(* mach_boot *)
LEMMA BootType ==
    ASSUME TypeOK, BootStep
    PROVE  TypeOK'
<1>1. /\ fresh' \in BOOLEAN /\ turns' \in Nat /\ clean' = clean
      /\ UNCHANGED <<kernelVars, baseVars, topVars, gRAMDiskRange,
                     gHasDeviceTree, fileVars, cmds>>
    BY TurnType DEF BootStep, mach_boot, history
<1>2. AfterArgs \in [Memory -> Contents]
    BY FillType DEF AfterArgs, TypeOK, Contents
<1>3. \A I : AfterHeaders(AfterArgs, I) \in [Memory -> Contents]
    BY <1>2 DEF AfterHeaders, Contents
<1>4. mem' \in [Memory -> Contents]
    <2>1. CASE BootRefused
        BY <2>1 DEF BootRefused, TypeOK
    <2>2. CASE BootInfoFails
        BY <2>2, <1>2 DEF BootInfoFails, BootFails
    <2>3. CASE BootDriversFail
        BY <2>3, <1>3 DEF BootDriversFail, BootFails
    <2>4. CASE BootRamdiskFails
        BY <2>4, <1>3 DEF BootRamdiskFails, BootFails
    <2>5. CASE BootSucceeds
        <3>1. "tree" \in Contents
            BY DEF Contents
        <3> QED
            BY <2>5, <3>1, <1>3, FillType DEF BootSucceeds
    <2> QED
        BY <2>1, <2>2, <2>3, <2>4, <2>5 DEF BootStep, mach_boot
<1>5. gLoadedDriverImages' \in Seq(DriverImages)
    <2>1. gLoadedDriverImages' = gLoadedDriverImages \/ gLoadedDriverImages' = <<>>
        BY DEF BootStep, mach_boot, BootRefused, BootInfoFails, BootDriversFail,
               BootRamdiskFails, BootSucceeds
    <2>2. <<>> \in Seq(DriverImages) /\ gLoadedDriverImages \in Seq(DriverImages)
        BY DEF TypeOK
    <2> QED
        BY <2>1, <2>2
<1>6. rootNode' \in Trees
    <2>1. rootNode' = rootNode \/ rootNode' = "none"
        BY DEF BootStep, mach_boot, BootRefused, BootInfoFails, BootDriversFail,
               BootRamdiskFails, BootSucceeds, BootFails
    <2> QED
        BY <2>1 DEF TypeOK, Trees
<1>7. status' \in {0, 1}
    BY DEF BootStep, mach_boot
<1> QED
    BY <1>1, <1>4, <1>5, <1>6, <1>7
    DEF TypeOK, kernelVars, baseVars, topVars, fileVars

(* Every command typed and every turn of the loop keeps the types.         *)
LEMMA TypeStep ==
    ASSUME TypeOK, [Next]_vars
    PROVE  TypeOK'
<1>1. CASE ImgxStep(Images)
    <2>1. PICK last \in BOOLEAN, image \in Images : do_imgx(last, image)
        BY <1>1 DEF ImgxStep
    <2>2. cmds' \in {<<>>, image} /\ status' \in {0, 1}
        BY <2>1 DEF do_imgx
    <2>3. cmds' \in Seq(Commands)
        <3>1. <<>> \in Seq(Commands)
            OBVIOUS
        <3>2. image \in Seq(Commands)
            BY ImagesAssumption
        <3> QED
            BY <2>2, <3>1, <3>2
    <2>4. fresh' \in BOOLEAN /\ turns' \in Nat /\ clean' = clean
        BY <1>1, TurnType DEF ImgxStep, TypeOK, history
    <2> QED
        BY <2>1, <2>2, <2>3, <2>4
        DEF TypeOK, do_imgx, kernelVars, baseVars, topVars, treeVars,
            fileVars
<1>2. CASE CommandStep
    BY <1>2, CommandType
<1>3. CASE RdxStep
    <2>1. fresh' \in BOOLEAN /\ turns' \in Nat /\ clean' \in BOOLEAN
        BY <1>3, TurnType DEF RdxStep, TypeOK, history
    <2>2. CASE RamdiskRefused
        BY <1>3, <2>1, <2>2
        DEF TypeOK, RdxStep, do_rdx, RamdiskRefused, kernelVars, baseVars, topVars,
            treeVars, fileVars
    <2>3. CASE RamdiskAdded
        <3>1. gKernelMemoryTop' \in Nat /\ env' \in Nat
            BY <2>3, IncrementType DEF RamdiskAdded, TypeOK
        <3>2. gRAMDiskRange' \in Ranges
            BY <2>3 DEF RamdiskAdded, TypeOK, memory_range, Ranges
        <3> QED
            BY <1>3, <2>1, <2>3, <3>1, <3>2
            DEF TypeOK, RdxStep, do_rdx, RamdiskAdded, kernelVars, baseVars,
                treeVars, fileVars
    <2> QED
        BY <1>3, <2>2, <2>3 DEF RdxStep, do_rdx
<1>4. CASE LoadStep({env, StagingAddr} \cup LoadAddrs)
    <2>1. PICK addr \in {env, StagingAddr} \cup LoadAddrs, size \in FileSizes,
               signature \in Signatures :
                    /\ LoadFile(addr, size, signature)
                    /\ Turn(addr = env /\ assert_kernel_load)
        BY <1>4 DEF LoadStep
    <2>2. addr \in Nat /\ size \in Nat /\ signature \in Contents
        BY LayoutAssumption DEF TypeOK, Contents
    <2>3. mem' \in [Memory -> Contents] /\ fileaddr' \in Nat /\ filesize' \in Nat
        BY <2>1, <2>2, FillType DEF LoadFile, TypeOK
    <2>4. fresh' \in BOOLEAN /\ turns' \in Nat /\ clean' = clean
        <3>1. (addr = env /\ assert_kernel_load) \in BOOLEAN
            BY DEF assert_kernel_load, RANGE_IS_NULL
        <3> QED
            BY <1>4, <2>1, <3>1, TurnType DEF LoadStep, history
    <2> QED
        BY <2>1, <2>3, <2>4
        DEF TypeOK, LoadFile, kernelVars, baseVars, topVars, treeVars
<1>5. CASE BootStep
    BY <1>5, BootType
<1>6. CASE UNCHANGED vars
    BY <1>6
    DEF TypeOK, vars, history, loaderVars, kernelVars, baseVars, topVars, treeVars, fileVars
<1> QED
    BY <1>1, <1>2, <1>3, <1>4, <1>5, <1>6 DEF Next

(* The globals start as zeros, which are of their types.                   *)
LEMMA TypeInit == Init => TypeOK
<1> SUFFICES ASSUME Init PROVE TypeOK
    OBVIOUS
<1>1. mem \in [Memory -> Contents]
    BY DEF Init, LoaderInit, Contents
<1>2. gLoadedDriverImages \in Seq(DriverImages) /\ cmds \in Seq(Commands)
    BY DEF Init, LoaderInit
<1>3. 0 \in Nat /\ status \in {0, 1} /\ fresh \in BOOLEAN /\ clean \in BOOLEAN
      /\ gHasDeviceTree \in BOOLEAN
    BY DEF Init, LoaderInit
<1> QED
    BY <1>1, <1>2, <1>3
    DEF Init, LoaderInit, TypeOK, NullRange, memory_range, Ranges, Trees

(* Every variable keeps its type, whatever the images and the commands.    *)
THEOREM TypeCorrect == Spec => []TypeOK
<1> QED
    BY TypeInit, TypeStep, PTL DEF Spec

-----------------------------------------------------------------------------
(***************************************************************************)
(* What the commands rely on.  The conjunction is inductive as it stands:  *)
(* the device tree commands and mach_boot keep the flag behind a loaded    *)
(* kernel, and teardown forgets the kernel and the flag together.          *)
(***************************************************************************)
Reliance == TypeOK /\ EnvCurrent /\ BootHasKernel /\ NoPartialTree

(* A kernel torn down is no longer loaded, and takes the flag with it. *)
LEMMA TornDown ==
    ASSUME TypeOK, EnvCurrent, BootHasKernel, NoPartialTree, NEW c,
           SetupKernelMemory(c)
    PROVE  /\ IsKernel(c) => RANGE_IS_NULL(KeptRange(c)) /\ gHasDeviceTree' = FALSE
           /\ ~IsKernel(c) =>
                 /\ KeptRange(c) = gKernelMemoryRange
                 /\ load_top(c) = gKernelMemoryTop
                 /\ gHasDeviceTree' = gHasDeviceTree
                 /\ gKernelPhysicalBase' = gKernelPhysicalBase
           /\ gHasDeviceTree' => rootNode' # "partial"
<1>1. /\ gHasDeviceTree' = (gHasDeviceTree /\ ~tears_down(c))
      /\ rootNode' = IF tears_down(c) /\ gHasDeviceTree THEN "none" ELSE rootNode
      /\ ~IsKernel(c) => gKernelPhysicalBase' = gKernelPhysicalBase
    BY DEF SetupKernelMemory, teardown_old_loader_context
<1>2. RANGE_IS_NULL(NullRange)
    BY DEF RANGE_IS_NULL, NullRange, memory_range
<1>3. CASE IsKernel(c)
    BY <1>1, <1>2, <1>3
    DEF tears_down, KeptRange, assert_kernel_load, BootHasKernel, NoPartialTree, TypeOK
<1>4. CASE ~IsKernel(c)
    BY <1>1, <1>4 DEF tears_down, KeptRange, load_top, NoPartialTree, TypeOK
<1> QED
    BY <1>3, <1>4

(* A command that fails after the setup: if it was a kernel there is none  *)
(* now, and otherwise the top has not moved.                               *)
LEMMA MachoFailsReliance ==
    ASSUME Reliance, NEW c \in Commands, NEW after, MachoFails(c, after),
           UNCHANGED handoff
    PROVE  (EnvCurrent /\ BootHasKernel /\ NoPartialTree)'
<1>1. /\ SetupKernelMemory(c)
      /\ gKernelMemoryTop' = load_top(c)
      /\ gKernelMemoryRange' = KeptRange(c)
      /\ env' = env
    BY DEF MachoFails
<1>2. CASE IsKernel(c)
    BY <1>1, <1>2, TornDown
    DEF Reliance, EnvCurrent, BootHasKernel, NoPartialTree, assert_kernel_load
<1>3. CASE ~IsKernel(c)
    BY <1>1, <1>3, TornDown
    DEF Reliance, EnvCurrent, BootHasKernel, NoPartialTree, assert_kernel_load
<1> QED
    BY <1>2, <1>3

(* A driver moves the top past itself and the variable with it; the kernel *)
(* stays below.                                                            *)
LEMMA DriverLoadedReliance ==
    ASSUME Reliance, NEW c \in Commands, c.kind = "macho", DriverLoaded(c),
           UNCHANGED handoff
    PROVE  (EnvCurrent /\ BootHasKernel /\ NoPartialTree)'
<1>1. /\ SetupKernelMemory(c)
      /\ gKernelMemoryRange' = KeptRange(c)
      /\ IsKernel(c) \/ assert_kernel_load
    BY DEF DriverLoaded
<1>2. CASE IsKernel(c)
    BY <1>1, <1>2, TornDown
    DEF Reliance, EnvCurrent, BootHasKernel, NoPartialTree, assert_kernel_load
<1>3. CASE ~IsKernel(c)
    <2>1. /\ env' = gKernelMemoryTop' /\ gKernelMemoryTop' \in Nat
          /\ load_top(c) <= gKernelMemoryTop' /\ load_top(c) \in Nat
        <3>1. load_top(c) \in Nat /\ image_size(c) + DriverPad \in Nat
            BY MachoNumbers, LayoutAssumption DEF Reliance
        <3> QED
            BY <3>1, IncrementType DEF DriverLoaded
    <2>2. gKernelMemoryRange \in Ranges
        BY DEF Reliance, TypeOK
    <2>3. EnvCurrent'
        <3>1. /\ gKernelMemoryRange' = gKernelMemoryRange
              /\ gKernelPhysicalBase' = gKernelPhysicalBase
              /\ gKernelMemoryTop <= gKernelMemoryTop'
            BY <1>1, <1>3, <2>1, TornDown DEF Reliance
        <3>2. assert_kernel_load /\ EnvCurrent /\ gKernelMemoryTop \in Nat
            BY <1>1, <1>3 DEF Reliance, TypeOK
        <3>3. End(gKernelMemoryRange) \in Nat
            BY <2>2 DEF End, Ranges
        <3> QED
            BY <2>1, <3>1, <3>2, <3>3 DEF EnvCurrent
    <2> QED
        BY <1>1, <1>3, <2>3, TornDown
        DEF Reliance, BootHasKernel, NoPartialTree, assert_kernel_load
<1> QED
    BY <1>2, <1>3

(* A kernel sets base, top and variable together; the flag it tore down is *)
(* set again by no one but a parse.                                        *)
LEMMA KernelLoadedReliance ==
    ASSUME Reliance, NEW c \in Commands, c.kind = "macho", KernelLoaded(c),
           UNCHANGED handoff
    PROVE  /\ (EnvCurrent /\ BootHasKernel /\ NoPartialTree)'
           /\ gKernelMemoryTop' <= MemEnd
<1>1. load_top(c) \in Nat /\ DramStart <= load_top(c) /\ c.vmsize \in Nat
    BY MachoNumbers, CommandsAssumption DEF Reliance, KernelLoaded
<1>2. /\ env' = gKernelMemoryTop' /\ gKernelMemoryTop' \in Nat
      /\ load_top(c) + c.vmsize <= gKernelMemoryTop'
      /\ gKernelMemoryTop' <= MemEnd
    BY <1>1, IncrementType DEF KernelLoaded
<1>3. /\ gKernelPhysicalBase' = DramStart
      /\ gKernelMemoryRange' = memory_range(load_top(c), c.vmsize)
      /\ gHasDeviceTree' = FALSE
    BY TornDown DEF Reliance, KernelLoaded, SetupKernelMemory
<1> QED
    BY <1>1, <1>2, <1>3, LayoutAssumption
    DEF Reliance, EnvCurrent, BootHasKernel, NoPartialTree, assert_kernel_load, End,
        memory_range

(* One turn of the loop: device trees change the flag and the tree, the    *)
(* exits of load_macho_from_command the rest.                              *)
LEMMA CommandReliance ==
    ASSUME Reliance, CommandStep
    PROVE  (EnvCurrent /\ BootHasKernel /\ NoPartialTree)'
<1> DEFINE c == Head(cmds)
<1>1. cmds # <<>> /\ c \in Commands /\ UNCHANGED handoff
    BY DEF CommandStep, LoadCommand, Reliance, TypeOK
<1>2. ASSUME load_macho_from_command(c)
      PROVE  (EnvCurrent /\ BootHasKernel /\ NoPartialTree)'
    <2>1. CASE MachoRefused(c)
        BY <1>1, <2>1
        DEF MachoRefused, kernelVars, baseVars, topVars, treeVars, Reliance, EnvCurrent,
            BootHasKernel, NoPartialTree, assert_kernel_load
    <2>2. CASE \E after : MachoFails(c, after)
        BY <1>1, <2>2, MachoFailsReliance
    <2>3. CASE DriverLoaded(c)
        BY <1>1, <1>2, <2>3, DriverLoadedReliance DEF load_macho_from_command
    <2>4. CASE KernelLoaded(c)
        BY <1>1, <1>2, <2>4, KernelLoadedReliance DEF load_macho_from_command
    <2> QED
        BY <1>2, <2>1, <2>2, <2>3, <2>4
        DEF load_macho_from_command, QLZFails, DriverBadInfoOffset, DriverNoPlist,
            KernelUnmappable, MachoUnsupported
<1>3. ASSUME parse_device_tree_command(c)
      PROVE  (EnvCurrent /\ BootHasKernel /\ NoPartialTree)'
    <2>1. /\ assert_kernel_load' = assert_kernel_load
          /\ EnvCurrent' = EnvCurrent
        BY <1>3
        DEF parse_device_tree_command, kernelVars, baseVars, topVars, EnvCurrent,
            assert_kernel_load
    <2>2. gHasDeviceTree' => assert_kernel_load /\ rootNode' # "partial"
        BY <1>3
        DEF parse_device_tree_command, DeviceTreeSkipped, DeviceTreeRefused,
            DeviceTreeFails, DeviceTreeParsed, treeVars, Reliance, BootHasKernel,
            NoPartialTree
    <2> QED
        BY <1>1, <2>1, <2>2 DEF Reliance, BootHasKernel, NoPartialTree
<1>4. ASSUME UnknownCommand(c)
      PROVE  (EnvCurrent /\ BootHasKernel /\ NoPartialTree)'
    BY <1>1, <1>4
    DEF UnknownCommand, kernelVars, baseVars, topVars, treeVars, Reliance, EnvCurrent,
        BootHasKernel, NoPartialTree, assert_kernel_load
<1> QED
    BY <1>2, <1>3, <1>4 DEF CommandStep, LoadCommand

(* mach_boot starts a kernel only behind the flag, and finalizes the tree. *)
LEMMA BootReliance ==
    ASSUME Reliance, BootStep
    PROVE  (EnvCurrent /\ BootHasKernel /\ NoPartialTree)'
<1>1. UNCHANGED <<gKernelMemoryRange, gKernelMemoryTop, gKernelPhysicalBase, env,
                  gHasDeviceTree>>
    BY DEF BootStep, mach_boot, kernelVars, baseVars, topVars
<1>2. EnvCurrent'
    BY <1>1 DEF Reliance, EnvCurrent, assert_kernel_load
<1>3. gHasDeviceTree' => rootNode' # "partial"
    <2>1. rootNode' \in {rootNode, "none"}
        BY DEF BootStep, mach_boot, BootRefused, BootInfoFails, BootDriversFail,
               BootRamdiskFails, BootSucceeds, BootFails
    <2> QED
        BY <1>1, <2>1 DEF Reliance, NoPartialTree
<1>4. CASE handoff' = handoff
    BY <1>1, <1>3, <1>2, <1>4
    DEF Reliance, BootHasKernel, NoPartialTree, assert_kernel_load
<1>5. CASE BootSucceeds
    <2>1. PICK len \in FlatSizes : handoff' = {boot_args(len)}
        BY <1>5 DEF BootSucceeds
    <2>2. /\ boot_args(len).kernel = gKernelMemoryRange
          /\ boot_args(len).root = create_memory_map
        BY DEF boot_args
    <2>3. ~RANGE_IS_NULL(gKernelMemoryRange) /\ create_memory_map # "partial"
        BY <1>5
        DEF BootSucceeds, Reliance, BootHasKernel, NoPartialTree, assert_kernel_load,
            create_memory_map
    <2> QED
        BY <1>1, <1>2, <1>3, <2>1, <2>2, <2>3
        DEF Reliance, BootHasKernel, NoPartialTree, assert_kernel_load
<1> QED
    BY <1>4, <1>5
    DEF BootStep, mach_boot, BootRefused, BootInfoFails, BootDriversFail,
        BootRamdiskFails, BootFails

(* Every command typed and every turn of the loop keeps what mach_boot and *)
(* the operator rely on.                                                   *)
LEMMA RelianceStep ==
    ASSUME Reliance, [Next]_vars
    PROVE  Reliance'
<1>1. TypeOK'
    BY TypeStep DEF Reliance
<1>2. ASSUME UNCHANGED <<gKernelMemoryRange, gKernelMemoryTop, gKernelPhysicalBase,
                         env, gHasDeviceTree, rootNode, handoff>>
      PROVE  (EnvCurrent /\ BootHasKernel /\ NoPartialTree)'
    BY <1>2
    DEF Reliance, EnvCurrent, BootHasKernel, NoPartialTree, assert_kernel_load
<1>3. CASE ImgxStep(Images)
    BY <1>1, <1>2, <1>3
    DEF ImgxStep, do_imgx, kernelVars, baseVars, topVars, treeVars, Reliance
<1>4. CASE CommandStep
    BY <1>1, <1>4, CommandReliance DEF Reliance
<1>5. CASE RdxStep
    <2>1. CASE RamdiskRefused
        BY <1>1, <1>2, <1>5, <2>1
        DEF RdxStep, do_rdx, RamdiskRefused, kernelVars, baseVars, topVars, treeVars,
            Reliance
    <2>2. CASE RamdiskAdded
        <3>1. UNCHANGED <<gKernelMemoryRange, gKernelPhysicalBase, gHasDeviceTree,
                          rootNode, handoff>>
            BY <1>5 DEF RdxStep, do_rdx, kernelVars, baseVars, treeVars
        <3>2. gKernelMemoryTop \in Nat /\ filesize \in Nat /\ gKernelMemoryRange \in Ranges
            BY DEF Reliance, TypeOK
        <3>3. /\ env' = gKernelMemoryTop' /\ gKernelMemoryTop <= gKernelMemoryTop'
              /\ gKernelMemoryTop' \in Nat
            <4>1. /\ env' = gKernelMemoryTop' /\ gKernelMemoryTop' \in Nat
                  /\ gKernelMemoryTop + filesize <= gKernelMemoryTop'
                BY <2>2, <3>2, IncrementType DEF RamdiskAdded
            <4> QED
                BY <3>2, <4>1
        <3>4. EnvCurrent'
            <4>1. End(gKernelMemoryRange) \in Nat
                BY <3>2 DEF End, Ranges
            <4> QED
                BY <3>1, <3>2, <3>3, <4>1 DEF Reliance, EnvCurrent, assert_kernel_load
        <3> QED
            BY <1>1, <3>1, <3>4
            DEF Reliance, BootHasKernel, NoPartialTree, assert_kernel_load
    <2> QED
        BY <1>5, <2>1, <2>2 DEF RdxStep, do_rdx
<1>6. CASE LoadStep({env, StagingAddr} \cup LoadAddrs)
    BY <1>1, <1>2, <1>6
    DEF LoadStep, LoadFile, kernelVars, baseVars, topVars, treeVars, Reliance
<1>7. CASE BootStep
    BY <1>1, <1>7, BootReliance DEF Reliance
<1>8. CASE UNCHANGED vars
    BY <1>1, <1>2, <1>8
    DEF vars, loaderVars, kernelVars, baseVars, topVars, treeVars, Reliance
<1> QED
    BY <1>3, <1>4, <1>5, <1>6, <1>7, <1>8 DEF Next

(* At first no kernel is loaded, no tree is flagged and none was started.  *)
LEMMA RelianceInit == Init => Reliance
<1> SUFFICES ASSUME Init PROVE Reliance
    OBVIOUS
<1>1. TypeOK
    BY TypeInit
<1>2. /\ gKernelMemoryRange = NullRange /\ gHasDeviceTree = FALSE /\ handoff = {}
    BY DEF Init, LoaderInit
<1>3. RANGE_IS_NULL(NullRange)
    BY DEF RANGE_IS_NULL, NullRange, memory_range
<1> QED
    BY <1>1, <1>2, <1>3
    DEF Reliance, EnvCurrent, BootHasKernel, NoPartialTree, assert_kernel_load

(* The four together hold throughout: EnvCurrent is inductive only with the *)
(* types, and BootHasKernel and NoPartialTree are about what one and the   *)
(* same step does to the kernel, the flag and the tree.                    *)
THEOREM RelianceCorrect == Spec => []Reliance
<1> QED
    BY RelianceInit, RelianceStep, PTL DEF Spec

(* The variable an operator loads ramdisks to is the loader's own top as   *)
(* long as a kernel is loaded, whatever failed before.                     *)
THEOREM EnvIsTop == Spec => []EnvCurrent
<1>1. Reliance => EnvCurrent
    BY DEF Reliance
<1> QED
    BY <1>1, RelianceCorrect, PTL

(* The one test of mach_boot, gHasDeviceTree, implies a loaded kernel.     *)
THEOREM FlagNeedsKernel == Spec => []BootHasKernel
<1>1. Reliance => BootHasKernel
    BY DEF Reliance
<1> QED
    BY <1>1, RelianceCorrect, PTL

(* No kernel is given a tree whose parse failed half way.                  *)
THEOREM TreeWhole == Spec => []NoPartialTree
<1>1. Reliance => NoPartialTree
    BY DEF Reliance
<1> QED
    BY <1>1, RelianceCorrect, PTL

-----------------------------------------------------------------------------
(***************************************************************************)
(* The strengthening.  KernelIntact, DriversIntact and RamdiskIntact are   *)
(* not inductive alone: a later write misses the placed ranges because     *)
(* they end at or below the top and the write starts at or above it, and   *)
(* the headers mach_boot writes into the pads miss them because the        *)
(* ranges do not overlap.  A file that is still on the top when rdx adopts *)
(* it is as it was loaded, unless a load or a boot failed in between: a    *)
(* driver that was placed has moved the top.                               *)
(***************************************************************************)
NoRamdisk == RANGE_IS_NULL(gRAMDiskRange)
DriverRange(i) == gLoadedDriverImages[i].range

CommandsWellFormed == \A i \in DOMAIN cmds : WellFormed(cmds[i])

NothingWithoutKernel ==
    ~assert_kernel_load => gLoadedDriverImages = <<>> /\ NoRamdisk /\ ~fresh

BelowTop ==
    /\ assert_kernel_load => gKernelMemoryTop <= MemEnd
    /\ \A i \in AllDrivers :
          /\ End(gKernelMemoryRange) <= DriverRange(i).base
          /\ DriverPad <= DriverRange(i).size
          /\ End(DriverRange(i)) <= gKernelMemoryTop
    /\ ~NoRamdisk =>
          /\ End(gKernelMemoryRange) <= gRAMDiskRange.base
          /\ End(gRAMDiskRange) <= gKernelMemoryTop

Apart ==
    /\ \A i, j \in AllDrivers : i # j => Disjoint(DriverRange(i), DriverRange(j))
    /\ ~NoRamdisk => \A i \in AllDrivers : Disjoint(DriverRange(i), gRAMDiskRange)

FreshFile ==
    fresh =>
        /\ fileaddr <= gKernelMemoryTop
        /\ fileaddr = gKernelMemoryTop =>
              /\ fileaddr + filesize <= MemEnd
              /\ \E s \in Signatures :
                    \A a \in fileaddr .. (fileaddr + filesize - 1) : mem[a] = s

Layout ==
    /\ Reliance
    /\ CommandsWellFormed
    /\ NothingWithoutKernel
    /\ BelowTop
    /\ Apart
    /\ FreshFile
    /\ KernelIntact
    /\ DriversIntact
    /\ RamdiskIntact

-----------------------------------------------------------------------------
(***************************************************************************)
(* Where the placed ranges are, and what misses them.                      *)
(***************************************************************************)

(* A write to a range leaves every address outside the range as it was. *)
LEMMA FillMisses ==
    ASSUME NEW m, NEW r, NEW x, NEW a \in DOMAIN m,
           ~(r.base <= a /\ a < End(r))
    PROVE  Fill(m, r, x)[a] = m[a]
BY DEF Fill

(* A write to a range reaches every address of the range. *)
LEMMA FillHits ==
    ASSUME NEW m, NEW r, NEW x, NEW a \in DOMAIN m, r.base <= a, a < End(r)
    PROVE  Fill(m, r, x)[a] = x
BY DEF Fill

(* The types the lemmas below need. *)
LEMMA LayoutTypes ==
    ASSUME Layout
    PROVE  /\ DramStart \in Nat \ {0} /\ MemEnd \in Nat /\ DriverPad \in Nat
           /\ gKernelMemoryTop \in Nat
           /\ gKernelMemoryRange.base \in Nat /\ gKernelMemoryRange.size \in Nat
           /\ gRAMDiskRange.base \in Nat /\ gRAMDiskRange.size \in Nat
           /\ \A i \in AllDrivers :
                 /\ i \in Nat
                 /\ DriverRange(i).base \in Nat
                 /\ DriverRange(i).size \in Nat
           /\ DOMAIN mem = Memory
<1>1. /\ gKernelMemoryRange \in Ranges /\ gRAMDiskRange \in Ranges
      /\ gKernelMemoryTop \in Nat /\ DOMAIN mem = Memory
      /\ gLoadedDriverImages \in Seq(DriverImages)
    BY DEF Layout, Reliance, TypeOK
<1>2. \A i \in AllDrivers : i \in Nat /\ gLoadedDriverImages[i] \in DriverImages
    BY <1>1 DEF AllDrivers
<1>3. \A i \in AllDrivers : DriverRange(i) \in Ranges
    BY <1>2 DEF DriverRange, DriverImages
<1> QED
    BY <1>1, <1>2, <1>3, LayoutAssumption DEF Ranges

(* Everything placed is in the memory, below the top. *)
LEMMA PlacedInMemory ==
    ASSUME Layout
    PROVE  /\ assert_kernel_load =>
                 \A a \in Bytes(gKernelMemoryRange) :
                    a \in Memory /\ a < gKernelMemoryTop
           /\ \A i \in AllDrivers : \A a \in Bytes(DriverRange(i)) :
                 a \in Memory /\ a < gKernelMemoryTop
           /\ ~NoRamdisk =>
                 \A a \in Bytes(gRAMDiskRange) :
                    a \in Memory /\ a < gKernelMemoryTop
<1>1. AllDrivers # {} \/ ~NoRamdisk => assert_kernel_load
    BY DEF Layout, NothingWithoutKernel, AllDrivers
<1>2. assert_kernel_load =>
        /\ DramStart <= gKernelMemoryRange.base
        /\ End(gKernelMemoryRange) <= gKernelMemoryTop
        /\ gKernelMemoryTop <= MemEnd
    BY DEF Layout, Reliance, EnvCurrent, BelowTop
<1>3. ASSUME assert_kernel_load, NEW r, r.base \in Nat, r.size \in Nat,
             DramStart <= r.base, End(r) <= gKernelMemoryTop
      PROVE  \A a \in Bytes(r) : a \in Memory /\ a < gKernelMemoryTop
    BY <1>2, <1>3, LayoutTypes DEF Bytes, End, Memory
<1>4. assert_kernel_load =>
        \A a \in Bytes(gKernelMemoryRange) : a \in Memory /\ a < gKernelMemoryTop
    BY <1>2, <1>3, LayoutTypes
<1>5. ASSUME assert_kernel_load, NEW r, r.base \in Nat,
             End(gKernelMemoryRange) <= r.base
      PROVE  DramStart <= r.base
    BY <1>2, <1>5, LayoutTypes DEF End
<1>6. \A i \in AllDrivers : \A a \in Bytes(DriverRange(i)) :
        a \in Memory /\ a < gKernelMemoryTop
    <2> SUFFICES ASSUME NEW i \in AllDrivers
                 PROVE  \A a \in Bytes(DriverRange(i)) :
                            a \in Memory /\ a < gKernelMemoryTop
        OBVIOUS
    <2>1. /\ End(gKernelMemoryRange) <= DriverRange(i).base
          /\ End(DriverRange(i)) <= gKernelMemoryTop
        BY DEF Layout, BelowTop
    <2>2. DramStart <= DriverRange(i).base
        BY <1>1, <1>5, <2>1, LayoutTypes
    <2> QED
        BY <1>1, <1>3, <2>1, <2>2, LayoutTypes
<1>7. ASSUME ~NoRamdisk
      PROVE  \A a \in Bytes(gRAMDiskRange) : a \in Memory /\ a < gKernelMemoryTop
    <2>1. /\ End(gKernelMemoryRange) <= gRAMDiskRange.base
          /\ End(gRAMDiskRange) <= gKernelMemoryTop
        BY <1>7 DEF Layout, BelowTop
    <2>2. DramStart <= gRAMDiskRange.base
        BY <1>1, <1>5, <1>7, <2>1, LayoutTypes
    <2> QED
        BY <1>1, <1>3, <1>7, <2>1, <2>2, LayoutTypes
<1> QED
    BY <1>4, <1>6, <1>7

(***************************************************************************)
(* A step keeps the memory when it writes only at or above the top, and to *)
(* the pads in front of the drivers.                                       *)
(***************************************************************************)
InPad(a) == \E i \in AllDrivers : a \in Bytes(Pad(gLoadedDriverImages[i]))

KeepsMemory ==
    \A a \in Memory : a < gKernelMemoryTop /\ ~InPad(a) => mem'[a] = mem[a]

(* The kernel, the bodies of the drivers and the ramdisk are outside every *)
(* pad.                                                                    *)
LEMMA OutsidePads ==
    ASSUME Layout
    PROVE  /\ \A a \in Bytes(gKernelMemoryRange) : ~InPad(a)
           /\ \A i \in AllDrivers :
                 \A a \in (DriverRange(i).base + DriverPad) ..
                          (End(DriverRange(i)) - 1) : ~InPad(a)
           /\ ~NoRamdisk => \A a \in Bytes(gRAMDiskRange) : ~InPad(a)
<1>1. ASSUME NEW j \in AllDrivers, NEW a \in Bytes(Pad(gLoadedDriverImages[j]))
      PROVE  /\ a \in Int
             /\ DriverRange(j).base <= a
             /\ a < DriverRange(j).base + DriverPad
             /\ a < End(DriverRange(j))
             /\ End(gKernelMemoryRange) <= a
    <2>1. /\ DriverRange(j).base \in Nat /\ DriverRange(j).size \in Nat
          /\ DriverPad \in Nat /\ End(gKernelMemoryRange) \in Nat
        BY LayoutTypes DEF End
    <2>2. a \in DriverRange(j).base .. (DriverRange(j).base + DriverPad - 1)
        BY DEF Pad, Bytes, memory_range, DriverRange
    <2>3. /\ DriverPad <= DriverRange(j).size
          /\ End(gKernelMemoryRange) <= DriverRange(j).base
        BY DEF Layout, BelowTop
    <2>4. End(DriverRange(j)) = DriverRange(j).base + DriverRange(j).size
        BY DEF End
    <2> QED
        BY <2>1, <2>2, <2>3, <2>4
<1>2. ASSUME NEW a \in Bytes(gKernelMemoryRange), NEW j \in AllDrivers
      PROVE  a \notin Bytes(Pad(gLoadedDriverImages[j]))
    <2>1. a \in Int /\ a < End(gKernelMemoryRange) /\ End(gKernelMemoryRange) \in Nat
        BY LayoutTypes DEF Bytes, End
    <2> QED
        BY <1>1, <2>1
<1>3. ASSUME NEW i \in AllDrivers,
             NEW a \in (DriverRange(i).base + DriverPad) ..
                       (End(DriverRange(i)) - 1),
             NEW j \in AllDrivers, a \in Bytes(Pad(gLoadedDriverImages[j]))
      PROVE  FALSE
    <2>1. /\ DriverRange(i).base \in Nat /\ DriverRange(j).base \in Nat
          /\ End(DriverRange(i)) \in Nat /\ End(DriverRange(j)) \in Nat
          /\ DriverPad \in Nat
        BY LayoutTypes DEF End
    <2>2. /\ DriverRange(i).base + DriverPad <= a /\ a < End(DriverRange(i))
          /\ DriverRange(j).base <= a /\ a < DriverRange(j).base + DriverPad
          /\ a < End(DriverRange(j)) /\ a \in Int
        BY <1>1, <1>3, <2>1
    <2>3. i # j
        BY <2>1, <2>2
    <2>4. \/ End(DriverRange(i)) <= DriverRange(j).base
          \/ End(DriverRange(j)) <= DriverRange(i).base
        BY <2>3 DEF Layout, Apart, Disjoint
    <2> QED
        BY <2>1, <2>2, <2>4
<1>4. ASSUME ~NoRamdisk, NEW a \in Bytes(gRAMDiskRange), NEW j \in AllDrivers,
             a \in Bytes(Pad(gLoadedDriverImages[j]))
      PROVE  FALSE
    <2>1. /\ gRAMDiskRange.base \in Nat /\ DriverRange(j).base \in Nat
          /\ End(gRAMDiskRange) \in Nat /\ End(DriverRange(j)) \in Nat
        BY LayoutTypes DEF End
    <2>2. /\ gRAMDiskRange.base <= a /\ a < End(gRAMDiskRange) /\ a \in Int
        BY <1>4, LayoutTypes DEF Bytes, End
    <2>3. DriverRange(j).base <= a /\ a < End(DriverRange(j))
        BY <1>1, <1>4
    <2>4. \/ End(DriverRange(j)) <= gRAMDiskRange.base
          \/ End(gRAMDiskRange) <= DriverRange(j).base
        BY <1>4 DEF Layout, Apart, Disjoint
    <2> QED
        BY <2>1, <2>2, <2>3, <2>4
<1> QED
    BY <1>2, <1>3, <1>4 DEF InPad

(* So a step that keeps the memory leaves them all as they were. *)
LEMMA PlacedKept ==
    ASSUME Layout, KeepsMemory
    PROVE  /\ assert_kernel_load =>
                 \A a \in Bytes(gKernelMemoryRange) : mem'[a] = "kernel"
           /\ \A i \in AllDrivers :
                 \A a \in (DriverRange(i).base + DriverPad) ..
                          (End(DriverRange(i)) - 1) : mem'[a] = "driver"
           /\ ~NoRamdisk =>
                 /\ \A a \in Bytes(gRAMDiskRange) : mem'[a] = adopted[a]
                 /\ clean => \E s \in Signatures :
                                \A a \in Bytes(gRAMDiskRange) : mem'[a] = s
<1>1. assert_kernel_load => \A a \in Bytes(gKernelMemoryRange) : mem'[a] = "kernel"
    BY PlacedInMemory, OutsidePads DEF KeepsMemory, Layout, KernelIntact
<1>2. ASSUME NEW i \in AllDrivers,
             NEW a \in (DriverRange(i).base + DriverPad) ..
                       (End(DriverRange(i)) - 1)
      PROVE  mem'[a] = "driver"
    <2>1. a \in Bytes(DriverRange(i))
        BY LayoutTypes DEF Bytes, End
    <2>2. mem[a] = "driver"
        BY DEF Layout, DriversIntact, DriverRange, AllDrivers
    <2> QED
        BY <2>1, <2>2, PlacedInMemory, OutsidePads DEF KeepsMemory
<1>3. ASSUME ~NoRamdisk
      PROVE  /\ \A a \in Bytes(gRAMDiskRange) : mem'[a] = adopted[a]
             /\ clean => \E s \in Signatures : \A a \in Bytes(gRAMDiskRange) : mem'[a] = s
    <2>1. \A a \in Bytes(gRAMDiskRange) : mem'[a] = mem[a]
        BY <1>3, PlacedInMemory, OutsidePads DEF KeepsMemory
    <2>2. /\ \A a \in Bytes(gRAMDiskRange) : mem[a] = adopted[a]
          /\ clean => \E s \in Signatures : \A a \in Bytes(gRAMDiskRange) : mem[a] = s
        BY <1>3 DEF Layout, RamdiskIntact, NoRamdisk
    <2> QED
        BY <2>1, <2>2
<1> QED
    BY <1>1, <1>2, <1>3

-----------------------------------------------------------------------------
(***************************************************************************)
(* Steps.                                                                  *)
(***************************************************************************)

(* The operator's steps are steps of Spec. *)
LEMMA OperatorNextIsNext == OperatorNext => Next
<1>1. ImgxStep(WellFormedImages) => ImgxStep(Images)
    BY DEF ImgxStep, WellFormedImages
<1>2. LoadStep({env, StagingAddr}) => LoadStep({env, StagingAddr} \cup LoadAddrs)
    BY DEF LoadStep
<1> QED
    BY <1>1, <1>2 DEF OperatorNext, Next

(* A step that places nothing, and gives up nothing or only the drivers. *)
LEMMA Frame ==
    ASSUME Layout, Reliance', CommandsWellFormed', FreshFile',
           UNCHANGED <<gKernelMemoryRange, gKernelMemoryTop, gRAMDiskRange, history>>,
           gLoadedDriverImages' \in {gLoadedDriverImages, <<>>},
           assert_kernel_load => KeepsMemory,
           fresh' => assert_kernel_load
    PROVE  Layout'
<1>1. assert_kernel_load' = assert_kernel_load /\ NoRamdisk' = NoRamdisk
    BY DEF assert_kernel_load, NoRamdisk
<1>2. \A i \in AllDrivers' : i \in AllDrivers /\ DriverRange(i)' = DriverRange(i)
    BY DEF AllDrivers, DriverRange
<1>3. NothingWithoutKernel'
    BY <1>1 DEF Layout, NothingWithoutKernel
<1>4. BelowTop'
    BY <1>1, <1>2 DEF Layout, BelowTop
<1>5. Apart'
    BY <1>1, <1>2 DEF Layout, Apart
<1>6. CASE assert_kernel_load
    <2>1. KernelIntact'
        BY <1>1, <1>6, PlacedKept DEF KernelIntact
    <2>2. DriversIntact'
        <3>1. \A i \in AllDrivers' :
                 \A a \in (DriverRange(i)'.base + DriverPad) ..
                          (End(DriverRange(i)') - 1) : mem'[a] = "driver"
            BY <1>2, <1>6, PlacedKept
        <3> QED
            BY <3>1 DEF DriversIntact, DriverRange, AllDrivers
    <2>3. RamdiskIntact'
        BY <1>1, <1>6, PlacedKept DEF RamdiskIntact, NoRamdisk, history
    <2> QED
        BY <1>3, <1>4, <1>5, <2>1, <2>2, <2>3 DEF Layout
<1>7. CASE ~assert_kernel_load
    <2>1. gLoadedDriverImages' = <<>> /\ NoRamdisk'
        BY <1>1, <1>7 DEF Layout, NothingWithoutKernel
    <2>2. KernelIntact' /\ DriversIntact' /\ RamdiskIntact'
        BY <1>1, <1>7, <2>1 DEF KernelIntact, DriversIntact, RamdiskIntact, NoRamdisk
    <2> QED
        BY <1>3, <1>4, <1>5, <2>2 DEF Layout
<1> QED
    BY <1>6, <1>7

(* A step that leaves no kernel leaves nothing placed. *)
LEMMA NothingLeft ==
    ASSUME Reliance', CommandsWellFormed', ~assert_kernel_load',
           gLoadedDriverImages' = <<>>, NoRamdisk', ~fresh'
    PROVE  Layout'
<1>1. NothingWithoutKernel' /\ FreshFile'
    BY DEF NothingWithoutKernel, FreshFile
<1>2. AllDrivers' = {}
    BY DEF AllDrivers
<1>3. BelowTop' /\ Apart'
    BY <1>2 DEF BelowTop, Apart
<1>4. KernelIntact' /\ DriversIntact' /\ RamdiskIntact'
    BY DEF KernelIntact, DriversIntact, RamdiskIntact, NoRamdisk
<1> QED
    BY <1>1, <1>3, <1>4 DEF Layout

(* The commands left after one has been processed are well formed. *)
LEMMA RestWellFormed ==
    ASSUME Layout, cmds # <<>>, NEW code, Return(code)
    PROVE  CommandsWellFormed'
<1>1. cmds \in Seq(Commands) /\ \A i \in DOMAIN cmds : WellFormed(cmds[i])
    BY DEF Layout, Reliance, TypeOK, CommandsWellFormed
<1>2. CASE code = 0
    <2>1. \A i \in DOMAIN Tail(cmds) :
             i + 1 \in DOMAIN cmds /\ Tail(cmds)[i] = cmds[i + 1]
        BY <1>1
    <2> QED
        BY <1>1, <1>2, <2>1 DEF Return, CommandsWellFormed, WellFormed
<1>3. CASE code # 0
    BY <1>3 DEF Return, CommandsWellFormed
<1> QED
    BY <1>2, <1>3

(* Nothing is fresh after a command that fails, or loads a kernel.         *)
LEMMA CommandNotFresh ==
    ASSUME CommandStep, status' # 0 \/ LoadsKernel(Head(cmds))
    PROVE  ~fresh' /\ FreshFile'
BY DEF CommandStep, FreshFile

(* A file stays fresh through a command that places nothing.               *)
LEMMA CommandKeepsFresh ==
    ASSUME Layout, CommandStep, UNCHANGED <<gKernelMemoryTop, fileVars, mem>>
    PROVE  (fresh' => fresh) /\ FreshFile'
BY DEF CommandStep, Layout, FreshFile, fileVars

(***************************************************************************)
(* load_macho_from_command.  Every image but a kernel is unpacked or       *)
(* copied above the top and, if it is a driver, behind the pad.            *)
(***************************************************************************)
LEMMA WritesAboveTop ==
    ASSUME Layout, NEW c \in Commands, c.kind = "macho", ~IsKernel(c)
    PROVE  /\ \A a \in Memory : a < gKernelMemoryTop => AfterUnpack(c)[a] = mem[a]
           /\ IsDriver(c) =>
                 \A a \in Memory :
                    a < gKernelMemoryTop => AfterDriverCopy(c)[a] = mem[a]
<1>1. /\ load_top(c) = gKernelMemoryTop
      /\ gKernelMemoryTop \in Nat /\ DramStart \in Nat /\ MemEnd \in Nat
      /\ raw_image_dest(c) \in Nat /\ decomp_image(c) \in Nat
      /\ gKernelMemoryTop <= raw_image_dest(c) /\ c.decomp_size \in Nat
      /\ DOMAIN mem = Memory
    BY MachoNumbers, CommandsAssumption, LayoutTypes DEF Layout, Reliance, load_top
<1>2. gKernelMemoryTop <= decomp_image(c)
    BY <1>1 DEF decomp_image
<1>3. ASSUME NEW a \in Memory, a < gKernelMemoryTop
      PROVE  AfterUnpack(c)[a] = mem[a]
    <2>1. unpack_range(c).base = decomp_image(c)
        BY DEF unpack_range, memory_range
    <2>2. ~(unpack_range(c).base <= a)
        BY <1>1, <1>2, <1>3, <2>1 DEF Memory
    <2> QED
        BY <1>1, <2>2, FillMisses DEF AfterUnpack
<1>4. ASSUME IsDriver(c), NEW a \in Memory, a < gKernelMemoryTop
      PROVE  AfterDriverCopy(c)[a] = mem[a]
    <2>1. ~(raw_image_dest(c) <= a)
        BY <1>1, <1>4 DEF Memory
    <2>2. memory_range(raw_image_dest(c), image_size(c)).base = raw_image_dest(c)
        BY DEF memory_range
    <2> QED
        BY <1>1, <1>3, <1>4, <2>1, <2>2, FillMisses DEF AfterDriverCopy
<1> QED
    BY <1>3, <1>4

(* A command that fails has torn everything down, or placed nothing. *)
LEMMA MachoFailsLayout ==
    ASSUME Layout, Reliance', CommandStep, NEW c \in Commands, NEW after,
           MachoFails(c, after),
           ~IsKernel(c) =>
              \A a \in Memory : a < gKernelMemoryTop => after[a] = mem[a]
    PROVE  Layout'
<1>1. CommandsWellFormed' /\ ~fresh' /\ FreshFile'
    BY RestWellFormed, CommandNotFresh DEF MachoFails, CommandStep, LoadCommand, Return
<1>2. SetupKernelMemory(c) /\ TypeOK /\ EnvCurrent /\ BootHasKernel /\ NoPartialTree
    BY DEF MachoFails, Layout, Reliance
<1>3. /\ gKernelMemoryTop' = load_top(c) /\ mem' = after
      /\ gKernelMemoryRange' = KeptRange(c)
      /\ gLoadedDriverImages' = KeptDrivers(c)
      /\ gRAMDiskRange' = IF tears_down(c) THEN NullRange ELSE gRAMDiskRange
    BY DEF MachoFails, SetupKernelMemory, teardown_old_loader_context
<1>4. CASE IsKernel(c)
    <2>1. ~assert_kernel_load'
        BY <1>2, <1>3, <1>4, TornDown DEF assert_kernel_load
    <2>2. gLoadedDriverImages' = <<>>
        BY <1>3, <1>4 DEF KeptDrivers, tears_down, Layout, NothingWithoutKernel
    <2>3. NoRamdisk'
        BY <1>3, <1>4
        DEF tears_down, Layout, NothingWithoutKernel, NoRamdisk, NullRange,
            RANGE_IS_NULL, memory_range
    <2> QED
        BY <1>1, <2>1, <2>2, <2>3, NothingLeft
<1>5. CASE ~IsKernel(c)
    <2>1. /\ gKernelMemoryTop' = gKernelMemoryTop
          /\ gKernelMemoryRange' = gKernelMemoryRange
        BY <1>2, <1>3, <1>5, TornDown
    <2>2. /\ gLoadedDriverImages' = gLoadedDriverImages
          /\ gRAMDiskRange' = gRAMDiskRange
        BY <1>3, <1>5 DEF KeptDrivers, tears_down
    <2>3. KeepsMemory
        BY <1>3, <1>5 DEF KeepsMemory
    <2> QED
        BY <1>1, <2>1, <2>2, <2>3, Frame DEF CommandStep
<1> QED
    BY <1>4, <1>5

(* A driver goes on top of everything, its body behind its pad. *)
LEMMA DriverLoadedLayout ==
    ASSUME Layout, Reliance', CommandStep, NEW c \in Commands, c.kind = "macho",
           WellFormed(c), DriverLoaded(c)
    PROVE  Layout'
<1> DEFINE d == driver_image(c)
           n == Len(gLoadedDriverImages)
<1>1. CommandsWellFormed' /\ (fresh' => fresh) /\ UNCHANGED <<fileaddr, history>>
    BY RestWellFormed DEF DriverLoaded, CommandStep, LoadCommand, Return, fileVars
<1>2. ~IsKernel(c) /\ IsDriver(c) /\ assert_kernel_load
    BY DEF WellFormed, DriverLoaded
<1>3. /\ load_top(c) = gKernelMemoryTop /\ raw_image_dest(c) = gKernelMemoryTop + DriverPad
      /\ gKernelMemoryRange' = gKernelMemoryRange
      /\ gRAMDiskRange' = gRAMDiskRange
      /\ gLoadedDriverImages' = Append(gLoadedDriverImages, d)
      /\ mem' = AfterDriverCopy(c)
    BY <1>2
    DEF load_top, raw_image_dest, KeptRange, KeptDrivers, tears_down, DriverLoaded,
        SetupKernelMemory, teardown_old_loader_context
<1>4. /\ gKernelMemoryTop \in Nat /\ DriverPad \in Nat /\ image_size(c) \in Nat
      /\ gLoadedDriverImages \in Seq(DriverImages)
      /\ gKernelMemoryTop' \in Nat /\ MemEnd \in Nat /\ DramStart \in Nat
    BY MachoNumbers, LayoutTypes DEF Layout, Reliance, TypeOK
<1>5. /\ gKernelMemoryTop + (image_size(c) + DriverPad) <= gKernelMemoryTop'
      /\ gKernelMemoryTop' <= MemEnd
    <2>1. image_size(c) + DriverPad \in Nat
        BY <1>4
    <2>2. increment_kernel_memory(gKernelMemoryTop, image_size(c) + DriverPad)
        BY <1>3 DEF DriverLoaded
    <2> QED
        BY <1>4, <2>1, <2>2, IncrementType
<1>6. /\ d.range.base = gKernelMemoryTop
      /\ d.range.size = image_size(c) + DriverPad
      /\ End(d.range) = gKernelMemoryTop + (image_size(c) + DriverPad)
    BY <1>3 DEF driver_image, memory_range, End
<1>7. ASSUME NEW i \in AllDrivers'
      PROVE  \/ i \in AllDrivers /\ DriverRange(i)' = DriverRange(i)
             \/ i \notin AllDrivers /\ i = n + 1 /\ DriverRange(i)' = d.range
    <2>1. /\ n \in Nat /\ DOMAIN gLoadedDriverImages = 1 .. n
          /\ DOMAIN gLoadedDriverImages' = 1 .. (n + 1)
          /\ \A k \in 1 .. n : gLoadedDriverImages'[k] = gLoadedDriverImages[k]
          /\ gLoadedDriverImages'[n + 1] = d
        <3>1. d \in DriverImages
            <4>1. c.info_offset \in Nat
                BY CommandsAssumption
            <4> QED
                BY <1>3, <1>4, <4>1
                DEF driver_image, DriverImages, Ranges, memory_range
        <3> HIDE DEF d
        <3> QED
            BY <1>3, <1>4, <3>1
    <2>2. i \in 1 .. (n + 1)
        BY <2>1 DEF AllDrivers
    <2> QED
        BY <2>1, <2>2 DEF AllDrivers, DriverRange
<1> HIDE DEF d, n
<1>8. NothingWithoutKernel' /\ NoRamdisk' = NoRamdisk
    BY <1>2, <1>3 DEF NothingWithoutKernel, assert_kernel_load, NoRamdisk
<1>9. BelowTop'
    <2>1. End(gKernelMemoryRange) <= gKernelMemoryTop
        BY <1>2 DEF Layout, Reliance, EnvCurrent
    <2>2. \A i \in AllDrivers :
            /\ End(gKernelMemoryRange) <= DriverRange(i).base
            /\ DriverPad <= DriverRange(i).size
            /\ End(DriverRange(i)) <= gKernelMemoryTop'
        BY <1>4, <1>5, LayoutTypes DEF Layout, BelowTop, End
    <2>3. /\ End(gKernelMemoryRange) <= d.range.base
          /\ DriverPad <= d.range.size
          /\ End(d.range) <= gKernelMemoryTop'
        BY <1>4, <1>5, <1>6, <2>1
    <2>4. ASSUME NEW i \in AllDrivers'
          PROVE  /\ End(gKernelMemoryRange) <= DriverRange(i)'.base
                 /\ DriverPad <= DriverRange(i)'.size
                 /\ End(DriverRange(i)') <= gKernelMemoryTop'
        <3>1. CASE DriverRange(i)' = d.range
            BY <2>3, <3>1
        <3>2. CASE i \in AllDrivers /\ DriverRange(i)' = DriverRange(i)
            BY <2>2, <3>2
        <3> QED
            BY <1>7, <3>1, <3>2
    <2>5. ~NoRamdisk =>
            /\ End(gKernelMemoryRange) <= gRAMDiskRange.base
            /\ End(gRAMDiskRange) <= gKernelMemoryTop'
        BY <1>4, <1>5, LayoutTypes DEF Layout, BelowTop, End
    <2> QED
        BY <1>3, <1>5, <1>8, <2>4, <2>5 DEF BelowTop
<1>10. Apart'
    <2>1. \A i \in AllDrivers :
            Disjoint(DriverRange(i), d.range) /\ Disjoint(d.range, DriverRange(i))
        BY <1>6 DEF Layout, BelowTop, Disjoint
    <2>2. ASSUME NEW i \in AllDrivers', NEW j \in AllDrivers', i # j
          PROVE  Disjoint(DriverRange(i)', DriverRange(j)')
        <3>1. CASE i \in AllDrivers /\ j \in AllDrivers
            <4>1. DriverRange(i)' = DriverRange(i) /\ DriverRange(j)' = DriverRange(j)
                BY <1>7, <3>1
            <4> QED
                BY <2>2, <3>1, <4>1 DEF Layout, Apart
        <3>2. CASE i \notin AllDrivers
            <4>1. DriverRange(i)' = d.range /\ DriverRange(j)' = DriverRange(j)
                  /\ j \in AllDrivers
                BY <1>7, <2>2, <3>2
            <4> QED
                BY <2>1, <4>1
        <3>3. CASE j \notin AllDrivers
            <4>1. DriverRange(j)' = d.range /\ DriverRange(i)' = DriverRange(i)
                  /\ i \in AllDrivers
                BY <1>7, <2>2, <3>3
            <4> QED
                BY <2>1, <4>1
        <3> QED
            BY <3>1, <3>2, <3>3
    <2>3. ~NoRamdisk => Disjoint(d.range, gRAMDiskRange)
        BY <1>6 DEF Layout, BelowTop, Disjoint
    <2>4. ASSUME ~NoRamdisk, NEW i \in AllDrivers'
          PROVE  Disjoint(DriverRange(i)', gRAMDiskRange)
        <3>1. CASE DriverRange(i)' = d.range
            BY <2>3, <2>4, <3>1
        <3>2. CASE i \in AllDrivers /\ DriverRange(i)' = DriverRange(i)
            BY <2>4, <3>2 DEF Layout, Apart
        <3> QED
            BY <1>7, <3>1, <3>2
    <2> QED
        BY <1>3, <1>8, <2>2, <2>4 DEF Apart
<1>11. KeepsMemory
    BY <1>2, <1>3, WritesAboveTop DEF KeepsMemory
<1>12. \A a \in (d.range.base + DriverPad) .. (End(d.range) - 1) : mem'[a] = "driver"
    <2> SUFFICES ASSUME NEW a \in (d.range.base + DriverPad) .. (End(d.range) - 1)
                 PROVE  mem'[a] = "driver"
        OBVIOUS
    <2>1. /\ a \in Int
          /\ raw_image_dest(c) <= a /\ a < raw_image_dest(c) + image_size(c)
        BY <1>3, <1>4, <1>6
    <2>2. a \in Memory
        <3>1. DramStart <= gKernelMemoryTop
            BY <1>2, LayoutTypes DEF Layout, Reliance, EnvCurrent, End
        <3> QED
            BY <1>3, <1>4, <1>5, <2>1, <3>1 DEF Memory
    <2>3. CASE IsCompressed(c)
        <3>1. unpack_range(c) = memory_range(raw_image_dest(c), image_size(c))
            BY <1>2, <2>3 DEF unpack_range, decomp_image, image_size, WellFormed
        <3> QED
            BY <1>2, <1>3, <2>1, <2>2, <2>3, <3>1, FillHits, LayoutTypes
            DEF AfterDriverCopy, AfterUnpack, memory_range, End
    <2>4. CASE ~IsCompressed(c)
        BY <1>3, <2>1, <2>2, <2>4, FillHits, LayoutTypes
        DEF AfterDriverCopy, memory_range, End
    <2> QED
        BY <2>3, <2>4
<1>13. KernelIntact'
    BY <1>2, <1>3, <1>11, PlacedKept DEF KernelIntact
<1>14. DriversIntact'
    <2>1. ASSUME NEW i \in AllDrivers',
                 NEW a \in (DriverRange(i)'.base + DriverPad) ..
                           (End(DriverRange(i)') - 1)
          PROVE  mem'[a] = "driver"
        <3>1. CASE DriverRange(i)' = d.range
            BY <1>12, <2>1, <3>1
        <3>2. CASE i \in AllDrivers /\ DriverRange(i)' = DriverRange(i)
            BY <1>11, <2>1, <3>2, PlacedKept
        <3> QED
            BY <1>7, <3>1, <3>2
    <2> QED
        BY <2>1 DEF DriversIntact, DriverRange, AllDrivers
<1>15. RamdiskIntact'
    BY <1>1, <1>3, <1>8, <1>11, PlacedKept DEF RamdiskIntact, NoRamdisk, history
<1>16. FreshFile'
    <2>1. gKernelMemoryTop < gKernelMemoryTop'
        BY <1>4, <1>5, LayoutAssumption
    <2>2. fresh => fileaddr <= gKernelMemoryTop
        BY DEF Layout, FreshFile
    <2>3. fileaddr \in Nat
        BY DEF Layout, Reliance, TypeOK
    <2>4. fresh' => fileaddr' < gKernelMemoryTop'
        BY <1>1, <1>4, <2>1, <2>2, <2>3
    <2> QED
        BY <1>1, <1>4, <2>3, <2>4 DEF FreshFile
<1> QED
    BY <1>1, <1>8, <1>9, <1>10, <1>13, <1>14, <1>15, <1>16 DEF Layout

(* A kernel that loads is the only thing placed.  It is not unpacked over  *)
(* its own segments, because a compressed kernel is at most 4 times its    *)
(* unloaded form.                                                          *)
LEMMA KernelLoadedLayout ==
    ASSUME Layout, Reliance', CommandStep, NEW c \in Commands, c = Head(cmds),
           c.kind = "macho", WellFormed(c), KernelLoaded(c)
    PROVE  Layout'
<1>1. CommandsWellFormed' /\ ~fresh' /\ FreshFile'
    BY RestWellFormed, CommandNotFresh
    DEF KernelLoaded, CommandStep, LoadCommand, LoadsKernel
<1>2. IsKernel(c) /\ ~IsDriver(c) /\ c.mappable
    BY DEF KernelLoaded
<1>3. /\ gLoadedDriverImages' = <<>>
      /\ NoRamdisk'
    <2>1. /\ gLoadedDriverImages' = KeptDrivers(c)
          /\ gRAMDiskRange' = IF tears_down(c) THEN NullRange ELSE gRAMDiskRange
        BY DEF KernelLoaded, SetupKernelMemory, teardown_old_loader_context
    <2> QED
        BY <1>2, <2>1
        DEF KeptDrivers, tears_down, Layout, NothingWithoutKernel, NoRamdisk, NullRange,
            RANGE_IS_NULL, memory_range
<1>4. /\ gKernelMemoryRange' = memory_range(load_top(c), c.vmsize)
      /\ mem' = AfterMap(c) /\ gKernelMemoryTop' <= MemEnd
    BY KernelLoadedReliance DEF KernelLoaded, CommandStep, Layout
<1>5. /\ load_top(c) \in Nat /\ DramStart <= load_top(c) /\ c.vmsize \in Nat
      /\ c.decomp_size \in Nat /\ MemEnd \in Nat /\ DramStart \in Nat
      /\ c.span = c.vmsize
      /\ IsCompressed(c) => c.vmsize <= 4 * c.decomp_size
      /\ load_top(c) + c.vmsize <= MemEnd
    BY <1>2, MachoNumbers, CommandsAssumption, LayoutTypes
    DEF Layout, Reliance, WellFormed, KernelLoaded, Fits
<1>6. KernelIntact'
    <2>1. IsCompressed(c) =>
            Disjoint(memory_range(load_top(c), c.span), unpack_range(c))
        BY <1>2, <1>5
        DEF Disjoint, unpack_range, memory_range, decomp_image, raw_image_dest, End
    <2>2. AfterMap(c) =
            Fill(AfterUnpack(c), memory_range(load_top(c), c.vmsize), "kernel")
        BY <1>5, <2>1 DEF AfterMap
    <2>3. DOMAIN AfterUnpack(c) = Memory
        BY LayoutTypes DEF AfterUnpack, Fill
    <2>4. \A a \in Bytes(memory_range(load_top(c), c.vmsize)) :
            /\ a \in Memory /\ load_top(c) <= a /\ a < load_top(c) + c.vmsize
        BY <1>5 DEF Bytes, memory_range, Memory
    <2>5. \A a \in Bytes(gKernelMemoryRange') : mem'[a] = "kernel"
        BY <1>4, <2>2, <2>3, <2>4, FillHits DEF memory_range, End
    <2> QED
        BY <2>5 DEF KernelIntact
<1>7. /\ NothingWithoutKernel' /\ BelowTop' /\ Apart' /\ DriversIntact' /\ RamdiskIntact'
    BY <1>1, <1>3, <1>4
    DEF NothingWithoutKernel, BelowTop, Apart, DriversIntact, RamdiskIntact, NoRamdisk,
        AllDrivers
<1> QED
    BY <1>1, <1>6, <1>7 DEF Layout

(* One turn of the loop over the load commands. *)
LEMMA CommandLayout ==
    ASSUME Layout, Reliance', CommandStep
    PROVE  Layout'
<1> DEFINE c == Head(cmds)
<1>1. /\ cmds # <<>> /\ c \in Commands /\ c = cmds[1] /\ 1 \in DOMAIN cmds
      /\ c = Head(cmds)
    BY DEF CommandStep, LoadCommand, Layout, Reliance, TypeOK
<1>2. WellFormed(c)
    BY <1>1 DEF Layout, CommandsWellFormed
<1>3. ASSUME UNCHANGED <<kernelVars, baseVars, topVars, gLoadedDriverImages,
                         gRAMDiskRange, mem>>,
             NEW code, Return(code)
      PROVE  Layout'
    <2>1. CommandsWellFormed' /\ FreshFile' /\ UNCHANGED history
        BY <1>1, <1>3, RestWellFormed, CommandKeepsFresh DEF Return, topVars, CommandStep
    <2>2. KeepsMemory
        BY <1>3 DEF KeepsMemory
    <2>3. fresh' => assert_kernel_load
        BY DEF CommandStep, Layout, NothingWithoutKernel
    <2> QED
        BY <1>3, <2>1, <2>2, <2>3, Frame DEF kernelVars, topVars
<1>4. ASSUME load_macho_from_command(c) PROVE Layout'
    <2> HIDE DEF c
    <2>1. c.kind = "macho"
        BY <1>4 DEF load_macho_from_command
    <2>2. CASE MachoRefused(c)
        BY <1>3, <2>2 DEF MachoRefused
    <2>3. ASSUME NEW after, MachoFails(c, after),
                 \/ IsKernel(c)
                 \/ after \in {mem, AfterUnpack(c)}
                 \/ IsDriver(c) /\ after = AfterDriverCopy(c)
          PROVE  Layout'
        <3>1. ~IsKernel(c) =>
                \A a \in Memory : a < gKernelMemoryTop => after[a] = mem[a]
            BY <1>1, <2>1, <2>3, WritesAboveTop
        <3> QED
            BY <1>1, <2>3, <3>1, MachoFailsLayout
    <2>4. CASE DriverLoaded(c)
        BY <1>1, <1>2, <2>1, <2>4, DriverLoadedLayout
    <2>5. CASE KernelLoaded(c)
        BY <1>1, <1>2, <2>1, <2>5, KernelLoadedLayout
    <2>6. CASE QLZFails(c)
        BY <2>3, <2>6 DEF QLZFails
    <2>7. CASE DriverBadInfoOffset(c)
        BY <2>3, <2>7 DEF DriverBadInfoOffset
    <2>8. CASE DriverNoPlist(c)
        BY <2>3, <2>8 DEF DriverNoPlist
    <2>9. CASE KernelUnmappable(c)
        BY <2>3, <2>9 DEF KernelUnmappable
    <2>10. CASE MachoUnsupported(c)
        BY <2>3, <2>10 DEF MachoUnsupported
    <2> QED
        BY <1>4, <2>2, <2>4, <2>5, <2>6, <2>7, <2>8, <2>9, <2>10
        DEF load_macho_from_command
<1>5. ASSUME parse_device_tree_command(c) PROVE Layout'
    BY <1>3, <1>5
    DEF parse_device_tree_command, DeviceTreeSkipped, DeviceTreeRefused,
        DeviceTreeFails, DeviceTreeParsed
<1>6. ASSUME UnknownCommand(c) PROVE Layout'
    BY <1>3, <1>6 DEF UnknownCommand
<1> QED
    BY <1>4, <1>5, <1>6 DEF CommandStep, LoadCommand

(* mach_boot writes above the top and into the pads. *)
LEMMA BootKeepsMemory ==
    ASSUME Layout, BootStep
    PROVE  KeepsMemory
<1>1. /\ gKernelMemoryTop \in Nat /\ BootArgsSize \in Nat /\ DramStart \in Nat
      /\ MemEnd \in Nat /\ DOMAIN mem = Memory
    BY LayoutTypes, BootAssumption
<1>2. /\ args_reserve.start = gKernelMemoryTop
      /\ args_reserve.region.pos = gKernelMemoryTop + BootArgsSize
      /\ args_reserve.region.down = FALSE
    BY DEF args_reserve, memory_reserve, kernel_mem, memory_region, Aligned
<1>3. DOMAIN AfterArgs = Memory
      /\ \A a \in Memory : a < gKernelMemoryTop => AfterArgs[a] = mem[a]
    <2>1. r_boot_args.base = gKernelMemoryTop
        BY <1>2 DEF r_boot_args, memory_range
    <2>2. \A a \in Memory : a < gKernelMemoryTop => ~(r_boot_args.base <= a)
        BY <1>1, <2>1 DEF Memory
    <2> QED
        BY <1>1, <2>2, FillMisses DEF AfterArgs, Fill
<1>4. ASSUME NEW I \in SUBSET AllDrivers, NEW a \in Memory, a < gKernelMemoryTop,
             ~InPad(a)
      PROVE  AfterHeaders(AfterArgs, I)[a] = mem[a]
    BY <1>3, <1>4 DEF AfterHeaders, InPad
<1>5. CASE mem' = mem
    BY <1>5 DEF KeepsMemory
<1>6. CASE mem' = AfterArgs
    BY <1>3, <1>6 DEF KeepsMemory
<1>7. CASE \E I \in SUBSET AllDrivers : mem' = AfterHeaders(AfterArgs, I)
    BY <1>4, <1>7 DEF KeepsMemory
<1>8. CASE BootSucceeds
    <2>1. PICK len \in FlatSizes :
            mem' = Fill(AfterHeaders(AfterArgs, AllDrivers),
                        memory_range(tree_reserve(len).start, len + MagicSize), "tree")
        BY <1>8 DEF BootSucceeds
    <2>2. tree_reserve(len).start = gKernelMemoryTop + BootArgsSize
        BY <1>2 DEF tree_reserve, memory_reserve, Aligned
    <2>3. \A a \in Memory : a < gKernelMemoryTop =>
            ~(memory_range(tree_reserve(len).start, len + MagicSize).base <= a)
        BY <1>1, <2>2 DEF Memory, memory_range
    <2>4. DOMAIN AfterHeaders(AfterArgs, AllDrivers) = Memory
        BY <1>3 DEF AfterHeaders
    <2> QED
        BY <1>4, <2>1, <2>3, <2>4, FillMisses DEF KeepsMemory
<1> QED
    BY <1>5, <1>6, <1>7, <1>8
    DEF BootStep, mach_boot, BootRefused, BootInfoFails, BootDriversFail,
        BootRamdiskFails, BootFails, DriversAfter

(* So it keeps the layout, whether the kernel starts or not. *)
LEMMA BootLayout ==
    ASSUME Layout, Reliance', BootStep
    PROVE  Layout'
<1>1. /\ UNCHANGED <<gKernelMemoryRange, gKernelMemoryTop, gRAMDiskRange, cmds, history>>
      /\ fresh' = FALSE
    BY DEF BootStep, mach_boot, kernelVars, topVars, Turn
<1>2. CommandsWellFormed' /\ FreshFile'
    BY <1>1 DEF Layout, CommandsWellFormed, FreshFile
<1>3. gLoadedDriverImages' \in {gLoadedDriverImages, <<>>}
    BY DEF BootStep, mach_boot, BootRefused, BootInfoFails, BootDriversFail,
           BootRamdiskFails, BootSucceeds
<1> QED
    BY <1>1, <1>2, <1>3, BootKeepsMemory, Frame

(* The ramdisk is the file on the top.                                     *)
LEMMA RamdiskAddedLayout ==
    ASSUME Layout, Reliance', assert_kernel_load, RdxStep, RamdiskAdded
    PROVE  Layout'
<1>1. /\ UNCHANGED <<gKernelMemoryRange, gLoadedDriverImages, mem, cmds, fileaddr, filesize>>
      /\ fresh' = fresh /\ clean' = fresh
      /\ adopted' = [a \in Bytes(gRAMDiskRange') |-> mem[a]]
    BY DEF RdxStep, do_rdx, kernelVars, fileVars, Turn, RamdiskAdded
<1>2. fileaddr = gKernelMemoryTop /\ filesize # 0
    BY DEF RamdiskAdded, AcceptsRamdisk
<1>3. /\ gRAMDiskRange' = memory_range(gKernelMemoryTop, filesize)
      /\ filesize \in Nat /\ gKernelMemoryTop \in Nat /\ gKernelMemoryTop' \in Nat
      /\ gKernelMemoryTop + filesize <= gKernelMemoryTop'
      /\ gKernelMemoryTop' <= MemEnd
    <2>1. gRAMDiskRange' = memory_range(gKernelMemoryTop, filesize)
        BY <1>2 DEF RamdiskAdded
    <2>2. filesize \in Nat /\ gKernelMemoryTop \in Nat
        BY DEF Layout, Reliance, TypeOK
    <2> QED
        BY <2>1, <2>2, IncrementType DEF RamdiskAdded
<1>4. /\ gRAMDiskRange'.base = gKernelMemoryTop
      /\ End(gRAMDiskRange') = gKernelMemoryTop + filesize
      /\ Bytes(gRAMDiskRange') = fileaddr .. (fileaddr + filesize - 1)
    BY <1>2, <1>3 DEF memory_range, End, Bytes
<1>5. CommandsWellFormed' /\ NothingWithoutKernel' /\ FreshFile'
    <2>1. CommandsWellFormed' /\ NothingWithoutKernel'
        BY <1>1 DEF Layout, CommandsWellFormed, NothingWithoutKernel, assert_kernel_load
    <2>2. fileaddr' < gKernelMemoryTop'
        BY <1>1, <1>2, <1>3
    <2> QED
        BY <1>1, <1>2, <1>3, <2>1, <2>2 DEF FreshFile
<1>6. /\ AllDrivers' = AllDrivers
      /\ \A i \in AllDrivers : DriverRange(i)' = DriverRange(i)
    BY <1>1 DEF AllDrivers, DriverRange
<1>7. BelowTop'
    <2>1. \A i \in AllDrivers :
            /\ End(gKernelMemoryRange) <= DriverRange(i).base
            /\ DriverPad <= DriverRange(i).size
            /\ End(DriverRange(i)) <= gKernelMemoryTop'
        BY <1>3, LayoutTypes DEF Layout, BelowTop, End
    <2>2. End(gKernelMemoryRange) <= gKernelMemoryTop
        BY DEF Layout, Reliance, EnvCurrent
    <2> QED
        BY <1>1, <1>3, <1>4, <1>6, <2>1, <2>2 DEF BelowTop
<1>8. Apart'
    <2>1. \A i \in AllDrivers : Disjoint(DriverRange(i), gRAMDiskRange')
        BY <1>4 DEF Layout, BelowTop, Disjoint
    <2> QED
        BY <1>6, <2>1 DEF Layout, Apart
<1>9. KernelIntact' /\ DriversIntact'
    BY <1>1 DEF Layout, KernelIntact, DriversIntact, assert_kernel_load
<1>10. RamdiskIntact'
    BY <1>1, <1>2, <1>4 DEF Layout, FreshFile, RamdiskIntact
<1> QED
    BY <1>5, <1>7, <1>8, <1>9, <1>10 DEF Layout

(* A file goes to the top, or to where nothing is placed.                  *)
LEMMA LoadLayout ==
    ASSUME Layout, Reliance', LoadStep({env, StagingAddr})
    PROVE  Layout'
<1>1. PICK addr \in {env, StagingAddr}, size \in FileSizes, signature \in Signatures :
        /\ LoadFile(addr, size, signature)
        /\ Turn(addr = env /\ assert_kernel_load)
        /\ UNCHANGED history
    BY DEF LoadStep
<1>2. /\ UNCHANGED <<gKernelMemoryRange, gKernelMemoryTop, gRAMDiskRange,
                     gLoadedDriverImages, cmds, history>>
      /\ fresh' = (addr = env /\ assert_kernel_load)
      /\ mem' = Fill(mem, memory_range(addr, size), signature)
      /\ fileaddr' = addr /\ filesize' = size /\ cmds = <<>>
      /\ \/ addr = StagingAddr
         \/ addr \in Memory /\ addr + size <= MemEnd
    BY <1>1 DEF LoadFile, Turn, Prompt, Fits, kernelVars, topVars
<1>3. /\ DramStart \in Nat /\ MemEnd \in Nat /\ size \in Nat /\ DOMAIN mem = Memory
      /\ StagingAddr \in Nat /\ StagingAddr > MemEnd /\ gKernelMemoryTop \in Nat
    BY LayoutAssumption, LayoutTypes
<1>4. assert_kernel_load =>
        /\ env = gKernelMemoryTop /\ gKernelMemoryTop <= MemEnd
        /\ gKernelMemoryTop <= addr
    BY <1>3 DEF Layout, Reliance, EnvCurrent, BelowTop
<1>5. CommandsWellFormed'
    BY <1>2 DEF CommandsWellFormed
<1>6. FreshFile'
    <2> SUFFICES ASSUME fresh' PROVE FreshFile'
        BY DEF FreshFile
    <2>1. addr = gKernelMemoryTop /\ addr \in Memory /\ addr + size <= MemEnd
        <3>1. addr = env /\ assert_kernel_load
            BY <1>2, Zenon
        <3> QED
            BY <1>2, <1>3, <1>4, <3>1
    <2>2. \A a \in addr .. (addr + size - 1) : mem'[a] = signature
        <3> SUFFICES ASSUME NEW a \in addr .. (addr + size - 1)
                     PROVE  mem'[a] = signature
            OBVIOUS
        <3>1. a \in Memory /\ addr <= a /\ a < addr + size
            BY <1>3, <2>1 DEF Memory
        <3> QED
            BY <1>2, <1>3, <3>1, FillHits DEF memory_range, End
    <2>3. /\ fileaddr' = gKernelMemoryTop' /\ fileaddr' + filesize' <= MemEnd
          /\ \A a \in fileaddr' .. (fileaddr' + filesize' - 1) : mem'[a] = signature
        BY <1>2, <2>1, <2>2
    <2>4. fileaddr' <= gKernelMemoryTop'
        BY <1>2, <1>3, <2>3
    <2> QED
        BY <2>3, <2>4 DEF FreshFile
<1>7. assert_kernel_load => KeepsMemory
    <2> SUFFICES ASSUME assert_kernel_load, NEW a \in Memory, a < gKernelMemoryTop
                 PROVE  mem'[a] = mem[a]
        BY DEF KeepsMemory
    <2>1. addr \in Nat
        BY <1>3, <1>4
    <2>2. ~(addr <= a)
        BY <1>3, <1>4, <2>1 DEF Memory
    <2> QED
        BY <1>2, <1>3, <2>2, FillMisses DEF memory_range
<1> QED
    BY <1>2, <1>5, <1>6, <1>7, Frame

(* Every step of the operator keeps the layout.                            *)
LEMMA LayoutStep ==
    ASSUME Layout, [OperatorNext]_vars
    PROVE  Layout'
<1>1. Reliance'
    BY OperatorNextIsNext, RelianceStep DEF Layout
<1>2. CASE ImgxStep(WellFormedImages)
    <2>1. PICK last \in BOOLEAN, image \in WellFormedImages : do_imgx(last, image)
        BY <1>2 DEF ImgxStep
    <2>2. cmds' \in {<<>>, image} /\ fresh' = fresh /\ UNCHANGED history
        BY <1>2, <2>1 DEF do_imgx, ImgxStep, Turn
    <2>3. CommandsWellFormed' /\ FreshFile' /\ (fresh' => assert_kernel_load)
        BY <2>1, <2>2
        DEF CommandsWellFormed, WellFormedImages, WellFormed, Layout, FreshFile, do_imgx,
            topVars, fileVars, NothingWithoutKernel
    <2> QED
        BY <1>1, <2>1, <2>2, <2>3, Frame DEF do_imgx, kernelVars, topVars, KeepsMemory
<1>3. CASE CommandStep
    BY <1>1, <1>3, CommandLayout
<1>4. CASE assert_kernel_load /\ RdxStep
    <2>1. CASE RamdiskRefused
        <3>1. /\ fresh' = fresh
              /\ UNCHANGED <<cmds, fileaddr, filesize, mem, gKernelMemoryTop, history>>
            BY <1>4, <2>1 DEF RdxStep, do_rdx, Turn, RamdiskRefused, fileVars, topVars
        <3>2. CommandsWellFormed' /\ FreshFile'
            BY <3>1 DEF Layout, CommandsWellFormed, FreshFile
        <3> QED
            BY <1>1, <1>4, <2>1, <3>1, <3>2, Frame
            DEF RdxStep, do_rdx, RamdiskRefused, kernelVars, topVars, KeepsMemory
    <2>2. CASE RamdiskAdded
        BY <1>1, <1>4, <2>2, RamdiskAddedLayout
    <2> QED
        BY <1>4, <2>1, <2>2 DEF RdxStep, do_rdx
<1>5. CASE LoadStep({env, StagingAddr})
    BY <1>1, <1>5, LoadLayout
<1>6. CASE BootStep
    BY <1>1, <1>6, BootLayout
<1>7. CASE UNCHANGED vars
    <2>1. UNCHANGED <<fresh, cmds, fileaddr, filesize, mem, gKernelMemoryRange,
                      gKernelMemoryTop, gRAMDiskRange, gLoadedDriverImages, history>>
        BY <1>7 DEF vars, loaderVars, kernelVars, topVars, fileVars
    <2>2. CommandsWellFormed' /\ FreshFile' /\ KeepsMemory
        BY <2>1 DEF Layout, CommandsWellFormed, FreshFile, KeepsMemory
    <2>3. fresh' => assert_kernel_load
        BY <2>1 DEF Layout, NothingWithoutKernel
    <2> QED
        BY <1>1, <2>1, <2>2, <2>3, Frame
<1> QED
    BY <1>2, <1>3, <1>4, <1>5, <1>6, <1>7 DEF OperatorNext

(* At first nothing is placed.                                             *)
LEMMA LayoutInit == Init => Layout
<1> SUFFICES ASSUME Init PROVE Layout
    OBVIOUS
<1>1. /\ gKernelMemoryRange = NullRange /\ gRAMDiskRange = NullRange
      /\ gLoadedDriverImages = <<>> /\ cmds = <<>> /\ fresh = FALSE
    BY DEF Init, LoaderInit
<1>2. ~assert_kernel_load /\ NoRamdisk
    BY <1>1 DEF assert_kernel_load, NoRamdisk, RANGE_IS_NULL, NullRange, memory_range
<1> QED
    BY <1>1, <1>2, RelianceInit
    DEF Layout, CommandsWellFormed, NothingWithoutKernel, BelowTop, Apart, FreshFile,
        KernelIntact, DriversIntact, RamdiskIntact, AllDrivers, NoRamdisk

(* Whatever the operator does with well-formed images, everything placed   *)
(* stays below the top, apart from the rest, and as it was written.        *)
THEOREM LayoutCorrect == OperatorSpec => []Layout
<1> QED
    BY LayoutInit, LayoutStep, PTL DEF OperatorSpec

(* No byte of the loaded kernel is overwritten before it runs, for every   *)
(* memory layout, every set of images and every number of commands.        *)
THEOREM KernelStaysIntact == OperatorSpec => []KernelIntact
<1>1. Layout => KernelIntact
    BY DEF Layout
<1> QED
    BY <1>1, LayoutCorrect, PTL

(* Nor any byte of a listed driver behind its pad.                         *)
THEOREM DriversStayIntact == OperatorSpec => []DriversIntact
<1>1. Layout => DriversIntact
    BY DEF Layout
<1> QED
    BY <1>1, LayoutCorrect, PTL

(* Nor any byte of the ramdisk that rdx adopted, which is the file that    *)
(* was loaded unless a load or a boot failed, or a kernel was loaded, in   *)
(* between.                                                                *)
THEOREM RamdiskStaysIntact == OperatorSpec => []RamdiskIntact
<1>1. Layout => RamdiskIntact
    BY DEF Layout
<1> QED
    BY <1>1, LayoutCorrect, PTL

-----------------------------------------------------------------------------
(***************************************************************************)
(* That the loader, as an operator uses it, implements KernelMemory: what  *)
(* is placed and gKernelMemoryTop change as a stack of regions does.       *)
(***************************************************************************)

(* The abstract step a step maps to, the stutter included.                 *)
Mapped == KM!Next \/ UNCHANGED <<placed, gKernelMemoryTop>>

(* A step that leaves the globals of kernel memory alone is a stutter.     *)
LEMMA Stutters ==
    ASSUME UNCHANGED <<gKernelMemoryRange, gRAMDiskRange, gLoadedDriverImages,
                       gKernelMemoryTop>>
    PROVE  Mapped
BY DEF Mapped, placed, AllDrivers

(* A size that fits between two addresses lies in the room between them.   *)
LEMMA FitsRoom ==
    ASSUME NEW low \in Nat, NEW high \in Nat, NEW n \in Nat \ {0}, low + n <= high
    PROVE  n \in 0 .. (high - low) /\ high > low
OBVIOUS

(* A command that fails restarts the memory, or changes nothing.           *)
LEMMA MachoFailsMapped ==
    ASSUME Layout, Layout', NEW c \in Commands, NEW after, MachoFails(c, after)
    PROVE  Mapped
<1>1. /\ SetupKernelMemory(c) /\ TypeOK /\ EnvCurrent /\ BootHasKernel /\ NoPartialTree
      /\ gKernelMemoryTop' \in Nat
    BY DEF MachoFails, Layout, Reliance, TypeOK
<1>2. /\ gKernelMemoryTop' = load_top(c)
      /\ gKernelMemoryRange' = KeptRange(c)
      /\ gLoadedDriverImages' = KeptDrivers(c)
      /\ gRAMDiskRange' = IF tears_down(c) THEN NullRange ELSE gRAMDiskRange
    BY DEF MachoFails, SetupKernelMemory, teardown_old_loader_context
<1>3. CASE IsKernel(c)
    <2>1. ~assert_kernel_load'
        BY <1>1, <1>2, <1>3, TornDown DEF assert_kernel_load
    <2>2. gLoadedDriverImages' = <<>> /\ NoRamdisk'
        BY <2>1 DEF Layout, NothingWithoutKernel
    <2>3. placed' = {}
        BY <2>1, <2>2
        DEF placed, assert_kernel_load, NoRamdisk, AllDrivers
    <2> QED
        BY <1>1, <2>3 DEF Mapped, KM!Next, KM!Restart
<1>4. CASE ~IsKernel(c)
    <2>1. /\ gKernelMemoryTop' = gKernelMemoryTop
          /\ gKernelMemoryRange' = gKernelMemoryRange
        BY <1>1, <1>2, <1>4, TornDown
    <2>2. /\ gLoadedDriverImages' = gLoadedDriverImages
          /\ gRAMDiskRange' = gRAMDiskRange
        BY <1>2, <1>4 DEF KeptDrivers, tears_down
    <2> QED
        BY <2>1, <2>2, Stutters
<1> QED
    BY <1>3, <1>4

(* A driver is placed at the top, which moves past it.                     *)
LEMMA DriverLoadedMapped ==
    ASSUME Layout, Layout', NEW c \in Commands, c.kind = "macho", WellFormed(c),
           DriverLoaded(c)
    PROVE  Mapped
<1> DEFINE d == driver_image(c)
           n == Len(gLoadedDriverImages)
           size == image_size(c) + DriverPad
<1>1. ~IsKernel(c) /\ IsDriver(c)
    BY DEF WellFormed, DriverLoaded
<1>2. /\ load_top(c) = gKernelMemoryTop
      /\ gKernelMemoryRange' = gKernelMemoryRange
      /\ gRAMDiskRange' = gRAMDiskRange
      /\ gLoadedDriverImages' = Append(gLoadedDriverImages, d)
      /\ increment_kernel_memory(gKernelMemoryTop, size)
    BY <1>1
    DEF load_top, KeptRange, KeptDrivers, tears_down, DriverLoaded,
        SetupKernelMemory, teardown_old_loader_context
<1>3. /\ gKernelMemoryTop \in Nat /\ gKernelMemoryTop' \in Nat
      /\ size \in Nat \ {0}
      /\ gLoadedDriverImages \in Seq(DriverImages)
      /\ gLoadedDriverImages' \in Seq(DriverImages)
    <2>1. /\ gKernelMemoryTop \in Nat /\ gKernelMemoryTop' \in Nat
          /\ gLoadedDriverImages \in Seq(DriverImages)
          /\ gLoadedDriverImages' \in Seq(DriverImages)
        BY DEF Layout, Reliance, TypeOK
    <2>2. image_size(c) \in Nat
        BY MachoNumbers DEF Layout, Reliance
    <2>3. DriverPad \in Nat \ {0}
        BY LayoutAssumption
    <2> QED
        BY <2>1, <2>2, <2>3
<1>4. gKernelMemoryTop + size <= gKernelMemoryTop'
    BY <1>2, <1>3, IncrementType
<1>5. d.range = memory_range(gKernelMemoryTop, size)
    BY <1>2 DEF driver_image
<1> HIDE DEF d, size
<1>6. placed' = placed \cup {d.range}
    <2>1. /\ AllDrivers = 1 .. n /\ AllDrivers' = 1 .. (n + 1) /\ n \in Nat
          /\ \A k \in 1 .. n : gLoadedDriverImages'[k] = gLoadedDriverImages[k]
          /\ gLoadedDriverImages'[n + 1] = d
        BY <1>2, <1>3 DEF AllDrivers
    <2>2. {gLoadedDriverImages'[i].range : i \in AllDrivers'} =
            {gLoadedDriverImages[i].range : i \in AllDrivers} \cup {d.range}
        BY <2>1
    <2> QED
        BY <1>2, <2>2 DEF placed
<1>7. size \in 0 .. (gKernelMemoryTop' - gKernelMemoryTop)
      /\ gKernelMemoryTop' > gKernelMemoryTop
    BY <1>3, <1>4, FitsRoom
<1> QED
    BY <1>3, <1>5, <1>6, <1>7 DEF Mapped, KM!Next, KM!Place, KM!memory_range, memory_range

(* A kernel that loads is the only region, below the new top.              *)
LEMMA KernelLoadedMapped ==
    ASSUME Layout, Layout', NEW c \in Commands, c.kind = "macho", KernelLoaded(c)
    PROVE  Mapped
<1>1. /\ gLoadedDriverImages' = <<>> /\ NoRamdisk'
    <2>1. /\ IsKernel(c)
          /\ gLoadedDriverImages' = KeptDrivers(c)
          /\ gRAMDiskRange' = IF tears_down(c) THEN NullRange ELSE gRAMDiskRange
        BY DEF KernelLoaded, SetupKernelMemory, teardown_old_loader_context
    <2> QED
        BY <2>1
        DEF KeptDrivers, tears_down, Layout, NothingWithoutKernel, NoRamdisk, NullRange,
            RANGE_IS_NULL, memory_range
<1>2. gKernelMemoryRange' \in Ranges /\ gKernelMemoryTop' \in Nat
    BY DEF Layout, Reliance, TypeOK
<1>3. CASE assert_kernel_load'
    <2>1. placed' = {gKernelMemoryRange'}
        BY <1>1, <1>3 DEF placed, assert_kernel_load, NoRamdisk, AllDrivers
    <2>2. End(gKernelMemoryRange') <= gKernelMemoryTop'
        BY <1>3 DEF Layout, Reliance, EnvCurrent
    <2> QED
        BY <1>2, <2>1, <2>2
        DEF Mapped, KM!Next, KM!Restart, KM!Region, KM!End, End, Ranges
<1>4. CASE ~assert_kernel_load'
    <2>1. placed' = {}
        BY <1>1, <1>4 DEF placed, assert_kernel_load, NoRamdisk, AllDrivers
    <2> QED
        BY <1>2, <2>1 DEF Mapped, KM!Next, KM!Restart
<1> QED
    BY <1>3, <1>4

(* One turn of the loop over the load commands.                            *)
LEMMA CommandMapped ==
    ASSUME Layout, Layout', CommandStep
    PROVE  Mapped
<1> DEFINE c == Head(cmds)
<1>1. cmds # <<>> /\ c \in Commands /\ c = cmds[1] /\ 1 \in DOMAIN cmds
    BY DEF CommandStep, LoadCommand, Layout, Reliance, TypeOK
<1>2. WellFormed(c)
    BY <1>1 DEF Layout, CommandsWellFormed
<1>3. ASSUME load_macho_from_command(c) PROVE Mapped
    <2> HIDE DEF c
    <2>1. c.kind = "macho"
        BY <1>3 DEF load_macho_from_command
    <2>2. CASE MachoRefused(c)
        BY <2>2, Stutters DEF MachoRefused, kernelVars, topVars
    <2>3. CASE \E after : MachoFails(c, after)
        BY <1>1, <2>3, MachoFailsMapped
    <2>4. CASE DriverLoaded(c)
        BY <1>1, <1>2, <2>1, <2>4, DriverLoadedMapped
    <2>5. CASE KernelLoaded(c)
        BY <1>1, <2>1, <2>5, KernelLoadedMapped
    <2> QED
        BY <1>3, <2>2, <2>3, <2>4, <2>5
        DEF load_macho_from_command, QLZFails, DriverBadInfoOffset, DriverNoPlist,
            KernelUnmappable, MachoUnsupported
<1>4. ASSUME parse_device_tree_command(c) \/ UnknownCommand(c) PROVE Mapped
    BY <1>4, Stutters DEF parse_device_tree_command, UnknownCommand, kernelVars, topVars
<1> QED
    BY <1>3, <1>4 DEF CommandStep, LoadCommand

(* The ramdisk is placed at the top; the one before it is given up.        *)
LEMMA RamdiskAddedMapped ==
    ASSUME Layout, Layout', RdxStep, RamdiskAdded
    PROVE  Mapped
<1>1. UNCHANGED <<gKernelMemoryRange, gLoadedDriverImages>>
    BY DEF RdxStep, do_rdx, kernelVars
<1>2. /\ gRAMDiskRange' = memory_range(gKernelMemoryTop, filesize)
      /\ increment_kernel_memory(gKernelMemoryTop, filesize)
      /\ filesize # 0
    BY DEF RamdiskAdded, AcceptsRamdisk, Layout, FreshFile
<1>3. filesize \in Nat /\ gKernelMemoryTop \in Nat /\ gKernelMemoryTop' \in Nat
    BY DEF Layout, Reliance, TypeOK
<1>4. gKernelMemoryTop + filesize <= gKernelMemoryTop'
    BY <1>2, <1>3, IncrementType
<1>5. ~RANGE_IS_NULL(gRAMDiskRange')
    BY <1>2, <1>3 DEF RANGE_IS_NULL, memory_range
<1> DEFINE kept == {gLoadedDriverImages[i].range : i \in AllDrivers}
                      \cup {r \in {gKernelMemoryRange} : ~RANGE_IS_NULL(r)}
<1>6. kept \subseteq placed
    BY DEF placed
<1>7. placed' = kept \cup {gRAMDiskRange'}
    BY <1>1, <1>5 DEF placed, AllDrivers
<1> HIDE DEF kept
<1>8. filesize \in 0 .. (gKernelMemoryTop' - gKernelMemoryTop)
      /\ gKernelMemoryTop' > gKernelMemoryTop
    BY <1>2, <1>3, <1>4, FitsRoom
<1> QED
    BY <1>2, <1>3, <1>6, <1>7, <1>8 DEF Mapped, KM!Next, KM!Place, KM!memory_range, memory_range

(* mach_boot gives up the drivers, or nothing.                             *)
LEMMA BootMapped ==
    ASSUME BootStep
    PROVE  Mapped
<1>1. UNCHANGED <<gKernelMemoryRange, gKernelMemoryTop, gRAMDiskRange>>
    BY DEF BootStep, mach_boot, kernelVars, topVars
<1>2. CASE gLoadedDriverImages' = gLoadedDriverImages
    BY <1>1, <1>2, Stutters
<1>3. CASE gLoadedDriverImages' = <<>>
    BY <1>1, <1>3 DEF Mapped, KM!Next, KM!GiveUp, placed, AllDrivers
<1> QED
    BY <1>2, <1>3
    DEF BootStep, mach_boot, BootRefused, BootInfoFails, BootDriversFail,
        BootRamdiskFails, BootSucceeds

(* Every step of the operator is a step of KernelMemory or a stutter.      *)
LEMMA StepMapped ==
    ASSUME Layout, Layout', [OperatorNext]_vars
    PROVE  Mapped
<1>1. CASE ImgxStep(WellFormedImages)
    BY <1>1, Stutters DEF ImgxStep, do_imgx, kernelVars, topVars
<1>2. CASE CommandStep
    BY <1>2, CommandMapped
<1>3. CASE assert_kernel_load /\ RdxStep
    <2>1. CASE RamdiskRefused
        BY <1>3, <2>1, Stutters DEF RdxStep, do_rdx, RamdiskRefused, kernelVars, topVars
    <2>2. CASE RamdiskAdded
        BY <1>3, <2>2, RamdiskAddedMapped
    <2> QED
        BY <1>3, <2>1, <2>2 DEF RdxStep, do_rdx
<1>4. CASE LoadStep({env, StagingAddr})
    BY <1>4, Stutters DEF LoadStep, LoadFile, kernelVars, topVars
<1>5. CASE BootStep
    BY <1>5, BootMapped
<1>6. CASE UNCHANGED vars
    BY <1>6, Stutters DEF vars, loaderVars, kernelVars, topVars
<1> QED
    BY <1>1, <1>2, <1>3, <1>4, <1>5, <1>6 DEF OperatorNext

(* Loading kernels, drivers and ramdisks, failing to, booting and failing  *)
(* to boot never does anything to kernel memory that a stack of regions    *)
(* would not.                                                              *)
THEOREM LoaderIsStack == OperatorSpec => ImplementsKernelMemory
<1>1. Init => KM!Init
    BY DEF Init, LoaderInit, KM!Init, placed, AllDrivers, NullRange, RANGE_IS_NULL,
           memory_range
<1>2. Layout /\ Layout' /\ [OperatorNext]_vars => [KM!Next]_<<placed, gKernelMemoryTop>>
    BY StepMapped DEF Mapped
<1> QED
    BY <1>1, <1>2, LayoutCorrect, PTL DEF OperatorSpec, ImplementsKernelMemory, KM!Spec

-----------------------------------------------------------------------------
(***************************************************************************)
(* That a stack of regions keeps its regions apart.  Only KM speaks here:  *)
(* nothing is said of the loader before the last theorem.                  *)
(***************************************************************************)

(* Stacked is inductive with the types alone: a region is placed where     *)
(* every other has ended, and after a restart there is at most one.        *)
StackInv == placed \subseteq KM!Region /\ gKernelMemoryTop \in Nat /\ KM!Stacked

(* A size in the room between two addresses fits between them.             *)
LEMMA RoomFits ==
    ASSUME NEW low \in Nat, NEW high \in Nat, NEW n \in 0 .. (high - low)
    PROVE  n \in Nat /\ low + n <= high
OBVIOUS

(* A region placed at the top is apart from those below it.                *)
LEMMA PlaceStacked ==
    ASSUME StackInv, KM!Place
    PROVE  StackInv'
<1>1. PICK kept \in SUBSET placed, size \in 0 .. (gKernelMemoryTop' - gKernelMemoryTop) :
        placed' = kept \cup {KM!memory_range(gKernelMemoryTop, size)}
    BY DEF KM!Place
<1>2. /\ gKernelMemoryTop \in Nat /\ gKernelMemoryTop' \in Nat
      /\ gKernelMemoryTop <= gKernelMemoryTop'
      /\ size \in Nat /\ gKernelMemoryTop + size <= gKernelMemoryTop'
    <2>1. gKernelMemoryTop \in Nat /\ gKernelMemoryTop' \in Nat
        BY DEF StackInv, KM!Place
    <2>2. gKernelMemoryTop' > gKernelMemoryTop
        BY DEF KM!Place
    <2>3. size \in Nat /\ gKernelMemoryTop + size <= gKernelMemoryTop'
        BY <2>1, RoomFits, Zenon
    <2> QED
        BY <2>1, <2>2, <2>3
<1> DEFINE new == KM!memory_range(gKernelMemoryTop, size)
<1>3. /\ new \in KM!Region
      /\ new.base = gKernelMemoryTop /\ KM!End(new) <= gKernelMemoryTop'
    <2>1. new.base = gKernelMemoryTop /\ new.size = size /\ new \in KM!Region
        BY <1>2 DEF KM!memory_range, KM!Region
    <2> QED
        BY <1>2, <2>1 DEF KM!End
<1> HIDE DEF new
<1>4. \A r \in kept : r \in KM!Region /\ KM!End(r) <= gKernelMemoryTop
    BY DEF StackInv, KM!Stacked
<1>5. \A r \in kept : /\ KM!End(r) <= gKernelMemoryTop'
                       /\ KM!Disjoint(r, new) /\ KM!Disjoint(new, r)
    BY <1>2, <1>3, <1>4 DEF KM!Disjoint, KM!End, KM!Region
<1>6. \A r, s \in kept : r # s => KM!Disjoint(r, s)
    BY DEF StackInv, KM!Stacked
<1> QED
    BY <1>1, <1>2, <1>3, <1>4, <1>5, <1>6 DEF StackInv, KM!Stacked, new

(* Every step keeps the stack.                                             *)
LEMMA StackStep ==
    ASSUME StackInv, [KM!Next]_<<placed, gKernelMemoryTop>>
    PROVE  StackInv'
<1>1. CASE KM!Place
    BY <1>1, PlaceStacked
<1>2. CASE KM!GiveUp
    BY <1>2 DEF KM!GiveUp, StackInv, KM!Stacked
<1>3. CASE KM!Restart
    BY <1>3 DEF KM!Restart, StackInv, KM!Stacked
<1>4. CASE UNCHANGED <<placed, gKernelMemoryTop>>
    BY <1>4 DEF StackInv, KM!Stacked
<1> QED
    BY <1>1, <1>2, <1>3, <1>4 DEF KM!Next

(* What the loader promises by refining KernelMemory: regions of kernel    *)
(* memory never share an address and never reach past the top.             *)
THEOREM StackIsStacked == KM!Spec => []KM!Stacked
<1>1. KM!Init => StackInv
    BY DEF KM!Init, StackInv, KM!Stacked
<1>2. StackInv => KM!Stacked
    BY DEF StackInv
<1> QED
    BY <1>1, <1>2, StackStep, PTL DEF KM!Spec

(* The loader keeps that promise: whatever an operator does, the kernel,   *)
(* the drivers and the ramdisk that are placed share no memory and end     *)
(* below gKernelMemoryTop.                                                 *)
THEOREM LoaderKeepsStack == OperatorSpec => []KM!Stacked
BY LoaderIsStack, StackIsStacked, PTL DEF ImplementsKernelMemory

-----------------------------------------------------------------------------
(***************************************************************************)
(* What the kernel is started with.                                        *)
(***************************************************************************)

(***************************************************************************)
(* Multiples of the page.                                                  *)
(***************************************************************************)

(* Quotient and remainder put the number together again. *)
LEMMA DivMod ==
    ASSUME NEW x \in Int, NEW n \in Nat \ {0}
    PROVE  /\ x \div n \in Int
           /\ x = n * (x \div n) + (x % n)
           /\ x % n \in 0 .. (n - 1)
OBVIOUS

(* A multiple leaves no remainder. *)
LEMMA MultipleMod ==
    ASSUME NEW n \in Nat \ {0}, NEW k \in Int
    PROVE  (n * k) % n = 0
OBVIOUS

(* The sum of two multiples is one. *)
LEMMA SumMod ==
    ASSUME NEW n \in Nat \ {0}, NEW x \in Int, NEW y \in Int, x % n = 0, y % n = 0
    PROVE  (x + y) % n = 0
<1> DEFINE a == x \div n
           b == y \div n
<1>1. a \in Int /\ b \in Int /\ x = n * a /\ y = n * b
    BY DivMod
<1> HIDE DEF a, b
<1>2. x + y = n * (a + b)
    BY <1>1, SMT
<1> QED
    BY <1>1, <1>2, MultipleMod

(* The remainder of a multiple of the page at a boundary that is one too.  *)
LEMMA RemainderMod ==
    ASSUME NEW n \in Nat \ {0}, NEW x \in Int, NEW m \in Nat \ {0},
           x % n = 0, m % n = 0
    PROVE  (x % m) % n = 0
<1> DEFINE a == x \div n
           b == m \div n
           d == x \div m
           e == b * d
<1>1. /\ a \in Int /\ b \in Int /\ d \in Int /\ x = n * a /\ m = n * b
      /\ x % m = x - m * d
    BY DivMod
<1> HIDE DEF a, b, d
<1>2. e \in Int /\ m * d = n * e
    BY <1>1, SMT
<1> HIDE DEF e
<1>3. n * a - n * e = n * (a - e)
    BY <1>1, <1>2, SMT
<1>4. x % m = n * (a - e) /\ a - e \in Int
    BY <1>1, <1>2, <1>3
<1> QED
    BY <1>4, MultipleMod

(* align_up of bootkit/runtime.h answers a multiple of the boundary. *)
LEMMA AlignUpMod ==
    ASSUME NEW x \in Nat, NEW n \in Nat \ {0}
    PROVE  align_up(x, n) % n = 0
<1> DEFINE z == x + (n - 1)
<1>1. z \in Int /\ z \div n \in Int /\ z - (z % n) = n * (z \div n)
    BY DivMod
<1> HIDE DEF z
<1>2. (z - (z % n)) % n = 0
    BY <1>1, MultipleMod
<1> QED
    BY <1>2 DEF align_up, align_down, z

-----------------------------------------------------------------------------
(***************************************************************************)
(* The strengthening.  What mach_boot hands over is computed from globals  *)
(* other commands left: that the entry point translates to an address of   *)
(* the kernel, that the top is on a page, and that a property list starts  *)
(* inside its image are decided when an image is loaded, many commands     *)
(* before the jump.  Once the kernel runs nothing may be left to process.  *)
(***************************************************************************)
EntryMapped ==
    assert_kernel_load =>
        kvtop(gKernelEntryPoint, gKernelPhysicalBase, gKernelVirtualBase)
            \in Bytes(gKernelMemoryRange)

TopAligned == assert_kernel_load => gKernelMemoryTop % PageSize = 0

InfoInside ==
    \A i \in AllDrivers :
        gLoadedDriverImages[i].info_offset <= DriverRange(i).size - DriverPad

ReadyToBoot == EntryMapped /\ TopAligned /\ InfoInside /\ RamdiskAligned

AfterJump ==
    /\ Running => cmds = <<>>
    /\ HandoffLayout
    /\ HandoffDrivers
    /\ EntryInKernel

Handover == Layout /\ ReadyToBoot /\ AfterJump

-----------------------------------------------------------------------------
(***************************************************************************)
(* What the loader prepares.                                               *)
(***************************************************************************)

(* increment_kernel_memory moves an aligned top to an aligned top. *)
LEMMA IncrementAligned ==
    ASSUME NEW top \in Nat, NEW by \in Nat, top % PageSize = 0,
           increment_kernel_memory(top, by)
    PROVE  gKernelMemoryTop' % PageSize = 0
<1>1. /\ align_up(by, PageSize) \in Nat /\ align_up(by, PageSize) % PageSize = 0
      /\ PageSize \in Nat \ {0}
    BY AlignUp, AlignUpMod, LayoutAssumption
<1>2. (top + align_up(by, PageSize)) % PageSize = 0
    BY <1>1, SumMod
<1> QED
    BY <1>2 DEF increment_kernel_memory

(* A kernel whose load address is on a page is placed on a page. *)
LEMMA LoadTopAligned ==
    ASSUME NEW c \in Commands, c.kind = "macho", WellFormed(c), IsKernel(c)
    PROVE  load_top(c) % PageSize = 0
<1>1. /\ c.load_address \in Nat /\ c.load_address % PageSize = 0
      /\ DramStart \in Nat /\ PageSize \in Nat \ {0} /\ SectionSize \in Nat \ {0}
      /\ c.load_address % SectionSize \in Nat
    BY LayoutAssumption, CommandsAssumption DEF WellFormed
<1>2. (c.load_address % SectionSize) % PageSize = 0
    BY <1>1, RemainderMod, AlignmentAssumption
<1>3. (DramStart + (c.load_address % SectionSize)) % PageSize = 0
    BY <1>1, <1>2, SumMod, AlignmentAssumption
<1> QED
    BY <1>3 DEF load_top

(* A step that loads nothing. *)
LEMMA ReadyFrame ==
    ASSUME ReadyToBoot,
           UNCHANGED <<gKernelMemoryRange, gKernelMemoryTop, gKernelPhysicalBase,
                       gKernelVirtualBase, gKernelEntryPoint, gRAMDiskRange>>,
           gLoadedDriverImages' \in {gLoadedDriverImages, <<>>}
    PROVE  ReadyToBoot'
<1>1. EntryMapped' /\ TopAligned' /\ RamdiskAligned'
    BY DEF ReadyToBoot, EntryMapped, TopAligned, RamdiskAligned, assert_kernel_load
<1>2. InfoInside'
    BY DEF ReadyToBoot, InfoInside, AllDrivers, DriverRange
<1> QED
    BY <1>1, <1>2 DEF ReadyToBoot

(* No ramdisk is a ramdisk at address 0. *)
LEMMA NullAligned == NullRange.base % PageSize = 0
<1>1. PageSize \in Nat \ {0}
    BY LayoutAssumption
<1>2. 0 % PageSize = 0
    BY <1>1, DivMod, MultipleMod
<1> QED
    BY <1>2 DEF NullRange, memory_range

(* A command that fails leaves nothing, or what was there. *)
LEMMA MachoFailsReady ==
    ASSUME Layout, ReadyToBoot, NEW c \in Commands, NEW after, MachoFails(c, after)
    PROVE  ReadyToBoot'
<1>1. /\ SetupKernelMemory(c) /\ gKernelMemoryTop' = load_top(c)
      /\ gKernelMemoryRange' = KeptRange(c)
      /\ gLoadedDriverImages' = KeptDrivers(c)
      /\ gRAMDiskRange' = IF tears_down(c) THEN NullRange ELSE gRAMDiskRange
      /\ gKernelEntryPoint' = gKernelEntryPoint
    BY DEF MachoFails, SetupKernelMemory, teardown_old_loader_context
<1>2. CASE IsKernel(c)
    <2>1. ~assert_kernel_load' /\ gLoadedDriverImages' = <<>>
        BY <1>1, <1>2, TornDown
        DEF assert_kernel_load, KeptDrivers, tears_down, Layout, Reliance,
            NothingWithoutKernel
    <2>2. RamdiskAligned'
        BY <1>1, NullAligned DEF RamdiskAligned, ReadyToBoot
    <2> QED
        BY <2>1, <2>2 DEF ReadyToBoot, EntryMapped, TopAligned, InfoInside, AllDrivers
<1>3. CASE ~IsKernel(c)
    BY <1>1, <1>3, ReadyFrame
    DEF KeptRange, KeptDrivers, tears_down, load_top, SetupKernelMemory
<1> QED
    BY <1>2, <1>3

(* A driver is listed only if its property list starts inside its image.   *)
LEMMA DriverLoadedReady ==
    ASSUME Layout, ReadyToBoot, NEW c \in Commands, c.kind = "macho",
           WellFormed(c), DriverLoaded(c)
    PROVE  ReadyToBoot'
<1> DEFINE d == driver_image(c)
           n == Len(gLoadedDriverImages)
<1>1. ~IsKernel(c) /\ assert_kernel_load
    BY DEF WellFormed, DriverLoaded
<1>2. /\ load_top(c) = gKernelMemoryTop
      /\ UNCHANGED <<gKernelMemoryRange, gKernelPhysicalBase, gKernelVirtualBase,
                     gKernelEntryPoint, gRAMDiskRange>>
      /\ gLoadedDriverImages' = Append(gLoadedDriverImages, d)
    BY <1>1
    DEF load_top, KeptRange, KeptDrivers, tears_down, DriverLoaded, SetupKernelMemory,
        teardown_old_loader_context
<1>3. /\ gKernelMemoryTop \in Nat /\ DriverPad \in Nat /\ image_size(c) \in Nat
      /\ gLoadedDriverImages \in Seq(DriverImages) /\ c.info_offset \in Nat
    BY MachoNumbers, LayoutTypes, CommandsAssumption DEF Layout, Reliance, TypeOK
<1>4. TopAligned'
    <2>1. increment_kernel_memory(gKernelMemoryTop, image_size(c) + DriverPad)
        BY <1>2 DEF DriverLoaded
    <2>2. image_size(c) + DriverPad \in Nat
        BY <1>3
    <2> QED
        BY <1>1, <1>3, <2>1, <2>2, IncrementAligned DEF ReadyToBoot, TopAligned
<1>5. EntryMapped' /\ RamdiskAligned'
    BY <1>2 DEF ReadyToBoot, EntryMapped, RamdiskAligned, assert_kernel_load
<1>6. InfoInside'
    <2>1. d.info_offset <= d.range.size - DriverPad
        BY <1>3 DEF DriverLoaded, driver_image, memory_range
    <2>2. d \in DriverImages
        BY <1>2, <1>3 DEF driver_image, DriverImages, Ranges, memory_range
    <2> HIDE DEF d
    <2>3. /\ n \in Nat /\ DOMAIN gLoadedDriverImages = 1 .. n
          /\ DOMAIN gLoadedDriverImages' = 1 .. (n + 1)
          /\ \A k \in 1 .. n : gLoadedDriverImages'[k] = gLoadedDriverImages[k]
          /\ gLoadedDriverImages'[n + 1] = d
        BY <1>2, <1>3, <2>2
    <2>4. ASSUME NEW i \in 1 .. (n + 1)
          PROVE  gLoadedDriverImages'[i].info_offset
                    <= gLoadedDriverImages'[i].range.size - DriverPad
        <3>1. CASE i \in 1 .. n
            BY <2>3, <3>1 DEF ReadyToBoot, InfoInside, AllDrivers, DriverRange
        <3>2. CASE i = n + 1
            BY <2>1, <2>3, <3>2
        <3> QED
            BY <2>3, <2>4, <3>1, <3>2
    <2> QED
        BY <2>3, <2>4 DEF InfoInside, AllDrivers, DriverRange
<1> QED
    BY <1>4, <1>5, <1>6 DEF ReadyToBoot

(* The slide of a kernel, its load address within a section, is taken off  *)
(* its virtual base and added to its physical place alike: the translation *)
(* of mach_boot takes its addresses to where they were mapped.             *)
LEMMA KernelLoadedReady ==
    ASSUME Layout, ReadyToBoot, NEW c \in Commands, c.kind = "macho",
           WellFormed(c), KernelLoaded(c)
    PROVE  ReadyToBoot'
<1>1. IsKernel(c) /\ c.mappable
    BY DEF KernelLoaded
<1>2. /\ c.load_address \in Nat /\ c.vmsize \in Nat /\ DramStart \in Nat
      /\ load_top(c) \in Nat /\ SectionSize \in Nat \ {0}
      /\ align_down(c.load_address, SectionSize)
            = c.load_address - (c.load_address % SectionSize)
      /\ load_top(c) = DramStart + (c.load_address % SectionSize)
      /\ c.load_address % SectionSize \in Nat
    BY <1>1, MachoNumbers, LayoutAssumption, CommandsAssumption
    DEF Layout, Reliance, load_top, align_down
<1>3. EntryMapped'
    <2>1. /\ gKernelPhysicalBase' = DramStart
          /\ gKernelVirtualBase' = align_down(c.load_address, SectionSize)
          /\ gKernelMemoryRange' = memory_range(load_top(c), c.vmsize)
        BY <1>1 DEF KernelLoaded, SetupKernelMemory
    <2>2. gKernelEntryPoint' \in c.load_address .. (c.load_address + c.vmsize - 1)
        BY <1>1 DEF KernelLoaded, WellFormed
    <2>3. kvtop(gKernelEntryPoint', DramStart, align_down(c.load_address, SectionSize))
            \in load_top(c) .. (load_top(c) + c.vmsize - 1)
        BY <1>2, <2>2 DEF kvtop
    <2> QED
        BY <2>1, <2>3 DEF EntryMapped, Bytes, memory_range
<1>4. TopAligned'
    <2>1. increment_kernel_memory(load_top(c), c.vmsize)
        BY DEF KernelLoaded
    <2> QED
        BY <1>1, <1>2, <2>1, LoadTopAligned, IncrementAligned DEF TopAligned
<1>5. InfoInside' /\ RamdiskAligned'
    <2>1. /\ gLoadedDriverImages' = KeptDrivers(c)
          /\ gRAMDiskRange' = IF tears_down(c) THEN NullRange ELSE gRAMDiskRange
        BY DEF KernelLoaded, SetupKernelMemory, teardown_old_loader_context
    <2>2. gLoadedDriverImages' = <<>>
        BY <1>1, <2>1 DEF KeptDrivers, tears_down, Layout, NothingWithoutKernel
    <2> QED
        BY <2>1, <2>2, NullAligned
        DEF InfoInside, AllDrivers, RamdiskAligned, ReadyToBoot
<1> QED
    BY <1>3, <1>4, <1>5 DEF ReadyToBoot

(* One turn of the loop over the load commands. *)
LEMMA CommandReady ==
    ASSUME Layout, ReadyToBoot, CommandStep
    PROVE  ReadyToBoot'
<1> DEFINE c == Head(cmds)
<1>1. cmds # <<>> /\ c \in Commands /\ c = cmds[1] /\ 1 \in DOMAIN cmds
    BY DEF CommandStep, LoadCommand, Layout, Reliance, TypeOK
<1>2. WellFormed(c)
    BY <1>1 DEF Layout, CommandsWellFormed
<1>3. ASSUME UNCHANGED <<kernelVars, baseVars, topVars, gLoadedDriverImages,
                         gRAMDiskRange>>
      PROVE  ReadyToBoot'
    BY <1>3, ReadyFrame DEF kernelVars, baseVars, topVars
<1>4. ASSUME load_macho_from_command(c) PROVE ReadyToBoot'
    <2> HIDE DEF c
    <2>1. c.kind = "macho"
        BY <1>4 DEF load_macho_from_command
    <2>2. CASE MachoRefused(c)
        BY <1>3, <2>2 DEF MachoRefused
    <2>3. CASE \E after : MachoFails(c, after)
        BY <1>1, <2>3, MachoFailsReady
    <2>4. CASE DriverLoaded(c)
        BY <1>1, <1>2, <2>1, <2>4, DriverLoadedReady
    <2>5. CASE KernelLoaded(c)
        BY <1>1, <1>2, <2>1, <2>5, KernelLoadedReady
    <2> QED
        BY <1>4, <2>2, <2>3, <2>4, <2>5
        DEF load_macho_from_command, QLZFails, DriverBadInfoOffset, DriverNoPlist,
            KernelUnmappable, MachoUnsupported
<1>5. CASE parse_device_tree_command(c)
    BY <1>3, <1>5 DEF parse_device_tree_command
<1>6. CASE UnknownCommand(c)
    BY <1>3, <1>6 DEF UnknownCommand
<1> QED
    BY <1>4, <1>5, <1>6 DEF CommandStep, LoadCommand

(* Every step of the operator keeps the loader ready; rdx adopts a file    *)
(* that starts at the top.                                                 *)
LEMMA ReadyStep ==
    ASSUME Layout, ReadyToBoot, [OperatorNext]_vars
    PROVE  ReadyToBoot'
<1>1. CASE ImgxStep(WellFormedImages)
    BY <1>1, ReadyFrame DEF ImgxStep, do_imgx, kernelVars, baseVars, topVars
<1>2. CASE CommandStep
    BY <1>2, CommandReady
<1>3. CASE assert_kernel_load /\ RdxStep
    <2>1. CASE RamdiskRefused
        BY <1>3, <2>1, ReadyFrame
        DEF RdxStep, do_rdx, RamdiskRefused, kernelVars, baseVars, topVars
    <2>2. CASE RamdiskAdded
        <3>1. UNCHANGED <<gKernelMemoryRange, gKernelPhysicalBase, gKernelVirtualBase,
                          gKernelEntryPoint, gLoadedDriverImages>>
            BY <1>3 DEF RdxStep, do_rdx, kernelVars, baseVars
        <3>2. /\ assert_kernel_load /\ gKernelMemoryTop \in Nat /\ filesize \in Nat
              /\ gKernelMemoryTop % PageSize = 0
            BY <1>3
            DEF Layout, NothingWithoutKernel, Reliance, TypeOK, ReadyToBoot, TopAligned
        <3>3. /\ gRAMDiskRange'.base = gKernelMemoryTop
              /\ increment_kernel_memory(gKernelMemoryTop, filesize)
            BY <2>2 DEF RamdiskAdded, AcceptsRamdisk, memory_range
        <3>4. TopAligned' /\ RamdiskAligned'
            BY <3>2, <3>3, IncrementAligned DEF TopAligned, RamdiskAligned
        <3>5. EntryMapped' /\ InfoInside'
            BY <3>1
            DEF ReadyToBoot, EntryMapped, InfoInside, assert_kernel_load, AllDrivers,
                DriverRange
        <3> QED
            BY <3>4, <3>5 DEF ReadyToBoot
    <2> QED
        BY <1>3, <2>1, <2>2 DEF RdxStep, do_rdx
<1>4. CASE LoadStep({env, StagingAddr})
    BY <1>4, ReadyFrame DEF LoadStep, LoadFile, kernelVars, baseVars, topVars
<1>5. CASE BootStep
    <2>1. gLoadedDriverImages' \in {gLoadedDriverImages, <<>>}
        BY <1>5
        DEF BootStep, mach_boot, BootRefused, BootInfoFails, BootDriversFail,
            BootRamdiskFails, BootSucceeds
    <2> QED
        BY <1>5, <2>1, ReadyFrame DEF BootStep, mach_boot, kernelVars, baseVars, topVars
<1>6. CASE UNCHANGED vars
    BY <1>6, ReadyFrame DEF vars, loaderVars, kernelVars, baseVars, topVars
<1> QED
    BY <1>1, <1>2, <1>3, <1>4, <1>5, <1>6 DEF OperatorNext

-----------------------------------------------------------------------------
(***************************************************************************)
(* What the kernel is given.                                               *)
(***************************************************************************)

(* mach_boot puts the arguments on the top, the tree behind them, and ends *)
(* the memory the kernel maps at first on the next section.                *)
LEMMA ReservedAboveTop ==
    ASSUME Layout, NEW len \in FlatSizes
    PROVE  /\ r_boot_args.base = gKernelMemoryTop
           /\ End(r_boot_args) = gKernelMemoryTop + BootArgsSize
           /\ r_device_tree(len).base = gKernelMemoryTop + BootArgsSize + MagicSize
           /\ End(r_device_tree(len))
                = gKernelMemoryTop + BootArgsSize + MagicSize + len
           /\ End(r_device_tree(len)) <= data_end(len)
           /\ data_end(len) \in Nat
<1>1. /\ gKernelMemoryTop \in Nat /\ BootArgsSize \in Nat /\ MagicSize \in Nat
      /\ len \in Nat /\ SectionSize \in Nat \ {0}
    BY LayoutTypes, BootAssumption, LayoutAssumption
<1>2. /\ args_reserve.start = gKernelMemoryTop
      /\ args_reserve.region.pos = gKernelMemoryTop + BootArgsSize
      /\ args_reserve.region.down = FALSE
    BY DEF args_reserve, memory_reserve, kernel_mem, memory_region, Aligned
<1>3. /\ tree_reserve(len).start = gKernelMemoryTop + BootArgsSize
      /\ tree_reserve(len).region.pos
            = gKernelMemoryTop + BootArgsSize + (len + MagicSize)
    BY <1>2 DEF tree_reserve, memory_reserve, Aligned
<1>4. /\ data_end(len) \in Nat
      /\ gKernelMemoryTop + BootArgsSize + (len + MagicSize) <= data_end(len)
    <2>1. gKernelMemoryTop + BootArgsSize + (len + MagicSize) \in Nat
        BY <1>1
    <2> QED
        BY <1>1, <1>3, <2>1, AlignUp DEF data_end
<1> QED
    BY <1>1, <1>2, <1>3, <1>4 DEF r_boot_args, r_device_tree, memory_range, End

(* The ranges the kernel is told of are those the loader placed, the       *)
(* arguments and the tree.                                                 *)
LEMMA BootLayoutGiven ==
    ASSUME Layout, gHasDeviceTree, NEW len \in FlatSizes
    PROVE  LET h == boot_args(len)
           IN  /\ \A p \in HandoffParts(h) :
                    h.phys_base <= p[2].base /\ End(p[2]) <= h.data_end
               /\ \A p, q \in HandoffParts(h) : p # q => Disjoint(p[2], q[2])
<1> DEFINE h == boot_args(len)
           t == r_device_tree(len)
<1>1. /\ h.phys_base = gKernelPhysicalBase /\ h.data_end = data_end(len)
      /\ h.kernel = gKernelMemoryRange /\ h.args = r_boot_args /\ h.tree = t
      /\ h.ramdisk = gRAMDiskRange
      /\ h.drivers = {booter_extension(gLoadedDriverImages[i]) : i \in AllDrivers}
    BY DEF boot_args
<1>2. \A p \in HandoffParts(h) :
         \/ p \in {<<"kernel", gKernelMemoryRange>>, <<"args", r_boot_args>>, <<"tree", t>>}
         \/ \E i \in AllDrivers : p = <<"driver", DriverRange(i)>>
         \/ ~NoRamdisk /\ p = <<"ramdisk", gRAMDiskRange>>
    BY <1>1 DEF HandoffParts, booter_extension, DriverRange, NoRamdisk
<1>3. /\ assert_kernel_load /\ gKernelPhysicalBase = DramStart
      /\ DramStart <= gKernelMemoryRange.base
      /\ End(gKernelMemoryRange) <= gKernelMemoryTop
    BY DEF Layout, Reliance, BootHasKernel, EnvCurrent
<1>4. /\ DramStart \in Nat /\ gKernelMemoryTop \in Nat /\ BootArgsSize \in Nat
      /\ MagicSize \in Nat /\ len \in Nat
      /\ gKernelMemoryRange.base \in Nat /\ End(gKernelMemoryRange) \in Nat
      /\ gRAMDiskRange.base \in Nat /\ End(gRAMDiskRange) \in Nat
      /\ \A i \in AllDrivers : DriverRange(i).base \in Nat /\ End(DriverRange(i)) \in Nat
      /\ gKernelMemoryRange.base <= End(gKernelMemoryRange)
    BY LayoutTypes, BootAssumption DEF End
<1>5. /\ r_boot_args.base = gKernelMemoryTop
      /\ End(r_boot_args) = gKernelMemoryTop + BootArgsSize
      /\ t.base = gKernelMemoryTop + BootArgsSize + MagicSize
      /\ End(t) = gKernelMemoryTop + BootArgsSize + MagicSize + len
      /\ End(t) <= data_end(len) /\ data_end(len) \in Nat
    BY ReservedAboveTop
<1>6. \A i \in AllDrivers :
        /\ End(gKernelMemoryRange) <= DriverRange(i).base
        /\ End(DriverRange(i)) <= gKernelMemoryTop
    BY DEF Layout, BelowTop
<1>7. ~NoRamdisk =>
        /\ End(gKernelMemoryRange) <= gRAMDiskRange.base
        /\ End(gRAMDiskRange) <= gKernelMemoryTop
    BY DEF Layout, BelowTop
<1> HIDE DEF h, t
<1>8. ASSUME NEW p \in HandoffParts(h)
      PROVE  h.phys_base <= p[2].base /\ End(p[2]) <= h.data_end
    <2>1. CASE p = <<"kernel", gKernelMemoryRange>>
        BY <1>1, <1>3, <1>4, <1>5, <2>1
    <2>2. CASE p = <<"args", r_boot_args>>
        BY <1>1, <1>3, <1>4, <1>5, <2>2
    <2>3. CASE p = <<"tree", t>>
        BY <1>1, <1>3, <1>4, <1>5, <2>3
    <2>4. CASE \E i \in AllDrivers : p = <<"driver", DriverRange(i)>>
        BY <1>1, <1>3, <1>4, <1>5, <1>6, <2>4
    <2>5. CASE ~NoRamdisk /\ p = <<"ramdisk", gRAMDiskRange>>
        BY <1>1, <1>3, <1>4, <1>5, <1>7, <2>5
    <2> QED
        BY <1>2, <2>1, <2>2, <2>3, <2>4, <2>5
<1>9. ASSUME NEW p \in HandoffParts(h), NEW q \in HandoffParts(h), p # q
      PROVE  Disjoint(p[2], q[2])
    <2> DEFINE IsKernelPart(x) == x = <<"kernel", gKernelMemoryRange>>
               IsDriverPart(x) == \E i \in AllDrivers : x = <<"driver", DriverRange(i)>>
               IsRamdiskPart(x) == ~NoRamdisk /\ x = <<"ramdisk", gRAMDiskRange>>
               Below(x) == IsKernelPart(x) \/ IsDriverPart(x) \/ IsRamdiskPart(x)
               Above(x) == x \in {<<"args", r_boot_args>>, <<"tree", t>>}
    <2>1. \A x : Below(x) => x[2].base \in Nat /\ End(x[2]) \in Nat
                                /\ End(x[2]) <= gKernelMemoryTop
        BY <1>3, <1>4, <1>6, <1>7
    <2>2. CASE Below(p) /\ Below(q)
        <3>1. Apart
            BY DEF Layout
        <3>2. CASE IsKernelPart(p)
            BY <1>6, <1>7, <1>9, <2>2, <3>2 DEF Disjoint
        <3>3. CASE IsDriverPart(p)
            BY <1>6, <1>9, <2>2, <3>1, <3>3 DEF Apart, Disjoint
        <3>4. CASE IsRamdiskPart(p)
            BY <1>7, <1>9, <2>2, <3>1, <3>4 DEF Apart, Disjoint
        <3> QED
            BY <2>2, <3>2, <3>3, <3>4
    <2>3. CASE Below(p) /\ Above(q)
        BY <1>4, <1>5, <2>1, <2>3 DEF Disjoint
    <2>4. CASE Above(p) /\ Below(q)
        BY <1>4, <1>5, <2>1, <2>4 DEF Disjoint
    <2>5. CASE Above(p) /\ Above(q)
        BY <1>4, <1>5, <1>9, <2>5 DEF Disjoint
    <2> QED
        BY <1>2, <1>9, <2>2, <2>3, <2>4, <2>5
<1> QED
    BY <1>8, <1>9 DEF h

(* The parts of a driver the kernel is told of are parts of its image, and *)
(* mach_boot writes to none of them.                                       *)
LEMMA BootDriversGiven ==
    ASSUME Layout, ReadyToBoot, KeepsMemory, NEW k \in AllDrivers
    PROVE  LET d == booter_extension(gLoadedDriverImages[k])
           IN  /\ d.plist.size >= 0
               /\ End(d.plist) = End(d.range)
               /\ \A a \in Bytes(d.exec) \cup Bytes(d.plist) : mem'[a] = "driver"
<1> DEFINE image == gLoadedDriverImages[k]
           d == booter_extension(image)
           lo == image.range.base + DriverPad
<1>1. /\ image.range = DriverRange(k) /\ image.info_offset \in Nat
      /\ image.range.base \in Nat /\ image.range.size \in Nat /\ DriverPad \in Nat
    <2>1. image \in DriverImages
        BY DEF Layout, Reliance, TypeOK, AllDrivers
    <2> QED
        BY <2>1, LayoutTypes DEF DriverRange, DriverImages
<1>2. image.info_offset <= image.range.size - DriverPad
    BY DEF ReadyToBoot, InfoInside, DriverRange
<1>3. /\ d.range = image.range
      /\ d.plist.base = lo + image.info_offset
      /\ d.plist.size = (image.range.size - DriverPad) - image.info_offset
      /\ d.exec \in {NullRange, memory_range(lo, image.info_offset)}
    BY DEF booter_extension, memory_range
<1>4. \A a \in lo .. (End(image.range) - 1) : mem'[a] = "driver"
    <2>1. assert_kernel_load
        BY DEF Layout, NothingWithoutKernel, AllDrivers
    <2> QED
        BY <1>1, <2>1, PlacedKept
<1> HIDE DEF d, image
<1>5. d.plist.size >= 0 /\ End(d.plist) = End(d.range)
    BY <1>1, <1>2, <1>3 DEF End
<1>6. \A a \in Bytes(d.plist) : a \in lo .. (End(image.range) - 1)
    BY <1>1, <1>2, <1>3 DEF Bytes, End
<1>7. \A a \in Bytes(d.exec) : a \in lo .. (End(image.range) - 1)
    BY <1>1, <1>2, <1>3 DEF Bytes, End, NullRange, memory_range
<1> QED
    BY <1>4, <1>5, <1>6, <1>7 DEF d, image

(* mach_boot starts the kernel, or leaves things as they were before the   *)
(* jump.                                                                   *)
LEMMA BootHandover ==
    ASSUME Layout, ReadyToBoot, AfterJump, BootStep
    PROVE  AfterJump'
<1>1. handoff = {} /\ cmds' = <<>>
    BY DEF BootStep, Turn, Running, mach_boot, Prompt
<1>2. CASE handoff' = handoff
    BY <1>1, <1>2 DEF AfterJump, Running, HandoffLayout, HandoffDrivers, EntryInKernel
<1>3. CASE BootSucceeds
    <2>1. gHasDeviceTree /\ assert_kernel_load
        BY <1>3 DEF BootSucceeds, Layout, Reliance, BootHasKernel
    <2>2. PICK len \in FlatSizes : handoff' = {boot_args(len)}
        BY <1>3 DEF BootSucceeds
    <2>3. HandoffLayout'
        BY <2>1, <2>2, BootLayoutGiven DEF HandoffLayout, HandoffParts
    <2>4. HandoffDrivers'
        <3>1. boot_args(len).drivers
                = {booter_extension(gLoadedDriverImages[i]) : i \in AllDrivers}
            BY DEF boot_args
        <3> QED
            BY <2>2, <3>1, BootKeepsMemory, BootDriversGiven DEF HandoffDrivers
    <2>5. EntryInKernel'
        <3>1. /\ boot_args(len).kernel = gKernelMemoryRange
              /\ boot_args(len).entry
                    = kvtop(gKernelEntryPoint, gKernelPhysicalBase, gKernelVirtualBase)
            BY DEF boot_args
        <3>2. boot_args(len).entry \in Bytes(gKernelMemoryRange)
            BY <2>1, <3>1 DEF ReadyToBoot, EntryMapped
        <3>3. mem'[boot_args(len).entry] = "kernel"
            BY <2>1, <3>2, BootKeepsMemory, PlacedKept
        <3> QED
            BY <2>2, <3>1, <3>2, <3>3 DEF EntryInKernel
    <2> QED
        BY <1>1, <2>3, <2>4, <2>5 DEF AfterJump
<1> QED
    BY <1>2, <1>3
    DEF BootStep, mach_boot, BootRefused, BootInfoFails, BootDriversFail,
        BootRamdiskFails, BootFails

(* Every other command is typed, or processed, before the jump. *)
LEMMA AfterJumpStep ==
    ASSUME Layout, ReadyToBoot, AfterJump, [OperatorNext]_vars
    PROVE  AfterJump'
<1>1. ASSUME handoff = {}, handoff' = handoff
      PROVE  AfterJump'
    BY <1>1 DEF AfterJump, Running, HandoffLayout, HandoffDrivers, EntryInKernel
<1>2. CASE ImgxStep(WellFormedImages)
    BY <1>1, <1>2 DEF ImgxStep, Turn, Running
<1>3. CASE CommandStep
    BY <1>1, <1>3 DEF CommandStep, LoadCommand, AfterJump, Running
<1>4. CASE assert_kernel_load /\ RdxStep
    BY <1>1, <1>4 DEF RdxStep, Turn, Running
<1>5. CASE LoadStep({env, StagingAddr})
    BY <1>1, <1>5 DEF LoadStep, Turn, Running
<1>6. CASE BootStep
    BY <1>6, BootHandover
<1>7. CASE UNCHANGED vars
    BY <1>7
    DEF vars, loaderVars, AfterJump, Running, HandoffLayout, HandoffDrivers,
        EntryInKernel
<1> QED
    BY <1>2, <1>3, <1>4, <1>5, <1>6, <1>7 DEF OperatorNext

LEMMA HandoverInit == Init => Handover
<1> SUFFICES ASSUME Init PROVE Handover
    OBVIOUS
<1>1. /\ gKernelMemoryRange = NullRange /\ gRAMDiskRange = NullRange
      /\ gLoadedDriverImages = <<>> /\ handoff = {}
    BY DEF Init, LoaderInit
<1>2. ~assert_kernel_load
    BY <1>1 DEF assert_kernel_load, RANGE_IS_NULL, NullRange, memory_range
<1>3. ReadyToBoot
    BY <1>1, <1>2, NullAligned
    DEF ReadyToBoot, EntryMapped, TopAligned, InfoInside, AllDrivers, RamdiskAligned
<1>4. AfterJump
    BY <1>1 DEF AfterJump, Running, HandoffLayout, HandoffDrivers, EntryInKernel
<1> QED
    BY <1>3, <1>4, LayoutInit DEF Handover

(* Whatever the operator does with well-formed images, the loader stays    *)
(* ready to boot, and what a kernel was started with stays true.           *)
THEOREM HandoverCorrect == OperatorSpec => []Handover
<1>1. Handover /\ [OperatorNext]_vars => Handover'
    BY LayoutStep, ReadyStep, AfterJumpStep DEF Handover
<1> QED
    BY <1>1, HandoverInit, PTL DEF OperatorSpec

(* A ramdisk adopted by rdx starts on a page: every increment of the top   *)
(* is rounded up to one, and the first kernel is placed on one.            *)
THEOREM RamdiskStaysAligned == OperatorSpec => []RamdiskAligned
<1>1. Handover => RamdiskAligned
    BY DEF Handover, ReadyToBoot
<1> QED
    BY <1>1, HandoverCorrect, PTL

(* The kernel, the drivers, the ramdisk, the boot arguments and the device *)
(* tree a kernel is started with do not overlap, and lie in the memory it  *)
(* maps at first.                                                          *)
THEOREM HandoffIsLaidOut == OperatorSpec => []HandoffLayout
<1>1. Handover => HandoffLayout
    BY DEF Handover, AfterJump
<1> QED
    BY <1>1, HandoverCorrect, PTL

(* The executable and property list of every driver in the memory map are  *)
(* bytes of its image, as they were loaded.                                *)
THEOREM HandoffDriversIntact == OperatorSpec => []HandoffDrivers
<1>1. Handover => HandoffDrivers
    BY DEF Handover, AfterJump
<1> QED
    BY <1>1, HandoverCorrect, PTL

(* mach_boot jumps to a byte of the kernel.                                *)
THEOREM JumpsIntoKernel == OperatorSpec => []EntryInKernel
<1>1. Handover => EntryInKernel
    BY DEF Handover, AfterJump
<1> QED
    BY <1>1, HandoverCorrect, PTL
=============================================================================
