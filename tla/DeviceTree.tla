----------------------------- MODULE DeviceTree -----------------------------
(***************************************************************************)
(* The in-memory device tree (device_tree/device_tree.c) through a boot:   *)
(* a parser builds it node by node, mach_boot adds the memory map, flattens*)
(* it and finalizes it, a kernel reload tears it down.                     *)
(*                                                                         *)
(* Nodes and properties are carved from blocks of kAllocSize bytes whose   *)
(* first slot links the block for later freeing.  The blocks come from a   *)
(* heap of HeapBlocks blocks.  Nodes are numbered in the order they were   *)
(* taken; a property is its length.                                        *)
(***************************************************************************)
EXTENDS Integers, Sequences, SequencesExt, FiniteSetsExt

CONSTANTS
    NodesPerBlock,      \* kAllocSize / sizeof(Node), the first one included
    PropertiesPerBlock, \* kAllocSize / sizeof(Property)
    HeapBlocks,         \* the blocks malloc can give
    NodeSize,           \* sizeof(DeviceTreeNode)
    PropertySize,       \* sizeof(DeviceTreeNodeProperty)
    NameLength,         \* strlen(name) + 1 of a named node
    Lengths,            \* the lengths of property values
    RangeLength,        \* 2 * sizeof(uint32_t), a range of the memory map
    MaxNodes,           \* the bound on the nodes of a tree
    MaxProperties       \* the bound on its properties

ASSUME PoolAssumption ==
    /\ NodesPerBlock \in Nat \ {0, 1}
    /\ PropertiesPerBlock \in Nat \ {0, 1}
    /\ HeapBlocks \in Nat
    /\ NodeSize \in Nat
    /\ PropertySize \in Nat
    /\ NameLength \in Nat
    /\ Lengths \subseteq Nat
    /\ RangeLength \in Nat
    /\ MaxNodes \in Nat
    /\ MaxProperties \in Nat

VARIABLES
    dt,         \* the statics of device_tree.c and the heap, see Empty
    phase,      \* "idle", "parsing", "loaded" (gHasDeviceTree is set),
                \* "booting", "flat", "running", or "halted" after a NULL node
    path,       \* the nodes the parser is in, from the root down
    memory_map, \* the node of mach_boot, 0 if none
    left,       \* history: the blocks parses that failed have left
    flat        \* what DT__FlattenDeviceTree announced and wrote

vars == <<dt, phase, path, memory_map, left, flat>>

(* dt: the number of slots on each free list and of blocks on each alloced *)
(* list, the blocks taken from the heap, the nodes with their parent and   *)
(* their properties, the root (0 is NULL), and DTInfo.                     *)
Empty ==
    [freeNodes |-> 0, allocedNodes |-> 0,
     freeProperties |-> 0, allocedProperties |-> 0,
     live |-> 0,
     nodes |-> <<>>, rootNode |-> 0,
     numNodes |-> 0, numProperties |-> 0, totalPropertySize |-> 0]

RoundToLong(x) == ((x + 3) \div 4) * 4

-----------------------------------------------------------------------------
(***************************************************************************)
(* The operations of device_tree.c, as functions of the state.             *)
(***************************************************************************)
malloc_ok(d) == d.live < HeapBlocks

(* Mutant: the slot that links the block is given out too. *)
RefillProperties_AllSlots(d) ==
    IF d.freeProperties = 0 /\ malloc_ok(d)
    THEN [d EXCEPT !.freeProperties = PropertiesPerBlock,
                   !.allocedProperties = @ + 1, !.live = @ + 1]
    ELSE d

(* The free list after a refill, if it was empty and there was a block.    *)
RefillProperties(d) ==
    IF d.freeProperties = 0 /\ malloc_ok(d)
    THEN [d EXCEPT !.freeProperties = PropertiesPerBlock - 1,
                   !.allocedProperties = @ + 1, !.live = @ + 1]
    ELSE d

RefillNodes(d) ==
    IF d.freeNodes = 0 /\ malloc_ok(d)
    THEN [d EXCEPT !.freeNodes = NodesPerBlock - 1,
                   !.allocedNodes = @ + 1, !.live = @ + 1]
    ELSE d

(* Mutant: the counter forgets that values are padded. *)
DT__AddProperty_NotRounded(d, node, length) ==
    LET e == RefillProperties(d)
    IN  IF e.freeProperties = 0 THEN e
        ELSE [e EXCEPT !.freeProperties = @ - 1,
                       !.nodes[node].properties = Append(@, length),
                       !.numProperties = @ + 1,
                       !.totalPropertySize = @ + length]

(* Without a free slot nothing is added; the callers do not look.          *)
DT__AddProperty(d, node, length) ==
    LET e == RefillProperties(d)
    IN  IF e.freeProperties = 0 THEN e
        ELSE [e EXCEPT !.freeProperties = @ - 1,
                       !.nodes[node].properties = Append(@, length),
                       !.numProperties = @ + 1,
                       !.totalPropertySize = @ + RoundToLong(length)]

(* The new state and the node, 0 if there is none.  A node without a       *)
(* parent becomes the root.                                                *)
DT__AddChild(d, parent, named) ==
    LET e == RefillNodes(d)
        node == Len(e.nodes) + 1
        f == [e EXCEPT !.freeNodes = @ - 1,
                       !.nodes = Append(@, [parent |-> parent, properties |-> <<>>]),
                       !.rootNode = IF parent = 0 THEN node ELSE @,
                       !.numNodes = @ + 1]
    IN  IF e.freeNodes = 0 THEN [dt |-> e, node |-> 0]
        ELSE [dt |-> IF named THEN DT__AddProperty(f, node, NameLength) ELSE f,
              node |-> node]

(* The lists are forgotten, whatever is on them; the heap keeps the blocks *)
DT__Initialize(d) ==
    LET r == DT__AddChild([Empty EXCEPT !.live = d.live], 0, TRUE)
    IN  [r.dt EXCEPT !.rootNode = r.node]

(* Mutant: the blocks of properties stay allocated. *)
DT__Finalize_NodesOnly(d) == [Empty EXCEPT !.live = d.live - d.allocedNodes]

(* The blocks of both lists go back to the heap.  Only the first slot of a *)
(* block is visited; its value is the block.                               *)
(* A block's link is read after the block is freed; the allocator leaves   *)
(* it alone until the next malloc.                                         *)
DT__Finalize(d) ==
    [Empty EXCEPT !.live = d.live - (d.allocedNodes + d.allocedProperties)]

(* FlattenNodes: the bytes written for a node, its properties and, through *)
(* the list of children, the nodes below it.  A child is numbered after    *)
(* its parent.                                                             *)
OwnSize(node) ==
    NodeSize + FoldLeft(LAMBDA n, l : n + PropertySize + RoundToLong(l), 0,
                        node.properties)

Children(d, n) == {m \in DOMAIN d.nodes : d.nodes[m].parent = n}

FlattenNodes(d) ==
    LET Written[n \in 1 .. Len(d.nodes)] ==
            OwnSize(d.nodes[n]) +
            MapThenSumSet(LAMBDA m : Written[m], Children(d, n))
    IN  IF d.rootNode = 0 THEN 0 ELSE Written[d.rootNode]

(* The size announced to the caller, which reserves memory for it. *)
DT__FlattenDeviceTree(d) ==
    d.numNodes * NodeSize + d.numProperties * PropertySize + d.totalPropertySize

-----------------------------------------------------------------------------
Init ==
    /\ dt = Empty
    /\ phase = "idle"
    /\ path = <<>>
    /\ memory_map = 0
    /\ left = 0
    /\ flat = [announced |-> 0, written |-> 0]

(***************************************************************************)
(* parse_xml_device_tree and build_device_tree.  The parser walks a tree   *)
(* of dictionaries; a property is one key of a dictionary.                 *)
(***************************************************************************)
ParseStart ==
    /\ phase = "idle"
    /\ dt' = DT__Initialize(dt)
    /\ IF dt'.rootNode = 0      \* the parser goes on with a NULL node
       THEN phase' = "halted" /\ path' = <<>>
       ELSE phase' = "parsing" /\ path' = <<dt'.rootNode>>
    /\ UNCHANGED <<memory_map, left, flat>>

ParseChild ==
    /\ phase = "parsing"
    /\ dt.numNodes < MaxNodes
    /\ LET r == DT__AddChild(dt, Last(path), FALSE)
       IN  /\ dt' = r.dt
           /\ IF r.node = 0     \* as above
              THEN phase' = "halted" /\ UNCHANGED path
              ELSE path' = Append(path, r.node) /\ UNCHANGED phase
    /\ UNCHANGED <<memory_map, left, flat>>

ParseProperty(length) ==
    /\ phase = "parsing"
    /\ dt.numProperties < MaxProperties
    /\ dt' = DT__AddProperty(dt, Last(path), length)
    /\ UNCHANGED <<phase, path, memory_map, left, flat>>

(* The end of a dictionary; that of the root ends the parse. *)
ParseUp ==
    /\ phase = "parsing"
    /\ path' = Front(path)
    /\ phase' = IF Len(path) = 1 THEN "loaded" ELSE "parsing"
    /\ UNCHANGED <<dt, memory_map, left, flat>>

(* Malformed input: the parser returns and leaves the tree as it is. *)
ParseFails ==
    /\ phase = "parsing"
    /\ phase' = "idle"
    /\ path' = <<>>
    /\ left' = left + dt.allocedNodes + dt.allocedProperties
    /\ UNCHANGED <<dt, memory_map, flat>>

(***************************************************************************)
(* mach_boot.                                                              *)
(***************************************************************************)
create_memory_map ==
    /\ phase = "loaded"
    /\ LET chosen == DT__AddChild(dt, dt.rootNode, TRUE)
           map == DT__AddChild(chosen.dt, chosen.node, TRUE)
       IN  /\ dt' = map.dt
           /\ memory_map' = map.node
           /\ phase' = IF map.node = 0 THEN "halted" ELSE "booting"
    /\ UNCHANGED <<path, left, flat>>

(* allocate_memory_range reports success whatever DT__AddProperty answers. *)
enter_memory_range ==
    /\ phase = "booting"
    /\ dt.numProperties < MaxProperties
    /\ dt' = DT__AddProperty(dt, memory_map, RangeLength)
    /\ UNCHANGED <<phase, path, memory_map, left, flat>>

flatten_device_tree ==
    /\ phase = "booting"
    /\ phase' = "flat"
    /\ flat' = [announced |-> DT__FlattenDeviceTree(dt), written |-> FlattenNodes(dt)]
    /\ UNCHANGED <<dt, path, memory_map, left>>

BootSucceeds ==
    /\ phase = "flat"
    /\ phase' = "running"
    /\ dt' = DT__Finalize(dt)
    /\ UNCHANGED <<path, memory_map, left, flat>>

(* A failed boot finalizes the tree; gHasDeviceTree stays set. *)
BootFails ==
    /\ phase = "booting"
    /\ dt' = DT__Finalize(dt)
    /\ phase' = "loaded"
    /\ memory_map' = 0
    /\ UNCHANGED <<path, left, flat>>

(* teardown_old_loader_context; without gHasDeviceTree it leaves the tree. *)
Teardown ==
    /\ phase = "loaded"
    /\ dt' = DT__Finalize(dt)
    /\ phase' = "idle"
    /\ UNCHANGED <<path, memory_map, left, flat>>

Next ==
    \/ ParseStart
    \/ ParseChild
    \/ \E length \in Lengths : ParseProperty(length)
    \/ ParseUp
    \/ ParseFails
    \/ create_memory_map
    \/ enter_memory_range
    \/ flatten_device_tree
    \/ BootSucceeds
    \/ BootFails
    \/ Teardown

Spec == Init /\ [][Next]_vars

-----------------------------------------------------------------------------
(* The memory mach_boot reserves for the flattened tree is exactly what    *)
(* FlattenNodes writes: the counters of DTInfo follow the tree through     *)
(* failed parses, failed allocations and trees without a parsed root.      *)
SizeExact == flat.announced = flat.written

(* No slot is lost or given out twice: the slots taken and the slots on    *)
(* the free lists are all the slots of the blocks on the alloced lists.    *)
PoolExact ==
    /\ dt.freeNodes + dt.numNodes = dt.allocedNodes * (NodesPerBlock - 1)
    /\ dt.freeProperties + dt.numProperties =
          dt.allocedProperties * (PropertiesPerBlock - 1)

(* No block is lost through boots that fail, reloads and exhaustion: what  *)
(* is held is on the lists, and once a tree was torn down only the blocks  *)
(* of parses that failed are left, which teardown does not reach.          *)
BlocksReleased ==
    dt.live = left + (IF phase = "idle" THEN 0 ELSE dt.allocedNodes + dt.allocedProperties)
=============================================================================
