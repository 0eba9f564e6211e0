--------------------------- MODULE DeviceTreeProofs ---------------------------
(***************************************************************************)
(* Proofs about DeviceTree: the free lists, the blocks, the nodes and the  *)
(* size of the flattened tree, for blocks of any size, a heap of any size  *)
(* and trees of any shape.                                                 *)
(***************************************************************************)
EXTENDS DeviceTree, SequenceTheorems, FiniteSetTheorems, WellFoundedInduction, TLAPS

(***************************************************************************)
(* The strengthening.  The pools are exact and no block is lost only if    *)
(* every node the parser or mach_boot adds to is a node of the tree.       *)
(***************************************************************************)
Node == [parent : Nat, properties : Seq(Nat)]
Nodes == Seq(Node)

Pool ==
    [freeNodes : Nat, allocedNodes : Nat,
     freeProperties : Nat, allocedProperties : Nat,
     live : Nat,
     nodes : Nodes, rootNode : Nat,
     numNodes : Nat, numProperties : Nat, totalPropertySize : Nat]

Exact(d) ==
    /\ d.freeNodes + d.numNodes = d.allocedNodes * (NodesPerBlock - 1)
    /\ d.freeProperties + d.numProperties =
          d.allocedProperties * (PropertiesPerBlock - 1)

Held(d) == d.allocedNodes + d.allocedProperties

(* What every operation keeps: the blocks taken are those on the lists,    *)
(* and no node goes away.                                                  *)
Keeps(d, e) ==
    /\ e \in Pool
    /\ Exact(e)
    /\ e.live + Held(d) = d.live + Held(e)
    /\ DOMAIN d.nodes \subseteq DOMAIN e.nodes

Tree ==
    /\ dt \in Pool
    /\ Exact(dt)
    /\ left \in Nat
    /\ dt.live = left + (IF phase = "idle" THEN 0 ELSE Held(dt))
    /\ path \in Seq(DOMAIN dt.nodes)
    /\ phase = "parsing" => path # <<>>
    /\ phase # "parsing" => path = <<>> \/ phase = "halted"
    /\ phase = "booting" => memory_map \in DOMAIN dt.nodes

-----------------------------------------------------------------------------
(* The path of the parser: a node deeper, a node up. *)
LEMMA PathDown ==
    ASSUME NEW S, NEW s \in Seq(S), NEW x \in S
    PROVE  Append(s, x) \in Seq(S) /\ Append(s, x) # <<>>
BY AppendProperties

LEMMA PathUp ==
    ASSUME NEW S, NEW s \in Seq(S), s # <<>>
    PROVE  /\ Front(s) \in Seq(S)
           /\ Front(s) = <<>> <=> Len(s) = 1
<1>1. Len(s) \in Nat \ {0}
    OBVIOUS
<1>2. \A i \in 1 .. (Len(s) - 1) : s[i] \in S
    BY <1>1
<1>3. /\ Front(s) \in Seq(S)
      /\ Len(Front(s)) = IF 1 <= Len(s) - 1 THEN Len(s) - 1 - 1 + 1 ELSE 0
    BY <1>1, <1>2, SubSeqProperties DEF Front
<1>4. Front(s) = <<>> <=> Len(Front(s)) = 0
    BY <1>3, EmptySeq
<1>5. \A n \in Nat \ {0} : \A m :
          m = (IF 1 <= n - 1 THEN n - 1 - 1 + 1 ELSE 0) => (m = 0 <=> n = 1)
    OBVIOUS
<1>6. Len(Front(s)) = 0 <=> Len(s) = 1
    BY <1>1, <1>3, <1>5, Zenon
<1> QED
    BY <1>3, <1>4, <1>6

(* One block more. *)
LEMMA OneMore ==
    ASSUME NEW a \in Nat, NEW k \in Nat
    PROVE  (a + 1) * k = a * k + k
OBVIOUS

(* An empty pool has nothing to account for. *)
LEMMA EmptyPool ==
    ASSUME NEW n \in Nat
    PROVE  /\ [Empty EXCEPT !.live = n] \in Pool
           /\ Exact([Empty EXCEPT !.live = n])
           /\ Held([Empty EXCEPT !.live = n]) = 0
           /\ [Empty EXCEPT !.live = n].live = n
           /\ DOMAIN [Empty EXCEPT !.live = n].nodes = {}
<1> DEFINE e == [Empty EXCEPT !.live = n]
<1>1. e = [freeNodes |-> 0, allocedNodes |-> 0,
           freeProperties |-> 0, allocedProperties |-> 0,
           live |-> n,
           nodes |-> <<>>, rootNode |-> 0,
           numNodes |-> 0, numProperties |-> 0, totalPropertySize |-> 0]
    BY DEF Empty
<1>2. <<>> \in Nodes /\ DOMAIN <<>> = {}
    BY DEF Nodes
<1> HIDE DEF e
<1>3. e \in Pool /\ e.live = n /\ DOMAIN e.nodes = {}
    BY <1>1, <1>2 DEF Pool
<1>4. NodesPerBlock - 1 \in Nat /\ PropertiesPerBlock - 1 \in Nat
    BY PoolAssumption
<1>5. Exact(e) /\ Held(e) = 0
    BY <1>1, <1>4 DEF Exact, Held
<1> QED
    BY <1>3, <1>5 DEF e

(* A refill takes a block and links all its slots but the first.           *)
LEMMA RefillKeeps ==
    ASSUME NEW d \in Pool, Exact(d)
    PROVE  /\ Keeps(d, RefillNodes(d)) /\ RefillNodes(d).nodes = d.nodes
           /\ Keeps(d, RefillProperties(d)) /\ RefillProperties(d).nodes = d.nodes
<1>1. /\ NodesPerBlock - 1 \in Nat /\ PropertiesPerBlock - 1 \in Nat
      /\ d.allocedNodes \in Nat /\ d.allocedProperties \in Nat /\ d.live \in Nat
      /\ d.numNodes \in Nat /\ d.numProperties \in Nat
    BY PoolAssumption DEF Pool
<1>2. Keeps(d, d)
    BY <1>1 DEF Keeps, Held
<1>3. ASSUME d.freeNodes = 0, malloc_ok(d)
      PROVE  Keeps(d, RefillNodes(d)) /\ RefillNodes(d).nodes = d.nodes
    <2> DEFINE e == RefillNodes(d)
               slots == NodesPerBlock - 1
               alloced == d.allocedNodes + 1
               live == d.live + 1
    <2>1. e = [d EXCEPT !.freeNodes = slots, !.allocedNodes = alloced, !.live = live]
        BY <1>3 DEF RefillNodes
    <2>2. slots \in Nat /\ alloced \in Nat /\ live \in Nat
        BY <1>1
    <2> HIDE DEF e, slots, alloced, live
    <2>3. /\ e \in Pool /\ e.nodes = d.nodes /\ e.live = live
          /\ e.freeNodes = slots /\ e.numNodes = d.numNodes
          /\ e.freeProperties = d.freeProperties
          /\ e.numProperties = d.numProperties
          /\ e.allocedNodes = alloced
          /\ e.allocedProperties = d.allocedProperties
        BY <2>1, <2>2 DEF Pool
    <2>4. Exact(e)
        BY <1>1, <1>3, <2>3, OneMore DEF Exact, slots, alloced
    <2>5. e.live + Held(d) = d.live + Held(e)
        BY <1>1, <2>3 DEF Held, alloced, live
    <2>6. Keeps(d, e)
        BY <2>3, <2>4, <2>5 DEF Keeps
    <2> QED
        BY <2>3, <2>6 DEF e
<1>4. ASSUME d.freeProperties = 0, malloc_ok(d)
      PROVE  Keeps(d, RefillProperties(d)) /\ RefillProperties(d).nodes = d.nodes
    <2> DEFINE e == RefillProperties(d)
               slots == PropertiesPerBlock - 1
               alloced == d.allocedProperties + 1
               live == d.live + 1
    <2>1. e = [d EXCEPT !.freeProperties = slots, !.allocedProperties = alloced, !.live = live]
        BY <1>4 DEF RefillProperties
    <2>2. slots \in Nat /\ alloced \in Nat /\ live \in Nat
        BY <1>1
    <2> HIDE DEF e, slots, alloced, live
    <2>3. /\ e \in Pool /\ e.nodes = d.nodes /\ e.live = live
          /\ e.freeNodes = d.freeNodes /\ e.numNodes = d.numNodes
          /\ e.freeProperties = slots
          /\ e.numProperties = d.numProperties
          /\ e.allocedNodes = d.allocedNodes
          /\ e.allocedProperties = alloced
        BY <2>1, <2>2 DEF Pool
    <2>4. Exact(e)
        BY <1>1, <1>4, <2>3, OneMore DEF Exact, slots, alloced
    <2>5. e.live + Held(d) = d.live + Held(e)
        BY <1>1, <2>3 DEF Held, alloced, live
    <2>6. Keeps(d, e)
        BY <2>3, <2>4, <2>5 DEF Keeps
    <2> QED
        BY <2>3, <2>6 DEF e
<1>5. /\ ~(d.freeNodes = 0 /\ malloc_ok(d)) => RefillNodes(d) = d
      /\ ~(d.freeProperties = 0 /\ malloc_ok(d)) => RefillProperties(d) = d
    BY DEF RefillNodes, RefillProperties
<1>6. Keeps(d, RefillNodes(d)) /\ RefillNodes(d).nodes = d.nodes
    BY <1>2, <1>3, <1>5
<1>7. Keeps(d, RefillProperties(d)) /\ RefillProperties(d).nodes = d.nodes
    BY <1>2, <1>4, <1>5
<1> QED
    BY <1>6, <1>7

(* Two operations that keep the pool keep it one after the other. *)
LEMMA KeepsBoth ==
    ASSUME NEW d \in Pool, NEW e, NEW f, Keeps(d, e), Keeps(e, f)
    PROVE  Keeps(d, f)
<1>1. \A x \in Pool : x.live \in Nat /\ Held(x) \in Nat
    BY DEF Pool, Held
<1> QED
    BY <1>1 DEF Keeps

(* A property takes a slot of the free list, or nothing. *)
LEMMA AddPropertyKeeps ==
    ASSUME NEW d \in Pool, Exact(d), NEW node \in DOMAIN d.nodes, NEW length \in Nat
    PROVE  Keeps(d, DT__AddProperty(d, node, length))
<1> DEFINE e == RefillProperties(d)
           f == DT__AddProperty(d, node, length)
           properties == Append(e.nodes[node].properties, length)
           nodes == [e.nodes EXCEPT ![node].properties = properties]
<1>1. Keeps(d, e) /\ e.nodes = d.nodes
    BY RefillKeeps
<1>2. f = IF e.freeProperties = 0 THEN e
          ELSE [e EXCEPT !.freeProperties = @ - 1,
                         !.nodes = nodes,
                         !.numProperties = @ + 1,
                         !.totalPropertySize = @ + RoundToLong(length)]
    BY DEF DT__AddProperty
<1> HIDE DEF e, f
<1>3. e \in Pool /\ Exact(e)
    BY <1>1 DEF Keeps
<1>4. nodes \in Nodes /\ DOMAIN nodes = DOMAIN e.nodes
    <2>1. e.nodes \in Seq(Node) /\ node \in DOMAIN e.nodes
        BY <1>1, <1>3 DEF Pool, Nodes
    <2>2. e.nodes[node] \in Node
        BY <2>1
    <2>3. properties \in Seq(Nat)
        BY <2>2 DEF Node
    <2>4. [e.nodes[node] EXCEPT !.properties = properties] \in Node
        BY <2>2, <2>3 DEF Node
    <2>5. nodes = [e.nodes EXCEPT ![node] = [e.nodes[node] EXCEPT !.properties = properties]]
        OBVIOUS
    <2> HIDE DEF nodes, properties
    <2> QED
        BY <2>1, <2>4, <2>5 DEF Nodes
<1>5. RoundToLong(length) \in Nat
    BY DEF RoundToLong
<1> HIDE DEF nodes
<1>6. CASE e.freeProperties # 0
    <2> DEFINE free == e.freeProperties - 1
               num == e.numProperties + 1
               total == e.totalPropertySize + RoundToLong(length)
    <2>1. f = [e EXCEPT !.freeProperties = free, !.nodes = nodes,
                        !.numProperties = num, !.totalPropertySize = total]
        BY <1>2, <1>6
    <2>2. /\ e.freeProperties \in Nat /\ e.numProperties \in Nat
          /\ e.totalPropertySize \in Nat
        BY <1>3 DEF Pool
    <2>3. free \in Nat /\ num \in Nat /\ total \in Nat
        BY <1>5, <1>6, <2>2
    <2> HIDE DEF free, num, total
    <2>4. /\ f \in Pool /\ f.nodes = nodes /\ f.live = e.live
          /\ f.freeProperties = free /\ f.numProperties = num
          /\ f.allocedProperties = e.allocedProperties
          /\ f.freeNodes = e.freeNodes /\ f.numNodes = e.numNodes
          /\ f.allocedNodes = e.allocedNodes
        BY <1>3, <1>4, <2>1, <2>3 DEF Pool
    <2>5. Exact(f)
        BY <1>3, <2>2, <2>4 DEF Exact, free, num
    <2>6. Keeps(e, f)
        BY <1>4, <2>4, <2>5 DEF Keeps, Held
    <2> QED
        BY <1>1, <2>6, KeepsBoth DEF f
<1>7. CASE e.freeProperties = 0
    BY <1>1, <1>2, <1>7 DEF f
<1> QED
    BY <1>6, <1>7

(* A node takes a slot, or there is no node; with a name it takes a        *)
(* property too.                                                           *)
LEMMA AddChildKeeps ==
    ASSUME NEW d \in Pool, Exact(d), NEW parent \in Nat, NEW named \in BOOLEAN
    PROVE  LET r == DT__AddChild(d, parent, named)
           IN  /\ Keeps(d, r.dt)
               /\ r.node \in Nat
               /\ r.node # 0 => r.node \in DOMAIN r.dt.nodes
<1> DEFINE e == RefillNodes(d)
           node == Len(e.nodes) + 1
           child == [parent |-> parent, properties |-> <<>>]
           f == [e EXCEPT !.freeNodes = @ - 1,
                          !.nodes = Append(@, child),
                          !.rootNode = IF parent = 0 THEN node ELSE @,
                          !.numNodes = @ + 1]
           r == DT__AddChild(d, parent, named)
<1>1. Keeps(d, e)
    BY RefillKeeps
<1>2. r = IF e.freeNodes = 0 THEN [dt |-> e, node |-> 0]
          ELSE [dt |-> IF named THEN DT__AddProperty(f, node, NameLength) ELSE f,
                node |-> node]
    BY DEF DT__AddChild
<1> HIDE DEF e, r
<1>3. e \in Pool /\ Exact(e)
    BY <1>1 DEF Keeps
<1>4. CASE e.freeNodes # 0
    <2>1. /\ e.nodes \in Seq(Node) /\ node \in Nat /\ node # 0
          /\ child \in Node
        <3>1. e.nodes \in Nodes
            BY <1>3 DEF Pool
        <3> QED
            BY <3>1 DEF Node, Nodes
    <2>2. /\ Append(e.nodes, child) \in Nodes
          /\ DOMAIN e.nodes \subseteq DOMAIN Append(e.nodes, child)
          /\ node \in DOMAIN Append(e.nodes, child)
        <3> HIDE DEF child
        <3> QED
            BY <2>1 DEF Nodes
    <2> DEFINE nodes == Append(e.nodes, child)
               root == IF parent = 0 THEN node ELSE e.rootNode
               free == e.freeNodes - 1
               num == e.numNodes + 1
    <2>3. f = [e EXCEPT !.freeNodes = free, !.nodes = nodes,
                        !.rootNode = root, !.numNodes = num]
        OBVIOUS
    <2> HIDE DEF child, node, f
    <2>4. e.freeNodes \in Nat /\ e.numNodes \in Nat /\ e.rootNode \in Nat
        BY <1>3 DEF Pool
    <2>5. free \in Nat /\ num \in Nat /\ root \in Nat /\ nodes \in Nodes
        BY <1>4, <2>1, <2>2, <2>4
    <2> HIDE DEF nodes, root, free, num
    <2>9. /\ f \in Pool /\ f.nodes = nodes /\ f.live = e.live
          /\ f.freeNodes = free /\ f.numNodes = num
          /\ f.allocedNodes = e.allocedNodes
          /\ f.freeProperties = e.freeProperties
          /\ f.numProperties = e.numProperties
          /\ f.allocedProperties = e.allocedProperties
        BY <1>3, <2>3, <2>5 DEF Pool
    <2>10. Exact(f)
        BY <1>3, <2>4, <2>9 DEF Exact, free, num
    <2>11. Keeps(e, f) /\ node \in DOMAIN f.nodes
        BY <2>2, <2>9, <2>10 DEF Keeps, Held, nodes
    <2>6. Keeps(d, f)
        BY <1>1, <2>11, KeepsBoth
    <2>7. CASE named
        <3>1. NameLength \in Nat /\ node \in DOMAIN f.nodes
            BY <2>11, PoolAssumption
        <3>2. Keeps(f, DT__AddProperty(f, node, NameLength))
            BY <2>9, <2>10, <3>1, AddPropertyKeeps
        <3>3. r.dt = DT__AddProperty(f, node, NameLength) /\ r.node = node
            BY <1>2, <1>4, <2>7
        <3>4. Keeps(d, r.dt)
            BY <2>6, <3>2, <3>3, KeepsBoth
        <3>5. node \in DOMAIN r.dt.nodes
            BY <3>1, <3>2, <3>3 DEF Keeps
        <3> QED
            BY <2>1, <3>3, <3>4, <3>5 DEF r
    <2>8. CASE ~named
        BY <1>2, <1>4, <2>1, <2>6, <2>8, <2>11 DEF r
    <2> QED
        BY <2>7, <2>8
<1>5. CASE e.freeNodes = 0
    BY <1>1, <1>2, <1>5 DEF r
<1> QED
    BY <1>4, <1>5

(* Finalizing gives back all the blocks on the lists. *)
LEMMA FinalizeEmpties ==
    ASSUME NEW d \in Pool, NEW n \in Nat, d.live = n + Held(d)
    PROVE  /\ DT__Finalize(d) \in Pool
           /\ Exact(DT__Finalize(d))
           /\ Held(DT__Finalize(d)) = 0
           /\ DT__Finalize(d).live = n
<1>1. Held(d) \in Nat
    BY DEF Pool, Held
<1>2. DT__Finalize(d) = [Empty EXCEPT !.live = n]
    <2>1. d.live - (d.allocedNodes + d.allocedProperties) = n
        BY <1>1 DEF Held
    <2> QED
        BY <2>1 DEF DT__Finalize
<1> QED
    BY <1>2, EmptyPool

-----------------------------------------------------------------------------
(* A parse starts with empty lists; what an earlier one left stays taken.  *)
LEMMA StartTree ==
    ASSUME Tree, ParseStart
    PROVE  Tree'
<1> DEFINE empty == [Empty EXCEPT !.live = dt.live]
           r == DT__AddChild(empty, 0, TRUE)
<1>1. phase = "idle" /\ dt.live = left /\ left \in Nat /\ left' = left
    BY DEF Tree, ParseStart
<1>2. /\ empty \in Pool /\ Exact(empty) /\ Held(empty) = 0 /\ empty.live = left
    BY <1>1, EmptyPool
<1>3. dt' = [r.dt EXCEPT !.rootNode = r.node]
    BY DEF ParseStart, DT__Initialize
<1> HIDE DEF empty
<1>4. /\ Keeps(empty, r.dt) /\ r.node \in Nat
      /\ r.node # 0 => r.node \in DOMAIN r.dt.nodes
    <2>1. 0 \in Nat /\ TRUE \in BOOLEAN
        OBVIOUS
    <2> QED
        BY <1>2, <2>1, AddChildKeeps, Zenon
<1> HIDE DEF r
<1>5. /\ r.dt \in Pool /\ Exact(r.dt) /\ r.dt.live = left + Held(r.dt)
    <2>1. r.dt \in Pool /\ Exact(r.dt) /\ r.dt.live + 0 = left + Held(r.dt)
        BY <1>2, <1>4 DEF Keeps
    <2>2. r.dt.live \in Nat
        BY <2>1 DEF Pool
    <2> QED
        BY <2>1, <2>2
<1>6. /\ dt' \in Pool /\ Exact(dt') /\ dt'.live = left + Held(dt')
      /\ dt'.nodes = r.dt.nodes /\ dt'.rootNode = r.node
    <2>1. /\ dt' \in Pool /\ dt'.live = r.dt.live /\ Held(dt') = Held(r.dt)
          /\ dt'.nodes = r.dt.nodes /\ dt'.rootNode = r.node
        BY <1>3, <1>4, <1>5 DEF Pool, Held
    <2>2. Exact(dt')
        BY <1>3, <1>5 DEF Exact, Pool
    <2> QED
        BY <1>5, <2>1, <2>2
<1>7. CASE dt'.rootNode = 0
    <2>1. phase' = "halted" /\ path' = <<>>
        BY <1>7 DEF ParseStart
    <2> QED
        BY <1>1, <1>6, <2>1 DEF Tree
<1>8. CASE dt'.rootNode # 0
    <2>1. phase' = "parsing" /\ path' = <<dt'.rootNode>>
        BY <1>8 DEF ParseStart
    <2>2. path' \in Seq(DOMAIN dt'.nodes) /\ path' # <<>>
        <3>1. <<>> \in Seq(DOMAIN dt'.nodes) /\ Append(<<>>, dt'.rootNode) = <<dt'.rootNode>>
            OBVIOUS
        <3>2. dt'.rootNode \in DOMAIN dt'.nodes
            BY <1>4, <1>6, <1>8
        <3> QED
            BY <2>1, <3>1, <3>2, PathDown
    <2> QED
        BY <1>1, <1>6, <2>1, <2>2 DEF Tree
<1> QED
    BY <1>7, <1>8

(* An operation on the tree of a phase that holds its blocks. *)
LEMMA OperationTree ==
    ASSUME Tree, phase # "idle", Keeps(dt, dt'), UNCHANGED left
    PROVE  /\ dt' \in Pool /\ Exact(dt') /\ left' \in Nat
           /\ dt'.live = left' + Held(dt')
           /\ \A s \in Seq(DOMAIN dt.nodes) : s \in Seq(DOMAIN dt'.nodes)
<1>1. dt \in Pool /\ dt.live = left + Held(dt) /\ left \in Nat
    BY DEF Tree
<1>2. /\ dt' \in Pool /\ Exact(dt') /\ dt'.live + Held(dt) = dt.live + Held(dt')
      /\ DOMAIN dt.nodes \subseteq DOMAIN dt'.nodes
    BY DEF Keeps
<1>3. Held(dt) \in Nat /\ Held(dt') \in Nat /\ dt'.live \in Nat
    BY <1>1, <1>2 DEF Pool, Held
<1> QED
    BY <1>1, <1>2, <1>3

(* Every step of a boot keeps the pools, the blocks and the path.          *)
LEMMA TreeStep ==
    ASSUME Tree, [Next]_vars
    PROVE  Tree'
<1>1. CASE ParseStart
    BY <1>1, StartTree
<1>2. CASE ParseChild
    <2> DEFINE r == DT__AddChild(dt, Last(path), FALSE)
    <2>1. /\ phase = "parsing" /\ dt' = r.dt /\ UNCHANGED left
          /\ IF r.node = 0 THEN phase' = "halted" /\ path' = path
             ELSE path' = Append(path, r.node) /\ phase' = phase
        BY <1>2 DEF ParseChild
    <2>2. /\ path \in Seq(DOMAIN dt.nodes) /\ path # <<>> /\ dt \in Pool /\ Exact(dt)
          /\ DOMAIN dt.nodes \subseteq Nat
        <3>1. dt.nodes \in Nodes
            BY DEF Tree, Pool
        <3> QED
            BY <2>1, <3>1 DEF Tree, Nodes
    <2>3. Last(path) \in Nat
        BY <2>2 DEF Last
    <2>4. Keeps(dt, r.dt) /\ (r.node # 0 => r.node \in DOMAIN r.dt.nodes)
        BY <2>2, <2>3, AddChildKeeps
    <2> HIDE DEF r
    <2>5. /\ dt' \in Pool /\ Exact(dt') /\ left' \in Nat
          /\ dt'.live = left' + Held(dt') /\ path \in Seq(DOMAIN dt'.nodes)
        BY <2>1, <2>2, <2>4, OperationTree
    <2>6. path' \in Seq(DOMAIN dt'.nodes) /\ path' # <<>>
        <3>1. CASE r.node = 0
            BY <2>1, <2>2, <2>5, <3>1
        <3>2. CASE r.node # 0
            BY <2>1, <2>4, <2>5, <3>2, PathDown
        <3> QED
            BY <3>1, <3>2
    <2> QED
        BY <2>1, <2>5, <2>6 DEF Tree
<1>3. CASE \E length \in Lengths : ParseProperty(length)
    <2>1. PICK length \in Lengths : ParseProperty(length)
        BY <1>3
    <2>2. /\ phase = "parsing" /\ dt' = DT__AddProperty(dt, Last(path), length)
          /\ UNCHANGED <<phase, path, left>>
        BY <2>1 DEF ParseProperty
    <2>3. length \in Nat /\ Last(path) \in DOMAIN dt.nodes /\ dt \in Pool /\ Exact(dt)
        BY <2>2, PoolAssumption DEF Tree, Last
    <2>4. Keeps(dt, dt')
        BY <2>2, <2>3, AddPropertyKeeps
    <2> QED
        BY <2>2, <2>4, OperationTree DEF Tree
<1>4. CASE ParseUp
    <2>1. /\ UNCHANGED <<dt, left>> /\ phase = "parsing" /\ path' = Front(path)
          /\ phase' = IF Len(path) = 1 THEN "loaded" ELSE "parsing"
        BY <1>4 DEF ParseUp
    <2>2. path \in Seq(DOMAIN dt.nodes) /\ path # <<>>
        BY <2>1 DEF Tree
    <2>3. /\ Front(path) \in Seq(DOMAIN dt.nodes)
          /\ Len(path) = 1 => Front(path) = <<>>
          /\ Len(path) # 1 => Front(path) # <<>>
        BY <2>2, PathUp
    <2> QED
        BY <2>1, <2>3 DEF Tree
<1>5. CASE ParseFails
    <2>1. /\ phase = "parsing" /\ phase' = "idle" /\ path' = <<>> /\ dt' = dt
          /\ left' = left + dt.allocedNodes + dt.allocedProperties
        BY <1>5 DEF ParseFails
    <2>2. dt.live = left + Held(dt) /\ dt \in Pool /\ left \in Nat
        BY <2>1 DEF Tree
    <2>3. left' \in Nat /\ dt'.live = left'
        BY <2>1, <2>2 DEF Held, Pool
    <2> QED
        BY <2>1, <2>3 DEF Tree
<1>6. CASE create_memory_map
    <2> DEFINE chosen == DT__AddChild(dt, dt.rootNode, TRUE)
               map == DT__AddChild(chosen.dt, chosen.node, TRUE)
    <2>1. /\ phase = "loaded" /\ dt' = map.dt /\ memory_map' = map.node
          /\ phase' = (IF map.node = 0 THEN "halted" ELSE "booting")
          /\ UNCHANGED <<path, left>>
        BY <1>6 DEF create_memory_map
    <2>2. dt \in Pool /\ Exact(dt) /\ dt.rootNode \in Nat
        BY DEF Tree, Pool
    <2>3. Keeps(dt, chosen.dt) /\ chosen.node \in Nat
        BY <2>2, AddChildKeeps
    <2> HIDE DEF chosen
    <2>4. Keeps(chosen.dt, map.dt) /\ (map.node # 0 => map.node \in DOMAIN map.dt.nodes)
        BY <2>3, AddChildKeeps DEF Keeps
    <2> HIDE DEF map
    <2>5. Keeps(dt, dt')
        BY <2>1, <2>2, <2>3, <2>4, KeepsBoth
    <2>6. /\ dt' \in Pool /\ Exact(dt') /\ left' \in Nat
          /\ dt'.live = left' + Held(dt') /\ path' \in Seq(DOMAIN dt'.nodes)
        BY <2>1, <2>5, OperationTree DEF Tree
    <2>7. path' = <<>>
        BY <2>1 DEF Tree
    <2> QED
        BY <2>1, <2>4, <2>6, <2>7 DEF Tree
<1>7. CASE enter_memory_range
    <2>1. /\ phase = "booting" /\ dt' = DT__AddProperty(dt, memory_map, RangeLength)
          /\ UNCHANGED <<phase, path, memory_map, left>>
        BY <1>7 DEF enter_memory_range
    <2>2. Keeps(dt, dt')
        BY <2>1, AddPropertyKeeps, PoolAssumption DEF Tree
    <2>3. memory_map' \in DOMAIN dt'.nodes
        BY <2>1, <2>2 DEF Tree, Keeps
    <2> QED
        BY <2>1, <2>2, <2>3, OperationTree DEF Tree
<1>8. CASE flatten_device_tree
    BY <1>8 DEF flatten_device_tree, Tree
<1>9. CASE BootSucceeds \/ BootFails \/ Teardown
    <2>1. /\ phase \in {"flat", "booting", "loaded"} /\ dt' = DT__Finalize(dt)
          /\ phase' \in {"running", "loaded", "idle"} /\ UNCHANGED <<path, left>>
        BY <1>9 DEF BootSucceeds, BootFails, Teardown
    <2>2. /\ dt \in Pool /\ left \in Nat /\ dt.live = left + Held(dt) /\ path = <<>>
        BY <2>1 DEF Tree
    <2>3. /\ dt' \in Pool /\ Exact(dt') /\ Held(dt') = 0 /\ dt'.live = left
        BY <2>1, <2>2, FinalizeEmpties
    <2>4. path' \in Seq(DOMAIN dt'.nodes)
        BY <2>1, <2>2
    <2> QED
        BY <2>1, <2>2, <2>3, <2>4 DEF Tree
<1>10. CASE UNCHANGED vars
    BY <1>10 DEF vars, Tree
<1> QED
    BY <1>1, <1>2, <1>3, <1>4, <1>5, <1>6, <1>7, <1>8, <1>9, <1>10 DEF Next

LEMMA TreeInit == Init => Tree
<1> SUFFICES ASSUME Init PROVE Tree
    OBVIOUS
<1>1. Empty = [Empty EXCEPT !.live = 0] /\ DOMAIN Empty.nodes = {}
    BY DEF Empty
<1>2. /\ dt \in Pool /\ Exact(dt) /\ dt.live = 0
    BY <1>1, EmptyPool DEF Init
<1> QED
    BY <1>2 DEF Init, Tree

(* Whatever is parsed, booted, torn down and exhausted, in whatever order. *)
THEOREM TreeCorrect == Spec => []Tree
<1> QED
    BY TreeInit, TreeStep, PTL DEF Spec

(* No slot of a block is lost or given out twice, for blocks of any size.  *)
THEOREM PoolStaysExact == Spec => []PoolExact
<1>1. Tree => PoolExact
    BY DEF Tree, Exact, PoolExact
<1> QED
    BY <1>1, TreeCorrect, PTL

(* What is taken from the heap is on the lists; a teardown leaves only the *)
(* blocks of parses that failed.                                           *)
THEOREM BlocksAreReleased == Spec => []BlocksReleased
<1>1. Tree => BlocksReleased
    BY DEF Tree, Held, BlocksReleased
<1> QED
    BY <1>1, TreeCorrect, PTL

-----------------------------------------------------------------------------
(***************************************************************************)
(* FlattenNodes adds up with the folds of the library and with a recursive *)
(* function.  That there is exactly one such function is shown here, over  *)
(* the smallest set or number for which it would fail.                     *)
(***************************************************************************)
(* Every set of numbers that is not empty has a smallest one. *)
LEMMA Smallest ==
    ASSUME NEW S \in SUBSET Nat, S # {}
    PROVE  \E x \in S : \A y \in S : x <= y
<1>1. PICK x \in S : \A y \in S : ~(<<y, x>> \in OpToRel(<, Nat))
    BY NatLessThanWellFounded, WFMin
<1>2. \A y \in S : x <= y
    <2> SUFFICES ASSUME NEW y \in S PROVE ~(y < x)
        BY SMT
    <2>1. \A r : r \in OpToRel(<, Nat) <=> r \in Nat \X Nat /\ r[1] < r[2]
        BY Zenon DEF OpToRel
    <2>2. <<y, x>> \in Nat \X Nat /\ <<y, x>>[1] = y /\ <<y, x>>[2] = x
        BY SMT
    <2> QED
        BY <1>1, <2>1, <2>2, Zenon
<1> QED
    BY <1>2

(* An element of every set that is not empty. *)
Chooses(choose, S) == \A s \in SUBSET S : s # {} => choose[s] \in s

(* What the folds of the library compute: choose takes the elements of a   *)
(* set one by one, step adds one to the result for the others.             *)
IsFold(g, S, base, choose, step) ==
    \A s \in SUBSET S :
        g[s] = IF s = {} THEN base ELSE step[<<choose[s], g[s \ {choose[s]}]>>]

(* The same of a function that is not known to give numbers. *)
Follows(h, S, base, choose, step) ==
    /\ h[{}] = base
    /\ \A s \in SUBSET S : s # {} /\ h[s \ {choose[s]}] \in Nat =>
          h[s] = step[<<choose[s], h[s \ {choose[s]}]>>]

(* There is a fold, by adding the sets of one element more. *)
LEMMA FoldExists ==
    ASSUME NEW S, IsFiniteSet(S), NEW base \in Nat,
           NEW choose, Chooses(choose, S),
           NEW step, \A x \in S : \A a \in Nat : step[<<x, a>>] \in Nat
    PROVE  \E g \in [SUBSET S -> Nat] : IsFold(g, S, base, choose, step)
<1> DEFINE Upto(n) == {s \in SUBSET S : Cardinality(s) <= n}
           Good(n) == \E g \in [SUBSET S -> Nat] : \A s \in Upto(n) :
                g[s] = IF s = {} THEN base ELSE step[<<choose[s], g[s \ {choose[s]}]>>]
           Bad == {n \in Nat : ~Good(n)}
<1>1. \A s \in SUBSET S : IsFiniteSet(s) /\ Cardinality(s) \in Nat
    BY FS_Subset, FS_CardinalityType
<1>2. ASSUME NEW m \in Nat, m = 0 \/ Good(m - 1)
      PROVE  Good(m)
    <2>1. PICK f \in [SUBSET S -> Nat] : m # 0 => \A s \in Upto(m - 1) :
              f[s] = IF s = {} THEN base ELSE step[<<choose[s], f[s \ {choose[s]}]>>]
        <3>1. CASE m = 0
            <4>1. [s \in SUBSET S |-> base] \in [SUBSET S -> Nat]
                OBVIOUS
            <4> QED
                BY <3>1, <4>1
        <3> QED
            BY <1>2, <3>1
    <2> DEFINE next(s) == IF s = {} THEN base ELSE step[<<choose[s], f[s \ {choose[s]}]>>]
               g == [s \in SUBSET S |-> next(s)]
    <2>2. \A s \in SUBSET S : next(s) \in Nat
        <3> SUFFICES ASSUME NEW s \in SUBSET S, s # {} PROVE next(s) \in Nat
            OBVIOUS
        <3>1. choose[s] \in S /\ s \ {choose[s]} \in SUBSET S
            BY DEF Chooses
        <3>2. f[s \ {choose[s]}] \in Nat
            BY <2>1, <3>1
        <3> QED
            BY <3>1, <3>2
    <2>3. ASSUME NEW s \in Upto(m)
          PROVE  g[s] = IF s = {} THEN base ELSE step[<<choose[s], g[s \ {choose[s]}]>>]
        <3>1. s \in SUBSET S /\ Cardinality(s) <= m
            OBVIOUS
        <3>2. CASE s = {}
            BY <3>1, <3>2
        <3>3. CASE s # {}
            <4> DEFINE t == s \ {choose[s]}
            <4>1. choose[s] \in s
                BY <3>1, <3>3 DEF Chooses
            <4>2. t \in SUBSET S
                BY <3>1
            <4>3. Cardinality(t) = Cardinality(s) - 1
                BY <1>1, <3>1, <4>1, FS_RemoveElement
            <4>4. Cardinality(t) \in Nat /\ Cardinality(s) \in Nat
                BY <1>1, <3>1, <4>2
            <4>5. m # 0 /\ t \in Upto(m - 1)
                <5> HIDE DEF t
                <5> QED
                    BY <3>1, <4>2, <4>3, <4>4
            <4>6. f[t] = next(t)
                BY <2>1, <4>5
            <4>7. g[t] = next(t) /\ g[s] = next(s)
                BY <3>1, <4>2
            <4>8. next(s) = step[<<choose[s], f[t]>>]
                BY <3>3
            <4> HIDE DEF next, g, Upto
            <4> QED
                BY <3>3, <4>6, <4>7, <4>8
        <3> QED
            BY <3>2, <3>3
    <2>4. g \in [SUBSET S -> Nat]
        BY <2>2
    <2> HIDE DEF g, Upto
    <2> QED
        BY <2>3, <2>4
<1>3. Bad = {}
    <2> SUFFICES ASSUME Bad # {} PROVE FALSE
        OBVIOUS
    <2> HIDE DEF Good
    <2>1. PICK m \in Bad : \A n \in Bad : m <= n
        BY Smallest
    <2>2. m \in Nat /\ ~Good(m)
        OBVIOUS
    <2>3. m # 0 => m - 1 \in Nat /\ ~(m <= m - 1)
        BY <2>2
    <2>4. m # 0 => Good(m - 1)
        BY <2>1, <2>3
    <2> QED
        BY <1>2, <2>2, <2>4
<1>4. Cardinality(S) \in Nat /\ Upto(Cardinality(S)) = SUBSET S
    BY <1>1, FS_Subset, FS_CardinalityType
<1>5. Good(Cardinality(S))
    <2> HIDE DEF Good
    <2> QED
        BY <1>3, <1>4
<1> HIDE DEF Upto
<1> QED
    BY <1>4, <1>5 DEF IsFold

(* A fold has no other result; that of h need not be known to be a number. *)
LEMMA FoldUnique ==
    ASSUME NEW S, IsFiniteSet(S), NEW base,
           NEW choose, Chooses(choose, S),
           NEW step, NEW g \in [SUBSET S -> Nat], IsFold(g, S, base, choose, step),
           NEW h, Follows(h, S, base, choose, step)
    PROVE  g[S] = h[S]
<1> DEFINE Bad == {n \in Nat : \E s \in SUBSET S : Cardinality(s) = n /\ g[s] # h[s]}
<1>1. \A s \in SUBSET S : IsFiniteSet(s) /\ Cardinality(s) \in Nat
    BY FS_Subset, FS_CardinalityType
<1>2. Bad = {}
    <2> SUFFICES ASSUME Bad # {} PROVE FALSE
        OBVIOUS
    <2>1. Bad \in SUBSET Nat
        OBVIOUS
    <2>2. PICK m \in Bad : \A n \in Bad : m <= n
        <3> HIDE DEF Bad
        <3> QED
            BY <2>1, Smallest
    <2>3. PICK s \in SUBSET S : Cardinality(s) = m /\ g[s] # h[s]
        OBVIOUS
    <2>4. s # {}
        BY <2>3 DEF IsFold, Follows
    <2> DEFINE t == s \ {choose[s]}
    <2>5. choose[s] \in s /\ t \in SUBSET S
        BY <2>4 DEF Chooses
    <2>6. Cardinality(t) = m - 1 /\ m \in Nat /\ Cardinality(t) \in Nat
        BY <1>1, <2>3, <2>5, FS_RemoveElement
    <2>7. ~(m <= Cardinality(t))
        <3> HIDE DEF t
        <3> QED
            BY <2>6
    <2>8. g[t] = h[t]
        <3> HIDE DEF t
        <3>1. Cardinality(t) \notin Bad
            BY <2>2, <2>7
        <3> QED
            BY <2>5, <2>6, <3>1
    <2>9. g[s] = step[<<choose[s], g[t]>>] /\ h[s] = step[<<choose[s], h[t]>>]
        <3>1. g[s] = step[<<choose[s], g[t]>>]
            BY <2>4 DEF IsFold, Follows
        <3>2. h[t] \in Nat
            BY <2>5, <2>8
        <3> QED
            BY <2>4, <3>1, <3>2 DEF Follows
    <2> QED
        BY <2>3, <2>8, <2>9
<1> QED
    BY <1>1, <1>2

(***************************************************************************)
(* Sums over a set, in any order.                                          *)
(***************************************************************************)
Total(f, S) == MapThenSumSet(LAMBDA m : f[m], S)

AnyOf(S) == [s \in SUBSET S |-> CHOOSE x \in s : TRUE]
Plus(f, S) == [p \in S \X Nat |-> f[p[1]] + p[2]]

IsSum(g, f, S) ==
    g = [s \in SUBSET S |-> IF s = {} THEN 0
         ELSE f[CHOOSE x \in s : TRUE] + g[s \ {CHOOSE x \in s : TRUE}]]

(* The choice and the step of a sum. *)
LEMMA SumTypes ==
    ASSUME NEW S, NEW f, \A x \in S : f[x] \in Nat
    PROVE  /\ Chooses(AnyOf(S), S)
           /\ \A x \in S : \A a \in Nat : Plus(f, S)[<<x, a>>] \in Nat
           /\ \A x \in S : \A a \in Nat : Plus(f, S)[<<x, a>>] = f[x] + a
<1>1. Chooses(AnyOf(S), S)
    BY DEF AnyOf, Chooses
<1>2. ASSUME NEW x \in S, NEW a \in Nat
      PROVE  Plus(f, S)[<<x, a>>] = f[x] + a
    BY DEF Plus
<1> QED
    BY <1>1, <1>2

(* The function MapThenSumSet chooses is the fold. *)
LEMMA SumIsFold ==
    ASSUME NEW S, IsFiniteSet(S), NEW f, \A x \in S : f[x] \in Nat
    PROVE  \E g \in [SUBSET S -> Nat] :
              IsFold(g, S, 0, AnyOf(S), Plus(f, S)) /\ Total(f, S) = g[S]
<1> DEFINE choose == AnyOf(S)
           step == Plus(f, S)
<1>0. /\ 0 \in Nat
      /\ Chooses(choose, S)
      /\ \A x \in S : \A a \in Nat : step[<<x, a>>] \in Nat
      /\ \A x \in S : \A a \in Nat : step[<<x, a>>] = f[x] + a
    BY SumTypes
<1> HIDE DEF choose, step
<1>1. PICK g \in [SUBSET S -> Nat] : IsFold(g, S, 0, choose, step)
    BY <1>0, FoldExists
<1>2. ASSUME NEW h \in [SUBSET S -> Nat], IsFold(h, S, 0, choose, step)
      PROVE  IsSum(h, f, S)
    <2>1. ASSUME NEW s \in SUBSET S
          PROVE  h[s] = IF s = {} THEN 0
                 ELSE f[CHOOSE x \in s : TRUE] + h[s \ {CHOOSE x \in s : TRUE}]
        <3>1. CASE s # {}
            <4> DEFINE x == CHOOSE x \in s : TRUE
            <4>1. x = choose[s] /\ x \in s
                BY <3>1 DEF choose, AnyOf
            <4>2. x \in S /\ s \ {x} \in SUBSET S
                BY <4>1
            <4>3. h[s \ {x}] \in Nat
                BY <4>2
            <4>4. h[s] = step[<<x, h[s \ {x}]>>]
                BY <1>2, <3>1, <4>1 DEF IsFold
            <4> HIDE DEF x
            <4>5. h[s] = f[x] + h[s \ {x}]
                BY <4>2, <4>3, <4>4, <1>0
            <4> QED
                BY <3>1, <4>5 DEF x
        <3>2. CASE s = {}
            BY <1>2, <3>2 DEF IsFold
        <3> QED
            BY <3>1, <3>2
    <2>2. h = [s \in SUBSET S |-> h[s]]
        OBVIOUS
    <2> QED
        BY <2>1, <2>2 DEF IsSum
<1> DEFINE h == CHOOSE h : IsSum(h, f, S)
<1>3. IsSum(h, f, S)
    BY <1>1, <1>2, Zenon
<1>4. Total(f, S) = h[S]
    BY DEF Total, MapThenSumSet, MapThenFoldSet, IsSum
<1> HIDE DEF h
<1>5. ASSUME NEW s \in SUBSET S, s # {}
      PROVE  /\ choose[s] \in S
             /\ h[s] = f[choose[s]] + h[s \ {choose[s]}]
    <2>1. choose[s] = (CHOOSE x \in s : TRUE)
        BY DEF choose, AnyOf
    <2>2. choose[s] \in S
        BY <1>0, <1>5 DEF Chooses
    <2> QED
        BY <1>3, <1>5, <2>1, <2>2 DEF IsSum
<1>6. h[{}] = 0
    BY <1>3 DEF IsSum
<1>7. \A s \in SUBSET S : s # {} /\ h[s \ {choose[s]}] \in Nat =>
          h[s] = step[<<choose[s], h[s \ {choose[s]}]>>]
    BY <1>0, <1>5
<1>8. Follows(h, S, 0, choose, step)
    BY <1>6, <1>7 DEF Follows
<1>9. g[S] = h[S]
    <2>1. IsFiniteSet(S) /\ Chooses(choose, S)
        BY <1>0
    <2> QED
        BY <1>1, <1>8, <2>1, FoldUnique
<1> QED
    BY <1>1, <1>4, <1>9 DEF choose, step

(* A sum of numbers is a number, and nothing is 0. *)
LEMMA SumType ==
    ASSUME NEW S, IsFiniteSet(S), NEW f, \A x \in S : f[x] \in Nat
    PROVE  Total(f, S) \in Nat
<1>1. PICK g \in [SUBSET S -> Nat] : Total(f, S) = g[S]
    BY SumIsFold
<1> QED
    BY <1>1

LEMMA SumEmpty == ASSUME NEW f PROVE Total(f, {}) = 0
<1>1. IsFiniteSet({}) /\ \A x \in {} : f[x] \in Nat
    BY FS_EmptySet
<1>2. PICK g \in [SUBSET {} -> Nat] :
          IsFold(g, {}, 0, AnyOf({}), Plus(f, {})) /\ Total(f, {}) = g[{}]
    BY <1>1, SumIsFold
<1> QED
    BY <1>2 DEF IsFold

(* The element a fold takes from a set is the same in every larger one. *)
Takes(g, f, S) ==
    /\ g[{}] = 0
    /\ \A s \in SUBSET S : s # {} => \A x : x = (CHOOSE y \in s : TRUE) =>
          g[s] = f[x] + g[s \ {x}]

LEMMA SumTakes ==
    ASSUME NEW S, IsFiniteSet(S), NEW f, \A x \in S : f[x] \in Nat
    PROVE  \E g \in [SUBSET S -> Nat] : Takes(g, f, S) /\ Total(f, S) = g[S]
<1>1. PICK g \in [SUBSET S -> Nat] :
          IsFold(g, S, 0, AnyOf(S), Plus(f, S)) /\ Total(f, S) = g[S]
    BY SumIsFold
<1>2. ASSUME NEW s \in SUBSET S, s # {}, NEW x, x = (CHOOSE y \in s : TRUE)
      PROVE  g[s] = f[x] + g[s \ {x}]
    <2>1. x = AnyOf(S)[s] /\ x \in s
        BY <1>2 DEF AnyOf
    <2>2. x \in S /\ s \ {x} \in SUBSET S
        BY <2>1
    <2>3. g[s \ {x}] \in Nat
        BY <2>2
    <2>4. g[s] = Plus(f, S)[<<x, g[s \ {x}]>>]
        BY <1>1, <1>2, <2>1 DEF IsFold
    <2> QED
        BY <2>2, <2>3, <2>4, SumTypes
<1>3. g[{}] = 0
    BY <1>1 DEF IsFold
<1> QED
    BY <1>1, <1>2, <1>3 DEF Takes

(* Whatever takes elements like that is the sum. *)
LEMMA TakesSum ==
    ASSUME NEW S, IsFiniteSet(S), NEW f, \A x \in S : f[x] \in Nat,
           NEW h, Takes(h, f, S)
    PROVE  Total(f, S) = h[S]
<1> DEFINE choose == AnyOf(S)
           step == Plus(f, S)
<1>1. PICK g \in [SUBSET S -> Nat] : IsFold(g, S, 0, choose, step) /\ Total(f, S) = g[S]
    BY SumIsFold
<1>2. Chooses(choose, S)
    BY SumTypes
<1>3. Follows(h, S, 0, choose, step)
    <2>1. ASSUME NEW s \in SUBSET S, s # {}, h[s \ {choose[s]}] \in Nat
          PROVE  h[s] = step[<<choose[s], h[s \ {choose[s]}]>>]
        <3> DEFINE x == choose[s]
        <3>1. x \in s /\ x = (CHOOSE y \in s : TRUE)
            BY <2>1 DEF AnyOf
        <3>2. x \in S
            BY <3>1
        <3> HIDE DEF x
        <3>3. h[s] = f[x] + h[s \ {x}]
            BY <2>1, <3>1 DEF Takes
        <3>4. h[s \ {x}] \in Nat
            BY <2>1 DEF x
        <3>5. Plus(f, S)[<<x, h[s \ {x}]>>] = f[x] + h[s \ {x}]
            BY <3>2, <3>4, SumTypes
        <3> QED
            BY <3>3, <3>5 DEF x
    <2>2. h[{}] = 0
        BY DEF Takes
    <2> HIDE DEF choose, step
    <2> QED
        BY <2>1, <2>2 DEF Follows
<1> HIDE DEF choose, step
<1>4. g[S] = h[S]
    BY <1>1, <1>2, <1>3, FoldUnique
<1> QED
    BY <1>1, <1>4

(* One element, whichever the library takes, and the sum of the others. *)
LEMMA SumTake ==
    ASSUME NEW S, IsFiniteSet(S), S # {}, NEW f, \A x \in S : f[x] \in Nat
    PROVE  \E x \in S : Total(f, S) = f[x] + Total(f, S \ {x})
<1> DEFINE x == CHOOSE x \in S : TRUE
           T == S \ {x}
<1>1. x \in S /\ T \in SUBSET S
    OBVIOUS
<1>2. IsFiniteSet(T) /\ \A y \in T : f[y] \in Nat
    BY FS_Subset
<1>3. PICK g \in [SUBSET S -> Nat] : Takes(g, f, S) /\ Total(f, S) = g[S]
    BY SumTakes
<1>4. Takes(g, f, T)
    BY <1>1, <1>3 DEF Takes
<1>5. g[S] = f[x] + g[T]
    BY <1>3 DEF Takes
<1> HIDE DEF T
<1>6. Total(f, T) = g[T]
    BY <1>2, <1>4, TakesSum
<1> QED
    BY <1>1, <1>3, <1>5, <1>6 DEF T

(* What is said of every finite set follows if it follows for a set of     *)
(* which no smaller one fails.                                             *)
LEMMA SmallestSet ==
    ASSUME NEW S, IsFiniteSet(S), NEW Bad \in SUBSET SUBSET S, Bad # {}
    PROVE  \E s \in Bad : /\ IsFiniteSet(s)
                          /\ \A x \in s : s \ {x} \in (SUBSET S) \ Bad
<1> DEFINE Sizes == {Cardinality(s) : s \in Bad}
<1>1. \A s \in SUBSET S : IsFiniteSet(s) /\ Cardinality(s) \in Nat
    BY FS_Subset, FS_CardinalityType
<1>2. Sizes \in SUBSET Nat /\ Sizes # {}
    BY <1>1
<1>3. PICK m \in Sizes : \A n \in Sizes : m <= n
    <2> HIDE DEF Sizes
    <2> QED
        BY <1>2, Smallest
<1>4. PICK s \in Bad : Cardinality(s) = m
    OBVIOUS
<1>5. ASSUME NEW x \in s PROVE s \ {x} \in (SUBSET S) \ Bad
    <2>1. s \ {x} \in SUBSET S /\ Cardinality(s \ {x}) = m - 1 /\ m \in Nat
        BY <1>1, <1>4, FS_RemoveElement
    <2>2. s \ {x} \notin Bad
        <3> SUFFICES ASSUME s \ {x} \in Bad PROVE FALSE
            OBVIOUS
        <3>1. Cardinality(s \ {x}) \in Sizes
            OBVIOUS
        <3> HIDE DEF Sizes
        <3> QED
            BY <1>3, <2>1, <3>1
    <2> QED
        BY <2>1, <2>2
<1> QED
    BY <1>1, <1>4, <1>5

(* So it does not matter which is chosen. *)
LEMMA SumStep ==
    ASSUME NEW S, IsFiniteSet(S), NEW f, \A x \in S : f[x] \in Nat,
           NEW x \in S
    PROVE  Total(f, S) = f[x] + Total(f, S \ {x})
<1> DEFINE Bad == {s \in SUBSET S : \E y \in s : Total(f, s) # f[y] + Total(f, s \ {y})}
<1>1. Bad \in SUBSET SUBSET S
    OBVIOUS
<1>2. ASSUME Bad # {} PROVE FALSE
    <2>1. PICK s \in Bad : IsFiniteSet(s) /\ \A y \in s : s \ {y} \in (SUBSET S) \ Bad
        <3> HIDE DEF Bad
        <3> QED
            BY <1>1, <1>2, SmallestSet
    <2>2. PICK y \in s : Total(f, s) # f[y] + Total(f, s \ {y})
        OBVIOUS
    <2>3. \A z \in s : f[z] \in Nat
        OBVIOUS
    <2>4. PICK z \in s : Total(f, s) = f[z] + Total(f, s \ {z})
        BY <2>1, <2>2, <2>3, SumTake
    <2>5. y # z
        BY <2>2, <2>4
    <2> DEFINE both == (s \ {z}) \ {y}
    <2>6. Total(f, s \ {z}) = f[y] + Total(f, both)
        <3>1. s \ {z} \in SUBSET S /\ s \ {z} \notin Bad
            BY <2>1
        <3>2. y \in s \ {z}
            BY <2>5
        <3> QED
            BY <3>1, <3>2
    <2>7. Total(f, s \ {y}) = f[z] + Total(f, both)
        <3>1. s \ {y} \in SUBSET S /\ s \ {y} \notin Bad
            BY <2>1
        <3>2. z \in s \ {y} /\ (s \ {y}) \ {z} = both
            BY <2>5
        <3> QED
            BY <3>1, <3>2
    <2>8. Total(f, both) \in Nat
        <3>1. IsFiniteSet(both) /\ \A q \in both : f[q] \in Nat
            BY <2>1, FS_Subset
        <3> HIDE DEF both
        <3> QED
            BY <3>1, SumType
    <2>9. f[y] \in Nat /\ f[z] \in Nat
        OBVIOUS
    <2> HIDE DEF both, Bad
    <2> QED
        BY <2>2, <2>4, <2>6, <2>7, <2>8, <2>9
<1>3. S \notin Bad
    BY <1>2
<1> QED
    BY <1>3

(* Nor what the function is elsewhere. *)
LEMMA SumSame ==
    ASSUME NEW S, IsFiniteSet(S), NEW f, NEW g,
           \A x \in S : f[x] \in Nat /\ f[x] = g[x]
    PROVE  Total(f, S) = Total(g, S)
<1> DEFINE Bad == {s \in SUBSET S : Total(f, s) # Total(g, s)}
<1>1. Bad \in SUBSET SUBSET S
    OBVIOUS
<1>2. ASSUME Bad # {} PROVE FALSE
    <2>1. PICK s \in Bad : IsFiniteSet(s) /\ \A y \in s : s \ {y} \in (SUBSET S) \ Bad
        <3> HIDE DEF Bad
        <3> QED
            BY <1>1, <1>2, SmallestSet
    <2>2. s \in SUBSET S /\ Total(f, s) # Total(g, s)
        OBVIOUS
    <2>3. s # {}
        BY <2>2, SumEmpty
    <2>4. PICK x \in s : TRUE
        BY <2>3
    <2>5. Total(f, s \ {x}) = Total(g, s \ {x})
        BY <2>1
    <2>6. \A y \in s : f[y] \in Nat /\ g[y] \in Nat
        BY <2>2
    <2>7. Total(f, s) = f[x] + Total(f, s \ {x}) /\ Total(g, s) = g[x] + Total(g, s \ {x})
        BY <2>1, <2>6, SumStep
    <2>8. f[x] = g[x]
        BY <2>2
    <2> QED
        BY <2>2, <2>5, <2>7, <2>8
<1> QED
    BY <1>2

(* Two sets that share nothing. *)
LEMMA SumUnion ==
    ASSUME NEW S, IsFiniteSet(S), NEW T, IsFiniteSet(T), S \cap T = {},
           NEW f, \A x \in S \cup T : f[x] \in Nat
    PROVE  Total(f, S \cup T) = Total(f, S) + Total(f, T)
<1> DEFINE Bad == {s \in SUBSET S : Total(f, s \cup T) # Total(f, s) + Total(f, T)}
<1>1. Bad \in SUBSET SUBSET S
    OBVIOUS
<1>2. ASSUME Bad # {} PROVE FALSE
    <2>1. PICK s \in Bad : IsFiniteSet(s) /\ \A y \in s : s \ {y} \in (SUBSET S) \ Bad
        <3> HIDE DEF Bad
        <3> QED
            BY <1>1, <1>2, SmallestSet
    <2>2. s \in SUBSET S /\ Total(f, s \cup T) # Total(f, s) + Total(f, T)
        OBVIOUS
    <2>3. Total(f, T) \in Nat
        BY SumType
    <2>4. CASE s = {}
        <3>1. s \cup T = T /\ Total(f, s) = 0
            BY <2>4, SumEmpty
        <3>2. 0 + Total(f, T) = Total(f, T)
            BY <2>3
        <3> HIDE DEF Bad
        <3> QED
            BY <2>2, <3>1, <3>2
    <2>5. CASE s # {}
        <3>1. PICK x \in s : TRUE
            BY <2>5
        <3> DEFINE rest == s \ {x}
        <3>2. Total(f, rest \cup T) = Total(f, rest) + Total(f, T)
            BY <2>1
        <3>3. (s \cup T) \ {x} = rest \cup T /\ x \in s \cup T
            BY <2>2
        <3>4. IsFiniteSet(s \cup T) /\ \A y \in s \cup T : f[y] \in Nat
            BY <2>1, FS_Union
        <3>5. Total(f, s \cup T) = f[x] + Total(f, (s \cup T) \ {x})
            BY <3>3, <3>4, SumStep
        <3>6. Total(f, s) = f[x] + Total(f, rest)
            BY <2>1, <3>4, SumStep
        <3>7. Total(f, rest) \in Nat /\ f[x] \in Nat
            <4>1. IsFiniteSet(rest) /\ \A y \in rest : f[y] \in Nat
                BY <2>1, FS_Subset
            <4> HIDE DEF rest
            <4> QED
                BY <3>4, <4>1, SumType
        <3> HIDE DEF rest
        <3> QED
            BY <2>2, <2>3, <3>2, <3>3, <3>5, <3>6, <3>7
    <2> QED
        BY <2>4, <2>5
<1>3. S \notin Bad
    BY <1>2
<1> QED
    BY <1>3

-----------------------------------------------------------------------------
(***************************************************************************)
(* What a node takes up.                                                   *)
(***************************************************************************)
Latest(p) == [s \in SUBSET DOMAIN p |-> Max(s)]
Padded(p) == [q \in (DOMAIN p) \X Nat |-> q[2] + PropertySize + RoundToLong(p[q[1]])]

IsOwn(g, p) ==
    g = [s \in SUBSET DOMAIN p |-> IF s = {} THEN 0
         ELSE g[s \ {Max(s)}] + PropertySize + RoundToLong(p[Max(s)])]

(* The last property of some is the first the fold takes. *)
LEMMA MaxOf ==
    ASSUME NEW n \in Nat, NEW s \in SUBSET (1 .. n), s # {}
    PROVE  Max(s) \in s /\ \A y \in s : y <= Max(s)
<1> DEFINE up == {n - x : x \in s}
<1>1. up \in SUBSET Nat /\ up # {}
    <2>1. \A x \in s : n - x \in Nat
        OBVIOUS
    <2>2. PICK x \in s : TRUE
        OBVIOUS
    <2>3. n - x \in up
        OBVIOUS
    <2>4. \A u \in up : u \in Nat
        BY <2>1
    <2> HIDE DEF up
    <2> QED
        BY <2>3, <2>4
<1>2. PICK u \in up : \A v \in up : u <= v
    <2> HIDE DEF up
    <2> QED
        BY <1>1, Smallest
<1>3. PICK x \in s : u = n - x
    OBVIOUS
<1>4. \A y \in s : n - x <= n - y
    BY <1>2, <1>3
<1>5. \A y \in s : x >= y
    BY <1>4
<1>6. Max(s) \in s /\ \A y \in s : Max(s) >= y
    BY <1>5, Zenon DEF Max
<1> QED
    BY <1>6

(* The choice and the step of the fold over the properties. *)
LEMMA OwnTypes ==
    ASSUME NEW p \in Seq(Nat)
    PROVE  /\ IsFiniteSet(DOMAIN p)
           /\ DOMAIN p = 1 .. Len(p) /\ Len(p) \in Nat
           /\ Chooses(Latest(p), DOMAIN p)
           /\ \A s \in SUBSET DOMAIN p : s # {} => Latest(p)[s] = Max(s)
           /\ \A x \in DOMAIN p : RoundToLong(p[x]) \in Nat
           /\ \A x \in DOMAIN p : \A a \in Nat :
                /\ Padded(p)[<<x, a>>] \in Nat
                /\ Padded(p)[<<x, a>>] = a + PropertySize + RoundToLong(p[x])
<1>1. DOMAIN p = 1 .. Len(p) /\ Len(p) \in Nat
    OBVIOUS
<1>2. IsFiniteSet(DOMAIN p)
    BY <1>1, FS_Interval
<1>3. /\ Chooses(Latest(p), DOMAIN p)
      /\ \A s \in SUBSET DOMAIN p : s # {} => Latest(p)[s] = Max(s)
    BY <1>1, MaxOf DEF Latest, Chooses
<1>4. \A l \in Nat : RoundToLong(l) \in Nat
    BY DEF RoundToLong
<1>5. \A x \in DOMAIN p : RoundToLong(p[x]) \in Nat
    BY <1>4
<1>6. ASSUME NEW x \in DOMAIN p, NEW a \in Nat
      PROVE  Padded(p)[<<x, a>>] = a + PropertySize + RoundToLong(p[x])
    BY DEF Padded
<1>7. PropertySize \in Nat
    BY PoolAssumption
<1> QED
    BY <1>1, <1>2, <1>3, <1>5, <1>6, <1>7

(* The function FoldLeft chooses is the fold. *)
LEMMA OwnIsFold ==
    ASSUME NEW node \in Node
    PROVE  \E g \in [SUBSET DOMAIN node.properties -> Nat] :
              /\ IsFold(g, DOMAIN node.properties, 0, Latest(node.properties),
                        Padded(node.properties))
              /\ OwnSize(node) = NodeSize + g[DOMAIN node.properties]
<1> DEFINE p == node.properties
           S == DOMAIN p
           choose == Latest(p)
           step == Padded(p)
<1>0. p \in Seq(Nat)
    BY DEF Node
<1>1. /\ IsFiniteSet(S) /\ 0 \in Nat
      /\ Chooses(choose, S)
      /\ \A s \in SUBSET S : s # {} => choose[s] = Max(s)
      /\ \A x \in S : \A a \in Nat :
            step[<<x, a>>] \in Nat /\ step[<<x, a>>] = a + PropertySize + RoundToLong(p[x])
    <2> HIDE DEF p
    <2> QED
        BY <1>0, OwnTypes
<1> DEFINE h == CHOOSE h : IsOwn(h, p)
<1>2. OwnSize(node) = NodeSize + h[S]
    BY DEF OwnSize, FoldLeft, MapThenFoldSet, IsOwn
<1>3. S = DOMAIN p /\ h = (CHOOSE g : IsOwn(g, p))
    OBVIOUS
<1> HIDE DEF p, S, choose, step, h
<1>4. PICK g \in [SUBSET S -> Nat] : IsFold(g, S, 0, choose, step)
    <2>1. IsFiniteSet(S) /\ Chooses(choose, S) /\ 0 \in Nat
          /\ \A x \in S : \A a \in Nat : step[<<x, a>>] \in Nat
        BY <1>1
    <2> QED
        BY <2>1, FoldExists
<1>5. IsOwn(g, p)
    <2>1. ASSUME NEW s \in SUBSET S
          PROVE  g[s] = IF s = {} THEN 0
                 ELSE g[s \ {Max(s)}] + PropertySize + RoundToLong(p[Max(s)])
        <3>1. CASE s = {}
            BY <1>4, <3>1 DEF IsFold
        <3>2. CASE s # {}
            <4> DEFINE x == Max(s)
            <4>1. x = choose[s] /\ x \in S /\ s \ {x} \in SUBSET S
                BY <1>1, <3>2 DEF Chooses
            <4> HIDE DEF x
            <4>2. g[s \ {x}] \in Nat
                BY <4>1
            <4>3. g[s] = step[<<x, g[s \ {x}]>>]
                BY <1>4, <3>2, <4>1 DEF IsFold
            <4>4. g[s] = g[s \ {x}] + PropertySize + RoundToLong(p[x])
                BY <1>1, <4>1, <4>2, <4>3
            <4> QED
                BY <3>2, <4>4 DEF x
        <3> QED
            BY <3>1, <3>2
    <2>2. g = [s \in SUBSET DOMAIN p |-> g[s]]
        BY <1>3
    <2> QED
        BY <1>3, <2>1, <2>2 DEF IsOwn
<1>6. IsOwn(h, p)
    BY <1>3, <1>5, Zenon
<1>7. Follows(h, S, 0, choose, step)
    <2>1. h[{}] = 0
        BY <1>6 DEF IsOwn
    <2>2. ASSUME NEW s \in SUBSET S, s # {}, h[s \ {choose[s]}] \in Nat
          PROVE  h[s] = step[<<choose[s], h[s \ {choose[s]}]>>]
        <3> DEFINE x == choose[s]
        <3>1. x \in S /\ x = Max(s)
            BY <1>1, <2>2 DEF Chooses
        <3>2. h[s] = h[s \ {x}] + PropertySize + RoundToLong(p[x])
            BY <1>3, <1>6, <2>2, <3>1 DEF IsOwn
        <3> QED
            BY <1>1, <2>2, <3>1, <3>2
    <2> QED
        BY <2>1, <2>2 DEF Follows
<1>8. g[S] = h[S]
    <2>1. IsFiniteSet(S) /\ Chooses(choose, S)
        BY <1>1
    <2> QED
        BY <1>4, <1>7, <2>1, FoldUnique
<1> QED
    BY <1>2, <1>4, <1>8 DEF p, S, choose, step

(* A size is a number, and a node without properties is its header. *)
LEMMA OwnType ==
    ASSUME NEW node \in Node
    PROVE  OwnSize(node) \in Nat
<1>1. PICK g \in [SUBSET DOMAIN node.properties -> Nat] :
          OwnSize(node) = NodeSize + g[DOMAIN node.properties]
    BY OwnIsFold
<1>2. NodeSize \in Nat /\ g[DOMAIN node.properties] \in Nat
    BY PoolAssumption
<1> QED
    BY <1>1, <1>2

LEMMA OwnEmpty ==
    ASSUME NEW node \in Node, node.properties = <<>>
    PROVE  OwnSize(node) = NodeSize
<1>1. PICK g \in [SUBSET DOMAIN node.properties -> Nat] :
          /\ IsFold(g, DOMAIN node.properties, 0, Latest(node.properties),
                    Padded(node.properties))
          /\ OwnSize(node) = NodeSize + g[DOMAIN node.properties]
    BY OwnIsFold
<1>2. DOMAIN node.properties = {}
    OBVIOUS
<1>3. g[DOMAIN node.properties] = 0
    BY <1>1, <1>2 DEF IsFold
<1> QED
    BY <1>1, <1>3, PoolAssumption

(* The fold, written out: a header and a padded value per property. *)
Pads(g, p) ==
    /\ g[{}] = 0
    /\ \A s \in SUBSET DOMAIN p : s # {} =>
          g[s] = g[s \ {Max(s)}] + PropertySize + RoundToLong(p[Max(s)])

LEMMA OwnPads ==
    ASSUME NEW node \in Node
    PROVE  \E g \in [SUBSET DOMAIN node.properties -> Nat] :
              /\ Pads(g, node.properties)
              /\ OwnSize(node) = NodeSize + g[DOMAIN node.properties]
<1> DEFINE p == node.properties
<1>1. p \in Seq(Nat)
    BY DEF Node
<1>2. PICK g \in [SUBSET DOMAIN p -> Nat] :
          /\ IsFold(g, DOMAIN p, 0, Latest(p), Padded(p))
          /\ OwnSize(node) = NodeSize + g[DOMAIN p]
    BY OwnIsFold
<1> HIDE DEF p
<1>3. ASSUME NEW s \in SUBSET DOMAIN p, s # {}
      PROVE  g[s] = g[s \ {Max(s)}] + PropertySize + RoundToLong(p[Max(s)])
    <2> DEFINE x == Max(s)
    <2>1. x = Latest(p)[s] /\ x \in s
        BY <1>1, <1>3, OwnTypes DEF Chooses
    <2>2. x \in DOMAIN p /\ s \ {x} \in SUBSET DOMAIN p
        BY <2>1
    <2> HIDE DEF x
    <2>3. g[s \ {x}] \in Nat
        BY <2>2
    <2>4. g[s] = Padded(p)[<<x, g[s \ {x}]>>]
        BY <1>2, <1>3, <2>1 DEF IsFold
    <2>5. g[s] = g[s \ {x}] + PropertySize + RoundToLong(p[x])
        BY <1>1, <2>2, <2>3, <2>4, OwnTypes
    <2> QED
        BY <2>5 DEF x
<1>4. g[{}] = 0
    BY <1>2 DEF IsFold
<1>5. Pads(g, p)
    BY <1>3, <1>4 DEF Pads
<1> QED
    BY <1>2, <1>5 DEF p

(* Whatever adds up like that is the size of the node. *)
LEMMA PadsOwn ==
    ASSUME NEW node \in Node, NEW h, Pads(h, node.properties)
    PROVE  OwnSize(node) = NodeSize + h[DOMAIN node.properties]
<1> DEFINE p == node.properties
           S == DOMAIN p
           choose == Latest(p)
           step == Padded(p)
<1>1. PICK g \in [SUBSET S -> Nat] :
          IsFold(g, S, 0, choose, step) /\ OwnSize(node) = NodeSize + g[S]
    BY OwnIsFold
<1>2. p \in Seq(Nat) /\ Pads(h, p) /\ S = DOMAIN p
    BY DEF Node
<1> HIDE DEF p, S
<1>3. IsFiniteSet(S) /\ Chooses(choose, S)
    BY <1>2, OwnTypes
<1>4. Follows(h, S, 0, choose, step)
    <2>1. ASSUME NEW s \in SUBSET S, s # {}, h[s \ {choose[s]}] \in Nat
          PROVE  h[s] = step[<<choose[s], h[s \ {choose[s]}]>>]
        <3> DEFINE x == choose[s]
        <3>1. x \in s /\ x = Max(s)
            BY <1>2, <2>1, OwnTypes DEF Chooses
        <3>2. x \in DOMAIN p /\ s \in SUBSET DOMAIN p
            BY <1>2, <3>1
        <3>3. h[s \ {x}] \in Nat
            BY <2>1
        <3> HIDE DEF x
        <3>4. h[s] = h[s \ {x}] + PropertySize + RoundToLong(p[x])
            BY <1>2, <2>1, <3>1, <3>2 DEF Pads
        <3>5. Padded(p)[<<x, h[s \ {x}]>>] = h[s \ {x}] + PropertySize + RoundToLong(p[x])
            BY <1>2, <3>2, <3>3, OwnTypes
        <3> QED
            BY <3>4, <3>5 DEF x
    <2>2. h[{}] = 0
        BY <1>2 DEF Pads
    <2> HIDE DEF choose, step
    <2> QED
        BY <2>1, <2>2 DEF Follows
<1> HIDE DEF choose, step
<1>5. g[S] = h[S]
    BY <1>1, <1>3, <1>4, FoldUnique
<1> QED
    BY <1>1, <1>5 DEF S, p

(* One property more takes its header and its padded value. *)
LEMMA OwnAppend ==
    ASSUME NEW node \in Node, NEW l \in Nat, NEW more \in Node,
           more.properties = Append(node.properties, l)
    PROVE  OwnSize(more) = OwnSize(node) + PropertySize + RoundToLong(l)
<1> DEFINE p == node.properties
           q == more.properties
           n == Len(p)
<1>1. p \in Seq(Nat) /\ q \in Seq(Nat) /\ q = Append(p, l)
    BY DEF Node
<1>2. PICK g \in [SUBSET DOMAIN q -> Nat] :
          Pads(g, q) /\ OwnSize(more) = NodeSize + g[DOMAIN q]
    BY OwnPads
<1>3. Pads(g, p) => OwnSize(node) = NodeSize + g[DOMAIN p]
    BY PadsOwn
<1> HIDE DEF p, q
<1>4. /\ n \in Nat /\ DOMAIN p = 1 .. n /\ DOMAIN q = 1 .. (n + 1)
      /\ q[n + 1] = l /\ \A i \in 1 .. n : q[i] = p[i]
    BY <1>1
<1> HIDE DEF n
<1>5. Pads(g, p)
    <2>1. ASSUME NEW s \in SUBSET DOMAIN p, s # {}
          PROVE  g[s] = g[s \ {Max(s)}] + PropertySize + RoundToLong(p[Max(s)])
        <3>1. s \in SUBSET DOMAIN q
            BY <1>4
        <3>2. Max(s) \in s
            BY <1>4, <2>1, MaxOf
        <3>3. q[Max(s)] = p[Max(s)]
            BY <1>4, <3>2
        <3> QED
            BY <1>2, <2>1, <3>1, <3>3 DEF Pads
    <2> QED
        BY <1>2, <2>1 DEF Pads
<1>6. g[DOMAIN q] = g[DOMAIN p] + PropertySize + RoundToLong(l)
    <2> DEFINE s == 1 .. (n + 1)
    <2>1. s \in SUBSET (1 .. (n + 1)) /\ n + 1 \in Nat /\ n + 1 \in s
        BY <1>4
    <2>2. Max(s) \in s /\ \A y \in s : y <= Max(s)
        <3>1. s # {}
            BY <2>1
        <3> HIDE DEF s
        <3> QED
            BY <2>1, <3>1, MaxOf
    <2>3. Max(s) = n + 1
        <3> DEFINE m == Max(s)
        <3>1. m \in 1 .. (n + 1) /\ n + 1 <= m
            BY <2>1, <2>2
        <3> HIDE DEF m
        <3>2. m = n + 1
            BY <1>4, <3>1
        <3> QED
            BY <3>2 DEF m
    <2>4. s \ {n + 1} = 1 .. n
        BY <1>4
    <2>5. s = DOMAIN q
        BY <1>4
    <2> HIDE DEF s
    <2>6. s \in SUBSET DOMAIN q /\ s # {}
        BY <2>1, <2>5
    <2>7. g[s] = g[s \ {Max(s)}] + PropertySize + RoundToLong(q[Max(s)])
        BY <1>2, <2>6 DEF Pads
    <2>8. g[s] = g[s \ {n + 1}] + PropertySize + RoundToLong(q[n + 1])
        BY <2>3, <2>7
    <2>9. DOMAIN p = s \ {n + 1} /\ q[n + 1] = l
        BY <1>4, <2>4
    <2> QED
        BY <2>5, <2>8, <2>9
<1>7. RoundToLong(l) \in Nat /\ PropertySize \in Nat /\ NodeSize \in Nat
    BY PoolAssumption DEF RoundToLong
<1>8. g[DOMAIN p] \in Nat
    BY <1>4
<1> QED
    BY <1>2, <1>3, <1>5, <1>6, <1>7, <1>8

-----------------------------------------------------------------------------
(***************************************************************************)
(* FlattenNodes comes to every node once.                                  *)
(***************************************************************************)
(* A parent is numbered before its children. *)
Rooted(d) ==
    /\ d.nodes \in Nodes
    /\ \A n \in DOMAIN d.nodes :
          IF n = 1 THEN d.nodes[n].parent = 0 ELSE d.nodes[n].parent \in 1 .. n - 1

Own(d) == [n \in DOMAIN d.nodes |-> OwnSize(d.nodes[n])]

IsWritten(w, d) ==
    w = [n \in 1 .. Len(d.nodes) |-> OwnSize(d.nodes[n]) + Total(w, Children(d, n))]

(* The children of a node are among the later ones. *)
LEMMA RootedNodes ==
    ASSUME NEW d, Rooted(d)
    PROVE  /\ DOMAIN d.nodes = 1 .. Len(d.nodes) /\ Len(d.nodes) \in Nat
           /\ \A n \in 1 .. Len(d.nodes) : OwnSize(d.nodes[n]) \in Nat
           /\ \A n \in 1 .. Len(d.nodes) :
                /\ IsFiniteSet(Children(d, n))
                /\ Children(d, n) \subseteq (n + 1) .. Len(d.nodes)
<1>1. /\ DOMAIN d.nodes = 1 .. Len(d.nodes) /\ Len(d.nodes) \in Nat
      /\ \A n \in 1 .. Len(d.nodes) : d.nodes[n] \in Node
    BY DEF Rooted, Nodes
<1>2. ASSUME NEW n \in 1 .. Len(d.nodes), NEW m \in Children(d, n)
      PROVE  m \in (n + 1) .. Len(d.nodes)
    <2>1. m \in 1 .. Len(d.nodes) /\ d.nodes[m].parent = n
        BY <1>1 DEF Children
    <2>2. m # 1
        BY <1>1, <2>1 DEF Rooted
    <2>3. n \in 1 .. m - 1
        BY <1>1, <2>1, <2>2 DEF Rooted
    <2> QED
        BY <1>1, <2>1, <2>3
<1>3. ASSUME NEW n \in 1 .. Len(d.nodes)
      PROVE  IsFiniteSet(Children(d, n))
    <2>1. Children(d, n) \subseteq (n + 1) .. Len(d.nodes)
        BY <1>2
    <2>2. IsFiniteSet((n + 1) .. Len(d.nodes))
        BY <1>1, FS_Interval
    <2> QED
        BY <2>1, <2>2, FS_Subset
<1> QED
    BY <1>1, <1>2, <1>3, OwnType

(* From the last node back, what is written below a node is known when it  *)
(* is its turn.                                                            *)
WrittenAt(w, d, n) == w[n] = OwnSize(d.nodes[n]) + Total(w, Children(d, n))

LEMMA WrittenExists ==
    ASSUME NEW d, Rooted(d)
    PROVE  \E w \in [1 .. Len(d.nodes) -> Nat] :
              \A n \in 1 .. Len(d.nodes) : WrittenAt(w, d, n)
<1> DEFINE N == Len(d.nodes)
           Good(k) == \E w \in [1 .. N -> Nat] :
                         \A n \in 1 .. N : n > N - k => WrittenAt(w, d, n)
           Bad == {k \in 0 .. N : ~Good(k)}
<1>1. /\ N \in Nat
      /\ \A n \in 1 .. N : OwnSize(d.nodes[n]) \in Nat
      /\ \A n \in 1 .. N : /\ IsFiniteSet(Children(d, n))
                           /\ Children(d, n) \subseteq (n + 1) .. N
    BY RootedNodes
<1> HIDE DEF N
<1>2. Good(0)
    <2>1. [n \in 1 .. N |-> 0] \in [1 .. N -> Nat]
        OBVIOUS
    <2>2. \A n \in 1 .. N : ~(n > N - 0)
        BY <1>1
    <2> QED
        BY <2>1, <2>2
<1>3. ASSUME NEW k \in 1 .. N, Good(k - 1)
      PROVE  Good(k)
    <2>1. PICK w \in [1 .. N -> Nat] :
              \A n \in 1 .. N : n > N - (k - 1) => WrittenAt(w, d, n)
        BY <1>3
    <2> DEFINE m == N - k + 1
    <2>2. m \in 1 .. N /\ m \in Nat
        BY <1>1
    <2> DEFINE size == OwnSize(d.nodes[m]) + Total(w, Children(d, m))
               v == [w EXCEPT ![m] = size]
    <2>3. size \in Nat
        <3>1. Total(w, Children(d, m)) \in Nat
            <4>1. \A x \in Children(d, m) : w[x] \in Nat
                BY <1>1, <2>2
            <4> QED
                BY <1>1, <2>2, <4>1, SumType
        <3> QED
            BY <1>1, <2>2, <3>1
    <2>4. \A n \in 1 .. N : n > N - (k - 1) <=> n > m
        BY <1>1
    <2>5. \A n \in 1 .. N : n > N - k <=> n >= m
        BY <1>1
    <2> HIDE DEF m, size
    <2>6. /\ v \in [1 .. N -> Nat] /\ v[m] = size
          /\ \A n \in 1 .. N : n # m => v[n] = w[n]
        BY <2>2, <2>3
    <2> HIDE DEF v
    <2>7. ASSUME NEW n \in 1 .. N, n >= m
          PROVE  Total(v, Children(d, n)) = Total(w, Children(d, n))
        <3>1. \A x \in Children(d, n) : x \in 1 .. N /\ x # m
            BY <1>1, <2>2, <2>7
        <3>2. \A x \in Children(d, n) : v[x] \in Nat /\ v[x] = w[x]
            BY <2>6, <3>1
        <3> QED
            BY <1>1, <3>2, SumSame
    <2>8. ASSUME NEW n \in 1 .. N, n >= m
          PROVE  WrittenAt(v, d, n)
        <3>1. CASE n = m
            BY <2>6, <2>7, <3>1 DEF WrittenAt, size
        <3>2. CASE n # m
            <4>1. n > m
                BY <2>2, <2>8, <3>2
            <4>2. WrittenAt(w, d, n)
                BY <2>1, <2>4, <4>1
            <4> QED
                BY <2>6, <2>7, <2>8, <3>2, <4>2 DEF WrittenAt
        <3> QED
            BY <3>1, <3>2
    <2> QED
        BY <2>5, <2>6, <2>8
<1>4. Bad = {}
    <2> SUFFICES ASSUME Bad # {} PROVE FALSE
        OBVIOUS
    <2> HIDE DEF Good
    <2>1. Bad \in SUBSET Nat
        BY <1>1
    <2>2. PICK k \in Bad : \A j \in Bad : k <= j
        <3> HIDE DEF Bad
        <3> QED
            BY <2>1, Smallest
    <2>3. k \in 0 .. N /\ ~Good(k)
        OBVIOUS
    <2>4. k # 0
        BY <1>2, <2>3
    <2>5. k \in 1 .. N /\ k - 1 \in 0 .. N /\ ~(k <= k - 1)
        BY <1>1, <2>3, <2>4
    <2>6. Good(k - 1)
        BY <2>2, <2>5
    <2> QED
        BY <1>3, <2>3, <2>5, <2>6
<1>5. Good(N)
    <2> HIDE DEF Good
    <2>1. N \in 0 .. N
        BY <1>1
    <2> QED
        BY <1>4, <2>1
<1>6. \A n \in 1 .. N : n > N - N
    BY <1>1
<1> QED
    BY <1>5, <1>6 DEF N

(* No other function fits: the one FlattenNodes means is that one.         *)
LEMMA WrittenIs ==
    ASSUME NEW d, Rooted(d), d.rootNode \in 1 .. Len(d.nodes)
    PROVE  \E w \in [1 .. Len(d.nodes) -> Nat] :
              /\ \A n \in 1 .. Len(d.nodes) : WrittenAt(w, d, n)
              /\ FlattenNodes(d) = w[d.rootNode]
<1> DEFINE N == Len(d.nodes)
           h == CHOOSE h : IsWritten(h, d)
<1>1. PICK w \in [1 .. N -> Nat] : \A n \in 1 .. N : WrittenAt(w, d, n)
    BY WrittenExists
<1>2. IsWritten(w, d)
    <2>1. w = [n \in 1 .. N |-> w[n]]
        OBVIOUS
    <2>2. \A n \in 1 .. N : w[n] = OwnSize(d.nodes[n]) + Total(w, Children(d, n))
        BY <1>1 DEF WrittenAt
    <2> QED
        BY <2>1, <2>2 DEF IsWritten
<1>3. IsWritten(h, d)
    BY <1>2, Zenon
<1>4. FlattenNodes(d) = h[d.rootNode]
    <2>1. d.rootNode # 0
        OBVIOUS
    <2> QED
        BY <2>1 DEF Total, IsWritten, FlattenNodes
<1>5. \A n \in 1 .. N : h[n] = OwnSize(d.nodes[n]) + Total(h, Children(d, n))
    BY <1>3 DEF IsWritten
<1>6. /\ N \in Nat
      /\ \A n \in 1 .. N : /\ IsFiniteSet(Children(d, n))
                           /\ Children(d, n) \subseteq (n + 1) .. N
    BY RootedNodes
<1> HIDE DEF h, N
<1> DEFINE Bad == {k \in 0 .. N : N - k \in 1 .. N /\ h[N - k] # w[N - k]}
<1>7. Bad = {}
    <2> SUFFICES ASSUME Bad # {} PROVE FALSE
        OBVIOUS
    <2>1. Bad \in SUBSET Nat
        BY <1>6
    <2>2. PICK k \in Bad : \A j \in Bad : k <= j
        <3> HIDE DEF Bad
        <3> QED
            BY <2>1, Smallest
    <2> DEFINE n == N - k
    <2>3. n \in 1 .. N /\ h[n] # w[n]
        OBVIOUS
    <2>4. ASSUME NEW x \in Children(d, n)
          PROVE  w[x] \in Nat /\ w[x] = h[x]
        <3>1. x \in 1 .. N /\ x > n
            BY <1>6, <2>3
        <3>2. N - x \in 0 .. N /\ N - (N - x) = x /\ ~(k <= N - x)
            BY <1>6, <3>1
        <3>3. N - x \notin Bad
            BY <2>2, <3>2
        <3>4. h[x] = w[x]
            BY <3>1, <3>2, <3>3
        <3> QED
            BY <3>1, <3>4
    <2> HIDE DEF n
    <2>5. Total(w, Children(d, n)) = Total(h, Children(d, n))
        BY <1>6, <2>3, <2>4, SumSame
    <2> QED
        BY <1>1, <1>5, <2>3, <2>5 DEF WrittenAt
<1>8. h[d.rootNode] = w[d.rootNode]
    <2> DEFINE r == d.rootNode
    <2>1. r \in 1 .. N
        BY DEF N
    <2> HIDE DEF r
    <2>2. N - r \in 0 .. N /\ N - (N - r) = r
        BY <1>6, <2>1
    <2>3. h[r] = w[r]
        BY <1>7, <2>1, <2>2
    <2> QED
        BY <2>3 DEF r
<1> QED
    BY <1>1, <1>4, <1>8 DEF N

(* The nodes not yet come to when the first n have been: below one of      *)
(* those is everything that is left.                                       *)
Hanging(d, n) == {m \in (n + 1) .. Len(d.nodes) : d.nodes[m].parent <= n}

(* To come to one more replaces it by its children. *)
LEMMA HangingNodes ==
    ASSUME NEW d, Rooted(d), NEW n \in 1 .. Len(d.nodes)
    PROVE  /\ IsFiniteSet(Hanging(d, n)) /\ Hanging(d, n) \subseteq 1 .. Len(d.nodes)
           /\ n = 1 => Hanging(d, n) = Children(d, n)
           /\ n = Len(d.nodes) => Hanging(d, n) = {}
           /\ n # Len(d.nodes) =>
                /\ n + 1 \in Hanging(d, n)
                /\ Hanging(d, n + 1) = (Hanging(d, n) \ {n + 1}) \cup Children(d, n + 1)
                /\ (Hanging(d, n) \ {n + 1}) \cap Children(d, n + 1) = {}
<1> DEFINE N == Len(d.nodes)
<1>1. /\ N \in Nat
      /\ \A m \in 2 .. N : d.nodes[m].parent \in 1 .. m - 1
      /\ \A k : Children(d, k) = {m \in 1 .. N : d.nodes[m].parent = k}
    <2>1. N \in Nat /\ DOMAIN d.nodes = 1 .. N
        BY RootedNodes
    <2> HIDE DEF N
    <2>2. ASSUME NEW m \in 2 .. N
          PROVE  d.nodes[m].parent \in 1 .. m - 1
        <3>1. m \in DOMAIN d.nodes /\ m # 1
            BY <2>1
        <3> QED
            BY <3>1 DEF Rooted
    <2> QED
        BY <2>1, <2>2 DEF Children
<1>2. \A k : Hanging(d, k) = {m \in (k + 1) .. N : d.nodes[m].parent <= k}
    BY DEF Hanging
<1>3. N >= 1 => d.nodes[1].parent = 0
    <2>1. N \in Nat /\ DOMAIN d.nodes = 1 .. N
        BY RootedNodes
    <2> QED
        BY <2>1 DEF Rooted
<1> HIDE DEF N
<1>4. n \in 1 .. N
    BY DEF N
<1>5. IsFiniteSet(Hanging(d, n)) /\ Hanging(d, n) \subseteq 1 .. N
    <2>1. Hanging(d, n) \subseteq 1 .. N
        BY <1>1, <1>2, <1>4
    <2>2. IsFiniteSet(1 .. N)
        BY <1>1, FS_Interval
    <2> QED
        BY <2>1, <2>2, FS_Subset
<1>6. ASSUME n = 1 PROVE Hanging(d, n) = Children(d, n)
    <2>1. ASSUME NEW m \in 1 .. N, d.nodes[m].parent = 1
          PROVE  m \in 2 .. N
        <3>1. m # 1
            BY <1>1, <1>3, <2>1
        <3> QED
            BY <1>1, <3>1
    <2>2. ASSUME NEW m \in 2 .. N, d.nodes[m].parent <= 1
          PROVE  m \in 1 .. N /\ d.nodes[m].parent = 1
        <3>1. d.nodes[m].parent \in 1 .. m - 1 /\ m \in Nat
            BY <1>1
        <3> QED
            BY <1>1, <2>2, <3>1
    <2>3. \A m \in 2 .. N : m \in 1 .. N
        BY <1>1
    <2>4. Hanging(d, 1) = {m \in 2 .. N : d.nodes[m].parent <= 1}
        BY <1>2
    <2>5. Children(d, 1) = {m \in 1 .. N : d.nodes[m].parent = 1}
        BY <1>1
    <2>6. 1 <= 1
        OBVIOUS
    <2>7. \A m : m \in Hanging(d, 1) <=> m \in Children(d, 1)
        BY <2>1, <2>2, <2>4, <2>5, <2>6, Zenon
    <2>8. \A m : m \in Hanging(d, n) <=> m \in Children(d, n)
        BY <1>6, <2>7
    <2> HIDE DEF Hanging, Children
    <2>9. \A m \in Hanging(d, n) : m \in Children(d, n)
        BY <2>8
    <2>10. \A m \in Children(d, n) : m \in Hanging(d, n)
        BY <2>8
    <2>11. Hanging(d, n) \subseteq Children(d, n) /\ Children(d, n) \subseteq Hanging(d, n)
        BY <2>9, <2>10
    <2>12. \A A, B : A \subseteq B /\ B \subseteq A => A = B
        OBVIOUS
    <2> QED
        BY <2>11, <2>12, Zenon
<1>7. n = N => Hanging(d, n) = {}
    <2>1. (N + 1) .. N = {}
        BY <1>1
    <2> QED
        BY <1>2, <2>1
<1>8. ASSUME n # N
      PROVE  /\ n + 1 \in Hanging(d, n)
             /\ Hanging(d, n + 1) = (Hanging(d, n) \ {n + 1}) \cup Children(d, n + 1)
             /\ (Hanging(d, n) \ {n + 1}) \cap Children(d, n + 1) = {}
    <2>1. n \in Nat /\ n + 1 \in 2 .. N /\ n + 1 \in (n + 1) .. N
        BY <1>1, <1>4, <1>8
    <2>2. n + 1 \in Hanging(d, n)
        <3> DEFINE k == d.nodes[n + 1].parent
        <3>1. k \in 1 .. (n + 1) - 1
            BY <1>1, <2>1
        <3> HIDE DEF k
        <3>2. k <= n
            BY <2>1, <3>1
        <3> QED
            BY <1>2, <2>1, <3>2 DEF k
    <2>3. ASSUME NEW m \in Hanging(d, n + 1)
          PROVE  m \in (Hanging(d, n) \ {n + 1}) \cup Children(d, n + 1)
        <3> DEFINE k == d.nodes[m].parent
        <3>1. m \in (n + 2) .. N /\ k <= n + 1
            BY <1>2, <2>1
        <3>2. m \in 2 .. N /\ m # n + 1 /\ m \in (n + 1) .. N /\ m \in 1 .. N
            BY <1>1, <2>1, <3>1
        <3>3. k \in 1 .. m - 1
            BY <1>1, <3>2
        <3> HIDE DEF k
        <3>4. k <= n \/ k = n + 1
            BY <2>1, <3>1, <3>3
        <3> QED
            BY <1>1, <1>2, <3>2, <3>4 DEF k
    <2>4. ASSUME NEW m \in Hanging(d, n), m # n + 1
          PROVE  m \in Hanging(d, n + 1) /\ m \notin Children(d, n + 1)
        <3> DEFINE k == d.nodes[m].parent
        <3>1. m \in (n + 1) .. N /\ k <= n
            BY <1>2
        <3>2. m \in 2 .. N /\ m \in (n + 2) .. N
            BY <1>1, <2>1, <2>4, <3>1
        <3>3. k \in 1 .. m - 1
            BY <1>1, <3>2
        <3> HIDE DEF k
        <3>4. k <= n + 1 /\ k # n + 1
            BY <2>1, <3>1, <3>3
        <3>5. (n + 1) + 1 = n + 2
            BY <2>1
        <3> QED
            BY <1>1, <1>2, <3>2, <3>4, <3>5 DEF k
    <2>5. ASSUME NEW m \in Children(d, n + 1)
          PROVE  m \in Hanging(d, n + 1)
        <3> DEFINE k == d.nodes[m].parent
        <3>1. m \in 1 .. N /\ k = n + 1
            BY <1>1
        <3>2. m \in (n + 2) .. N
            <4>1. m # 1
                BY <1>1, <1>3, <2>1, <3>1
            <4>2. m \in 2 .. N
                BY <1>1, <3>1, <4>1
            <4>3. k \in 1 .. m - 1
                BY <1>1, <4>2
            <4> HIDE DEF k
            <4> QED
                BY <1>1, <2>1, <3>1, <4>2, <4>3
        <3>3. (n + 1) + 1 = n + 2 /\ n + 1 <= n + 1
            BY <2>1
        <3> QED
            BY <1>2, <3>1, <3>2, <3>3
    <2> QED
        BY <2>2, <2>3, <2>4, <2>5
<1> QED
    BY <1>5, <1>6, <1>7, <1>8 DEF N

(* What FlattenNodes writes is what every node takes up. *)
LEMMA FlattenIsTotal ==
    ASSUME NEW d, Rooted(d), d.rootNode = IF d.nodes = <<>> THEN 0 ELSE 1
    PROVE  FlattenNodes(d) = Total(Own(d), DOMAIN d.nodes)
<1> DEFINE N == Len(d.nodes)
           own == Own(d)
<1>1. /\ N \in Nat /\ DOMAIN d.nodes = 1 .. N
      /\ \A n \in 1 .. N : own[n] = OwnSize(d.nodes[n]) /\ own[n] \in Nat
      /\ \A n \in 1 .. N : /\ IsFiniteSet(Children(d, n))
                           /\ Children(d, n) \subseteq (n + 1) .. N
    BY RootedNodes DEF Own
<1>2. CASE d.nodes = <<>>
    <2>1. DOMAIN d.nodes = {} /\ d.rootNode = 0
        BY <1>2
    <2>2. FlattenNodes(d) = 0
        BY <2>1 DEF FlattenNodes
    <2>3. Total(own, DOMAIN d.nodes) = 0
        BY <2>1, SumEmpty
    <2> QED
        BY <2>2, <2>3
<1>3. CASE d.nodes # <<>>
    <2>1. N >= 1 /\ d.rootNode = 1 /\ 1 \in 1 .. N
        <3>1. d.nodes \in Seq(Node)
            BY DEF Rooted, Nodes
        <3>2. N # 0
            BY <1>3, <3>1, EmptySeq
        <3> QED
            BY <1>1, <1>3, <3>2
    <2>2. PICK w \in [1 .. N -> Nat] :
              /\ \A n \in 1 .. N : WrittenAt(w, d, n)
              /\ FlattenNodes(d) = w[1]
        BY <2>1, WrittenIs
    <2> HIDE DEF own
    <2>3. \A n \in 1 .. N : w[n] = own[n] + Total(w, Children(d, n))
        BY <1>1, <2>2 DEF WrittenAt
    <2> DEFINE done(n) == Total(own, 1 .. n)
               todo(n) == Total(w, Hanging(d, n))
               Bad == {n \in 1 .. N : w[1] # done(n) + todo(n)}
    <2>4. \A n \in 1 .. N : /\ IsFiniteSet(1 .. n)
                            /\ \A m \in 1 .. n : own[m] \in Nat
        BY <1>1, FS_Interval
    <2>5. ASSUME NEW n \in 1 .. N
          PROVE  /\ IsFiniteSet(Hanging(d, n)) /\ Hanging(d, n) \subseteq 1 .. N
                 /\ \A m \in Hanging(d, n) : w[m] \in Nat
                 /\ done(n) \in Nat /\ todo(n) \in Nat
        <3>1. IsFiniteSet(Hanging(d, n)) /\ Hanging(d, n) \subseteq 1 .. N
            BY HangingNodes
        <3>2. \A m \in Hanging(d, n) : w[m] \in Nat
            BY <3>1
        <3>3. done(n) \in Nat
            BY <2>4, SumType
        <3>4. todo(n) \in Nat
            BY <3>1, <3>2, SumType
        <3> QED
            BY <3>1, <3>2, <3>3, <3>4
    <2>6. w[1] = done(1) + todo(1)
        <3>1. Hanging(d, 1) = Children(d, 1)
            BY <2>1, HangingNodes
        <3>2. done(1) = own[1]
            <4>1. 1 .. 1 = {1} /\ {1} \ {1} = {}
                OBVIOUS
            <4>2. IsFiniteSet({1}) /\ \A x \in {1} : own[x] \in Nat
                BY <1>1, <2>1, FS_Singleton
            <4>3. Total(own, {1}) = own[1] + Total(own, {1} \ {1})
                BY <4>2, SumStep
            <4>4. Total(own, {1} \ {1}) = 0
                BY <4>1, SumEmpty
            <4> QED
                BY <4>1, <4>2, <4>3, <4>4
        <3> QED
            BY <2>1, <2>3, <3>1, <3>2
    <2>7. ASSUME NEW n \in 1 .. N, n # N
          PROVE  done(n + 1) + todo(n + 1) = done(n) + todo(n)
        <3> DEFINE rest == Hanging(d, n) \ {n + 1}
                   below == Children(d, n + 1)
        <3>1. n \in Nat /\ n + 1 \in 1 .. N
            BY <1>1, <2>7
        <3>2. /\ n + 1 \in Hanging(d, n) /\ Hanging(d, n + 1) = rest \cup below
              /\ rest \cap below = {}
            BY <2>7, HangingNodes
        <3>3. done(n + 1) = own[n + 1] + done(n)
            <4>1. (1 .. (n + 1)) \ {n + 1} = 1 .. n /\ n + 1 \in 1 .. (n + 1)
                BY <3>1
            <4>2. Total(own, 1 .. (n + 1)) = own[n + 1] + Total(own, (1 .. (n + 1)) \ {n + 1})
                BY <2>4, <3>1, <4>1, SumStep
            <4> QED
                BY <4>1, <4>2
        <3>4. todo(n) = w[n + 1] + Total(w, rest)
            BY <2>5, <3>2, SumStep
        <3>5. /\ IsFiniteSet(rest) /\ IsFiniteSet(below)
              /\ \A m \in rest \cup below : w[m] \in Nat
            <4>1. IsFiniteSet(rest) /\ IsFiniteSet(below)
                BY <1>1, <2>5, <3>1, FS_Subset
            <4>2. rest \cup below \subseteq 1 .. N
                BY <2>5, <3>1, <3>2
            <4> QED
                BY <4>1, <4>2
        <3> HIDE DEF rest, below
        <3>6. todo(n + 1) = Total(w, rest) + Total(w, below)
            BY <3>2, <3>5, SumUnion
        <3>7. Total(w, rest) \in Nat /\ Total(w, below) \in Nat /\ own[n + 1] \in Nat
            BY <1>1, <3>1, <3>5, SumType
        <3>8. w[n + 1] = own[n + 1] + Total(w, below)
            BY <2>3, <3>1 DEF below
        <3>9. done(n) \in Nat
            BY <2>5
        <3> HIDE DEF done, todo
        <3> QED
            BY <3>3, <3>4, <3>6, <3>7, <3>8, <3>9
    <2> HIDE DEF done, todo
    <2>8. Bad = {}
        <3> SUFFICES ASSUME Bad # {} PROVE FALSE
            OBVIOUS
        <3>1. Bad \in SUBSET Nat
            BY <1>1
        <3>2. PICK k \in Bad : \A j \in Bad : k <= j
            <4> HIDE DEF Bad
            <4> QED
                BY <3>1, Smallest
        <3>3. k \in 1 .. N /\ w[1] # done(k) + todo(k)
            OBVIOUS
        <3>4. k # 1
            BY <2>6, <3>3
        <3> DEFINE j == k - 1
        <3>5. j \in 1 .. N /\ j # N /\ ~(k <= j) /\ k = j + 1
            BY <1>1, <3>3, <3>4
        <3> HIDE DEF j
        <3>6. w[1] = done(j) + todo(j)
            BY <3>2, <3>5
        <3> QED
            BY <2>7, <3>3, <3>5, <3>6
    <2>9. N \in 1 .. N
        BY <1>1, <2>1
    <2>10. Hanging(d, N) = {}
        BY <2>9, HangingNodes
    <2>11. todo(N) = 0
        BY <2>10, SumEmpty DEF todo
    <2>12. w[1] = done(N)
        <3>1. w[1] = done(N) + todo(N)
            BY <2>8, <2>9
        <3>2. done(N) \in Nat
            BY <2>5, <2>9
        <3> QED
            BY <2>11, <3>1, <3>2
    <2> QED
        BY <1>1, <2>2, <2>12 DEF done, own
<1> QED
    BY <1>2, <1>3

-----------------------------------------------------------------------------
(***************************************************************************)
(* The counters of DTInfo follow the tree.                                 *)
(***************************************************************************)
Sized(d) ==
    /\ Rooted(d)
    /\ d.rootNode = IF d.nodes = <<>> THEN 0 ELSE 1
    /\ DT__FlattenDeviceTree(d) = Total(Own(d), DOMAIN d.nodes)

(* Nothing but the nodes and the counters matters. *)
LEMMA SizedSame ==
    ASSUME NEW d, NEW e, Sized(d), e.nodes = d.nodes, e.rootNode = d.rootNode,
           e.numNodes = d.numNodes, e.numProperties = d.numProperties,
           e.totalPropertySize = d.totalPropertySize
    PROVE  Sized(e)
<1>1. Rooted(e) /\ e.rootNode = IF e.nodes = <<>> THEN 0 ELSE 1
    BY DEF Sized, Rooted
<1>2. Own(e) = Own(d) /\ DOMAIN e.nodes = DOMAIN d.nodes
    BY DEF Own
<1>3. DT__FlattenDeviceTree(e) = DT__FlattenDeviceTree(d)
    BY DEF DT__FlattenDeviceTree
<1> QED
    BY <1>1, <1>2, <1>3 DEF Sized

(* A refill changes the free lists only. *)
LEMMA RefillSame ==
    ASSUME NEW d \in Pool
    PROVE  \A e \in {RefillNodes(d), RefillProperties(d)} :
              /\ e.nodes = d.nodes /\ e.rootNode = d.rootNode
              /\ e.numNodes = d.numNodes /\ e.numProperties = d.numProperties
              /\ e.totalPropertySize = d.totalPropertySize
<1> DEFINE Same(e) == /\ e.nodes = d.nodes /\ e.rootNode = d.rootNode
                      /\ e.numNodes = d.numNodes /\ e.numProperties = d.numProperties
                      /\ e.totalPropertySize = d.totalPropertySize
<1>1. Same(RefillNodes(d))
    <2>1. ASSUME NEW a, NEW b, NEW c
          PROVE  Same([d EXCEPT !.freeNodes = a, !.allocedNodes = b, !.live = c])
        BY DEF Pool
    <2> DEFINE e == [d EXCEPT !.freeNodes = NodesPerBlock - 1,
                              !.allocedNodes = @ + 1, !.live = @ + 1]
    <2>2. RefillNodes(d) = d \/ RefillNodes(d) = e
        BY DEF RefillNodes
    <2>3. Same(d)
        OBVIOUS
    <2>4. Same(e)
        BY <2>1
    <2> HIDE DEF Same, e
    <2> QED
        BY <2>2, <2>3, <2>4
<1>2. Same(RefillProperties(d))
    <2>1. ASSUME NEW a, NEW b, NEW c
          PROVE  Same([d EXCEPT !.freeProperties = a, !.allocedProperties = b, !.live = c])
        BY DEF Pool
    <2> DEFINE e == [d EXCEPT !.freeProperties = PropertiesPerBlock - 1,
                              !.allocedProperties = @ + 1, !.live = @ + 1]
    <2>2. RefillProperties(d) = d \/ RefillProperties(d) = e
        BY DEF RefillProperties
    <2>3. Same(d)
        OBVIOUS
    <2>4. Same(e)
        BY <2>1
    <2> HIDE DEF Same, e
    <2> QED
        BY <2>2, <2>3, <2>4
<1> QED
    BY <1>1, <1>2

(* One node takes up more, by as much as its last property. *)
LEMMA MoreOwn ==
    ASSUME NEW S, IsFiniteSet(S), NEW x \in S, NEW f, NEW g, NEW more \in Nat,
           \A y \in S : f[y] \in Nat, g[x] = f[x] + more,
           \A y \in S : y # x => g[y] = f[y]
    PROVE  Total(g, S) = Total(f, S) + more
<1> DEFINE T == S \ {x}
<1>1. IsFiniteSet(T) /\ \A y \in T : f[y] \in Nat /\ f[y] = g[y]
    BY FS_RemoveElement
<1>2. \A y \in S : g[y] \in Nat
    OBVIOUS
<1>3. Total(f, S) = f[x] + Total(f, T) /\ Total(g, S) = g[x] + Total(g, T)
    BY <1>2, SumStep
<1> HIDE DEF T
<1>4. Total(f, T) = Total(g, T) /\ Total(f, T) \in Nat
    BY <1>1, SumSame, SumType
<1> QED
    BY <1>3, <1>4

LEMMA AddPropertySized ==
    ASSUME NEW d \in Pool, Exact(d), Sized(d), NEW node \in DOMAIN d.nodes,
           NEW length \in Nat
    PROVE  Sized(DT__AddProperty(d, node, length))
<1> DEFINE e == RefillProperties(d)
           f == DT__AddProperty(d, node, length)
           properties == Append(e.nodes[node].properties, length)
           nodes == [e.nodes EXCEPT ![node].properties = properties]
           num == e.numProperties + 1
           total == e.totalPropertySize + RoundToLong(length)
<1>1. e \in Pool /\ Sized(e) /\ e.nodes = d.nodes
    <2>1. Keeps(d, e)
        BY RefillKeeps
    <2> QED
        BY <2>1, RefillSame, SizedSame DEF Keeps
<1>2. f = IF e.freeProperties = 0 THEN e
          ELSE [e EXCEPT !.freeProperties = @ - 1,
                         !.nodes = nodes,
                         !.numProperties = num,
                         !.totalPropertySize = total]
    BY DEF DT__AddProperty
<1> SUFFICES Sized(f)
    OBVIOUS
<1> DEFINE before == e.nodes[node]
           after == [before EXCEPT !.properties = properties]
<1>3. /\ e.nodes \in Seq(Node) /\ node \in DOMAIN e.nodes
      /\ before \in Node /\ properties \in Seq(Nat)
    <2>1. e.nodes \in Seq(Node) /\ node \in DOMAIN e.nodes
        BY <1>1 DEF Pool, Nodes
    <2>2. before \in Node
        BY <2>1
    <2> QED
        BY <2>1, <2>2 DEF Node
<1>4. after \in Node /\ after.properties = properties /\ after.parent = before.parent
    BY <1>3 DEF Node
<1>5. nodes = [e.nodes EXCEPT ![node] = after]
    OBVIOUS
<1>6. properties = Append(before.properties, length)
    OBVIOUS
<1> HIDE DEF e, f, nodes, after, properties, before
<1>7. /\ nodes \in Seq(Node) /\ DOMAIN nodes = DOMAIN e.nodes
      /\ nodes[node] = after
      /\ \A n \in DOMAIN e.nodes : n # node => nodes[n] = e.nodes[n]
    BY <1>3, <1>4, <1>5
<1>8. CASE e.freeProperties # 0
    <2> HIDE DEF num, total
    <2>1. /\ f.nodes = nodes /\ f.rootNode = e.rootNode /\ f.numNodes = e.numNodes
          /\ f.numProperties = num /\ f.totalPropertySize = total
        BY <1>1, <1>2, <1>8 DEF Pool
    <2>2. Rooted(f)
        <3>1. \A n \in DOMAIN e.nodes : nodes[n].parent = e.nodes[n].parent
            BY <1>4, <1>7 DEF before
        <3> QED
            BY <1>1, <1>7, <2>1, <3>1 DEF Sized, Rooted, Nodes
    <2>3. f.rootNode = IF f.nodes = <<>> THEN 0 ELSE 1
        <3>1. e.nodes # <<>> /\ nodes # <<>>
            BY <1>3, <1>7
        <3> QED
            BY <1>1, <2>1, <3>1 DEF Sized
    <2>4. RoundToLong(length) \in Nat /\ PropertySize \in Nat /\ NodeSize \in Nat
        BY PoolAssumption DEF RoundToLong
    <2> DEFINE more == PropertySize + RoundToLong(length)
    <2>5. Total(Own(f), DOMAIN f.nodes) = Total(Own(e), DOMAIN e.nodes) + more
        <3> DEFINE S == DOMAIN e.nodes
                   own == Own(e)
                   now == Own(f)
        <3>1. IsFiniteSet(S) /\ node \in S /\ \A n \in S : own[n] \in Nat
            <4>1. Rooted(e)
                BY <1>1 DEF Sized
            <4>2. \A n \in S : OwnSize(e.nodes[n]) \in Nat
                BY <4>1, RootedNodes
            <4>3. S = 1 .. Len(e.nodes) /\ Len(e.nodes) \in Nat
                BY <4>1, RootedNodes
            <4>4. IsFiniteSet(S)
                <5>1. 1 \in Int /\ Len(e.nodes) \in Int
                    BY <4>3
                <5>2. IsFiniteSet(1 .. Len(e.nodes))
                    BY <5>1, FS_Interval
                <5> QED
                    BY <4>3, <5>2
            <4> QED
                BY <1>3, <4>2, <4>4 DEF Own
        <3>2. now[node] = own[node] + more
            <4>1. now[node] = OwnSize(after) /\ own[node] = OwnSize(before)
                BY <1>3, <1>7, <2>1 DEF Own, before
            <4>2. OwnSize(after) = OwnSize(before) + PropertySize + RoundToLong(length)
                BY <1>3, <1>4, <1>6, OwnAppend
            <4>3. OwnSize(before) \in Nat
                BY <1>3, OwnType
            <4> QED
                BY <2>4, <4>1, <4>2, <4>3
        <3>3. \A n \in S : n # node => now[n] = own[n]
            BY <1>7, <2>1 DEF Own
        <3>4. more \in Nat
            BY <2>4
        <3>5. DOMAIN f.nodes = S
            BY <1>7, <2>1
        <3> HIDE DEF S, own, now, more
        <3>6. Total(now, S) = Total(own, S) + more
            BY <3>1, <3>2, <3>3, <3>4, MoreOwn
        <3> QED
            BY <3>5, <3>6 DEF S, own, now
    <2>6. DT__FlattenDeviceTree(f) = DT__FlattenDeviceTree(e) + more
        <3> DEFINE a == e.numNodes * NodeSize
                   b == e.numProperties * PropertySize
        <3>1. /\ e.numNodes \in Nat /\ e.numProperties \in Nat
              /\ e.totalPropertySize \in Nat
            BY <1>1 DEF Pool
        <3>2. a \in Nat /\ b \in Nat
            BY <2>4, <3>1
        <3>3. num * PropertySize = b + PropertySize
            BY <2>4, <3>1, OneMore DEF num
        <3>4. DT__FlattenDeviceTree(e) = a + b + e.totalPropertySize
            BY DEF DT__FlattenDeviceTree
        <3>5. DT__FlattenDeviceTree(f) = a + num * PropertySize + total
            BY <2>1 DEF DT__FlattenDeviceTree
        <3> HIDE DEF a, b
        <3> QED
            BY <2>4, <3>1, <3>2, <3>3, <3>4, <3>5 DEF total
    <2> QED
        BY <1>1, <2>2, <2>3, <2>5, <2>6 DEF Sized
<1>9. CASE e.freeProperties = 0
    BY <1>1, <1>2, <1>9
<1> QED
    BY <1>8, <1>9

(* A node more takes its own header, and its name if it has one. *)
LEMMA AddChildSized ==
    ASSUME NEW d \in Pool, Exact(d), Sized(d), NEW named \in BOOLEAN,
           NEW parent \in Nat,
           parent \in DOMAIN d.nodes \/ (parent = 0 /\ d.nodes = <<>>)
    PROVE  Sized(DT__AddChild(d, parent, named).dt)
<1> DEFINE e == RefillNodes(d)
           node == Len(e.nodes) + 1
           child == [parent |-> parent, properties |-> <<>>]
           free == e.freeNodes - 1
           nodes == Append(e.nodes, child)
           root == IF parent = 0 THEN node ELSE e.rootNode
           num == e.numNodes + 1
           f == [e EXCEPT !.freeNodes = free, !.nodes = nodes,
                          !.rootNode = root, !.numNodes = num]
           r == DT__AddChild(d, parent, named)
<1> SUFFICES Sized(r.dt)
    OBVIOUS
<1>1. Keeps(d, e) /\ Sized(e) /\ e.nodes = d.nodes
    BY RefillKeeps, RefillSame, SizedSame
<1>2. r = IF e.freeNodes = 0 THEN [dt |-> e, node |-> 0]
          ELSE [dt |-> IF named THEN DT__AddProperty(f, node, NameLength) ELSE f,
                node |-> node]
    BY DEF DT__AddChild
<1> HIDE DEF e, r
<1>3. e \in Pool /\ Exact(e)
    BY <1>1 DEF Keeps
<1>4. CASE e.freeNodes # 0
    <2> DEFINE N == Len(e.nodes)
    <2>1. /\ e.nodes \in Seq(Node) /\ node \in Nat /\ node # 0 /\ child \in Node
          /\ N \in Nat /\ DOMAIN e.nodes = 1 .. N /\ node = N + 1
        <3>1. e.nodes \in Nodes
            BY <1>3 DEF Pool
        <3> QED
            BY <3>1 DEF Node, Nodes
    <2>2. child.parent = parent /\ child.properties = <<>>
        OBVIOUS
    <2>3. /\ nodes \in Seq(Node) /\ DOMAIN nodes = 1 .. node
          /\ nodes[node] = child /\ \A n \in 1 .. N : nodes[n] = e.nodes[n]
          /\ nodes # <<>>
        <3> HIDE DEF child
        <3>1. /\ nodes \in Seq(Node) /\ Len(nodes) = N + 1 /\ nodes[N + 1] = child
              /\ \A n \in 1 .. N : nodes[n] = e.nodes[n]
            BY <2>1, AppendProperties
        <3> HIDE DEF nodes
        <3>2. DOMAIN nodes = 1 .. Len(nodes)
            BY <3>1
        <3>3. nodes # <<>>
            BY <2>1, <3>1
        <3> QED
            BY <2>1, <3>1, <3>2, <3>3
    <2>4. e.freeNodes \in Nat /\ e.numNodes \in Nat /\ e.rootNode \in Nat
          /\ e.numProperties \in Nat /\ e.totalPropertySize \in Nat
        BY <1>3 DEF Pool
    <2>5. free \in Nat /\ num \in Nat /\ root \in Nat
        BY <1>4, <2>1, <2>4
    <2> HIDE DEF child, node, nodes, N, root, free
    <2>6. num = e.numNodes + 1
        OBVIOUS
    <2> HIDE DEF num
    <2>7. /\ f.nodes = nodes /\ f.rootNode = root /\ f.numNodes = num
          /\ f.allocedNodes = e.allocedNodes /\ f.freeNodes = free
          /\ f.numProperties = e.numProperties /\ f.freeProperties = e.freeProperties
          /\ f.allocedProperties = e.allocedProperties
          /\ f.totalPropertySize = e.totalPropertySize
          /\ f \in Pool
        BY <1>3, <2>3, <2>5 DEF Pool, Nodes
    <2> HIDE DEF f
    <2>8. Exact(f)
        <3>1. free + num = e.freeNodes + e.numNodes
            BY <2>4, <2>6 DEF free
        <3> QED
            BY <1>3, <2>7, <3>1 DEF Exact
    <2>9. Rooted(f)
        <3>1. ASSUME NEW n \in DOMAIN nodes
              PROVE  IF n = 1 THEN nodes[n].parent = 0 ELSE nodes[n].parent \in 1 .. n - 1
            <4>1. CASE n = node
                <5>1. nodes[n].parent = parent
                    BY <2>2, <2>3, <4>1
                <5>2. parent \in 1 .. N \/ (parent = 0 /\ N = 0)
                    <6>1. e.nodes = <<>> => N = 0
                        BY DEF N
                    <6> QED
                        BY <1>1, <2>1, <6>1
                <5> QED
                    BY <2>1, <4>1, <5>1, <5>2
            <4>2. CASE n # node
                <5>1. n \in 1 .. N /\ n \in DOMAIN e.nodes
                    BY <2>1, <2>3, <4>2
                <5> QED
                    BY <1>1, <2>3, <5>1 DEF Sized, Rooted
            <4> QED
                BY <4>1, <4>2
        <3>2. f.nodes = nodes /\ nodes \in Nodes
            BY <2>3, <2>7 DEF Nodes
        <3> QED
            BY <3>1, <3>2 DEF Rooted
    <2>10. f.rootNode = IF f.nodes = <<>> THEN 0 ELSE 1
        <3>1. CASE parent = 0
            <4>1. e.nodes = <<>>
                <5>1. 0 \notin DOMAIN e.nodes
                    BY <2>1
                <5> QED
                    BY <1>1, <3>1, <5>1
            <4>2. N = 0
                BY <4>1 DEF N
            <4> QED
                BY <2>1, <2>3, <2>7, <3>1, <4>2 DEF root
        <3>2. CASE parent # 0
            <4>1. e.nodes # <<>>
                <5>1. parent \in DOMAIN e.nodes
                    BY <1>1, <3>2
                <5> QED
                    BY <5>1
            <4>2. e.rootNode = 1
                BY <1>1, <4>1 DEF Sized
            <4> QED
                BY <2>3, <2>7, <3>2, <4>2 DEF root
        <3> QED
            BY <3>1, <3>2
    <2>11. Total(Own(f), DOMAIN f.nodes) = Total(Own(e), DOMAIN e.nodes) + NodeSize
        <3> DEFINE own == Own(e)
                   now == Own(f)
        <3>1. \A n \in 1 .. node : now[n] \in Nat
            <4>1. \A n \in 1 .. node : nodes[n] \in Node
                <5>1. \A t \in Seq(Node) : \A n \in DOMAIN t : t[n] \in Node
                    OBVIOUS
                <5> QED
                    BY <2>3, <5>1
            <4> QED
                BY <2>3, <2>7, <4>1, OwnType DEF Own
        <3>2. now[node] = NodeSize
            <4>1. node \in DOMAIN f.nodes
                BY <2>1, <2>3, <2>7
            <4>2. now[node] = OwnSize(child)
                BY <2>3, <2>7, <4>1 DEF Own
            <4> QED
                BY <2>1, <2>2, <4>2, OwnEmpty
        <3>3. \A n \in 1 .. N : now[n] = own[n]
            BY <2>1, <2>3, <2>7 DEF Own
        <3> HIDE DEF own, now
        <3>4. (1 .. node) \ {node} = 1 .. N /\ node \in 1 .. node
            BY <2>1
        <3>5. IsFiniteSet(1 .. node) /\ IsFiniteSet(1 .. N)
            <4>1. 1 \in Int /\ node \in Int /\ N \in Int
                BY <2>1
            <4> QED
                BY <4>1, FS_Interval
        <3>6. Total(now, 1 .. node) = now[node] + Total(now, (1 .. node) \ {node})
            BY <3>1, <3>4, <3>5, SumStep
        <3>7. \A n \in 1 .. N : now[n] \in Nat /\ now[n] = own[n]
            BY <2>1, <3>1, <3>3
        <3>8. Total(now, 1 .. N) = Total(own, 1 .. N) /\ Total(now, 1 .. N) \in Nat
            BY <3>5, <3>7, SumSame, SumType
        <3>9. NodeSize \in Nat
            BY PoolAssumption
        <3>10. Total(now, 1 .. node) = Total(own, 1 .. N) + NodeSize
            <4>1. Total(now, 1 .. node) = NodeSize + Total(own, 1 .. N)
                BY <3>2, <3>4, <3>6, <3>8
            <4>2. Total(own, 1 .. N) \in Nat
                BY <3>8
            <4>3. \A a, b \in Nat : a + b = b + a
                OBVIOUS
            <4> QED
                BY <3>9, <4>1, <4>2, <4>3
        <3>11. DOMAIN f.nodes = 1 .. node /\ DOMAIN e.nodes = 1 .. N
            BY <2>1, <2>3, <2>7
        <3> QED
            BY <3>10, <3>11 DEF own, now
    <2>12. DT__FlattenDeviceTree(f) = DT__FlattenDeviceTree(e) + NodeSize
        <3> DEFINE a == e.numNodes * NodeSize
                   b == e.numProperties * PropertySize
        <3>1. NodeSize \in Nat /\ PropertySize \in Nat
            BY PoolAssumption
        <3>2. a \in Nat /\ b \in Nat
            BY <2>4, <3>1
        <3>3. num * NodeSize = a + NodeSize
            BY <2>4, <2>6, <3>1, OneMore
        <3>4. DT__FlattenDeviceTree(e) = a + b + e.totalPropertySize
            BY DEF DT__FlattenDeviceTree
        <3>5. DT__FlattenDeviceTree(f) = num * NodeSize + b + e.totalPropertySize
            BY <2>7 DEF DT__FlattenDeviceTree
        <3> HIDE DEF a, b
        <3> QED
            BY <2>4, <3>1, <3>2, <3>3, <3>4, <3>5
    <2>13. Sized(f)
        BY <1>1, <2>9, <2>10, <2>11, <2>12 DEF Sized
    <2>14. CASE named
        <3>1. r.dt = DT__AddProperty(f, node, NameLength)
            BY <1>2, <1>4, <2>14
        <3>2. node \in DOMAIN f.nodes /\ NameLength \in Nat
            BY <2>1, <2>3, <2>7, PoolAssumption
        <3> QED
            BY <2>7, <2>8, <2>13, <3>1, <3>2, AddPropertySized
    <2>15. CASE ~named
        <3>1. r.dt = f
            BY <1>2, <1>4, <2>15
        <3> QED
            BY <2>13, <3>1
    <2> QED
        BY <2>14, <2>15
<1>5. CASE e.freeNodes = 0
    BY <1>1, <1>2, <1>5
<1> QED
    BY <1>4, <1>5

(* A heap that has no block for one node has none for the next. *)
LEMMA NoNodeLeft ==
    ASSUME NEW d \in Pool, NEW parent, NEW named, NEW above, NEW name,
           DT__AddChild(d, parent, named).node = 0, Len(d.nodes) \in Nat
    PROVE  DT__AddChild(DT__AddChild(d, parent, named).dt, above, name).node = 0
<1> DEFINE e == RefillNodes(d)
           r == DT__AddChild(d, parent, named)
<1>1. e.nodes = d.nodes
    BY RefillSame
<1>2. e.freeNodes = 0 /\ r.dt = e
    <2>1. e.freeNodes # 0 => r.node = Len(e.nodes) + 1
        BY DEF DT__AddChild
    <2>2. Len(e.nodes) + 1 # 0
        BY <1>1
    <2>3. e.freeNodes = 0
        BY <2>1, <2>2
    <2> QED
        BY <2>3 DEF DT__AddChild
<1>3. d.freeNodes = 0 /\ ~malloc_ok(d) /\ e = d
    <2>1. ASSUME d.freeNodes = 0, malloc_ok(d) PROVE FALSE
        <3>1. e.freeNodes = NodesPerBlock - 1
            BY <2>1 DEF RefillNodes, Pool
        <3>2. NodesPerBlock - 1 # 0
            BY PoolAssumption
        <3> QED
            BY <1>2, <3>1, <3>2
    <2>2. e = d
        BY <2>1 DEF RefillNodes
    <2> QED
        BY <1>2, <2>1, <2>2
<1> HIDE DEF r
<1>4. RefillNodes(r.dt) = r.dt /\ r.dt.freeNodes = 0
    BY <1>2, <1>3
<1>5. DT__AddChild(r.dt, above, name).node = 0
    BY <1>4 DEF DT__AddChild
<1> QED
    BY <1>5 DEF r

(* The first node is the root. *)
LEMMA NewRoot ==
    ASSUME NEW d \in Pool, Exact(d), d.nodes = <<>>, NEW named \in BOOLEAN
    PROVE  LET r == DT__AddChild(d, 0, named)
           IN  r.node = r.dt.rootNode \/ r.node = 0
<1> DEFINE e == RefillNodes(d)
           node == Len(e.nodes) + 1
           child == [parent |-> 0, properties |-> <<>>]
           free == e.freeNodes - 1
           nodes == Append(e.nodes, child)
           num == e.numNodes + 1
           f == [e EXCEPT !.freeNodes = free, !.nodes = nodes,
                          !.rootNode = node, !.numNodes = num]
           r == DT__AddChild(d, 0, named)
<1>1. r = IF e.freeNodes = 0 THEN [dt |-> e, node |-> 0]
          ELSE [dt |-> IF named THEN DT__AddProperty(f, node, NameLength) ELSE f,
                node |-> node]
    BY DEF DT__AddChild
<1>2. e \in Pool
    BY RefillKeeps DEF Keeps
<1> HIDE DEF e, node, nodes, free, num
<1>3. f.rootNode = node
    BY <1>2 DEF Pool
<1> HIDE DEF f
<1>4. DT__AddProperty(f, node, NameLength).rootNode = node
    <2> DEFINE g == RefillProperties(f)
    <2>1. g.rootNode = f.rootNode
        BY DEF RefillProperties
    <2> HIDE DEF g
    <2>2. DT__AddProperty(f, node, NameLength).rootNode = g.rootNode
        BY DEF DT__AddProperty, g
    <2> QED
        BY <1>3, <2>1, <2>2
<1> HIDE DEF r
<1>5. r.node = r.dt.rootNode \/ r.node = 0
    BY <1>1, <1>3, <1>4
<1> QED
    BY <1>5 DEF r

(* An empty tree takes up nothing. *)
LEMMA EmptySized ==
    ASSUME NEW n
    PROVE  Sized([Empty EXCEPT !.live = n])
<1> DEFINE e == [Empty EXCEPT !.live = n]
<1>1. /\ e.nodes = <<>> /\ e.rootNode = 0 /\ e.numNodes = 0 /\ e.numProperties = 0
      /\ e.totalPropertySize = 0
    BY DEF Empty
<1> HIDE DEF e
<1>2. DOMAIN e.nodes = {} /\ e.nodes \in Nodes
    BY <1>1 DEF Nodes
<1>3. Rooted(e) /\ e.rootNode = IF e.nodes = <<>> THEN 0 ELSE 1
    BY <1>1, <1>2 DEF Rooted
<1>4. Total(Own(e), DOMAIN e.nodes) = 0
    BY <1>2, SumEmpty
<1>5. DT__FlattenDeviceTree(e) = 0
    BY <1>1, PoolAssumption DEF DT__FlattenDeviceTree
<1>6. Sized(e)
    BY <1>3, <1>4, <1>5 DEF Sized
<1> QED
    BY <1>6 DEF e

(***************************************************************************)
(* The strengthening of SizeExact: the tree keeps its size as long as the  *)
(* loader goes on.                                                         *)
(***************************************************************************)
Measured ==
    /\ phase # "halted" => Sized(dt)
    /\ SizeExact

(* Nothing was built and nothing was written. *)
LEMMA MeasuredInit == Init => Measured
<1> SUFFICES ASSUME Init PROVE Measured
    OBVIOUS
<1>1. Empty = [Empty EXCEPT !.live = 0]
    BY DEF Empty
<1>2. Sized(dt)
    BY <1>1, EmptySized DEF Init
<1>3. flat = [announced |-> 0, written |-> 0]
    BY DEF Init
<1> QED
    BY <1>2, <1>3 DEF Measured, SizeExact

(* What is counted is what is written. *)
LEMMA SizedFlattens ==
    ASSUME NEW d, Sized(d)
    PROVE  DT__FlattenDeviceTree(d) = FlattenNodes(d)
BY FlattenIsTotal DEF Sized

(* The steps that add to the tree add to what is counted. *)
LEMMA MeasuredStep ==
    ASSUME Tree, Measured, [Next]_vars
    PROVE  Measured'
<1> USE DEF Measured
<1>0. dt \in Pool /\ Exact(dt) /\ dt.nodes \in Nodes
    BY DEF Tree, Pool
<1>1. CASE ParseStart
    <2> DEFINE empty == [Empty EXCEPT !.live = dt.live]
               r == DT__AddChild(empty, 0, TRUE)
    <2>1. dt' = [r.dt EXCEPT !.rootNode = r.node] /\ flat' = flat
        BY <1>1 DEF ParseStart, DT__Initialize
    <2>2. dt.live \in Nat
        BY <1>0 DEF Pool
    <2>3. empty \in Pool /\ Exact(empty) /\ Sized(empty) /\ empty.nodes = <<>>
        <3>1. empty.nodes = <<>>
            BY DEF Empty
        <3> QED
            BY <2>2, <3>1, EmptyPool, EmptySized
    <2> HIDE DEF empty
    <2>4. Keeps(empty, r.dt) /\ Sized(r.dt)
        <3>1. 0 \in Nat /\ TRUE \in BOOLEAN
            OBVIOUS
        <3>2. Keeps(empty, r.dt)
            BY <2>3, <3>1, AddChildKeeps, Zenon
        <3>3. Sized(r.dt)
            BY <2>3, <3>1, AddChildSized
        <3> QED
            BY <3>2, <3>3
    <2>5. r.node = r.dt.rootNode \/ r.node = 0
        BY <2>3, NewRoot
    <2> HIDE DEF r
    <2>6. dt'.rootNode = r.node
        BY <2>1, <2>4 DEF Keeps, Pool
    <2>7. CASE dt'.rootNode = 0
        <3>1. phase' = "halted"
            BY <1>1, <2>7 DEF ParseStart
        <3> QED
            BY <2>1, <3>1 DEF SizeExact
    <2>8. CASE dt'.rootNode # 0
        <3>1. r.node = r.dt.rootNode /\ r.dt \in Pool
            BY <2>4, <2>5, <2>6, <2>8 DEF Keeps
        <3>2. dt' = r.dt
            BY <2>1, <3>1 DEF Pool
        <3> QED
            BY <2>1, <2>4, <3>2 DEF SizeExact
    <2> QED
        BY <2>7, <2>8
<1>2. CASE ParseChild
    <2> DEFINE r == DT__AddChild(dt, Last(path), FALSE)
    <2>1. phase = "parsing" /\ dt' = r.dt /\ flat' = flat
        BY <1>2 DEF ParseChild
    <2>2. Last(path) \in DOMAIN dt.nodes /\ DOMAIN dt.nodes \subseteq Nat
        BY <1>0, <2>1 DEF Tree, Last, Nodes
    <2>3. Last(path) \in Nat /\ FALSE \in BOOLEAN
        BY <2>2
    <2>4. Sized(dt')
        BY <1>0, <2>1, <2>2, <2>3, AddChildSized
    <2> QED
        BY <2>1, <2>4 DEF SizeExact
<1>3. CASE \E length \in Lengths : ParseProperty(length)
    <2>1. PICK length \in Lengths : ParseProperty(length)
        BY <1>3
    <2>2. /\ phase = "parsing" /\ dt' = DT__AddProperty(dt, Last(path), length)
          /\ flat' = flat
        BY <2>1 DEF ParseProperty
    <2>3. length \in Nat /\ Last(path) \in DOMAIN dt.nodes
        BY <2>2, PoolAssumption DEF Tree, Last
    <2>4. Sized(dt')
        BY <1>0, <2>2, <2>3, AddPropertySized
    <2> QED
        BY <2>2, <2>4 DEF SizeExact
<1>4. CASE ParseUp
    BY <1>4 DEF ParseUp, SizeExact
<1>5. CASE ParseFails
    BY <1>5 DEF ParseFails, SizeExact
<1>6. CASE create_memory_map
    <2> DEFINE chosen == DT__AddChild(dt, dt.rootNode, TRUE)
               map == DT__AddChild(chosen.dt, chosen.node, TRUE)
    <2>1. /\ phase = "loaded" /\ dt' = map.dt /\ flat' = flat
          /\ phase' = (IF map.node = 0 THEN "halted" ELSE "booting")
        BY <1>6 DEF create_memory_map
    <2>2. dt.rootNode \in Nat /\ TRUE \in BOOLEAN /\ Len(dt.nodes) \in Nat
        BY <1>0 DEF Pool, Nodes
    <2>3. dt.rootNode \in DOMAIN dt.nodes \/ (dt.rootNode = 0 /\ dt.nodes = <<>>)
        <3>1. dt.nodes # <<>> => 1 \in DOMAIN dt.nodes
            BY <1>0 DEF Nodes
        <3> QED
            BY <2>1, <3>1 DEF Sized
    <2>4. Sized(chosen.dt)
        BY <1>0, <2>1, <2>2, <2>3, AddChildSized
    <2>5. /\ Keeps(dt, chosen.dt) /\ chosen.node \in Nat
          /\ chosen.node # 0 => chosen.node \in DOMAIN chosen.dt.nodes
        BY <1>0, <2>2, AddChildKeeps
    <2>6. chosen.node = 0 => map.node = 0
        BY <1>0, <2>2, NoNodeLeft
    <2> HIDE DEF chosen
    <2>7. map.node # 0 => Sized(map.dt)
        BY <2>2, <2>4, <2>5, <2>6, AddChildSized DEF Keeps
    <2> HIDE DEF map
    <2> QED
        BY <2>1, <2>7 DEF SizeExact
<1>7. CASE enter_memory_range
    <2>1. /\ phase = "booting" /\ dt' = DT__AddProperty(dt, memory_map, RangeLength)
          /\ UNCHANGED <<phase, flat>>
        BY <1>7 DEF enter_memory_range
    <2>2. Sized(dt')
        BY <1>0, <2>1, AddPropertySized, PoolAssumption DEF Tree
    <2> QED
        BY <2>1, <2>2 DEF SizeExact
<1>8. CASE flatten_device_tree
    <2>1. /\ phase = "booting" /\ dt' = dt
          /\ flat' = [announced |-> DT__FlattenDeviceTree(dt), written |-> FlattenNodes(dt)]
        BY <1>8 DEF flatten_device_tree
    <2>2. DT__FlattenDeviceTree(dt) = FlattenNodes(dt)
        BY <2>1, SizedFlattens
    <2> QED
        BY <2>1, <2>2 DEF SizeExact
<1>9. CASE BootSucceeds \/ BootFails \/ Teardown
    <2>1. flat' = flat /\ dt' = DT__Finalize(dt)
        BY <1>9 DEF BootSucceeds, BootFails, Teardown
    <2>2. Sized(dt')
        BY <2>1, EmptySized DEF DT__Finalize
    <2> QED
        BY <2>1, <2>2 DEF SizeExact
<1>10. CASE UNCHANGED vars
    BY <1>10 DEF vars, SizeExact
<1> QED
    BY <1>1, <1>2, <1>3, <1>4, <1>5, <1>6, <1>7, <1>8, <1>9, <1>10 DEF Next

(* Whatever was parsed before, whichever parses failed and wherever the    *)
(* heap ran out: what mach_boot reserves for the flattened tree is what    *)
(* FlattenNodes writes there, for trees of any shape and size.             *)
THEOREM SizeIsExact == Spec => []SizeExact
<1>1. Init => Tree /\ Measured
    BY TreeInit, MeasuredInit
<1>2. Tree /\ Measured /\ [Next]_vars => (Tree /\ Measured)'
    BY TreeStep, MeasuredStep
<1>3. Measured => SizeExact
    BY DEF Measured
<1> QED
    BY <1>1, <1>2, <1>3, PTL DEF Spec
=============================================================================
