----------------------------- MODULE XmlDeviceTree -----------------------------
(***************************************************************************)
(* parse_xml_device_tree (main/XML_device_tree.c): the first dictionary of *)
(* the text becomes the device tree, its keys properties, the key          *)
(* "@children" the nodes below.  A kernel that is loaded again is given    *)
(* its device tree again, from the same text or from another.              *)
(*                                                                         *)
(* A node is its properties in order and its children in order; the pools  *)
(* it is made from are in DeviceTree.                                      *)
(***************************************************************************)
EXTENDS XmlPlist

CONSTANTS
    Docs,           \* the documents: items and, as a set of at most one, the
                    \* tree a well-formed one describes, see Document
    LaterDocs       \* those that are parsed after another

VARIABLES
    says,       \* what the document being parsed describes
    scanned,    \* the text had been parsed before this parse
    result,     \* what the parse returned, "none" before that
    tree,       \* the device tree
    parses      \* the parses so far

vars == <<plist_vars, says, scanned, result, tree, parses>>

EmptyTree == [properties |-> <<>>, children |-> <<>>]

-----------------------------------------------------------------------------
(* A tag and its successors. *)
RECURSIVE Tags(_)
Tags(t) == IF t = 0 THEN <<>> ELSE <<t>> \o Tags(heap.tags[t].tagNext)

type(t) == IF t = 0 THEN "none" ELSE heap.tags[t].type

IsChildren(key) == type(heap.tags[key].tag) = "array" /\ Head(heap.tags[key].string) = "@"

IsProperty(key) ==
    ~IsChildren(key) /\ type(heap.tags[key].tag) \in {"array", "integer", "string"}

(* Integers and strings, in the order of the list. *)
ArrayToDeviceTreeData(array) ==
    LET elements == Tags(heap.tags[array].tag)
    IN  [i \in DOMAIN elements |-> heap.tags[elements[i]].string]

PropertyData(value) ==
    IF type(value) = "array" THEN ArrayToDeviceTreeData(value)
    ELSE <<heap.tags[value].string>>

(* What asserts and panics let through: dictionaries of keys, arrays that  *)
(* are not empty, data of integers and strings.                            *)
RECURSIVE Populates(_)
Populates(t) ==
    /\ type(t) = "dict"
    /\ \A key \in ToSet(Tags(heap.tags[t].tag)) :
        /\ type(key) = "key"
        /\ LET value == heap.tags[key].tag
               elements == IF value = 0 THEN {} ELSE ToSet(Tags(heap.tags[value].tag))
           IN  type(value) = "array" =>
                /\ elements # {}
                /\ IF IsChildren(key) THEN \A e \in elements : Populates(e)
                   ELSE \A e \in elements : type(e) \in {"integer", "string"}

(* Mutant: children are added behind the others. *)
DT__AddChild_Last(children, child) == Append(children, child)

(* A child is put in front of the others. *)
DT__AddChild(children, child) == <<child>> \o children

(* The node of a dictionary: a property for each key, the children of an   *)
(* array one by one.                                                       *)
RECURSIVE PopulateDeviceTreeNode(_)
PopulateDeviceTreeNode(t) ==
    LET keys == Tags(heap.tags[t].tag)
        properties == SelectSeq(keys, IsProperty)
        arrays == SelectSeq(keys, IsChildren)
        dicts == FlattenSeq([i \in DOMAIN arrays |-> Tags(heap.tags[heap.tags[arrays[i]].tag].tag)])
    IN  [properties |-> [i \in DOMAIN properties |->
                            <<heap.tags[properties[i]].string,
                              PropertyData(heap.tags[properties[i]].tag)>>],
         children |-> FoldLeft(DT__AddChild, <<>>,
                               [i \in DOMAIN dicts |-> PopulateDeviceTreeNode(dicts[i])])]

-----------------------------------------------------------------------------
Init ==
    /\ \E d \in Docs : doc = d.items /\ says = d.says
    /\ cut = 0
    /\ pos = 0
    /\ heap = EmptyHeap
    /\ calls = <<>>
    /\ next = "call"
    /\ ret = 0
    /\ scanned = FALSE
    /\ result = "none"
    /\ tree = EmptyTree
    /\ parses = 1

InParser == XMLParseNextTag /\ UNCHANGED <<says, scanned, result, tree, parses>>

ReturnsToParse == next = "return" /\ calls = <<>>

NoTag ==
    /\ ReturnsToParse
    /\ ret = 0
    /\ next' = "call"
    /\ UNCHANGED <<doc, cut, pos, heap, calls, ret, says, scanned, result, tree, parses>>

(* Mutant: anything that is no dictionary ends the parse. *)
NotADictionary_Fails ==
    /\ ReturnsToParse
    /\ ret > 0
    /\ type(ret) # "dict"
    /\ heap' = XMLFreeTag(heap, ret)
    /\ result' = "failed"
    /\ next' = "idle"
    /\ UNCHANGED <<doc, cut, pos, calls, ret, says, scanned, tree, parses>>

(* Other elements are skipped. *)
NotADictionary ==
    /\ ReturnsToParse
    /\ ret > 0
    /\ type(ret) # "dict"
    /\ heap' = XMLFreeTag(heap, ret)
    /\ next' = "call"
    /\ UNCHANGED <<doc, cut, pos, calls, ret, says, scanned, result, tree, parses>>

NotFound ==
    /\ ReturnsToParse
    /\ ret = -1
    /\ result' = "failed"
    /\ next' = "idle"
    /\ UNCHANGED <<doc, cut, pos, heap, calls, ret, says, scanned, tree, parses>>

Found ==
    /\ ReturnsToParse
    /\ ret > 0
    /\ type(ret) = "dict"
    /\ IF Populates(ret)
       THEN /\ tree' = PopulateDeviceTreeNode(ret)
            /\ heap' = XMLFreeTag(heap, ret)
            /\ result' = "loaded"
            /\ next' = "idle"
       ELSE /\ next' = "halted"
            /\ UNCHANGED <<tree, heap, result>>
    /\ UNCHANGED <<doc, cut, pos, calls, ret, says, scanned, parses>>

(* imgx on the same image again, or on another one.                        *)
ParseAgain(d) ==
    /\ next = "idle"
    /\ parses < MaxParses
    /\ doc' = d.items
    /\ says' = d.says
    /\ cut' = IF d.items = doc THEN cut ELSE 0
    /\ scanned' = (d.items = doc)
    /\ pos' = 0
    /\ next' = "call"
    /\ result' = "none"
    /\ tree' = EmptyTree
    /\ parses' = parses + 1
    /\ UNCHANGED <<heap, calls, ret>>

parse_xml_device_tree ==
    \/ InParser
    \/ NoTag
    \/ NotADictionary
    \/ NotFound
    \/ Found

Next ==
    \/ parse_xml_device_tree
    \/ \E d \in LaterDocs \cup {[items |-> doc, says |-> says]} : ParseAgain(d)

(* A parse that was begun runs; nobody need load an image again. *)
Spec == Init /\ [][Next]_vars /\ WF_vars(parse_xml_device_tree)

-----------------------------------------------------------------------------
(***************************************************************************)
(* What a well-formed document says.  A dictionary is a sequence of keys   *)
(* and values; a value is <<"integer", n>>, <<"string", s>>, <<"data", s>>,*)
(* <<"true", "">>, <<"array", values>> or <<"children", dictionaries>>.    *)
(***************************************************************************)
Item(text, tag) == <<[text |-> text, tag |-> tag]>>

Element(tag, text) == Item("", tag) \o Item(text, EndTag[tag])

RECURSIVE TextOf(_), ValueText(_)
ValueText(v) ==
    CASE v[1] \in {"integer", "string", "data"} -> Element(v[1], v[2])
      [] v[1] = "true" -> Item("", "true/")
      [] v[1] = "array" ->
            Item("", "array") \o FlattenSeq([i \in DOMAIN v[2] |-> ValueText(v[2][i])])
                              \o Item("", "/array")
      [] v[1] = "children" ->
            Item("", "array") \o FlattenSeq([i \in DOMAIN v[2] |-> TextOf(v[2][i])])
                              \o Item("", "/array")

TextOf(d) ==
    Item("", "dict")
        \o FlattenSeq([i \in DOMAIN d |-> Element("key", d[i][1]) \o ValueText(d[i][2])])
        \o Item("", "/dict")

(* Properties come in the reverse order, and so do the numbers and strings *)
(* of one property; children keep theirs.                                  *)
RECURSIVE TreeOf(_)
TreeOf(d) ==
    LET data(v) == IF v[1] = "array" THEN Reverse([i \in DOMAIN v[2] |-> <<v[2][i][2]>>])
                   ELSE <<<<v[2]>>>>
        properties == SelectSeq(d, LAMBDA e : e[2][1] \in {"integer", "string", "array"})
        children == SelectSeq(d, LAMBDA e : e[2][1] = "children")
        below == FlattenSeq([i \in DOMAIN children |-> children[i][2][2]])
    IN  [properties |-> Reverse([i \in DOMAIN properties |->
                                    <<<<properties[i][1]>>, data(properties[i][2])>>]),
         children |-> [i \in DOMAIN below |-> TreeOf(below[i])]]

Document(d) == [items |-> TextOf(d), says |-> {TreeOf(d)}]

(* A well-formed document that is accepted becomes the tree it describes,  *)
(* whatever was parsed before it and whatever the free list looks like.    *)
TreeAsWritten == result = "loaded" => says \subseteq {tree}

(* It is refused only for want of tags, or because an earlier parse has    *)
(* cut its text; and it never ends in a panic.                             *)
RefusesWithReason ==
    says # {} =>
        /\ next # "halted"
        /\ result = "failed" => scanned \/ Len(heap.tags) = MaxBlocks * TagsPerBlock

(* The parser works in the text: the same text is never loaded twice, and  *)
(* what is left of it is never taken for another tree.                     *)
LoadsOnce == result = "loaded" => ~scanned

(* Every parse ends. *)
EveryCallEnds == next = "call" ~> next \in {"idle", "halted"}
=============================================================================
