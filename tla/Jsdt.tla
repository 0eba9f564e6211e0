--------------------------------- MODULE Jsdt ---------------------------------
(***************************************************************************)
(* JSDT device trees (main/JS_device_tree.c): the retry loop around the    *)
(* tokenizer and the builder, whose recursion over tokens is a stack of    *)
(* frames.  A frame is a call of build_node or walk_children with the node *)
(* it builds and its count `nested'; the skips the calls return add up to  *)
(* the one index i.                                                        *)
(*                                                                         *)
(* A token past the tokenizer's last one is memory malloc returned: what   *)
(* follows from reading it is "undefined", and the model stops there.      *)
(***************************************************************************)
EXTENDS Jsmn

VARIABLES
    phase,      \* "tokenize", "build", "loaded", "malformed", "parse error"
                \* or "undefined"
    frames,     \* the calls, outermost first
    i,          \* the token the innermost call is at
    nodes,      \* the tree: parent and properties of each node, in the order
                \* of DT__AddChild
    node_count  \* ctx.node_count

build_vars == <<phase, frames, i, nodes, node_count>>
vars == <<jsmn_vars, build_vars>>

Init ==
    /\ JsmnInit
    /\ phase = "tokenize"
    /\ frames = <<>>
    /\ i = 1
    /\ nodes = <<>>
    /\ node_count = 0

Node(parent) == [parent |-> parent, properties |-> <<>>]

type(k) == tokens[k].type
Known(k) == k <= Len(tokens)

Ends(result) ==
    /\ phase' = result
    /\ UNCHANGED <<jsmn_vars, frames, i, nodes, node_count>>

-----------------------------------------------------------------------------
(* parse_jsdt_device_tree                                                  *)
Tokenize == phase = "tokenize" /\ jsmn_parse /\ UNCHANGED build_vars

(* Mutant: the array is not made larger. *)
more_tokens_Same == token_cnt

more_tokens == token_cnt + MoreTokens

ParseAgain ==
    /\ phase = "tokenize"
    /\ err = "nomem"
    /\ token_cnt' = more_tokens
    /\ tokens' = <<>>
    /\ parser' = jsmn_init
    /\ err' = "none"
    /\ UNCHANGED <<doc, build_vars>>

TokenizerFails ==
    /\ phase = "tokenize"
    /\ err \in {"inval", "part"}
    /\ Ends("parse error")

TokenizerOverruns ==
    /\ phase = "tokenize"
    /\ err = "undefined"
    /\ Ends("undefined")

(* build_device_tree: DT__Initialize makes the root, build_node looks at   *)
(* the first token.                                                        *)
BuildStart ==
    /\ phase = "tokenize"
    /\ err = "success"
    /\ nodes' = <<Node(0)>>
    /\ IF Known(1) /\ type(1) = "object"
       THEN /\ phase' = "build"
            /\ frames' = <<[call |-> "build_node", node |-> 1, nested |-> tokens[1].size]>>
            /\ i' = 2
       ELSE /\ phase' = IF Known(1) THEN "malformed" ELSE "undefined"
            /\ UNCHANGED <<frames, i>>
    /\ UNCHANGED <<jsmn_vars, node_count>>

-----------------------------------------------------------------------------
top == Last(frames)

In(call) == phase = "build" /\ top.call = call

(* The innermost frame after taking n of its count, below calls it makes. *)
Took(n, calls) == Front(frames) \o <<[top EXCEPT !.nested = @ - n]>> \o calls

(* Mutant: an entry takes one from the count, as if keys were not counted. *)
EntrySize_One == 1

(* A key and its value are two tokens of the object. *)
EntrySize == 2

(* The tokens of a value and the positions of the data in it: itself for a *)
(* string or a number, the elements of an array.                           *)
ValueTokens(v) == IF type(v) = "array" THEN v + 1 .. v + tokens[v].size ELSE {v}

(* Mutant: the elements of an array are not looked at. *)
IsData_AnyElements(v) == type(v) \in {"string", "primitive", "array"}

IsData(v) == \A k \in ValueTokens(v) : type(k) \in {"string", "primitive"}

Data(v) == IF type(v) = "array" THEN [n \in 1 .. tokens[v].size |-> tokens[v + n].at]
           ELSE <<tokens[v].at>>

(* Mutant: the skip forgets the array token. *)
AfterValue_Elements(v) == IF type(v) = "array" THEN v + tokens[v].size ELSE v + 1

AfterValue(v) == IF type(v) = "array" THEN v + tokens[v].size + 1 ELSE v + 1

(* parse_in_node_token with a string as the key. *)
AddProperty ==
    /\ In("build_node") /\ top.nested # 0
    /\ Known(i + 1) /\ type(i) = "string" /\ IsData(i + 1)
    /\ nodes' = [nodes EXCEPT ![top.node].properties =
                    Append(@, [key |-> tokens[i].at, data |-> Data(i + 1)])]
    /\ i' = AfterValue(i + 1)
    /\ frames' = Took(EntrySize, <<>>)
    /\ UNCHANGED <<jsmn_vars, phase, node_count>>

(* parse_in_node_token with the children token as the key. *)
WalkChildren ==
    /\ In("build_node") /\ top.nested # 0
    /\ Known(i + 1) /\ type(i) = "children" /\ type(i + 1) = "array"
    /\ i' = i + 2
    /\ frames' = Took(EntrySize, <<[call |-> "walk_children", node |-> top.node,
                                    nested |-> tokens[i + 1].size]>>)
    /\ UNCHANGED <<jsmn_vars, phase, nodes, node_count>>

(* Anything else is malformed; the key is looked at before the value. *)
BadEntry ==
    /\ In("build_node") /\ top.nested # 0
    /\ Known(i)
    /\ \/ type(i) \notin {"string", "children"}
       \/ Known(i + 1) /\ type(i) = "string" /\ ~IsData(i + 1)
       \/ Known(i + 1) /\ type(i) = "children" /\ type(i + 1) # "array"
    /\ Ends("malformed")

(* The key or its value is not a token.                                    *)
EntryOverrun ==
    /\ In("build_node") /\ top.nested # 0
    /\ Known(i) => type(i) \in {"string", "children"} /\ ~Known(i + 1)
    /\ Ends("undefined")

(* walk_children adds the child before build_node looks at its token. *)
AddChild ==
    /\ In("walk_children") /\ top.nested # 0
    /\ nodes' = Append(nodes, Node(top.node))
    /\ IF Known(i) /\ type(i) = "object"
       THEN /\ frames' = Took(1, <<[call |-> "build_node", node |-> Len(nodes) + 1,
                                    nested |-> tokens[i].size]>>)
            /\ i' = i + 1
            /\ UNCHANGED phase
       ELSE /\ phase' = IF Known(i) THEN "malformed" ELSE "undefined"
            /\ UNCHANGED <<frames, i>>
    /\ UNCHANGED <<jsmn_vars, node_count>>

ChildrenEnd ==
    /\ In("walk_children") /\ top.nested = 0
    /\ frames' = Front(frames)
    /\ UNCHANGED <<jsmn_vars, phase, i, nodes, node_count>>

(* The end of build_node; that of the root ends the parse. *)
NodeEnd ==
    /\ In("build_node") /\ top.nested = 0
    /\ frames' = Front(frames)
    /\ node_count' = node_count + 1
    /\ phase' = IF Len(frames) = 1 THEN "loaded" ELSE "build"
    /\ UNCHANGED <<jsmn_vars, i, nodes>>

Next ==
    \/ Tokenize
    \/ ParseAgain
    \/ TokenizerFails
    \/ TokenizerOverruns
    \/ BuildStart
    \/ AddProperty
    \/ WalkChildren
    \/ BadEntry
    \/ EntryOverrun
    \/ AddChild
    \/ ChildrenEnd
    \/ NodeEnd

(* A parse is a loop in one thread that nothing interrupts. *)
Spec == Init /\ [][Next]_vars /\ WF_vars(Next)

-----------------------------------------------------------------------------
(***************************************************************************)
(* The format, by where brackets close in the document.                    *)
(***************************************************************************)
Balanced(s) ==
    /\ \A p \in DOMAIN s : s[p] \notin {"bad", "open", "/"}
    /\ \A p \in Opens(s) : Match(s, p) <= Len(s) /\
          s[Match(s, p)] = (IF s[p] = "{" THEN "}" ELSE "]")
    /\ Cardinality(Opens(s)) = Cardinality(Closes(s))

(* The positions of what is directly inside the bracket at p. *)
Inside(s, p) == {q \in DOMAIN s : s[q] \notin {"}", "]", ","} /\ Around(s, q) = p}

(* The place of a position among those of a set, in the order of the text. *)
Place(S, q) == Cardinality({x \in S : x <= q})

Root(s) == Min(Inside(s, 0))

Objects(s) == {p \in Opens(s) : s[p] = "{" /\ Root(s) <= p /\ p < Match(s, Root(s))}

(* Keys and values take turns. *)
Keys(s, p) == {q \in Inside(s, p) : Place(Inside(s, p), q) % 2 = 1}

ValueOf(s, p, key) == Min({q \in Inside(s, p) : q > key})

Elements(s, v) == {s[q] : q \in Inside(s, v)}

GoodEntry(s, key, v) ==
    \/ s[key] = "S" /\ s[v] \in {"S", "P"}
    \/ s[key] = "S" /\ s[v] = "[" /\ Elements(s, v) \subseteq {"S", "P"}
    \/ s[key] = "@" /\ s[v] = "[" /\ Elements(s, v) \subseteq {"{"}

GoodObject(s, p) ==
    /\ Cardinality(Inside(s, p)) % 2 = 0
    /\ \A key \in Keys(s, p) : GoodEntry(s, key, ValueOf(s, p, key))

(* What follows the root does not matter, as long as it has tokens. *)
WellFormed(s) ==
    /\ Balanced(s)
    /\ Inside(s, 0) # {} /\ s[Root(s)] = "{"
    /\ \A p \in Objects(s) : GoodObject(s, p)

(* The tree a well-formed document describes: a node for each object, with *)
(* a property for each key that is a string, all in the order of the text. *)
InOrderOf(seq, S) == Len(seq) = Cardinality(S) /\ \A q \in S : seq[Place(S, q)] = q

Strings(s, p) == {key \in Keys(s, p) : s[key] = "S"}

PropertyOf(s, p, key, property) ==
    LET v == ValueOf(s, p, key)
    IN  /\ property.key = key
        /\ InOrderOf(property.data, IF s[v] = "[" THEN Inside(s, v) ELSE {v})

NodeOf(s, p, node) ==
    /\ node.parent = IF p = Root(s) THEN 0 ELSE Place(Objects(s), Around(s, Around(s, p)))
    /\ Len(node.properties) = Cardinality(Strings(s, p))
    /\ \A key \in Strings(s, p) :
          PropertyOf(s, p, key, node.properties[Place(Strings(s, p), key)])

IsTree(s, ns) ==
    /\ Len(ns) = Cardinality(Objects(s))
    /\ \A p \in Objects(s) : NodeOf(s, p, ns[Place(Objects(s), p)])

(* A document that is loaded is well-formed, and the tree has its nodes    *)
(* under their parents with their properties, each counted once.           *)
LoadsTheDocument ==
    phase = "loaded" =>
        WellFormed(doc) /\ IsTree(doc, nodes) /\ node_count = Len(nodes)

(* No well-formed document is refused, whatever retries its size takes,    *)
(* and on none is a token read that the tokenizer did not write.           *)
RefusesOnlyMalformed ==
    phase \in {"malformed", "parse error", "undefined"} => ~WellFormed(doc)

(* The tokenizer leaves the text only on a comment that is not closed, and *)
(* the builder the tokens only on an object with a key that has no value,  *)
(* or on a document without tokens: the count that goes down by two from   *)
(* an odd number never reaches 0.                                          *)
OverrunNeedsOddObject ==
    phase = "undefined" =>
        IF err = "undefined" THEN char = "/"
        ELSE \/ Inside(doc, 0) = {}
             \/ \E p \in Objects(doc) : Cardinality(Inside(doc, p)) % 2 = 1

(* The retries and the walk over the tokens come to an end.                *)
ParseEnds == <>(phase \notin {"tokenize", "build"})
=============================================================================
