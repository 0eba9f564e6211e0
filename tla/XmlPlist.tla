------------------------------- MODULE XmlPlist -------------------------------
(***************************************************************************)
(* The property list parser (serialize/xml_plist.c), as                    *)
(* parse_xml_device_tree calls it.                                         *)
(*                                                                         *)
(* A document is a sequence of items, each some text and the tag after it. *)
(* The parser works in the text itself: it ends a tag's name by a NUL over *)
(* its '>' and the data of an element by a NUL over the '<' of its end     *)
(* tag.  Tags come from blocks and go back to a free list; the strings of  *)
(* keys and <string> elements are shared symbols with a count.             *)
(***************************************************************************)
EXTENDS Integers, Sequences, SequencesExt, FiniteSetsExt

CONSTANTS
    TagsPerBlock,   \* kTagsPerBlock
    MaxBlocks,      \* the blocks of tags malloc can give
    MaxParses       \* the bound on the parses of a run

ASSUME PlistAssumption ==
    /\ TagsPerBlock \in Nat \ {0}
    /\ MaxBlocks \in Nat
    /\ MaxParses \in Nat

VARIABLES
    doc,        \* the items of the text
    cut,        \* the items whose tag has lost its '>'
    pos,        \* the items behind the parser
    heap,       \* the tags, gTagsFree, the symbols with their refCount
    calls,      \* ParseTagList and ParseTagKey waiting for XMLParseNextTag
    next,       \* "call" or "return" of XMLParseNextTag, "idle" between
                \* parses, "halted" after a panic
    ret         \* what it returns: -1, the tag, or 0 for no tag

plist_vars == <<doc, cut, pos, heap, calls, next, ret>>

Tag == [type |-> "none", string |-> <<>>, tag |-> 0, tagNext |-> 0]

EmptyHeap == [tags |-> <<>>, free |-> 0, symbols |-> [s \in {} |-> 0]]

-----------------------------------------------------------------------------
(* The name and the number of an integer share the field string; only the  *)
(* former is a symbol.                                                     *)
HasSymbol(tag) == tag.type \in {"key", "string"}

NewSymbol(h, string) ==
    [h EXCEPT !.symbols = [s \in DOMAIN @ \cup {string} |->
        (IF s \in DOMAIN @ THEN @[s] ELSE 0) + (IF s = string THEN 1 ELSE 0)]]

(* Mutant: a symbol goes with the first tag that used it. *)
FreeSymbols_Uncounted(h, tags) ==
    LET users(s) == {t \in tags : HasSymbol(h.tags[t]) /\ h.tags[t].string = s}
    IN  [s \in {s \in DOMAIN h.symbols : users(s) = {}} |-> h.symbols[s]]

(* FreeSymbol for each of the tags: a symbol goes with its last user. *)
FreeSymbols(h, tags) ==
    LET users(s) == {t \in tags : HasSymbol(h.tags[t]) /\ h.tags[t].string = s}
        left == [s \in DOMAIN h.symbols |-> h.symbols[s] - Cardinality(users(s))]
    IN  [s \in {s \in DOMAIN left : left[s] # 0} |-> left[s]]

(* The tags of one more block, each linked to the one behind it. *)
Refill(h) ==
    LET n == Len(h.tags)
        block == [i \in 1 .. TagsPerBlock |->
                    [Tag EXCEPT !.tagNext = IF i = TagsPerBlock THEN 0 ELSE n + i + 1]]
    IN  IF h.free = 0 /\ n < MaxBlocks * TagsPerBlock
        THEN [h EXCEPT !.tags = @ \o block, !.free = n + 1]
        ELSE h

(* The heap and the new tag, which becomes filled; 0 if there is none. *)
NewTag(h, filled) ==
    LET r == Refill(h)
    IN  IF r.free = 0 THEN [heap |-> r, tag |-> 0]
        ELSE [heap |-> [r EXCEPT !.free = r.tags[r.free].tagNext,
                                 !.tags[r.free] = filled],
              tag |-> r.free]

(* The order in which a tag, what it contains and its successors are freed. *)
RECURSIVE Freed(_, _)
Freed(tags, t) ==
    IF t = 0 THEN <<>>
    ELSE Freed(tags, tags[t].tag) \o Freed(tags, tags[t].tagNext) \o <<t>>

(* Each is cleared and put in front of the free list. *)
XMLFreeTag(h, t) ==
    LET freed == Freed(h.tags, t)
        behind(i) == IF i = 1 THEN h.free ELSE freed[i - 1]
    IN  IF t = 0 THEN h
        ELSE [h EXCEPT !.tags = [u \in DOMAIN @ |->
                            IF u \in ToSet(freed)
                            THEN [Tag EXCEPT !.tagNext =
                                    behind(CHOOSE i \in DOMAIN freed : freed[i] = u)]
                            ELSE @[u]],
                       !.free = Last(freed),
                       !.symbols = FreeSymbols(h, ToSet(freed))]

-----------------------------------------------------------------------------
(***************************************************************************)
(* XMLParseNextTag is called.                                              *)
(***************************************************************************)

(* Mutant: the tag is read without being cut off. *)
GetNextTag_Kept(to) == pos' = to /\ UNCHANGED cut

(* The parser has read the items before to, and ended their tags. *)
GetNextTag(to) == pos' = to /\ cut' = to

(* The next tag still has its end. *)
TagAhead == pos < Len(doc) /\ cut <= pos

At(names) == next = "call" /\ TagAhead /\ doc[pos + 1].tag \in names

Return(t) == next' = "return" /\ ret' = t

KnownTags ==
    {"dict", "dict/", "array", "array/", "key", "string", "integer", "data", "true/"}

(* A tag that could not be made is an error. *)
MadeOrError(t) == IF t = 0 THEN -1 ELSE t

EndTag == [key |-> "/key", string |-> "/string", integer |-> "/integer", data |-> "/data"]

(* The item with the end tag of the element just begun, past the end if    *)
(* there is none.                                                          *)
FixDataMatchingTag(element) ==
    Min({i \in DOMAIN doc : i > pos + 1 /\ doc[i].tag = EndTag[element]} \cup {Len(doc) + 1})

(* The data as a C string: it ends where the first tag inside was cut.     *)
Data(element) ==
    LET item == doc[pos + 2]
    IN  IF item.tag = EndTag[element] THEN <<item.text>> ELSE <<item.text, item.tag>>

NoTagAhead ==
    /\ next = "call"
    /\ ~TagAhead
    /\ Return(-1)
    /\ UNCHANGED <<doc, cut, pos, heap, calls>>

(* Mutant: a tag that means nothing is not passed. *)
OtherTag_NotPassed ==
    /\ next = "call"
    /\ TagAhead
    /\ doc[pos + 1].tag \notin KnownTags
    /\ Return(0)
    /\ UNCHANGED <<doc, cut, pos, heap, calls>>

(* Any other tag means nothing here, an end tag as well as a comment.      *)
OtherTag ==
    /\ next = "call"
    /\ TagAhead
    /\ doc[pos + 1].tag \notin KnownTags
    /\ GetNextTag(pos + 1)
    /\ Return(0)
    /\ UNCHANGED <<doc, heap, calls>>

ListBegins ==
    /\ At({"dict", "array"})
    /\ GetNextTag(pos + 1)
    /\ calls' = Append(calls, [call |-> doc[pos + 1].tag, list |-> 0, string |-> <<>>])
    /\ UNCHANGED <<doc, heap, next, ret>>

EmptyList ==
    /\ At({"dict/", "array/"})
    /\ GetNextTag(pos + 1)
    /\ LET type == IF doc[pos + 1].tag = "dict/" THEN "dict" ELSE "array"
           r == NewTag(heap, [Tag EXCEPT !.type = type])
       IN  heap' = r.heap /\ Return(MadeOrError(r.tag))
    /\ UNCHANGED <<doc, calls>>

Boolean ==
    /\ At({"true/"})
    /\ GetNextTag(pos + 1)
    /\ LET r == NewTag(heap, [Tag EXCEPT !.type = "true"])
       IN  heap' = r.heap /\ Return(MadeOrError(r.tag))
    /\ UNCHANGED <<doc, calls>>

(* An element whose data ends nowhere: the text is cut to its end. *)
Unclosed ==
    /\ At({"key", "string", "integer", "data"})
    /\ FixDataMatchingTag(doc[pos + 1].tag) > Len(doc)
    /\ doc[pos + 1].tag = "integer" /\ pos + 1 < Len(doc) => doc[pos + 2].text # ""
    /\ GetNextTag(Len(doc))
    /\ Return(-1)
    /\ UNCHANGED <<doc, heap, calls>>

(* "empty integer in property list" *)
EmptyInteger ==
    /\ At({"integer"})
    /\ pos + 1 < Len(doc)
    /\ doc[pos + 2].text = ""
    /\ next' = "halted"
    /\ UNCHANGED <<doc, cut, pos, heap, calls, ret>>

(* <string>, <integer>, <data> and <date>; the latter two keep nothing.    *)
Leaf(type) ==
    /\ At({type})
    /\ LET end == FixDataMatchingTag(type)
           r == NewTag(heap, [Tag EXCEPT !.type = type,
                                         !.string = IF type = "data" THEN <<>> ELSE Data(type)])
       IN  /\ end <= Len(doc)
           /\ type = "integer" => doc[pos + 2].text # ""
           /\ GetNextTag(end)
           /\ heap' = IF type = "string" /\ r.tag # 0 THEN NewSymbol(r.heap, Data(type))
                      ELSE r.heap
           /\ Return(MadeOrError(r.tag))
    /\ UNCHANGED <<doc, calls>>

KeyBegins ==
    /\ At({"key"})
    /\ LET end == FixDataMatchingTag("key")
       IN  end <= Len(doc) /\ GetNextTag(end)
    /\ calls' = Append(calls, [call |-> "key", list |-> 0, string |-> Data("key")])
    /\ UNCHANGED <<doc, heap, next, ret>>

-----------------------------------------------------------------------------
(***************************************************************************)
(* XMLParseNextTag returns to ParseTagList or ParseTagKey.                 *)
(***************************************************************************)
frame == Last(calls)

ReturnsTo(callers) == next = "return" /\ calls # <<>> /\ frame.call \in callers

(* Elements are put in front: the list is in the reverse order. *)
ElementParsed ==
    /\ ReturnsTo({"dict", "array"})
    /\ ret > 0
    /\ heap' = [heap EXCEPT !.tags[ret].tagNext = frame.list]
    /\ calls' = [calls EXCEPT ![Len(calls)].list = ret]
    /\ next' = "call"
    /\ UNCHANGED <<doc, cut, pos, ret>>

(* Whatever was no element ends the list, its own end tag or not. *)
ListEnds ==
    /\ ReturnsTo({"dict", "array"})
    /\ ret = 0
    /\ LET r == NewTag(heap, [Tag EXCEPT !.type = frame.call, !.tag = frame.list])
       IN  /\ heap' = IF r.tag = 0 THEN XMLFreeTag(r.heap, frame.list) ELSE r.heap
           /\ Return(MadeOrError(r.tag))
    /\ calls' = Front(calls)
    /\ UNCHANGED <<doc, cut, pos>>

(* Mutant: the elements parsed so far are dropped. *)
ListFails_Leaks ==
    /\ ReturnsTo({"dict", "array"})
    /\ ret = -1
    /\ Return(-1)
    /\ calls' = Front(calls)
    /\ UNCHANGED <<doc, cut, pos, heap>>

ListFails ==
    /\ ReturnsTo({"dict", "array"})
    /\ ret = -1
    /\ heap' = XMLFreeTag(heap, frame.list)
    /\ Return(-1)
    /\ calls' = Front(calls)
    /\ UNCHANGED <<doc, cut, pos>>

(* A key takes what follows it, nothing if an end tag does. *)
KeyEnds ==
    /\ ReturnsTo({"key"})
    /\ ret >= 0
    /\ LET r == NewTag(heap, [Tag EXCEPT !.type = "key", !.string = frame.string,
                                         !.tag = ret])
       IN  /\ heap' = IF r.tag = 0 THEN XMLFreeTag(r.heap, ret)
                      ELSE NewSymbol(r.heap, frame.string)
           /\ Return(MadeOrError(r.tag))
    /\ calls' = Front(calls)
    /\ UNCHANGED <<doc, cut, pos>>

KeyFails ==
    /\ ReturnsTo({"key"})
    /\ ret = -1
    /\ Return(-1)
    /\ calls' = Front(calls)
    /\ UNCHANGED <<doc, cut, pos, heap>>

XMLParseNextTag ==
    \/ NoTagAhead
    \/ OtherTag
    \/ ListBegins
    \/ EmptyList
    \/ Boolean
    \/ Unclosed
    \/ EmptyInteger
    \/ \E type \in {"string", "integer", "data"} : Leaf(type)
    \/ KeyBegins
    \/ ElementParsed
    \/ ListEnds
    \/ ListFails
    \/ KeyEnds
    \/ KeyFails

-----------------------------------------------------------------------------
(* The tags that can be reached from a set of them. *)
RECURSIVE Reach(_)
Reach(S) ==
    LET more == S \cup UNION {{heap.tags[t].tag, heap.tags[t].tagNext} \ {0} : t \in S}
    IN  IF more = S THEN S ELSE Reach(more)

(* The tags a waiting call or a result leads to, and those on the free list. *)
Held ==
    LET results == IF next = "return" THEN {ret} ELSE {}
        lists == {calls[i].list : i \in DOMAIN calls}
    IN  Reach((results \cup lists) \ {-1, 0})

FreeTags == Reach({heap.free} \ {0})

(* Every tag of every block is either on the free list or held by a call,  *)
(* never both and never neither, through parses that fail at any point,    *)
(* out of memory or over a malformed document; between parses, with no     *)
(* call waiting, all of them are free.                                     *)
TagsConserved ==
    next # "halted" =>
        /\ Held \cap FreeTags = {}
        /\ Held \cup FreeTags = DOMAIN heap.tags

(* A symbol counts the tags that share it and goes with the last of them:  *)
(* no tag is left with a string that was freed.                            *)
SymbolsCounted ==
    LET users(s) == {t \in Held : HasSymbol(heap.tags[t]) /\ heap.tags[t].string = s}
    IN  next # "halted" =>
        /\ \A s \in DOMAIN heap.symbols : heap.symbols[s] = Cardinality(users(s))
        /\ \A t \in Held : HasSymbol(heap.tags[t]) => heap.tags[t].string \in DOMAIN heap.symbols
=============================================================================
