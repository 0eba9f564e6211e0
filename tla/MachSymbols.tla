----------------------------- MODULE MachSymbols -----------------------------
(***************************************************************************)
(* The search for a symbol by its name in a table sorted by names          *)
(* (mach-o/macho_util.c), one comparison per step.  Names are numbers, in  *)
(* the order of strcmp; indices are those of the code, from 0.             *)
(***************************************************************************)
EXTENDS Integers, Sequences

CONSTANT Word       \* the values of a word, 2^32

VARIABLES
    symbols,    \* the names of the table, in its order
    toc,        \* their indices, in the order of the names
    key,        \* the name looked for
    hint,       \* binary_search_toc: its hintIndex
    base, n,    \* binary_search: where the rest begins, how many it has
    low, high,  \* binary_search_toc: the ends of the rest,
    mid,        \* and where it is compared
    search,     \* "binary_search" or "binary_search_toc" while one runs, then
                \* "done", "toc_done" or, once it has read what is no entry of
                \* the table of contents, "undefined"; "none" before the first
    found       \* the index of the symbol, -1 for NULL

search_vars == <<symbols, toc, key, hint, base, n, low, high, mid, search, found>>
table == <<symbols, toc>>
asked == <<key, hint>>
rest == <<base, n, low, high, mid>>

name(index) == symbols[index + 1]

StartSearch(name_) ==
    /\ key' = name_
    /\ hint' = 0
    /\ base' = 0
    /\ n' = Len(symbols)
    /\ search' = "binary_search"
    /\ found' = -1
    /\ UNCHANGED <<table, low, high, mid>>

pivot == base + (n \div 2)

NotFound ==
    /\ search = "binary_search"
    /\ n = 0
    /\ search' = "done"
    /\ UNCHANGED <<table, asked, rest, found>>

Found ==
    /\ search = "binary_search"
    /\ n > 0
    /\ key = name(pivot)
    /\ found' = pivot
    /\ search' = "done"
    /\ UNCHANGED <<table, asked, rest>>

(* What lies behind the pivot, one fewer than half. *)
GoRight ==
    /\ search = "binary_search"
    /\ n > 0
    /\ key > name(pivot)
    /\ base' = pivot + 1
    /\ n' = (n - 1) \div 2
    /\ UNCHANGED <<table, asked, low, high, mid, search, found>>

(* Mutant: the last one before the pivot is lost. *)
GoLeft_Short ==
    /\ search = "binary_search"
    /\ n > 0
    /\ key < name(pivot)
    /\ n' = (n - 1) \div 2
    /\ UNCHANGED <<table, asked, base, low, high, mid, search, found>>

GoLeft ==
    /\ search = "binary_search"
    /\ n > 0
    /\ key < name(pivot)
    /\ n' = n \div 2
    /\ UNCHANGED <<table, asked, base, low, high, mid, search, found>>

binary_search == NotFound \/ Found \/ GoRight \/ GoLeft

-----------------------------------------------------------------------------
entry_name(m) == name(toc[m + 1])

(* What an unsigned word is as an int32_t. *)
int32_t(u) == IF u < Word \div 2 THEN u ELSE u - Word

(* A hint past the end is replaced; one that has become negative is not.   *)
StartTocSearch(name_, hintIndex) ==
    /\ key' = name_
    /\ hint' = hintIndex
    /\ low' = 0
    /\ high' = Len(symbols) - 1
    /\ mid' = IF int32_t(hintIndex) >= Len(symbols) THEN Len(symbols) \div 2
              ELSE int32_t(hintIndex)
    /\ search' = "binary_search_toc"
    /\ found' = -1
    /\ UNCHANGED <<table, base, n>>

TocNotFound ==
    /\ search = "binary_search_toc"
    /\ low > high
    /\ search' = "toc_done"
    /\ UNCHANGED <<table, asked, rest, found>>

TocFound ==
    /\ search = "binary_search_toc"
    /\ low <= high
    /\ mid >= 0
    /\ key = entry_name(mid)
    /\ found' = toc[mid + 1]
    /\ search' = "toc_done"
    /\ UNCHANGED <<table, asked, rest>>

(* What is read before the table is whatever the memory holds. *)
TocBefore ==
    /\ search = "binary_search_toc"
    /\ low <= high
    /\ mid < 0
    /\ search' = "undefined"
    /\ UNCHANGED <<table, asked, rest, found>>

(* Mutant: the symbol compared stays in the rest. *)
TocGoes_MidKept ==
    /\ search = "binary_search_toc"
    /\ low <= high
    /\ mid >= 0
    /\ \/ key > entry_name(mid) /\ low' = mid /\ UNCHANGED high
       \/ key < entry_name(mid) /\ high' = mid /\ UNCHANGED low
    /\ mid' = (low' + high') \div 2
    /\ UNCHANGED <<table, asked, base, n, search, found>>

TocGoes ==
    /\ search = "binary_search_toc"
    /\ low <= high
    /\ mid >= 0
    /\ \/ key > entry_name(mid) /\ low' = mid + 1 /\ UNCHANGED high
       \/ key < entry_name(mid) /\ high' = mid - 1 /\ UNCHANGED low
    /\ mid' = (low' + high') \div 2
    /\ UNCHANGED <<table, asked, base, n, search, found>>

binary_search_toc == TocNotFound \/ TocFound \/ TocGoes \/ TocBefore

-----------------------------------------------------------------------------
Indices == 0 .. Len(symbols) - 1

Sorted(s) == \A p, q \in DOMAIN s : p < q => s[p] <= s[q]

(* The table of contents lists every symbol, in the order of the names.    *)
TocSorted ==
    /\ \A p \in Indices : \E m \in Indices : toc[m + 1] = p
    /\ \A m, l \in Indices : m < l => entry_name(m) <= entry_name(l)

(* A hint that an int32_t holds; from any other the first comparison       *)
(* of binary_search_toc reads before the table.                            *)
HintHeld == hint < Word \div 2

(* Every comparison reads a symbol of the table, however often the rest    *)
(* was halved and wherever a hint that an int32_t holds began.             *)
PivotInTable ==
    /\ search = "binary_search" /\ n > 0 => pivot \in Indices
    /\ search = "binary_search_toc" /\ low <= high /\ HintHeld => mid \in Indices

Present == \E p \in Indices : name(p) = key

(* A name is found exactly if it is there: no step drops the place where   *)
(* it would be.  The one search relies on the order of the table, the      *)
(* other on that of its table of contents and on a hint that an int32_t    *)
(* holds: without one it may end undefined.                                *)
SearchExact ==
    /\ found # -1 => found \in Indices /\ name(found) = key
    /\ search = "done" /\ Sorted(symbols) /\ Present => found # -1
    /\ search = "toc_done" /\ TocSorted /\ Present => found # -1
    /\ search = "undefined" => ~HintHeld
=============================================================================
