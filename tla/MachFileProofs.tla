---------------------------- MODULE MachFileProofs ----------------------------
(***************************************************************************)
(* Both searches of mach-o/macho_util.c find a name exactly if it is in    *)
(* the table, for tables of every size; the one with a table of contents   *)
(* unless its hint is one that an int32_t does not hold.                   *)
(***************************************************************************)
EXTENDS MachFile, FiniteSetTheorems, TLAPS

SearchTypes ==
    /\ symbols \in Seq(Nat)
    /\ toc \in [1 .. Len(symbols) -> Indices]
    /\ key \in Nat /\ hint \in Nat
    /\ base \in Nat /\ n \in Nat
    /\ low \in Nat /\ high \in Int /\ mid \in Int
    /\ found \in Int

(* The rest of the table is inside it and holds what is looked for. *)
RestHolds ==
    search = "binary_search" =>
        /\ base + n <= Len(symbols)
        /\ Sorted(symbols) => \A p \in Indices : name(p) = key => base <= p /\ p < base + n

TocRestHolds ==
    search = "binary_search_toc" =>
        /\ high < Len(symbols)
        /\ low <= high => (low <= mid /\ mid <= high) \/ (mid < 0 /\ ~HintHeld)
        /\ TocSorted => \A m \in Indices : entry_name(m) = key => low <= m /\ m <= high

SearchInv == SearchTypes /\ RestHolds /\ TocRestHolds /\ SearchExact

-----------------------------------------------------------------------------
LEMMA Names_ ==
    ASSUME SearchTypes
    PROVE  /\ Len(symbols) \in Nat
           /\ \A p \in Indices : p \in Int /\ 0 <= p /\ p < Len(symbols) /\ name(p) \in Nat
           /\ \A p \in Int : 0 <= p /\ p < Len(symbols) => p \in Indices
<1>1. Len(symbols) \in Nat
    BY DEF SearchTypes
<1>2. \A p \in Indices : p + 1 \in 1 .. Len(symbols)
    BY <1>1, SMT DEF Indices
<1>3. \A p \in Indices : name(p) \in Nat
    BY <1>2 DEF SearchTypes, name
<1> QED
    BY <1>1, <1>3, SMT DEF Indices

LEMMA EntryNames ==
    ASSUME SearchTypes, NEW m \in Indices
    PROVE  toc[m + 1] \in Indices /\ entry_name(m) \in Nat
<1>1. m + 1 \in 1 .. Len(symbols)
    BY Names_, SMT DEF Indices
<1>2. toc[m + 1] \in Indices
    BY <1>1 DEF SearchTypes
<1> QED
    BY <1>2, Names_ DEF entry_name

(* In a sorted table names keep the order of their places.                 *)
LEMMA SortedNames ==
    ASSUME SearchTypes, Sorted(symbols), NEW p \in Indices, NEW q \in Indices, p < q
    PROVE  name(p) <= name(q)
<1>1. p + 1 \in DOMAIN symbols /\ q + 1 \in DOMAIN symbols /\ p + 1 < q + 1
    BY Names_, SMT DEF SearchTypes, Indices
<1> QED
    BY <1>1 DEF Sorted, name

(* The middle of what is left.                                             *)
LEMMA Half ==
    ASSUME NEW x \in Nat
    PROVE  /\ x \div 2 \in Nat
           /\ x > 0 => (x \div 2) < x /\ (x - 1) \div 2 \in Nat
                       /\ (x \div 2) + 1 + ((x - 1) \div 2) = x
BY SMT

LEMMA Between ==
    ASSUME NEW x \in Int, NEW y \in Int
    PROVE  (x + y) \div 2 \in Int /\ (x <= y => x <= (x + y) \div 2 /\ (x + y) \div 2 <= y)
BY SMT

-----------------------------------------------------------------------------
(* A comparison finds the name or shrinks the rest around it.              *)
LEMMA SearchStep ==
    ASSUME SearchInv, binary_search
    PROVE  SearchInv'
<1> USE DEF SearchInv
<1>1. /\ Len(symbols) \in Nat
      /\ base \in Nat /\ n \in Nat /\ key \in Nat
      /\ base + n <= Len(symbols)
    BY Names_ DEF SearchTypes, RestHolds, binary_search, NotFound, Found, GoLeft, GoRight
<1>2. /\ symbols' = symbols /\ toc' = toc /\ key' = key /\ Indices' = Indices
      /\ hint' = hint /\ HintHeld' = HintHeld
    BY DEF binary_search, NotFound, Found, GoLeft, GoRight, table, asked, Indices, HintHeld
<1>3. \A p \in Indices : name(p)' = name(p)
    BY <1>2 DEF name
<1>4. ASSUME n > 0 PROVE pivot \in Indices /\ base <= pivot /\ pivot < base + n /\ name(pivot) \in Nat
    <2>1. n \div 2 \in Nat /\ n \div 2 < n
        BY <1>1, <1>4, Half
    <2>2. pivot \in Int /\ base <= pivot /\ pivot < base + n
        BY <1>1, <2>1, SMT DEF pivot
    <2>3. pivot \in Indices
        BY <1>1, <2>2, Names_, SMT
    <2> QED
        BY <2>2, <2>3, Names_
<1>5. Sorted(symbols) => \A p \in Indices : name(p) = key => base <= p /\ p < base + n
    BY DEF RestHolds, binary_search, NotFound, Found, GoLeft, GoRight
<1>6. CASE NotFound
    <2>1. Sorted(symbols) => ~Present
        BY <1>1, <1>5, <1>6, Names_, SMT DEF NotFound, Present
    <2>2. SearchExact'
        BY <1>2, <1>3, <1>6, <2>1 DEF NotFound, SearchExact, Present, rest, table, name
    <2> QED
        BY <1>2, <1>6, <2>2 DEF NotFound, SearchTypes, RestHolds, TocRestHolds, rest, table
<1>7. CASE Found
    <2>1. pivot \in Indices /\ name(pivot) = key
        BY <1>4, <1>7 DEF Found
    <2>2. pivot # -1 /\ pivot \in Int
        BY <2>1, Names_, SMT
    <2>3. SearchExact'
        BY <1>2, <1>3, <1>7, <2>1, <2>2 DEF Found, SearchExact
    <2> QED
        BY <1>2, <1>7, <2>2, <2>3 DEF Found, SearchTypes, RestHolds, TocRestHolds, rest, table
<1>8. CASE GoRight
    <2>1. pivot \in Indices /\ base <= pivot /\ pivot < base + n /\ key > name(pivot)
        BY <1>4, <1>8 DEF GoRight
    <2>2. base' = pivot + 1 /\ n' = (n - 1) \div 2
        BY <1>8 DEF GoRight
    <2>3. n' \in Nat /\ base' \in Nat /\ base' + n' = base + n
        <3>1. n \div 2 \in Nat /\ (n - 1) \div 2 \in Nat
              /\ (n \div 2) + 1 + ((n - 1) \div 2) = n
            BY <1>1, <1>8, Half DEF GoRight
        <3> QED
            BY <1>1, <2>2, <3>1, SMT DEF pivot
    <2>4. ASSUME Sorted(symbols), NEW p \in Indices, name(p) = key PROVE base' <= p /\ p < base' + n'
        <3>1. base <= p /\ p < base + n
            BY <1>5, <2>4
        <3>2. ~(p <= pivot)
            <4>1. ASSUME p < pivot PROVE FALSE
                <5>1. name(p) <= name(pivot)
                    BY <2>1, <2>4, <4>1, SortedNames
                <5> QED
                    BY <1>1, <2>1, <2>4, <5>1, Names_, SMT
            <4>2. p # pivot
                BY <1>1, <2>1, <2>4, Names_, SMT
            <4> QED
                BY <2>1, <2>4, <4>1, <4>2, Names_, SMT
        <3> QED
            BY <1>1, <2>1, <2>2, <2>3, <3>1, <3>2, Names_, SMT
    <2>5. RestHolds'
        BY <1>1, <1>2, <1>3, <2>3, <2>4 DEF RestHolds
    <2>6. SearchExact'
        BY <1>2, <1>3, <1>8 DEF GoRight, SearchExact
    <2> QED
        BY <1>2, <1>8, <2>3, <2>5, <2>6 DEF GoRight, SearchTypes, TocRestHolds, table
<1>9. CASE GoLeft
    <2>1. pivot \in Indices /\ base <= pivot /\ pivot < base + n /\ key < name(pivot)
        BY <1>4, <1>9 DEF GoLeft
    <2>2. base' = base /\ n' = n \div 2 /\ n' \in Nat /\ n' <= n
        BY <1>1, <1>9, Half, SMT DEF GoLeft
    <2>3. pivot = base' + n'
        BY <2>2 DEF pivot
    <2>4. ASSUME Sorted(symbols), NEW p \in Indices, name(p) = key PROVE base' <= p /\ p < base' + n'
        <3>1. base <= p
            BY <1>5, <2>4
        <3>2. ~(pivot <= p)
            <4>1. ASSUME pivot < p PROVE FALSE
                <5>1. name(pivot) <= name(p)
                    BY <2>1, <2>4, <4>1, SortedNames
                <5> QED
                    BY <1>1, <2>1, <2>4, <5>1, Names_, SMT
            <4>2. p # pivot
                BY <1>1, <2>1, <2>4, Names_, SMT
            <4> QED
                BY <2>1, <2>4, <4>1, <4>2, Names_, SMT
        <3> QED
            BY <1>1, <2>1, <2>2, <2>3, <3>1, <3>2, <2>4, Names_, SMT
    <2>5. base' + n' <= Len(symbols)
        BY <1>1, <2>2, SMT
    <2>6. RestHolds'
        BY <1>2, <1>3, <2>4, <2>5 DEF RestHolds
    <2>7. SearchExact'
        BY <1>2, <1>3, <1>9 DEF GoLeft, SearchExact
    <2> QED
        BY <1>2, <1>9, <2>2, <2>6, <2>7 DEF GoLeft, SearchTypes, TocRestHolds, table
<1> QED
    BY <1>6, <1>7, <1>8, <1>9 DEF binary_search

(* The same with the table of contents.                                    *)
LEMMA TocSearchStep ==
    ASSUME SearchInv, binary_search_toc
    PROVE  SearchInv'
<1> USE DEF SearchInv
<1>1. /\ Len(symbols) \in Nat
      /\ low \in Nat /\ high \in Int /\ key \in Nat
      /\ high < Len(symbols)
      /\ low <= high => (low <= mid /\ mid <= high) \/ (mid < 0 /\ ~HintHeld)
      /\ mid \in Int
    BY Names_ DEF SearchTypes, TocRestHolds, binary_search_toc, TocNotFound, TocFound, TocGoes,
                  TocBefore
<1>2. /\ symbols' = symbols /\ toc' = toc /\ key' = key /\ Indices' = Indices
      /\ hint' = hint /\ HintHeld' = HintHeld
    BY DEF binary_search_toc, TocNotFound, TocFound, TocGoes, TocBefore, table, asked, Indices,
           HintHeld
<1>3. /\ \A p \in Indices : name(p)' = name(p)
      /\ \A m \in Indices : entry_name(m)' = entry_name(m)
      /\ TocSorted' = TocSorted
    BY <1>2 DEF name, entry_name, TocSorted
<1>4. ASSUME low <= high, mid >= 0 PROVE mid \in Indices /\ entry_name(mid) \in Nat
    <2>1. mid \in Indices
        BY <1>1, <1>4, Names_, SMT
    <2> QED
        BY <2>1, EntryNames
<1>5. TocSorted => \A m \in Indices : entry_name(m) = key => low <= m /\ m <= high
    BY DEF TocRestHolds, binary_search_toc, TocNotFound, TocFound, TocGoes, TocBefore
<1>6. CASE TocNotFound
    <2>1. TocSorted => ~Present
        <3>1. SUFFICES ASSUME TocSorted, NEW p \in Indices, name(p) = key PROVE FALSE
            BY DEF Present
        <3>2. PICK m \in Indices : toc[m + 1] = p
            BY <3>1 DEF TocSorted
        <3>3. low <= m /\ m <= high
            BY <1>5, <3>1, <3>2 DEF entry_name
        <3> QED
            BY <1>1, <1>6, <3>3, Names_, SMT DEF TocNotFound
    <2>2. SearchExact'
        BY <1>2, <1>3, <1>6, <2>1 DEF TocNotFound, SearchExact, Present
    <2> QED
        BY <1>2, <1>6, <2>2 DEF TocNotFound, SearchTypes, RestHolds, TocRestHolds, rest, table
<1>7. CASE TocFound
    <2>1. toc[mid + 1] \in Indices /\ name(toc[mid + 1]) = key
        BY <1>4, <1>7, EntryNames DEF TocFound, entry_name
    <2>2. toc[mid + 1] # -1 /\ toc[mid + 1] \in Int
        BY <2>1, Names_, SMT
    <2>3. SearchExact'
        BY <1>2, <1>3, <1>7, <2>1, <2>2 DEF TocFound, SearchExact
    <2> QED
        BY <1>2, <1>7, <2>2, <2>3 DEF TocFound, SearchTypes, RestHolds, TocRestHolds, rest, table
<1>8. CASE TocGoes
    <2>1. low <= high /\ mid \in Indices /\ entry_name(mid) \in Nat /\ mid \in Nat
        BY <1>4, <1>8, Names_, SMT DEF TocGoes
    <2>2. /\ low' \in Nat /\ high' \in Int /\ high' < Len(symbols)
          /\ low' = IF key > entry_name(mid) THEN mid + 1 ELSE low
          /\ high' = IF key > entry_name(mid) THEN high ELSE mid - 1
          /\ key # entry_name(mid)
        <3> DEFINE e == entry_name(mid)
        <3>1. \/ key > e /\ low' = mid + 1 /\ high' = high
              \/ key < e /\ high' = mid - 1 /\ low' = low
            BY <1>8 DEF TocGoes
        <3>2. e \in Nat /\ mid < Len(symbols)
            BY <2>1, Names_
        <3> HIDE DEF e
        <3>3. /\ low' \in Nat /\ high' \in Int /\ high' < Len(symbols)
              /\ low' = IF key > e THEN mid + 1 ELSE low
              /\ high' = IF key > e THEN high ELSE mid - 1
              /\ key # e
            BY <1>1, <2>1, <3>1, <3>2, SMT
        <3> QED
            BY <3>3 DEF e
    <2>3. mid' \in Int /\ (low' <= high' => low' <= mid' /\ mid' <= high')
        BY <1>8, <2>2, Between, SMT DEF TocGoes
    <2>4. ASSUME TocSorted, NEW m \in Indices, entry_name(m) = key PROVE low' <= m /\ m <= high'
        <3>1. low <= m /\ m <= high /\ m \in Int
            BY <1>5, <2>4, Names_
        <3>2. m < mid => entry_name(m) <= entry_name(mid)
            BY <2>1, <2>4 DEF TocSorted
        <3>3. mid < m => entry_name(mid) <= entry_name(m)
            BY <2>1, <2>4 DEF TocSorted
        <3> QED
            BY <1>1, <2>1, <2>2, <2>4, <3>1, <3>2, <3>3, SMT
    <2>5. TocRestHolds'
        BY <1>2, <1>3, <2>2, <2>3, <2>4 DEF TocRestHolds
    <2>6. SearchExact'
        BY <1>2, <1>3, <1>8 DEF TocGoes, SearchExact
    <2> QED
        BY <1>2, <1>8, <2>2, <2>3, <2>5, <2>6 DEF TocGoes, SearchTypes, RestHolds, table
<1>9. CASE TocBefore
    <2>1. ~HintHeld
        BY <1>1, <1>9, SMT DEF TocBefore
    <2>2. SearchExact'
        BY <1>2, <1>3, <1>9, <2>1 DEF TocBefore, SearchExact
    <2> QED
        BY <1>2, <1>9, <2>2 DEF TocBefore, SearchTypes, RestHolds, TocRestHolds, rest, table
<1> QED
    BY <1>6, <1>7, <1>8, <1>9 DEF binary_search_toc

-----------------------------------------------------------------------------
(* The first comparison has the whole table before it.                     *)
LEMMA SearchStarts ==
    ASSUME SearchInv, NEW name_ \in Nat, StartSearch(name_)
    PROVE  SearchInv'
<1> USE DEF SearchInv
<1>1. symbols' = symbols /\ toc' = toc /\ Indices' = Indices /\ Len(symbols) \in Nat
    BY Names_ DEF StartSearch, table, Indices
<1>2. SearchTypes'
    BY <1>1, SMT DEF StartSearch, SearchTypes
<1>3. RestHolds'
    BY <1>1, Names_, SMT DEF StartSearch, RestHolds
<1> QED
    BY <1>2, <1>3 DEF StartSearch, TocRestHolds, SearchExact

LEMMA TocSearchStarts ==
    ASSUME SearchInv, NEW name_ \in Nat, NEW hintIndex \in 0 .. Word - 1,
           StartTocSearch(name_, hintIndex)
    PROVE  SearchInv'
<1> USE DEF SearchInv
<1>1. symbols' = symbols /\ toc' = toc /\ Indices' = Indices /\ Len(symbols) \in Nat
    BY Names_ DEF StartTocSearch, table, Indices
<1>2. Word \in Nat
    BY MemoryAssumption
<1>3. HintHeld' <=> hintIndex < Word \div 2
    BY DEF StartTocSearch, HintHeld
<1>4. /\ low' = 0 /\ high' = Len(symbols) - 1 /\ mid' \in Int
      /\ low' <= high' => (0 <= mid' /\ mid' < Len(symbols)) \/ (mid' < 0 /\ ~HintHeld')
    <2>1. CASE hintIndex < Word \div 2
        <3>1. int32_t(hintIndex) = hintIndex
            BY <2>1 DEF int32_t
        <3>2. CASE hintIndex >= Len(symbols)
            BY <1>1, <3>1, <3>2, Half, SMT DEF StartTocSearch
        <3>3. CASE ~(hintIndex >= Len(symbols))
            BY <1>1, <3>1, <3>3, SMT DEF StartTocSearch
        <3> QED
            BY <3>2, <3>3
    <2>2. CASE ~(hintIndex < Word \div 2)
        <3>1. int32_t(hintIndex) = hintIndex - Word
            BY <2>2 DEF int32_t
        <3>2. hintIndex - Word < 0 /\ hintIndex - Word \in Int
            BY <1>2, SMT
        <3>3. mid' = hintIndex - Word
            BY <1>1, <1>2, <3>1, <3>2, SMT DEF StartTocSearch
        <3> QED
            BY <1>1, <1>3, <2>2, <3>2, <3>3 DEF StartTocSearch
    <2> QED
        BY <2>1, <2>2
<1>5. SearchTypes'
    BY <1>1, <1>4, SMT DEF StartTocSearch, SearchTypes
<1>6. \A m \in Indices : low' <= m /\ m <= high'
    BY <1>1, <1>4, Names_, SMT
<1>7. /\ high' < Len(symbols)'
      /\ low' <= high' => (low' <= mid' /\ mid' <= high') \/ (mid' < 0 /\ ~HintHeld')
    BY <1>1, <1>4, SMT
<1>8. TocRestHolds'
    BY <1>1, <1>6, <1>7 DEF TocRestHolds
<1> QED
    BY <1>5, <1>8 DEF StartTocSearch, RestHolds, SearchExact

LEMMA InitHolds == Init => SearchInv
<1> SUFFICES ASSUME Init PROVE SearchInv
    OBVIOUS
<1>1. symbols \in Seq(Nat) /\ toc \in [1 .. Len(symbols) -> 0 .. Len(symbols) - 1]
    BY NamesAssumption DEF Init
<1>2. SearchTypes
    BY <1>1 DEF Init, SearchTypes, Indices
<1> QED
    BY <1>2 DEF Init, SearchInv, RestHolds, TocRestHolds, SearchExact

(* The other steps of the file's functions leave the search alone.         *)
LEMMA NextHolds == SearchInv /\ [Next]_vars => SearchInv'
<1> SUFFICES ASSUME SearchInv, [Next]_vars PROVE SearchInv'
    OBVIOUS
<1>1. ASSUME UNCHANGED search_vars PROVE SearchInv'
    BY <1>1 DEF search_vars, SearchInv, SearchTypes, RestHolds, TocRestHolds, SearchExact,
                Indices, name, entry_name, Sorted, TocSorted, Present, HintHeld
<1>2. CASE RelocateObject \/ _relocate_sect \/ NextSection \/ ObjectRelocated
    BY <1>1, <1>2 DEF RelocateObject, _relocate_sect, SectionSkips, SectionRefuses,
                      SectionSlides, NextSection, ObjectRelocated
<1>3. CASE RelocateExecutable \/ LocalRefused \/ LocalSlides \/ ExecutableRelocated
    BY <1>1, <1>3 DEF RelocateExecutable, LocalRefused, LocalSlides, ExecutableRelocated
<1>4. ASSUME NEW name_ \in Names, FindSymbol(name_) PROVE SearchInv'
    <2>1. name_ \in Nat
        BY NamesAssumption
    <2>2. StartSearch(name_) \/ UNCHANGED search_vars
        BY <1>4 DEF FindSymbol, Refused
    <2> QED
        BY <1>1, <2>1, <2>2, SearchStarts
<1>5. CASE Searching
    BY <1>5, SearchStep DEF Searching
<1>6. ASSUME NEW name_ \in Names, NEW hintIndex \in Hints, FindInToc(name_, hintIndex) PROVE SearchInv'
    <2>1. name_ \in Nat /\ hintIndex \in 0 .. Word - 1
        BY NamesAssumption
    <2> QED
        BY <1>6, <2>1, TocSearchStarts DEF FindInToc
<1>7. CASE TocSearching
    BY <1>7, TocSearchStep DEF TocSearching
<1>8. CASE Searched \/ TocSearched
    BY <1>1, <1>8 DEF Searched, TocSearched
<1>9. CASE CodeDataRange \/ SegmentRefused \/ SegmentCounted \/ RangeFound
    BY <1>1, <1>9 DEF CodeDataRange, SegmentRefused, SegmentCounted, RangeFound
<1>10. CASE UNCHANGED vars
    BY <1>1, <1>10 DEF vars
<1> QED
    BY <1>2, <1>3, <1>4, <1>5, <1>6, <1>7, <1>8, <1>9, <1>10 DEF Next

(* In a table sorted by name, or with a table of contents that is, a name  *)
(* is found exactly if it is there; the search in the table of contents is *)
(* undefined at most for a hint that an int32_t does not hold.             *)
THEOREM SearchCorrect == Spec => []SearchExact
<1>1. SearchInv => SearchExact
    BY DEF SearchInv
<1> QED
    BY InitHolds, NextHolds, <1>1, PTL DEF Spec

(* No comparison reads outside of the table, unless the hint is one that   *)
(* an int32_t does not hold.                                               *)
THEOREM PivotCorrect == Spec => []PivotInTable
<1>1. SearchInv => PivotInTable
    <2> SUFFICES ASSUME SearchInv PROVE PivotInTable
        OBVIOUS
    <2>1. CASE search = "binary_search" /\ n > 0
        <3>1. n \div 2 \in Nat /\ n \div 2 < n /\ base \in Nat /\ n \in Nat
              /\ base + n <= Len(symbols)
            BY <2>1, Half DEF SearchInv, SearchTypes, RestHolds
        <3>2. pivot \in Indices
            BY <3>1, Names_, SMT DEF pivot, SearchInv
        <3> QED
            BY <2>1, <3>2 DEF PivotInTable
    <2>2. CASE search = "binary_search_toc" /\ low <= high /\ HintHeld
        <3>1. mid \in Int /\ low \in Nat /\ low <= mid /\ mid <= high /\ high < Len(symbols)
              /\ high \in Int
            BY <2>2 DEF SearchInv, SearchTypes, TocRestHolds
        <3>2. mid \in Indices
            BY <3>1, Names_, SMT DEF SearchInv
        <3> QED
            BY <2>2, <3>2 DEF PivotInTable
    <2> QED
        BY <2>1, <2>2 DEF PivotInTable
<1> QED
    BY InitHolds, NextHolds, <1>1, PTL DEF Spec

-----------------------------------------------------------------------------
(***************************************************************************)
(* What a client is answered.  A symbol's address is that of the place the *)
(* search found, which SearchExact speaks of; the walk over the segments   *)
(* has counted what lies between code_start and last_vmaddr.               *)
(***************************************************************************)
SymbolAnswered ==
    /\ call = "find_symbol" => search \in {"binary_search", "done"} /\ answer = <<>>
    /\ call = "none" /\ ret.of = "find_symbol" =>
          /\ search = "done"
          /\ IF found = -1 THEN ret.code = "symbol_not_found" /\ answer = <<>>
                           ELSE answer = <<(file.values[found + 1] + file.loader_bias) % Word>>

Walked ==
    /\ walk.seg \in 0 .. Len(file.segments)
    /\ walk.seg > 0 =>
          walk.last_vmaddr = file.segments[walk.seg].vmaddr + file.segments[walk.seg].vmsize
    /\ walk.seg < 2 => walk.vmsize = 0
    /\ walk.seg > 1 => walk.code_start = file.segments[2].first_sect
    /\ walk.seg = 2 => walk.code_start + walk.vmsize = walk.last_vmaddr
    /\ walk.seg > 2 =>
          walk.code_start + walk.vmsize = file.segments[3].vmaddr + file.segments[3].vmsize

RangeAnswered ==
    /\ call = "code_data_range" => Walked
    /\ /\ call = "none"
       /\ ret = [of |-> "code_data_range", code |-> "success"]
       /\ Len(file.segments) > 2
       => /\ answer[1] = file.segments[2].first_sect
          /\ answer[1] + answer[2] = file.segments[3].vmaddr + file.segments[3].vmsize

WalkTypes ==
    /\ file \in Files
    /\ walk \in [seg : Nat, last_vmaddr : Nat, code_start : Nat, vmsize : Int]

Answered == WalkTypes /\ SymbolAnswered /\ RangeAnswered

(* One segment more is counted.                                            *)
LEMMA SegmentWalked ==
    ASSUME WalkTypes, Walked, SegmentCounted
    PROVE  WalkTypes' /\ Walked'
<1>1. /\ walk.seg \in Nat /\ walk.last_vmaddr \in Nat /\ walk.code_start \in Nat
      /\ walk.vmsize \in Int
    BY DEF WalkTypes
<1>2. /\ file' = file /\ file \in Files
      /\ walk.seg < Len(file.segments)
      /\ segment.vmaddr = walk.last_vmaddr
      /\ walk' = [seg |-> walk.seg + 1,
                  last_vmaddr |-> segment.vmaddr + segment.vmsize,
                  code_start |-> IF walk.seg = 1 THEN segment.first_sect ELSE walk.code_start,
                  vmsize |-> walk.vmsize + counted]
    BY DEF SegmentCounted, HasSegment, WalkTypes
<1>3. /\ Len(file.segments) \in Nat
      /\ \A i \in 1 .. Len(file.segments) :
            /\ file.segments[i].vmaddr \in Nat
            /\ file.segments[i].vmsize \in Nat
            /\ file.segments[i].first_sect \in Nat
    <2> DEFINE S == [vmaddr : Nat, vmsize : Nat, name : STRING, first_sect : Nat]
    <2>1. file.segments \in Seq(S)
        BY <1>2, SegmentsAssumption
    <2>2. \A s \in S : s.vmaddr \in Nat /\ s.vmsize \in Nat /\ s.first_sect \in Nat
        OBVIOUS
    <2> HIDE DEF S
    <2> QED
        BY <2>1, <2>2
<1>4. segment = file.segments[walk.seg + 1] /\ walk.seg + 1 \in 1 .. Len(file.segments)
    BY <1>1, <1>2, <1>3 DEF segment
<1>5. segment.vmaddr \in Nat /\ segment.vmsize \in Nat /\ segment.first_sect \in Nat
    BY <1>3, <1>4
<1>6. counted \in Int
    BY <1>5 DEF counted
<1>7. /\ walk'.seg = walk.seg + 1
      /\ walk'.last_vmaddr = segment.vmaddr + segment.vmsize
      /\ walk'.code_start = IF walk.seg = 1 THEN segment.first_sect ELSE walk.code_start
      /\ walk'.vmsize = walk.vmsize + counted
    BY <1>2
<1>8. WalkTypes'
    <2>1. /\ walk.seg + 1 \in Nat /\ segment.vmaddr + segment.vmsize \in Nat
          /\ (IF walk.seg = 1 THEN segment.first_sect ELSE walk.code_start) \in Nat
          /\ walk.vmsize + counted \in Int
        BY <1>1, <1>5, <1>6
    <2> QED
        BY <1>2, <2>1 DEF WalkTypes
<1>9. CASE walk.seg = 0
    <2>1. counted = 0 /\ walk'.seg = 1 /\ walk'.vmsize = 0
        BY <1>1, <1>7, <1>9 DEF counted, Walked
    <2> QED
        BY <1>2, <1>3, <1>4, <1>7, <1>8, <1>9, <2>1 DEF Walked
<1>10. CASE walk.seg = 1
    <2>1. /\ counted = segment.vmsize - (segment.first_sect - segment.vmaddr)
          /\ walk.vmsize = 0
          /\ walk'.seg = 2 /\ segment = file.segments[2] /\ walk'.code_start = segment.first_sect
        BY <1>4, <1>7, <1>10 DEF counted, Walked
    <2>2. walk'.code_start + walk'.vmsize = walk'.last_vmaddr
        BY <1>5, <1>7, <2>1
    <2> QED
        BY <1>2, <1>3, <1>4, <1>7, <1>8, <1>10, <2>1, <2>2 DEF Walked
<1>11. CASE walk.seg = 2
    <2>1. /\ counted = segment.vmsize
          /\ walk.code_start + walk.vmsize = walk.last_vmaddr
          /\ walk.code_start = file.segments[2].first_sect
          /\ walk'.seg = 3 /\ segment = file.segments[3] /\ walk'.code_start = walk.code_start
        BY <1>4, <1>7, <1>11 DEF counted, Walked
    <2>2. walk'.code_start + walk'.vmsize = segment.vmaddr + segment.vmsize
        BY <1>1, <1>2, <1>5, <1>7, <2>1
    <2> QED
        BY <1>2, <1>3, <1>4, <1>7, <1>8, <1>11, <2>1, <2>2 DEF Walked
<1>12. CASE walk.seg > 2
    <2>1. /\ counted = 0
          /\ walk.code_start + walk.vmsize = file.segments[3].vmaddr + file.segments[3].vmsize
          /\ walk.code_start = file.segments[2].first_sect
          /\ walk'.seg > 3 /\ walk'.code_start = walk.code_start
        BY <1>1, <1>7, <1>12 DEF counted, Walked
    <2>2. walk'.vmsize = walk.vmsize
        BY <1>1, <1>7, <2>1
    <2> QED
        BY <1>2, <1>3, <1>4, <1>7, <1>8, <1>12, <2>1, <2>2 DEF Walked
<1> QED
    BY <1>1, <1>9, <1>10, <1>11, <1>12

(* The steps of the other functions answer nothing of the two.             *)
LEMMA AnsweredStep ==
    ASSUME Answered, [Next]_vars
    PROVE  Answered'
<1> USE DEF Answered
<1>1. ASSUME UNCHANGED <<file, walk>> PROVE WalkTypes' /\ (Walked => Walked')
    BY <1>1 DEF WalkTypes, Walked
<1>2. ASSUME UNCHANGED <<file, walk>>, call' = "none",
             ret'.of \notin {"find_symbol", "code_data_range"}
      PROVE  Answered'
    BY <1>1, <1>2 DEF SymbolAnswered, RangeAnswered
<1>3. ASSUME UNCHANGED <<file, walk>>,
             call' \notin {"none", "find_symbol", "code_data_range"}
      PROVE  Answered'
    BY <1>1, <1>3 DEF SymbolAnswered, RangeAnswered
<1>4. CASE RelocateObject \/ _relocate_sect \/ NextSection \/ ObjectRelocated
    <2>1. UNCHANGED <<file, walk>>
        BY <1>4 DEF RelocateObject, _relocate_sect, SectionSkips, SectionRefuses,
                    SectionSlides, NextSection, ObjectRelocated
    <2>2. \/ call' = "none" /\ ret'.of \in {"none", "relocate_object"}
          \/ call' = "relocate_object"
        BY <1>4 DEF RelocateObject, _relocate_sect, SectionSkips, SectionRefuses,
                    SectionSlides, NextSection, ObjectRelocated, HasRelocation, InSection,
                    Calls, Returns
    <2> QED
        BY <1>2, <1>3, <2>1, <2>2
<1>5. CASE RelocateExecutable \/ LocalRefused \/ LocalSlides \/ ExecutableRelocated
    <2>1. UNCHANGED <<file, walk>>
        BY <1>5 DEF RelocateExecutable, LocalRefused, LocalSlides, ExecutableRelocated
    <2>2. \/ call' = "none" /\ ret'.of \in {"none", "relocate_executable"}
          \/ call' = "relocate_executable"
        BY <1>5 DEF RelocateExecutable, LocalRefused, LocalSlides, ExecutableRelocated,
                    HasLocal, Calls, Returns
    <2> QED
        BY <1>2, <1>3, <2>1, <2>2
<1>6. ASSUME NEW name_ \in Names, FindSymbol(name_) PROVE Answered'
    <2>1. UNCHANGED <<file, walk>> /\ answer' = <<>>
        BY <1>6 DEF FindSymbol, Calls
    <2>2. \/ call' = "none" /\ ret'.of = "none"
          \/ call' = "find_symbol" /\ search' = "binary_search"
        BY <1>6 DEF FindSymbol, Calls, Refused, Returns, StartSearch
    <2> QED
        BY <1>1, <1>2, <2>1, <2>2 DEF SymbolAnswered, RangeAnswered
<1>7. CASE Searching
    <2>1. UNCHANGED <<file, walk>> /\ call = "find_symbol" /\ call' = call /\ answer' = answer
        BY <1>7 DEF Searching, file_vars
    <2>2. search' \in {"binary_search", "done"}
        BY <1>7 DEF Searching, binary_search, NotFound, Found, GoLeft, GoRight
    <2> QED
        BY <1>1, <2>1, <2>2 DEF SymbolAnswered, RangeAnswered
<1>8. CASE Searched
    <2>1. /\ UNCHANGED <<file, walk, search, found>>
          /\ call = "find_symbol" /\ search = "done" /\ call' = "none"
          /\ ret'.of = "find_symbol"
          /\ IF found = -1 THEN ret'.code = "symbol_not_found" /\ answer' = answer
             ELSE answer' = <<(file.values[found + 1] + file.loader_bias) % Word>>
        BY <1>8 DEF Searched, Returns, search_vars
    <2>2. SymbolAnswered'
        BY <2>1 DEF SymbolAnswered
    <2>3. RangeAnswered'
        BY <2>1 DEF RangeAnswered
    <2> QED
        BY <1>1, <2>1, <2>2, <2>3
<1>9. ASSUME NEW name_ \in Names, NEW hintIndex \in Hints, FindInToc(name_, hintIndex) PROVE Answered'
    BY <1>3, <1>9 DEF FindInToc
<1>10. CASE TocSearching
    <2>1. UNCHANGED <<file, walk>> /\ call' = "binary_search_toc"
        BY <1>10 DEF TocSearching, file_vars
    <2> QED
        BY <1>3, <2>1
<1>11. CASE TocSearched
    <2>1. UNCHANGED <<file, walk>> /\ call' = "none" /\ ret'.of = "binary_search_toc"
        BY <1>11 DEF TocSearched, Returns
    <2> QED
        BY <1>2, <2>1
<1>12. CASE CodeDataRange
    <2>1. CASE file.filetype # "execute"
        <3>1. UNCHANGED <<file, walk>> /\ call' = "none" /\ ret'.of = "none"
            BY <1>12, <2>1 DEF CodeDataRange, Calls, Returns
        <3> QED
            BY <1>2, <3>1
    <2>2. CASE file.filetype = "execute"
        <3>1. UNCHANGED file /\ call' = "code_data_range" /\ walk' = NoWalk
            BY <1>12, <2>2 DEF CodeDataRange
        <3>2. Len(file.segments) \in Nat
            BY SegmentsAssumption DEF WalkTypes
        <3>3. WalkTypes' /\ Walked'
            BY <3>1, <3>2 DEF WalkTypes, Walked, NoWalk
        <3> QED
            BY <3>1, <3>3 DEF SymbolAnswered, RangeAnswered
    <2> QED
        BY <2>1, <2>2
<1>13. CASE SegmentRefused
    <2>1. /\ UNCHANGED <<file, walk>> /\ call' = "none"
          /\ ret' \in {[of |-> "code_data_range", code |-> c] :
                          c \in {"exec_noncontigious", "exec_unexpected_seg"}}
        BY <1>13 DEF SegmentRefused, HasSegment, Returns
    <2>2. ret'.of = "code_data_range" /\ ret'.code # "success"
        BY <2>1
    <2>3. ret' # [of |-> "code_data_range", code |-> "success"]
        BY <2>2
    <2> QED
        BY <1>1, <2>1, <2>2, <2>3 DEF SymbolAnswered, RangeAnswered
<1>14. CASE SegmentCounted
    <2>1. call = "code_data_range" /\ call' = call
        BY <1>14 DEF SegmentCounted, HasSegment
    <2> QED
        BY <1>14, <2>1, SegmentWalked DEF SymbolAnswered, RangeAnswered
<1>15. CASE RangeFound
    <2>1. /\ UNCHANGED <<file, walk>> /\ call = "code_data_range" /\ call' = "none"
          /\ ret'.of = "code_data_range"
          /\ answer' = <<walk.code_start, walk.vmsize>>
          /\ ~(walk.seg < Len(file.segments))
        BY <1>15 DEF RangeFound, HasSegment, Returns
    <2>2. answer'[1] = walk.code_start /\ answer'[2] = walk.vmsize
        BY <2>1
    <2>3. Walked /\ walk.seg \in Nat /\ Len(file.segments) \in Nat
        BY <2>1, SegmentsAssumption DEF RangeAnswered, WalkTypes
    <2>4. Len(file.segments) > 2 => walk.seg > 2
        BY <2>1, <2>3
    <2> QED
        BY <1>1, <2>1, <2>2, <2>3, <2>4 DEF Walked, SymbolAnswered, RangeAnswered
<1>16. CASE UNCHANGED vars
    BY <1>16 DEF vars, search_vars, file_vars, WalkTypes, Walked, SymbolAnswered, RangeAnswered
<1> QED
    BY <1>4, <1>5, <1>6, <1>7, <1>8, <1>9, <1>10, <1>11, <1>12, <1>13, <1>14, <1>15, <1>16
    DEF Next

LEMMA AnsweredInit == Init => Answered
BY DEF Init, NoWalk, Answered, WalkTypes, Walked, SymbolAnswered, RangeAnswered

(* A client is given the address of the symbol it asked for exactly if the *)
(* sorted table has it, and a range of code and data that ends where the   *)
(* third segment does, for tables and lists of segments of every size.     *)
THEOREM AnswersAreExact == Spec => []AnswerExact
<1>1. SearchInv /\ Answered => AnswerExact
    <2> SUFFICES ASSUME SearchInv, Answered PROVE AnswerExact
        OBVIOUS
    <2>1. ASSUME call = "none", ret.of = "find_symbol", Sorted(symbols)
          PROVE  IF Present
                 THEN \E p \in Indices :
                         /\ name(p) = key
                         /\ answer = <<(file.values[p + 1] + file.loader_bias) % Word>>
                 ELSE ret.code = "symbol_not_found" /\ answer = <<>>
        <3>1. search = "done"
            BY <2>1 DEF Answered, SymbolAnswered
        <3>2. found = -1 => ~Present /\ ret.code = "symbol_not_found" /\ answer = <<>>
            BY <2>1, <3>1 DEF Answered, SymbolAnswered, SearchInv, SearchExact
        <3>3. found # -1 =>
                 /\ found \in Indices /\ name(found) = key
                 /\ answer = <<(file.values[found + 1] + file.loader_bias) % Word>>
            BY <2>1 DEF Answered, SymbolAnswered, SearchInv, SearchExact
        <3> QED
            BY <3>2, <3>3 DEF Present
    <2> QED
        BY <2>1 DEF AnswerExact, Answered, RangeAnswered
<1> QED
    BY InitHolds, NextHolds, AnsweredInit, AnsweredStep, <1>1, PTL DEF Spec

-----------------------------------------------------------------------------
(***************************************************************************)
(* Relocation.  Memory is at every moment what the relocations before the  *)
(* one it has come to have made of it, and all of them are supported.      *)
(***************************************************************************)
Memory == [0 .. MemEnd -> 0 .. Word - 1]

(* The place a relocating function has come to, and those behind it.       *)
Cursor == IF file.filetype = "object" THEN <<sect, rel>> ELSE <<1, rel>>
Done == {p \in Places : Precedes(p, Cursor)}

RelocTypes ==
    /\ file \in Files
    /\ memory \in Memory /\ before \in Memory
    /\ sect \in Nat \ {0} /\ rel \in Nat \ {0}

Relocating ==
    /\ call = "relocate_object" => file.filetype = "object"
    /\ call = "relocate_executable" => file.filetype = "execute"
    /\ IF call \in {"relocate_object", "relocate_executable"}
       THEN memory = Slid(Done) /\ \A p \in Done : Supported(p)
       ELSE call # "none" => memory = before

RelocInv == RelocTypes /\ Relocating /\ RelocatedExactly

(* A remainder is the only one below the divisor that fits.                *)
LEMMA Residue ==
    ASSUME NEW w \in Nat \ {0}, NEW k \in Int, NEW r \in 0 .. w - 1
    PROVE  (w * k + r) % w = r
<1> DEFINE x == w * k + r
           d == x \div w
           m == x % w
<1>1. x \in Int
    OBVIOUS
<1>2. d \in Int /\ m \in 0 .. w - 1 /\ x = w * d + m
    BY <1>1
<1> HIDE DEF d, m
<1>3. w * k + r = w * d + m
    BY <1>2
<1> HIDE DEF x
<1>4. CASE k = d
    BY <1>2, <1>3, <1>4 DEF m, x
<1>5. CASE k > d
    <2>1. w * k >= w * (d + 1)
        BY <1>2, <1>5
    <2>2. w * (d + 1) = w * d + w
        BY <1>2
    <2> QED
        BY <1>2, <1>3, <2>1, <2>2
<1>6. CASE k < d
    <2>1. w * d >= w * (k + 1)
        BY <1>2, <1>6
    <2>2. w * (k + 1) = w * k + w
        OBVIOUS
    <2> QED
        BY <1>2, <1>3, <2>1, <2>2
<1> QED
    BY <1>2, <1>4, <1>5, <1>6

(* A word may be cut to its width after every addition or at the end.      *)
LEMMA AddWord ==
    ASSUME NEW w \in Nat \ {0}, NEW x \in Nat, NEW b \in Nat
    PROVE  ((x % w) + b) % w = (x + b) % w
<1> DEFINE q == x \div w
           r == x % w
           k == (r + b) \div w
           m == (r + b) % w
<1>1. q \in Int /\ r \in 0 .. w - 1 /\ x = w * q + r
    OBVIOUS
<1> HIDE DEF q
<1>2. r \in Int
    BY <1>1
<1>3. k \in Int /\ m \in 0 .. w - 1 /\ r + b = w * k + m
    BY <1>2
<1> HIDE DEF r, k, m
<1>4. x + b = w * (q + k) + m /\ q + k \in Int
    <2>1. w * (q + k) = w * q + w * k
        BY <1>1, <1>3
    <2> QED
        BY <1>1, <1>2, <1>3, <2>1
<1>5. (x + b) % w = m
    BY <1>3, <1>4, Residue
<1> QED
    BY <1>5 DEF m, r

-----------------------------------------------------------------------------
(* A place is that of a relocation.                                        *)
LEMMA PlaceTypes ==
    ASSUME file \in Files
    PROVE  /\ \A p \in Places :
                 /\ p = <<p[1], p[2]>> /\ p[1] \in Nat /\ p[2] \in Nat \ {0}
                 /\ IF file.filetype = "object"
                    THEN p[1] \in 1 .. Len(file.sects) /\ p[2] \in 1 .. Len(file.sects[p[1]].relocs)
                    ELSE p[1] = 1 /\ p[2] \in 1 .. Len(file.locrel)
                 /\ RelocationAt(p) \in Relocation
                 /\ WordAt(p) \in Int
           /\ Len(file.locrel) \in Nat /\ Len(file.sects) \in Nat
           /\ \A s \in 1 .. Len(file.sects) : Len(file.sects[s].relocs) \in Nat
           /\ file.filetype = "object" =>
                 \A s \in 1 .. Len(file.sects) : \A m \in 1 .. Len(file.sects[s].relocs) :
                    <<s, m>> \in Places
           /\ file.filetype # "object" => \A m \in 1 .. Len(file.locrel) : <<1, m>> \in Places
           /\ IsFiniteSet(Places)
<1> DEFINE Section == [addr : Nat, relocs : Seq(Relocation)]
<1>1. /\ file.sects \in Seq(Section) /\ file.locrel \in Seq(Relocation) /\ Base \in Nat
    BY RelocationsAssumption, MemoryAssumption
<1>2. \A s \in Section : s.addr \in Nat /\ s.relocs \in Seq(Relocation)
    OBVIOUS
<1> HIDE DEF Section
<1>3. /\ Len(file.sects) \in Nat /\ DOMAIN file.sects = 1 .. Len(file.sects)
      /\ Len(file.locrel) \in Nat /\ DOMAIN file.locrel = 1 .. Len(file.locrel)
      /\ \A m \in 1 .. Len(file.locrel) : file.locrel[m] \in Relocation
    BY <1>1
<1>4. \A s \in 1 .. Len(file.sects) :
         /\ file.sects[s].addr \in Nat /\ file.sects[s].relocs \in Seq(Relocation)
    BY <1>1, <1>2
<1>5. \A s \in 1 .. Len(file.sects) :
         /\ Len(file.sects[s].relocs) \in Nat
         /\ DOMAIN file.sects[s].relocs = 1 .. Len(file.sects[s].relocs)
         /\ \A m \in 1 .. Len(file.sects[s].relocs) : file.sects[s].relocs[m] \in Relocation
    BY <1>4
<1>6. \A r \in Relocation : r.address \in Int
    BY DEF Relocation
<1>7. CASE file.filetype = "object"
    <2> DEFINE F == [s \in 1 .. Len(file.sects) |-> {s} \X (1 .. Len(file.sects[s].relocs))]
               Images == {F[s] : s \in 1 .. Len(file.sects)}
    <2>1. /\ \A s \in 1 .. Len(file.sects) : F[s] = {s} \X (1 .. Len(file.sects[s].relocs))
          /\ DOMAIN F = 1 .. Len(file.sects)
          /\ F \in Surjection(1 .. Len(file.sects), Images)
        BY DEF Surjection
    <2> HIDE DEF F
    <2>2. Places = UNION Images
        <3>1. \A s \in DOMAIN file.sects : {s} \X DOMAIN file.sects[s].relocs = F[s]
            BY <1>3, <1>5, <2>1
        <3>2. {{s} \X DOMAIN file.sects[s].relocs : s \in DOMAIN file.sects} = Images
            BY <1>3, <3>1, Zenon
        <3> QED
            BY <1>7, <3>2 DEF Places
    <2>3. \A s \in 1 .. Len(file.sects) : IsFiniteSet(F[s])
        <3> TAKE s \in 1 .. Len(file.sects)
        <3> DEFINE n_ == Len(file.sects[s].relocs)
        <3>1. n_ \in Int
            BY <1>5
        <3> HIDE DEF n_
        <3>2. IsFiniteSet(1 .. n_)
            BY <3>1, FS_Interval
        <3>3. IsFiniteSet({s})
            BY FS_Singleton
        <3>4. IsFiniteSet({s} \X (1 .. n_))
            BY <3>2, <3>3, FS_Product
        <3> QED
            BY <2>1, <3>4 DEF n_
    <2>4. IsFiniteSet(1 .. Len(file.sects))
        BY <1>3, FS_Interval
    <2>5. IsFiniteSet(Images)
        BY <2>1, <2>4, FS_Surjection
    <2>6. IsFiniteSet(Places)
        <3>1. \A T \in Images : IsFiniteSet(T)
            BY <2>3
        <3> QED
            BY <2>2, <2>5, <3>1, FS_UNION
    <2>7. \A p \in Places :
             /\ p = <<p[1], p[2]>> /\ p[1] \in 1 .. Len(file.sects)
             /\ p[2] \in 1 .. Len(file.sects[p[1]].relocs)
        <3> TAKE p \in Places
        <3>1. PICK s \in 1 .. Len(file.sects) : p \in F[s]
            BY <2>2
        <3>2. p \in {s} \X (1 .. Len(file.sects[s].relocs))
            BY <2>1, <3>1
        <3>3. p = <<p[1], p[2]>> /\ p[1] = s /\ p[2] \in 1 .. Len(file.sects[s].relocs)
            BY <3>2
        <3> QED
            BY <3>3
    <2>8. \A s \in 1 .. Len(file.sects) : \A m \in 1 .. Len(file.sects[s].relocs) :
             <<s, m>> \in Places
        <3> TAKE s \in 1 .. Len(file.sects)
        <3> TAKE m \in 1 .. Len(file.sects[s].relocs)
        <3>1. <<s, m>> \in {s} \X (1 .. Len(file.sects[s].relocs))
            OBVIOUS
        <3>2. <<s, m>> \in F[s] /\ F[s] \in Images
            BY <2>1, <3>1
        <3> QED
            BY <2>2, <3>2
    <2> HIDE DEF Images
    <2>9. \A p \in Places : RelocationAt(p) \in Relocation
        BY <1>5, <1>7, <2>7 DEF RelocationAt
    <2>10. \A p \in Places : WordAt(p) \in Int
        BY <1>1, <1>4, <1>6, <1>7, <2>7, <2>9 DEF WordAt
    <2> QED
        BY <1>3, <1>5, <1>7, <2>6, <2>7, <2>8, <2>9, <2>10
<1>8. CASE file.filetype # "object"
    <2>1. Places = {1} \X (1 .. Len(file.locrel))
        BY <1>3, <1>8 DEF Places
    <2>2. IsFiniteSet(Places)
        <3>1. IsFiniteSet(1 .. Len(file.locrel))
            BY <1>3, FS_Interval
        <3>2. IsFiniteSet({1})
            BY FS_Singleton
        <3> QED
            BY <2>1, <3>1, <3>2, FS_Product
    <2>3. \A p \in Places : p = <<p[1], p[2]>> /\ p[1] = 1 /\ p[2] \in 1 .. Len(file.locrel)
        BY <2>1
    <2>4. \A m \in 1 .. Len(file.locrel) : <<1, m>> \in Places
        BY <2>1
    <2>5. \A p \in Places : RelocationAt(p) \in Relocation
        BY <1>3, <1>8, <2>3 DEF RelocationAt
    <2>6. \A p \in Places : WordAt(p) \in Int
        BY <1>1, <1>6, <1>8, <2>5 DEF WordAt
    <2> QED
        BY <1>3, <1>5, <1>8, <2>2, <2>3, <2>4, <2>5, <2>6
<1> QED
    BY <1>7, <1>8

-----------------------------------------------------------------------------
(* Nothing is slid before the first relocation.                            *)
LEMMA NothingSlid ==
    ASSUME NEW m \in Memory, NEW f \in Files
    PROVE  [a \in 0 .. MemEnd |-> (m[a] + 0 * f.loader_bias) % Word] = m
<1>1. /\ m \in [0 .. MemEnd -> 0 .. Word - 1] /\ Word \in Nat \ {0}
      /\ f.loader_bias \in Nat
    BY MemoryAssumption, RelocationsAssumption DEF Memory
<1>2. \A a \in 0 .. MemEnd : (m[a] + 0 * f.loader_bias) % Word = m[a]
    <2> TAKE a \in 0 .. MemEnd
    <2>1. m[a] \in 0 .. Word - 1
        BY <1>1
    <2>2. m[a] + 0 * f.loader_bias = Word * 0 + m[a]
        BY <1>1, <2>1
    <2>3. (Word * 0 + m[a]) % Word = m[a]
        BY <1>1, <2>1, Residue
    <2> QED
        BY <2>2, <2>3
<1> QED
    BY <1>1, <1>2

(* A vanilla relocation more slides its word once more; one relative to    *)
(* the program counter slides none.                                        *)
LEMMA OneMoreSlid ==
    ASSUME RelocTypes, NEW done \in SUBSET Places, NEW p \in Places, p \notin done
    PROVE  /\ ~RelocationAt(p).vanilla => Slid(done \cup {p}) = Slid(done)
           /\ RelocationAt(p).vanilla /\ WordAt(p) \in 0 .. MemEnd =>
                 Slid(done \cup {p}) =
                    [Slid(done) EXCEPT ![WordAt(p)] = (@ + file.loader_bias) % Word]
<1> DEFINE T(D, a) == {q \in D : RelocationAt(q).vanilla /\ WordAt(q) = a}
           w == WordAt(p)
<1>1. /\ before \in [0 .. MemEnd -> 0 .. Word - 1] /\ Word \in Nat \ {0}
      /\ file.loader_bias \in Nat
    BY MemoryAssumption, RelocationsAssumption DEF RelocTypes, Memory
<1>2. IsFiniteSet(Places)
    BY PlaceTypes DEF RelocTypes
<1>3. \A a : IsFiniteSet(T(done, a)) /\ Times(done, a) \in Nat
    <2> TAKE a
    <2>1. T(done, a) \in SUBSET Places
        OBVIOUS
    <2>2. IsFiniteSet(T(done, a))
        BY <1>2, <2>1, FS_Subset
    <2> QED
        BY <2>2, FS_CardinalityType DEF Times
<1>4. \A a : ~(RelocationAt(p).vanilla /\ w = a) => Times(done \cup {p}, a) = Times(done, a)
    <2> SUFFICES ASSUME NEW a, ~(RelocationAt(p).vanilla /\ w = a)
                 PROVE  Times(done \cup {p}, a) = Times(done, a)
        OBVIOUS
    <2>1. T(done \cup {p}, a) = T(done, a)
        OBVIOUS
    <2> QED
        BY <2>1 DEF Times
<1>5. RelocationAt(p).vanilla => Times(done \cup {p}, w) = Times(done, w) + 1
    <2> SUFFICES ASSUME RelocationAt(p).vanilla
                 PROVE  Times(done \cup {p}, w) = Times(done, w) + 1
        OBVIOUS
    <2> DEFINE U == T(done, w)
    <2>1. T(done \cup {p}, w) = U \cup {p} /\ p \notin U
        OBVIOUS
    <2>2. IsFiniteSet(U)
        BY <1>3
    <2> HIDE DEF U
    <2>3. Cardinality(U \cup {p}) = Cardinality(U) + 1
        BY <2>1, <2>2, FS_AddElement
    <2> QED
        BY <2>1, <2>3 DEF Times, U
<1> HIDE DEF T, w
<1>6. CASE ~RelocationAt(p).vanilla
    BY <1>4, <1>6 DEF Slid
<1>7. CASE RelocationAt(p).vanilla /\ w \in 0 .. MemEnd
    <2> DEFINE after == [Slid(done) EXCEPT ![w] = (@ + file.loader_bias) % Word]
    <2>1. /\ DOMAIN Slid(done) = 0 .. MemEnd
          /\ \A a \in 0 .. MemEnd :
                /\ Slid(done)[a] = (before[a] + Times(done, a) * file.loader_bias) % Word
                /\ Slid(done \cup {p})[a] =
                      (before[a] + Times(done \cup {p}, a) * file.loader_bias) % Word
        BY DEF Slid
    <2>2. \A a \in 0 .. MemEnd : a # w => after[a] = Slid(done \cup {p})[a]
        BY <1>4, <2>1
    <2>3. after[w] = (Slid(done)[w] + file.loader_bias) % Word
        BY <1>7, <2>1
    <2> DEFINE t == Times(done, w)
               b == file.loader_bias
               x == before[w] + t * b
    <2>4. t \in Nat /\ b \in Nat /\ before[w] \in Nat
        BY <1>1, <1>3, <1>7
    <2>5. Slid(done)[w] = x % Word /\ Slid(done \cup {p})[w] = (before[w] + (t + 1) * b) % Word
        BY <1>5, <1>7, <2>1
    <2> HIDE DEF t, b
    <2>6. t * b \in Nat /\ (t + 1) * b = t * b + b
        BY <2>4
    <2>7. x \in Nat /\ before[w] + (t + 1) * b = x + b
        BY <2>4, <2>6
    <2> HIDE DEF x
    <2>8. ((x % Word) + b) % Word = (x + b) % Word
        BY <1>1, <2>4, <2>7, AddWord
    <2>9. after[w] = Slid(done \cup {p})[w]
        BY <2>3, <2>5, <2>7, <2>8 DEF b
    <2>10. DOMAIN after = 0 .. MemEnd /\ DOMAIN Slid(done \cup {p}) = 0 .. MemEnd
        BY <2>1 DEF Slid
    <2> QED
        BY <1>7, <2>2, <2>9, <2>10 DEF Slid, w
<1> QED
    BY <1>6, <1>7 DEF w

-----------------------------------------------------------------------------
(* The relocation at the cursor is the next one: those done and it are     *)
(* those behind the cursor moved on by one.                                *)
LEMMA CursorMoves ==
    ASSUME RelocTypes, Cursor \in Places, file' = file, rel' = rel + 1, sect' = sect
    PROVE  /\ Cursor \notin Done
           /\ Done' = Done \cup {Cursor}
<1>1. \A p \in Places : p = <<p[1], p[2]>> /\ p[1] \in Nat /\ p[2] \in Nat
    BY PlaceTypes DEF RelocTypes
<1>2. sect \in Nat /\ rel \in Nat
    BY DEF RelocTypes
<1>3. PICK c \in Nat : Cursor = <<c, rel>> /\ Cursor' = <<c, rel + 1>>
    <2>1. CASE file.filetype = "object"
        BY <1>2, <2>1 DEF Cursor
    <2>2. CASE file.filetype # "object"
        BY <2>2 DEF Cursor
    <2> QED
        BY <2>1, <2>2
<1>4. Places' = Places
    BY DEF Places
<1>5. \A p \in Places : Precedes(p, <<c, rel + 1>>) <=> Precedes(p, <<c, rel>>) \/ p = <<c, rel>>
    <2> TAKE p \in Places
    <2>1. PICK s \in Nat, m \in Nat : p = <<s, m>>
        BY <1>1
    <2>2. (s < c \/ (s = c /\ m < rel + 1)) <=> (s < c \/ (s = c /\ m < rel)) \/ (s = c /\ m = rel)
        BY <1>2, <2>1
    <2> QED
        BY <2>1, <2>2 DEF Precedes
<1>6. Done' = {p \in Places : Precedes(p, <<c, rel + 1>>)}
    BY <1>3, <1>4 DEF Done, Precedes
<1>7. Cursor \notin Done
    BY <1>2, <1>3 DEF Done, Precedes
<1>8. Done' = Done \cup {Cursor}
    BY <1>3, <1>5, <1>6 DEF Done
<1> QED
    BY <1>7, <1>8

(* At the first relocation nothing is done.                                *)
LEMMA CursorStarts ==
    ASSUME RelocTypes, file' = file, sect' = 1 \/ file.filetype # "object", rel' = 1
    PROVE  Done' = {}
<1>1. \A p \in Places : /\ p[1] \in Nat /\ p[2] \in Nat \ {0}
                        /\ file.filetype = "object" => p[1] \in 1 .. Len(file.sects)
                        /\ file.filetype # "object" => p[1] = 1
      /\ Len(file.sects) \in Nat
    BY PlaceTypes DEF RelocTypes
<1>2. Places' = Places
    BY DEF Places
<1>3. Cursor' = <<1, 1>>
    BY DEF Cursor
<1>4. \A p \in Places : ~Precedes(p, <<1, 1>>)
    BY <1>1 DEF Precedes
<1> QED
    BY <1>2, <1>3, <1>4 DEF Done, Precedes

(* At the end of a section the first of the next one is next.              *)
LEMMA CursorCrosses ==
    ASSUME RelocTypes, file' = file, file.filetype = "object",
           sect \in 1 .. Len(file.sects), rel > Len(file.sects[sect].relocs),
           sect' = sect + 1, rel' = 1
    PROVE  Done' = Done
<1>1. /\ Len(file.sects) \in Nat /\ Len(file.sects[sect].relocs) \in Nat
      /\ \A p \in Places : /\ p[1] \in Nat /\ p[2] \in Nat \ {0}
                           /\ p[1] \in 1 .. Len(file.sects)
                           /\ p[2] \in 1 .. Len(file.sects[p[1]].relocs)
    BY PlaceTypes DEF RelocTypes
<1>2. Places' = Places
    BY DEF Places
<1>3. Cursor = <<sect, rel>> /\ Cursor' = <<sect + 1, 1>> /\ sect \in Nat /\ rel \in Nat
    BY DEF Cursor, RelocTypes
<1>4. \A p \in Places : Precedes(p, <<sect + 1, 1>>) <=> Precedes(p, <<sect, rel>>)
    <2> TAKE p \in Places
    <2> DEFINE s == p[1]
               m == p[2]
    <2>1. s \in Nat /\ m \in Nat \ {0} /\ (s = sect => m < rel)
        BY <1>1, <1>3
    <2> HIDE DEF s, m
    <2>2. (s < sect + 1 \/ (s = sect + 1 /\ m < 1)) <=> (s < sect \/ (s = sect /\ m < rel))
        BY <1>3, <2>1
    <2> QED
        BY <2>2 DEF Precedes, s, m
<1> QED
    BY <1>2, <1>3, <1>4 DEF Done, Precedes

(* If all that are done are supported, a relocation that is not is the     *)
(* first such, and behind the last there is none.                          *)
LEMMA FirstBad ==
    ASSUME RelocTypes, \A p \in Done : Supported(p)
    PROVE  /\ Cursor \in Places /\ ~Supported(Cursor) => BeforeBad = Done /\ Bad # {}
           /\ (\A p \in Places : Precedes(p, Cursor)) => BeforeBad = Done /\ Bad = {}
<1>1. \A p \in Places : p = <<p[1], p[2]>> /\ p[1] \in Nat /\ p[2] \in Nat
    BY PlaceTypes DEF RelocTypes
<1>2. \A p, q, r \in Places :
         /\ Precedes(p, q) /\ Precedes(q, r) => Precedes(p, r)
         /\ Precedes(p, q) \/ p = q \/ Precedes(q, p)
    <2> TAKE p, q, r \in Places
    <2>1. PICK s1 \in Nat, m1 \in Nat : p = <<s1, m1>>
        BY <1>1
    <2>2. PICK s2 \in Nat, m2 \in Nat : q = <<s2, m2>>
        BY <1>1
    <2>3. PICK s3 \in Nat, m3 \in Nat : r = <<s3, m3>>
        BY <1>1
    <2> QED
        BY <2>1, <2>2, <2>3 DEF Precedes
<1>3. ASSUME Cursor \in Places, ~Supported(Cursor)
      PROVE  BeforeBad = Done /\ Bad # {}
    <2>1. Cursor \in Bad
        BY <1>3 DEF Bad
    <2>2. \A p \in Done, q \in Bad : Precedes(p, q)
        <3> TAKE p \in Done, q \in Bad
        <3>1. p \in Places /\ q \in Places /\ Precedes(p, Cursor) /\ ~Precedes(q, Cursor)
            BY DEF Done, Bad
        <3> QED
            BY <1>2, <1>3, <3>1
    <2> QED
        BY <2>1, <2>2 DEF BeforeBad, Done
<1>4. ASSUME \A p \in Places : Precedes(p, Cursor)
      PROVE  BeforeBad = Done /\ Bad = {}
    BY <1>4 DEF BeforeBad, Done, Bad
<1> QED
    BY <1>3, <1>4

-----------------------------------------------------------------------------
(* What the values of the file make of places stays.                       *)
LEMMA SlidSame ==
    ASSUME file' = file, before' = before
    PROVE  /\ Places' = Places
           /\ \A p : Supported(p)' <=> Supported(p)
           /\ Bad' = Bad /\ BeforeBad' = BeforeBad
           /\ Slid(BeforeBad)' = Slid(BeforeBad)
           /\ \A D : Done' = D => Slid(Done)' = Slid(D)
<1>1. Places' = Places
    BY DEF Places
<1>2. \A p : Supported(p)' <=> Supported(p)
    BY DEF Supported, RelocationAt, WordAt
<1>3. Bad' = Bad
    BY <1>1, <1>2 DEF Bad
<1>4. BeforeBad' = BeforeBad
    BY <1>1, <1>3 DEF BeforeBad, Precedes
<1>5. Slid(BeforeBad)' = Slid(BeforeBad)
    BY <1>4 DEF Slid, Times, RelocationAt, WordAt
<1>6. ASSUME NEW D, Done' = D PROVE Slid(Done)' = Slid(D)
    BY <1>6 DEF Slid, Times, RelocationAt, WordAt
<1> QED
    BY <1>1, <1>2, <1>3, <1>4, <1>5, <1>6

Relocates == call \in {"relocate_object", "relocate_executable"}

(* A supported relocation is done.                                         *)
LEMMA RelocationDone ==
    ASSUME RelocInv, Relocates, Cursor \in Places, Supported(Cursor),
           UNCHANGED <<file, before, sect, call>>, rel' = rel + 1,
           IF RelocationAt(Cursor).vanilla THEN Slide(WordAt(Cursor)) ELSE memory' = memory
    PROVE  RelocInv'
<1>1. RelocTypes /\ memory = Slid(Done) /\ \A p \in Done : Supported(p)
    BY DEF RelocInv, Relocating, Relocates
<1>2. Cursor \notin Done /\ Done' = Done \cup {Cursor} /\ Done \in SUBSET Places
    BY <1>1, CursorMoves DEF Done
<1>3. RelocationAt(Cursor).vanilla => WordAt(Cursor) \in 0 .. MemEnd
    <2>1. file.vmsize \in Nat /\ Base \in Nat /\ MemEnd \in Nat /\ Base + file.vmsize <= MemEnd
        BY <1>1, RelocationsAssumption, MemoryAssumption DEF RelocTypes
    <2> QED
        BY <2>1 DEF Supported
<1>4. memory' = Slid(Done \cup {Cursor})
    BY <1>1, <1>2, <1>3, OneMoreSlid DEF Slide
<1>5. memory' = Slid(Done)'
    BY <1>2, <1>4, SlidSame
<1>6. \A p \in Done' : Supported(p)'
    BY <1>1, <1>2, SlidSame
<1>7. RelocTypes'
    <2>1. memory' \in Memory
        <3>1. /\ Word \in Nat \ {0} /\ file.loader_bias \in Nat
              /\ memory \in [0 .. MemEnd -> 0 .. Word - 1]
            BY <1>1, RelocationsAssumption, MemoryAssumption DEF RelocTypes, Memory
        <3>2. \A x \in 0 .. Word - 1 : (x + file.loader_bias) % Word \in 0 .. Word - 1
            BY <3>1
        <3> QED
            BY <1>3, <3>1, <3>2 DEF Slide, Memory
    <2>2. rel' \in Nat \ {0}
        BY <1>1 DEF RelocTypes
    <2> QED
        BY <1>1, <2>1, <2>2 DEF RelocTypes, Memory
<1>8. Relocating'
    BY <1>5, <1>6 DEF Relocating, RelocInv, Relocates
<1> QED
    BY <1>7, <1>8 DEF RelocInv, RelocatedExactly, Relocates

(* A function returns where a relocation is not supported, or at the end.  *)
LEMMA RelocationReturns ==
    ASSUME RelocInv, Relocates, UNCHANGED <<file, memory, before, sect, rel>>,
           call' = "none", ret'.of = call,
           \/ Cursor \in Places /\ ~Supported(Cursor) /\ ret'.code # "success"
           \/ (\A p \in Places : Precedes(p, Cursor)) /\ ret'.code = "success"
    PROVE  RelocInv'
<1>1. RelocTypes /\ memory = Slid(Done) /\ \A p \in Done : Supported(p)
    BY DEF RelocInv, Relocating, Relocates
<1>2. memory = Slid(BeforeBad) /\ (ret'.code = "success" <=> Bad = {})
    BY <1>1, FirstBad
<1>3. memory' = Slid(BeforeBad)' /\ (ret'.code = "success" <=> Bad' = {})
    BY <1>2, SlidSame
<1>4. RelocatedExactly'
    BY <1>3 DEF RelocatedExactly, Relocates
<1>5. RelocTypes'
    BY <1>1 DEF RelocTypes, Memory
<1> QED
    BY <1>4, <1>5 DEF RelocInv, Relocating

(* A call begins: it is refused, or begins with a memory it has not        *)
(* touched.                                                                *)
LEMMA CallBegins ==
    ASSUME RelocInv, Calls, UNCHANGED <<file, memory>>,
           \/ call' = "none" /\ ret'.of = "none" /\ UNCHANGED <<sect, rel>>
           \/ /\ call' \notin {"none", "relocate_object", "relocate_executable"}
              /\ UNCHANGED <<sect, rel>>
           \/ /\ call' = "relocate_object" /\ file.filetype = "object"
              /\ sect' = 1 /\ rel' = 1
           \/ /\ call' = "relocate_executable" /\ file.filetype = "execute"
              /\ sect' = sect /\ rel' = 1
    PROVE  RelocInv'
<1>1. RelocTypes /\ before' = memory
    BY DEF RelocInv, Calls
<1>2. RelocTypes'
    BY <1>1 DEF RelocTypes, Memory
<1>3. ASSUME call' \in {"relocate_object", "relocate_executable"}
      PROVE  Relocating'
    <2>1. rel' = 1 /\ (sect' = 1 \/ file.filetype # "object")
        BY <1>3
    <2>2. Done' = {}
        BY <1>1, <2>1, CursorStarts
    <2>3. \A a : Times(Done, a)' = 0
        BY <2>2, FS_EmptySet DEF Times
    <2>4. Slid(Done)' = [a \in 0 .. MemEnd |-> (before'[a] + 0 * file'.loader_bias) % Word]
        BY <2>3 DEF Slid
    <2>5. before' \in Memory /\ file' \in Files
        BY <1>2 DEF RelocTypes, Memory
    <2>6. memory' = Slid(Done)'
        BY <1>1, <2>4, <2>5, NothingSlid
    <2> QED
        BY <1>3, <2>2, <2>6 DEF Relocating
<1>4. ASSUME call' \notin {"relocate_object", "relocate_executable"}
      PROVE  Relocating'
    BY <1>1, <1>4 DEF Relocating
<1>5. RelocatedExactly'
    BY <1>1 DEF RelocatedExactly
<1> QED
    BY <1>2, <1>3, <1>4, <1>5 DEF RelocInv

(* Other functions slide nothing.                                          *)
LEMMA OthersRun ==
    ASSUME RelocInv, ~Relocates, call # "none",
           UNCHANGED <<file, memory, before, sect, rel>>,
           call' = call \/ (call' = "none" /\ ret'.of = call)
    PROVE  RelocInv'
BY DEF RelocInv, Relocates, RelocTypes, Memory, Relocating, RelocatedExactly

-----------------------------------------------------------------------------
LEMMA RelocInit == Init => RelocInv
<1> SUFFICES ASSUME Init PROVE RelocInv
    OBVIOUS
<1>1. 0 \in 0 .. Word - 1
    BY MemoryAssumption
<1>2. memory \in Memory /\ before = memory
    BY <1>1 DEF Init, Memory
<1> QED
    BY <1>2 DEF Init, RelocInv, RelocTypes, Relocating, RelocatedExactly

(* What the functions test of a relocation is what Supported says of its   *)
(* place.                                                                  *)
LEMMA SectionPlaces ==
    ASSUME RelocInv, HasRelocation
    PROVE  /\ Relocates /\ Cursor \in Places
           /\ RelocationAt(Cursor) = relocation
           /\ relocation \in Relocation
           /\ WordAt(Cursor) = entry(relocation, sect)
           /\ Supported(Cursor) <=>
                 \/ PCRelative(relocation)
                 \/ /\ ~BadForm(relocation)
                    /\ ~is_bad_addr(entry(relocation, sect))
                    /\ ~(relocation.extern \/ relocation.abs)
<1>1. /\ RelocTypes /\ file.filetype = "object" /\ Relocates
      /\ sect <= Len(file.sects) /\ rel <= Len(file.sects[sect].relocs)
    BY DEF HasRelocation, InSection, RelocInv, Relocating, Relocates
<1>2. sect \in 1 .. Len(file.sects) /\ rel \in 1 .. Len(file.sects[sect].relocs)
    BY <1>1, PlaceTypes DEF RelocTypes
<1>3. Cursor = <<sect, rel>> /\ Cursor \in Places
    BY <1>1, <1>2, PlaceTypes DEF Cursor, RelocTypes
<1>4. RelocationAt(Cursor) = relocation
    BY <1>1, <1>3 DEF RelocationAt, relocation
<1>5. relocation \in Relocation /\ WordAt(Cursor) \in Int
    BY <1>1, <1>3, <1>4, PlaceTypes DEF RelocTypes
<1>6. /\ relocation.address \in Int /\ relocation.scattered \in BOOLEAN
      /\ relocation.vanilla \in BOOLEAN /\ relocation.pcrel \in BOOLEAN
      /\ relocation.extern \in BOOLEAN /\ relocation.abs \in BOOLEAN
    BY <1>5 DEF Relocation
<1>7. file.sects[sect].addr \in Nat /\ Base \in Nat /\ file.vmsize \in Nat
    <2> DEFINE Section == [addr : Nat, relocs : Seq(Relocation)]
    <2>1. file.sects \in Seq(Section)
        BY <1>1, RelocationsAssumption DEF RelocTypes
    <2>2. \A s \in Section : s.addr \in Nat
        OBVIOUS
    <2> HIDE DEF Section
    <2>3. file.sects[sect] \in Section
        BY <1>2, <2>1
    <2> QED
        BY <1>1, <2>2, <2>3, RelocationsAssumption, MemoryAssumption DEF RelocTypes
<1>8. WordAt(Cursor) = entry(relocation, sect)
    <2>1. WordAt(Cursor) = Base + file.sects[sect].addr + relocation.address
        BY <1>1, <1>3, <1>4 DEF WordAt
    <2> QED
        BY <1>6, <1>7, <2>1 DEF entry
<1>9. is_bad_addr(WordAt(Cursor)) <=> WordAt(Cursor) \notin Base .. Base + file.vmsize
    BY <1>5, <1>7 DEF is_bad_addr
<1>10. Supported(Cursor) <=>
          /\ ~relocation.scattered /\ relocation.length = 2
          /\ \/ /\ relocation.vanilla /\ ~relocation.abs /\ ~relocation.extern
                /\ ~is_bad_addr(entry(relocation, sect))
             \/ ~relocation.vanilla /\ relocation.pcrel
    BY <1>1, <1>4, <1>8, <1>9 DEF Supported
<1> QED
    BY <1>1, <1>3, <1>4, <1>5, <1>8, <1>10 DEF BadForm, PCRelative

LEMMA LocalPlaces ==
    ASSUME RelocInv, HasLocal
    PROVE  /\ Relocates /\ Cursor \in Places
           /\ RelocationAt(Cursor) = local
           /\ WordAt(Cursor) = Base + local.address
           /\ Supported(Cursor) <=>
                 /\ ~local.scattered /\ local.length = 2 /\ local.vanilla /\ ~local.abs
                 /\ ~is_bad_addr(Base + local.address)
<1>1. /\ RelocTypes /\ file.filetype = "execute" /\ Relocates
      /\ rel <= Len(file.locrel)
    BY DEF HasLocal, RelocInv, Relocating, Relocates
<1>2. rel \in 1 .. Len(file.locrel)
    BY <1>1, PlaceTypes DEF RelocTypes
<1>3. Cursor = <<1, rel>> /\ Cursor \in Places
    BY <1>1, <1>2, PlaceTypes DEF Cursor, RelocTypes
<1>4. RelocationAt(Cursor) = local
    BY <1>1, <1>3 DEF RelocationAt, local
<1>5. WordAt(Cursor) = Base + local.address /\ WordAt(Cursor) \in Int
    BY <1>1, <1>3, <1>4, PlaceTypes DEF WordAt, RelocTypes
<1>6. Base \in Nat /\ file.vmsize \in Nat
    BY <1>1, RelocationsAssumption, MemoryAssumption DEF RelocTypes
<1>7. is_bad_addr(WordAt(Cursor)) <=> WordAt(Cursor) \notin Base .. Base + file.vmsize
    BY <1>5, <1>6 DEF is_bad_addr
<1> QED
    BY <1>1, <1>3, <1>4, <1>5, <1>7 DEF Supported

LEMMA RelocStep ==
    ASSUME RelocInv, [Next]_vars
    PROVE  RelocInv'
<1>1. CASE RelocateObject
    <2>1. file.filetype = "object" => call' = "relocate_object" /\ sect' = 1 /\ rel' = 1
        BY <1>1 DEF RelocateObject
    <2>2. file.filetype # "object" => call' = "none" /\ ret'.of = "none" /\ UNCHANGED <<sect, rel>>
        BY <1>1 DEF RelocateObject, Calls, Returns
    <2>3. Calls /\ UNCHANGED <<file, memory>>
        BY <1>1 DEF RelocateObject
    <2> QED
        BY <2>1, <2>2, <2>3, CallBegins
<1>2. CASE SectionSkips
    <2>1. HasRelocation /\ PCRelative(relocation) /\ rel' = rel + 1
          /\ UNCHANGED <<file, memory, call, sect, before>>
        BY <1>2 DEF SectionSkips
    <2>2. Supported(Cursor) /\ ~RelocationAt(Cursor).vanilla
        BY <2>1, SectionPlaces DEF PCRelative
    <2> QED
        BY <2>1, <2>2, SectionPlaces, RelocationDone
<1>3. CASE SectionRefuses
    <2>1. HasRelocation /\ ~PCRelative(relocation) /\ UNCHANGED <<file, memory, sect, rel, before>>
        BY <1>3 DEF SectionRefuses
    <2>2. call' = "none" /\ ret'.of = call /\ ret'.code # "success"
        BY <1>3 DEF SectionRefuses, Returns
    <2>3. ~Supported(Cursor)
        BY <1>3, <2>1, SectionPlaces DEF SectionRefuses
    <2> QED
        BY <2>1, <2>2, <2>3, SectionPlaces, RelocationReturns
<1>4. CASE SectionSlides
    <2>1. HasRelocation /\ rel' = rel + 1 /\ UNCHANGED <<file, call, sect, before>>
          /\ Slide(entry(relocation, sect))
        BY <1>4 DEF SectionSlides
    <2>2. Supported(Cursor)
        BY <1>4, <2>1, SectionPlaces DEF SectionSlides
    <2>3. RelocationAt(Cursor).vanilla
        BY <1>4, <2>1, SectionPlaces DEF SectionSlides, PCRelative
    <2> QED
        BY <2>1, <2>2, <2>3, SectionPlaces, RelocationDone
<1>5. CASE NextSection
    <2>1. /\ call = "relocate_object" /\ sect <= Len(file.sects) /\ ~HasRelocation
          /\ sect' = sect + 1 /\ rel' = 1
          /\ UNCHANGED <<file, memory, call, before, ret>>
        BY <1>5 DEF NextSection, InSection
    <2>2. /\ RelocTypes /\ file.filetype = "object" /\ memory = Slid(Done)
          /\ \A p \in Done : Supported(p)
        BY <2>1 DEF RelocInv, Relocating
    <2>3. sect \in 1 .. Len(file.sects) /\ Len(file.sects[sect].relocs) \in Nat /\ rel \in Nat
        BY <2>1, <2>2, PlaceTypes DEF RelocTypes
    <2>4. rel > Len(file.sects[sect].relocs)
        BY <2>1, <2>3 DEF HasRelocation, InSection
    <2>5. Done' = Done
        BY <2>1, <2>2, <2>3, <2>4, CursorCrosses
    <2>6. memory' = Slid(Done)' /\ \A p \in Done' : Supported(p)'
        BY <2>1, <2>2, <2>5, SlidSame
    <2>7. RelocTypes'
        BY <2>1, <2>2 DEF RelocTypes, Memory
    <2> QED
        BY <2>1, <2>2, <2>6, <2>7 DEF RelocInv, Relocating, RelocatedExactly
<1>6. CASE ObjectRelocated
    <2>1. /\ call = "relocate_object" /\ sect > Len(file.sects)
          /\ UNCHANGED <<file, memory, sect, rel, before>>
          /\ call' = "none" /\ ret'.of = call /\ ret'.code = "success"
        <3>1. sect \in Nat /\ Len(file.sects) \in Nat
            BY PlaceTypes DEF RelocInv, RelocTypes
        <3> QED
            BY <1>6, <3>1 DEF ObjectRelocated, InSection, Returns
    <2>2. file.filetype = "object" /\ Relocates
        BY <2>1 DEF RelocInv, Relocating, Relocates
    <2>3. \A p \in Places : p[1] < sect
        BY <2>1, <2>2, PlaceTypes DEF RelocInv, RelocTypes
    <2>4. \A p \in Places : Precedes(p, Cursor)
        BY <2>2, <2>3 DEF Precedes, Cursor
    <2> QED
        BY <2>1, <2>2, <2>4, RelocationReturns
<1>7. CASE RelocateExecutable
    <2>1. \/ call' = "none" /\ ret'.of = "none" /\ UNCHANGED rel
          \/ call' = "relocate_executable" /\ file.filetype = "execute" /\ rel' = 1
        BY <1>7 DEF RelocateExecutable, Calls, Returns
    <2>2. Calls /\ UNCHANGED <<file, memory, sect>>
        BY <1>7 DEF RelocateExecutable
    <2> QED
        BY <2>1, <2>2, CallBegins
<1>8. CASE LocalRefused
    <2>1. HasLocal /\ UNCHANGED <<file, memory, sect, rel, before>>
        BY <1>8 DEF LocalRefused
    <2>2. call' = "none" /\ ret'.of = call /\ ret'.code # "success"
        BY <1>8 DEF LocalRefused, Returns
    <2>3. ~Supported(Cursor)
        BY <1>8, <2>1, LocalPlaces DEF LocalRefused
    <2> QED
        BY <2>1, <2>2, <2>3, LocalPlaces, RelocationReturns
<1>9. CASE LocalSlides
    <2>1. HasLocal /\ rel' = rel + 1 /\ UNCHANGED <<file, call, sect, before>>
          /\ Slide(Base + local.address) /\ local.vanilla
        BY <1>9 DEF LocalSlides
    <2>2. Supported(Cursor)
        BY <1>9, <2>1, LocalPlaces DEF LocalSlides
    <2> QED
        BY <2>1, <2>2, LocalPlaces, RelocationDone
<1>10. CASE ExecutableRelocated
    <2>1. /\ call = "relocate_executable" /\ rel > Len(file.locrel)
          /\ UNCHANGED <<file, memory, sect, rel, before>>
          /\ call' = "none" /\ ret'.of = call /\ ret'.code = "success"
        <3>1. rel \in Nat /\ Len(file.locrel) \in Nat
            BY PlaceTypes DEF RelocInv, RelocTypes
        <3> QED
            BY <1>10, <3>1 DEF ExecutableRelocated, HasLocal, Returns
    <2>2. file.filetype = "execute" /\ Relocates
        BY <2>1 DEF RelocInv, Relocating, Relocates
    <2>3. \A p \in Places : p[1] = 1 /\ p[2] < rel
        BY <2>1, <2>2, PlaceTypes DEF RelocInv, RelocTypes
    <2>4. \A p \in Places : Precedes(p, Cursor)
        BY <2>2, <2>3 DEF Precedes, Cursor
    <2> QED
        BY <2>1, <2>2, <2>4, RelocationReturns
<1>11. ASSUME NEW name_ \in Names, FindSymbol(name_) PROVE RelocInv'
    <2>1. \/ call' = "none" /\ ret'.of = "none"
          \/ call' = "find_symbol"
        BY <1>11 DEF FindSymbol, Calls, Refused, Returns
    <2>2. Calls /\ UNCHANGED <<file, memory, sect, rel>>
        BY <1>11 DEF FindSymbol
    <2> QED
        BY <2>1, <2>2, CallBegins
<1>12. ASSUME NEW name_ \in Names, NEW hintIndex \in Hints, FindInToc(name_, hintIndex) PROVE RelocInv'
    <2>1. Calls /\ UNCHANGED <<file, memory, sect, rel>> /\ call' = "binary_search_toc"
        BY <1>12 DEF FindInToc
    <2> QED
        BY <2>1, CallBegins
<1>13. CASE CodeDataRange
    <2>1. \/ call' = "none" /\ ret'.of = "none"
          \/ call' = "code_data_range"
        BY <1>13 DEF CodeDataRange, Calls, Returns
    <2>2. Calls /\ UNCHANGED <<file, memory, sect, rel>>
        BY <1>13 DEF CodeDataRange
    <2> QED
        BY <2>1, <2>2, CallBegins
<1>14. CASE Searching \/ Searched \/ TocSearching \/ TocSearched
    <2>1. call \in {"find_symbol", "binary_search_toc"}
          /\ UNCHANGED <<file, memory, before, sect, rel>>
        BY <1>14 DEF Searching, Searched, TocSearching, TocSearched, file_vars
    <2>2. call' = call \/ (call' = "none" /\ ret'.of = call)
        BY <1>14 DEF Searching, Searched, TocSearching, TocSearched, file_vars, Returns
    <2> QED
        BY <2>1, <2>2, OthersRun DEF Relocates
<1>15. CASE SegmentRefused \/ SegmentCounted \/ RangeFound
    <2>1. call = "code_data_range" /\ UNCHANGED <<file, memory, before, sect, rel>>
        BY <1>15 DEF SegmentRefused, SegmentCounted, RangeFound, HasSegment
    <2>2. call' = call \/ (call' = "none" /\ ret'.of = call)
        BY <1>15 DEF SegmentRefused, SegmentCounted, RangeFound, Returns
    <2> QED
        BY <2>1, <2>2, OthersRun DEF Relocates
<1>16. CASE UNCHANGED vars
    <2>1. UNCHANGED <<file, memory, before, sect, rel, call, ret>>
        BY <1>16 DEF vars, file_vars
    <2>2. Done' = Done
        BY <2>1 DEF Done, Places, Precedes, Cursor
    <2>3. RelocTypes' /\ Relocating'
        BY <2>1, <2>2, SlidSame DEF RelocInv, RelocTypes, Memory, Relocating
    <2>4. RelocatedExactly'
        BY <2>1, SlidSame DEF RelocInv, RelocatedExactly
    <2> QED
        BY <2>3, <2>4 DEF RelocInv
<1> QED
    BY <1>1, <1>2, <1>3, <1>4, <1>5, <1>6, <1>7, <1>8, <1>9, <1>10, <1>11, <1>12, <1>13,
       <1>14, <1>15, <1>16 DEF Next, _relocate_sect

(* Every word is slid as often as the file names it, up to the first       *)
(* relocation that is not supported, for files and biases of every size.   *)
THEOREM RelocationIsExact == Spec => []RelocatedExactly
<1>1. RelocInv => RelocatedExactly
    BY DEF RelocInv
<1> QED
    BY <1>1, RelocInit, RelocStep, PTL DEF Spec
=============================================================================
