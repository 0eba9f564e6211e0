------------------------------- MODULE MachFile -------------------------------
(***************************************************************************)
(* What mach-o/macho.c offers for a file that has been mapped: relocation  *)
(* of objects and of executables, a symbol by its name, and the range of   *)
(* code and data.  The loader calls none of it; here a client calls        *)
(* everything, in any order, on one file.                                  *)
(*                                                                         *)
(* Addresses are those of words; memory holds what was added to each word  *)
(* since the file was mapped.                                              *)
(***************************************************************************)
EXTENDS MachSymbols, FiniteSets

CONSTANTS
    Files,      \* the files
    Base,       \* where they are mapped
    MemEnd,     \* the last word of the memory around them
    Names,      \* those a client looks for
    Hints,      \* where it thinks they are
    MaxCalls    \* the bound on the calls of a run

ASSUME MemoryAssumption ==
    /\ Base \in Nat /\ MemEnd \in Nat /\ Word \in Nat \ {0} /\ MaxCalls \in Nat
    /\ \A f \in Files : Base + f.vmsize <= MemEnd

(* A symbol takes 12 bytes, so an int32_t holds the sum of two indices.     *)
ASSUME NamesAssumption ==
    /\ Names \subseteq Nat
    /\ Hints \subseteq 0 .. Word - 1
    /\ \A f \in Files : /\ f.symbols \in Seq(Nat)
                        /\ Len(f.symbols) <= Word \div 4
                        /\ f.toc \in [1 .. Len(f.symbols) -> 0 .. Len(f.symbols) - 1]

Relocation ==
    [address : Int, length : Nat, scattered : BOOLEAN, vanilla : BOOLEAN,
     pcrel : BOOLEAN, extern : BOOLEAN, abs : BOOLEAN]

ASSUME RelocationsAssumption ==
    \A f \in Files :
        /\ f.vmsize \in Nat /\ f.loader_bias \in Nat
        /\ f.sects \in Seq([addr : Nat, relocs : Seq(Relocation)])
        /\ f.locrel \in Seq(Relocation)

ASSUME SegmentsAssumption ==
    \A f \in Files :
        f.segments \in Seq([vmaddr : Nat, vmsize : Nat, name : STRING, first_sect : Nat])

VARIABLES
    file,       \* the mach_loader_context_t
    memory,
    call,       \* the function running, "none" between calls
    sect, rel,  \* the section and the relocation it has come to
    walk,       \* mach_file_code_data_range: its local variables
    ret,        \* what the last call returned; of is "none" if it was
                \* refused before it began
    answer,     \* the symbol or the range it gave
    before,     \* history: memory when the last call began
    calls       \* the calls so far

file_vars == <<file, memory, call, sect, rel, walk, ret, answer, before, calls>>
vars == <<search_vars, file_vars>>

NoWalk == [seg |-> 0, last_vmaddr |-> 0, code_start |-> 0, vmsize |-> 0]

Init ==
    /\ file \in Files
    /\ memory = [a \in 0 .. MemEnd |-> 0]
    /\ call = "none"
    /\ sect = 1 /\ rel = 1
    /\ walk = NoWalk
    /\ ret = [of |-> "none", code |-> "none"]
    /\ answer = <<>>
    /\ before = memory
    /\ calls = 0
    /\ symbols = file.symbols
    /\ toc = file.toc
    /\ key = 0 /\ hint = 0 /\ found = -1
    /\ base = 0 /\ n = 0
    /\ low = 0 /\ high = -1 /\ mid = 0
    /\ search = "none"

-----------------------------------------------------------------------------
Returns(code) ==
    /\ ret' = [of |-> call, code |-> code]
    /\ call' = "none"

(* The client calls a function. *)
Calls ==
    /\ call = "none"
    /\ calls < MaxCalls
    /\ calls' = calls + 1
    /\ before' = memory
    /\ answer' = <<>>

(* The word right behind the file passes. *)
is_bad_addr(a) == a < Base \/ a > Base + file.vmsize

(* A word is slid by the loader's bias. *)
Slide(a) == memory' = [memory EXCEPT ![a] = (@ + file.loader_bias) % Word]

(* Where a relocation of an object patches. *)
entry(r, s) == r.address + file.sects[s].addr + Base

-----------------------------------------------------------------------------
RelocateObject ==
    /\ Calls
    /\ IF file.filetype # "object"
       THEN Returns("badfiletype") /\ UNCHANGED <<sect, rel>>
       ELSE /\ call' = "relocate_object"
            /\ sect' = 1
            /\ rel' = 1
            /\ UNCHANGED ret
    /\ UNCHANGED <<search_vars, file, memory, walk>>

(* Scattered relocations, those of other sizes, and strange ones unless    *)
(* they are relative to the program counter.                               *)
BadForm(r) == r.scattered \/ r.length # 2 \/ (~r.vanilla /\ ~r.pcrel)

PCRelative(r) == ~BadForm(r) /\ ~r.vanilla

InSection == call = "relocate_object" /\ sect <= Len(file.sects)

relocation == file.sects[sect].relocs[rel]

HasRelocation == InSection /\ rel <= Len(file.sects[sect].relocs)

SectionSkips ==
    /\ HasRelocation
    /\ PCRelative(relocation)
    /\ rel' = rel + 1
    /\ UNCHANGED <<search_vars, file, memory, call, sect, walk, ret, answer, before, calls>>

SectionRefuses ==
    /\ HasRelocation
    /\ ~PCRelative(relocation)
    /\ \/ BadForm(relocation) /\ Returns("badreloc")
       \/ ~BadForm(relocation) /\ is_bad_addr(entry(relocation, sect)) /\ Returns("outofbounds")
       \/ /\ ~BadForm(relocation) /\ ~is_bad_addr(entry(relocation, sect))
          /\ relocation.extern \/ relocation.abs
          /\ Returns("badreloc")
    /\ UNCHANGED <<search_vars, file, memory, sect, rel, walk, answer, before, calls>>

SectionSlides ==
    /\ HasRelocation
    /\ ~PCRelative(relocation)
    /\ ~BadForm(relocation)
    /\ ~is_bad_addr(entry(relocation, sect))
    /\ ~(relocation.extern \/ relocation.abs)
    /\ Slide(entry(relocation, sect))
    /\ rel' = rel + 1
    /\ UNCHANGED <<search_vars, file, call, sect, walk, ret, answer, before, calls>>

(* Mutant: the relocations of the next section are counted on. *)
NextSection_RelKept ==
    /\ InSection
    /\ ~HasRelocation
    /\ sect' = sect + 1
    /\ UNCHANGED <<search_vars, file, memory, call, rel, walk, ret, answer, before, calls>>

NextSection ==
    /\ InSection
    /\ ~HasRelocation
    /\ sect' = sect + 1
    /\ rel' = 1
    /\ UNCHANGED <<search_vars, file, memory, call, walk, ret, answer, before, calls>>

ObjectRelocated ==
    /\ call = "relocate_object"
    /\ ~InSection
    /\ Returns("success")
    /\ UNCHANGED <<search_vars, file, memory, sect, rel, walk, answer, before, calls>>

_relocate_sect == SectionSkips \/ SectionRefuses \/ SectionSlides

-----------------------------------------------------------------------------
RelocateExecutable ==
    /\ Calls
    /\ IF file.filetype # "execute" THEN Returns("badfiletype") /\ UNCHANGED rel
       ELSE IF ~file.dsymtab THEN Returns("exec_unsupported") /\ UNCHANGED rel
       ELSE call' = "relocate_executable" /\ rel' = 1 /\ UNCHANGED ret
    /\ UNCHANGED <<search_vars, file, memory, sect, walk>>

HasLocal == call = "relocate_executable" /\ rel <= Len(file.locrel)

local == file.locrel[rel]

(* Here pc-relative ones are refused, and external ones are not.           *)
LocalRefused ==
    /\ HasLocal
    /\ LET bad == local.scattered \/ local.length # 2 \/ ~local.vanilla \/ local.abs
       IN  \/ bad /\ Returns("badreloc")
           \/ ~bad /\ is_bad_addr(Base + local.address) /\ Returns("outofbounds")
    /\ UNCHANGED <<search_vars, file, memory, sect, rel, walk, answer, before, calls>>

LocalSlides ==
    /\ HasLocal
    /\ ~local.scattered /\ local.length = 2 /\ local.vanilla /\ ~local.abs
    /\ ~is_bad_addr(Base + local.address)
    /\ Slide(Base + local.address)
    /\ rel' = rel + 1
    /\ UNCHANGED <<search_vars, file, call, sect, walk, ret, answer, before, calls>>

ExecutableRelocated ==
    /\ call = "relocate_executable"
    /\ ~HasLocal
    /\ Returns("success")
    /\ UNCHANGED <<search_vars, file, memory, sect, rel, walk, answer, before, calls>>

-----------------------------------------------------------------------------
Refused(code) == Returns(code) /\ UNCHANGED search_vars

(* The table with a table of contents is not supported. *)
FindSymbol(name_) ==
    /\ Calls
    /\ IF file.filetype # "execute" THEN Refused("badfiletype")
       ELSE IF ~file.dsymtab THEN Refused("exec_unsupported")
       ELSE IF ~file.symtab THEN Refused("malformed")
       ELSE IF file.tocoff # 0 THEN Refused("exec_unsupported")
       ELSE /\ call' = "find_symbol"
            /\ StartSearch(name_)
            /\ UNCHANGED ret
    /\ UNCHANGED <<file, memory, sect, rel, walk>>

Searching ==
    /\ call = "find_symbol"
    /\ binary_search
    /\ UNCHANGED file_vars

(* The value is slid as the words that refer to the symbol were. *)
Searched ==
    /\ call = "find_symbol"
    /\ search = "done"
    /\ IF found = -1
       THEN Returns("symbol_not_found") /\ UNCHANGED answer
       ELSE /\ Returns("success")
            /\ answer' = <<(file.values[found + 1] + file.loader_bias) % Word>>
    /\ UNCHANGED <<search_vars, file, memory, sect, rel, walk, before, calls>>

(* binary_search_toc on its own. *)
FindInToc(name_, hintIndex) ==
    /\ Calls
    /\ call' = "binary_search_toc"
    /\ StartTocSearch(name_, hintIndex)
    /\ UNCHANGED <<file, memory, sect, rel, walk, ret>>

TocSearching ==
    /\ call = "binary_search_toc"
    /\ binary_search_toc
    /\ UNCHANGED file_vars

TocSearched ==
    /\ call = "binary_search_toc"
    /\ search \in {"toc_done", "undefined"}
    /\ Returns(IF search = "undefined" THEN "undefined"
               ELSE IF found = -1 THEN "NULL" ELSE "symbol")
    /\ UNCHANGED <<search_vars, file, memory, sect, rel, walk, answer, before, calls>>

-----------------------------------------------------------------------------
CodeDataRange ==
    /\ Calls
    /\ IF file.filetype # "execute"
       THEN Returns("badfiletype") /\ UNCHANGED walk
       ELSE call' = "code_data_range" /\ walk' = NoWalk /\ UNCHANGED ret
    /\ UNCHANGED <<search_vars, file, memory, sect, rel>>

HasSegment == call = "code_data_range" /\ walk.seg < Len(file.segments)

segment == file.segments[walk.seg + 1]

(* The names the second and the third segment must have. *)
Expected == <<"__TEXT", "__DATA">>

SegmentRefused ==
    /\ HasSegment
    /\ \/ segment.vmaddr # walk.last_vmaddr /\ Returns("exec_noncontigious")
       \/ /\ segment.vmaddr = walk.last_vmaddr
          /\ walk.seg \in {1, 2}
          /\ segment.name # Expected[walk.seg]
          /\ Returns("exec_unexpected_seg")
    /\ UNCHANGED <<search_vars, file, memory, sect, rel, walk, answer, before, calls>>

(* Mutant: the header before the first section is counted. *)
counted_WithHeader == IF walk.seg \in {1, 2} THEN segment.vmsize ELSE 0

(* What the segment adds to the size. *)
counted ==
    IF walk.seg = 1 THEN segment.vmsize - (segment.first_sect - segment.vmaddr)
    ELSE IF walk.seg = 2 THEN segment.vmsize
    ELSE 0

SegmentCounted ==
    /\ HasSegment
    /\ segment.vmaddr = walk.last_vmaddr
    /\ walk.seg \in {1, 2} => segment.name = Expected[walk.seg]
    /\ walk' = [seg |-> walk.seg + 1,
                last_vmaddr |-> segment.vmaddr + segment.vmsize,
                code_start |-> IF walk.seg = 1 THEN segment.first_sect ELSE walk.code_start,
                vmsize |-> walk.vmsize + counted]
    /\ UNCHANGED <<search_vars, file, memory, call, sect, rel, ret, answer, before, calls>>

RangeFound ==
    /\ call = "code_data_range"
    /\ ~HasSegment
    /\ Returns("success")
    /\ answer' = <<walk.code_start, walk.vmsize>>
    /\ UNCHANGED <<search_vars, file, memory, sect, rel, walk, before, calls>>

-----------------------------------------------------------------------------
Next ==
    \/ RelocateObject
    \/ _relocate_sect
    \/ NextSection
    \/ ObjectRelocated
    \/ RelocateExecutable
    \/ LocalRefused
    \/ LocalSlides
    \/ ExecutableRelocated
    \/ \E name_ \in Names : FindSymbol(name_)
    \/ Searching
    \/ Searched
    \/ \E name_ \in Names, hintIndex \in Hints : FindInToc(name_, hintIndex)
    \/ TocSearching
    \/ TocSearched
    \/ CodeDataRange
    \/ SegmentRefused
    \/ SegmentCounted
    \/ RangeFound

(* A function that was called runs; the client need not call.              *)
Runs == call # "none" /\ Next

Spec == Init /\ [][Next]_vars /\ WF_vars(Runs)

-----------------------------------------------------------------------------
(* The places of the relocations of the file: their section, which of its *)
(* relocations they are, and the order in which they come.                 *)
Places ==
    IF file.filetype = "object"
    THEN UNION {{s} \X DOMAIN file.sects[s].relocs : s \in DOMAIN file.sects}
    ELSE {1} \X DOMAIN file.locrel

Precedes(p, q) == p[1] < q[1] \/ (p[1] = q[1] /\ p[2] < q[2])

RelocationAt(p) ==
    IF file.filetype = "object" THEN file.sects[p[1]].relocs[p[2]] ELSE file.locrel[p[2]]

(* The word it patches. *)
WordAt(p) ==
    IF file.filetype = "object"
    THEN Base + file.sects[p[1]].addr + RelocationAt(p).address
    ELSE Base + RelocationAt(p).address

(* Those that may stand in a file of this type. *)
Supported(p) ==
    LET r == RelocationAt(p)
    IN  /\ ~r.scattered /\ r.length = 2
        /\ \/ /\ r.vanilla /\ ~r.abs
              /\ r.extern => file.filetype = "execute"
              /\ WordAt(p) \in Base .. Base + file.vmsize
           \/ file.filetype = "object" /\ ~r.vanilla /\ r.pcrel

(* Memory once the relocations at these places are done.                   *)
Times(done, a) == Cardinality({p \in done : RelocationAt(p).vanilla /\ WordAt(p) = a})
Slid(done) ==
    [a \in 0 .. MemEnd |-> (before[a] + Times(done, a) * file.loader_bias) % Word]

Bad == {p \in Places : ~Supported(p)}
BeforeBad == {p \in Places : \A q \in Bad : Precedes(p, q)}

(* A relocation that returned success has slid every word as often as the  *)
(* file names it and no other; one that failed, exactly those before the   *)
(* first it does not support.  Whatever was relocated before stays.        *)
RelocatedExactly ==
    call = "none" =>
        IF ret.of \in {"relocate_object", "relocate_executable"}
        THEN memory = Slid(BeforeBad) /\ (ret.code = "success" <=> Bad = {})
        ELSE memory = before

(* A client is answered what the file says: the address of a symbol is the *)
(* one its words are relocated to, if the sorted table has it; the range   *)
(* of code and data begins at the first section of the second segment and  *)
(* ends where the third does, whatever lies behind.                        *)
AnswerExact ==
    /\ call = "none" /\ ret.of = "find_symbol" /\ Sorted(symbols) =>
          IF Present
          THEN \E p \in Indices :
                  name(p) = key /\ answer = <<(file.values[p + 1] + file.loader_bias) % Word>>
          ELSE ret.code = "symbol_not_found" /\ answer = <<>>
    /\ /\ call = "none"
       /\ ret = [of |-> "code_data_range", code |-> "success"]
       /\ Len(file.segments) > 2
       => /\ answer[1] = file.segments[2].first_sect
          /\ answer[1] + answer[2] = file.segments[3].vmaddr + file.segments[3].vmsize

(* Every call returns. *)
CallEnds == call # "none" ~> call = "none"
=============================================================================
