----------------------------- MODULE MCMachFile -----------------------------
(***************************************************************************)
(* Files of three words, with the word before and those behind; the        *)
(* relocations of one deviation each and the pairs of them; sorted tables  *)
(* of up to five names; hints in the table, behind it, and one that an     *)
(* int32_t does not hold.                                                  *)
(***************************************************************************)
EXTENDS MachFile, SequencesExt

Plain(a) == [address |-> a, scattered |-> FALSE, length |-> 2, vanilla |-> TRUE,
             pcrel |-> FALSE, extern |-> FALSE, abs |-> FALSE]

Infos ==
    {Plain(a) : a \in {0, 1, 3, 4}} \cup
    {[Plain(1) EXCEPT !.scattered = TRUE], [Plain(1) EXCEPT !.length = 0],
     [Plain(1) EXCEPT !.vanilla = FALSE], [Plain(4) EXCEPT !.vanilla = FALSE, !.pcrel = TRUE],
     [Plain(1) EXCEPT !.pcrel = TRUE], [Plain(0) EXCEPT !.extern = TRUE],
     [Plain(0) EXCEPT !.abs = TRUE]}

Upto(m, S) == UNION {[1 .. l -> S] : l \in 0 .. m}

Seg(a, name_) == [vmaddr |-> a, vmsize |-> 2, name |-> name_, first_sect |-> a + 1]

SegmentLists ==
    Upto(3, {Seg(a, s) : a \in {0, 2, 4}, s \in {"__ZERO", "__TEXT", "__DATA"}}) \cup
    {<<Seg(0, "__ZERO"), Seg(2, "__TEXT"), Seg(4, "__DATA"), Seg(a, "__LINKEDIT")>> : a \in {6, 8}}

(* Sorted tables, and a few with a table of contents only. *)
Tables == {s \in Upto(5, 0 .. 3) : Sorted(s)} \cup {<<2, 1>>, <<3, 0, 1, 1>>}

Toc(s) == SetToSortSeq(0 .. Len(s) - 1,
                       LAMBDA p, q : s[p + 1] < s[q + 1] \/ (s[p + 1] = s[q + 1] /\ p < q))

File(type) ==
    [filetype |-> type, vmsize |-> 3, loader_bias |-> 29, sects |-> <<>>, locrel |-> <<>>,
     dsymtab |-> TRUE, symtab |-> TRUE, tocoff |-> 0, symbols |-> <<>>, toc |-> <<>>, values |-> <<>>, segments |-> <<>>]

MCFiles ==
    {[File("object") EXCEPT !.sects = <<[addr |-> 0, relocs |-> p], [addr |-> 2, relocs |-> q]>>] :
        p \in Upto(2, Infos), q \in Upto(1, Infos)} \cup
    {[File("execute") EXCEPT !.locrel = p, !.symbols = <<1>>, !.values = <<7>>, !.toc = <<0>>] :
        p \in Upto(2, Infos)} \cup
    {[File("execute") EXCEPT !.dsymtab = FALSE], [File("execute") EXCEPT !.symtab = FALSE],
     [File("execute") EXCEPT !.tocoff = 1]} \cup
    {[File("execute") EXCEPT !.symbols = s, !.values = [p \in DOMAIN s |-> p + 3], !.toc = Toc(s)] :
        s \in Tables} \cup
    {[File("execute") EXCEPT !.segments = s] : s \in SegmentLists}
=============================================================================
