---------------------------- MODULE KernelMemory ----------------------------
(***************************************************************************)
(* What the loader promises about kernel memory: a stack of regions under  *)
(* one top.  A region is only ever placed at the top, which moves past it; *)
(* placed regions may be given up, but their memory is not used again      *)
(* before the whole memory is given up for a new kernel.                   *)
(***************************************************************************)
EXTENDS BootMemory

VARIABLES regions, top

Region == [base : Nat, size : Nat]

Init == regions = {} /\ top = 0

(* A region is placed at the top; others may be given up. *)
Place ==
    /\ top' \in Nat
    /\ top' > top
    /\ \E kept \in SUBSET regions, size \in 0 .. (top' - top) :
          regions' = kept \cup {memory_range(top, size)}

(* Regions are given up; their memory stays below the top. *)
GiveUp == regions' \subseteq regions /\ top' = top

(* A new kernel: every region is given up and the top is set, past the     *)
(* kernel if it could be loaded.                                           *)
Restart ==
    /\ \/ regions' = {}
       \/ \E r \in regions' : r \in Region /\ regions' = {r} /\ End(r) <= top'
    /\ top' \in Nat

Next == Place \/ GiveUp \/ Restart

Spec == Init /\ [][Next]_<<regions, top>>

(* Regions never share memory and never reach past the top. *)
Stacked ==
    /\ \A r \in regions : End(r) <= top
    /\ \A r, s \in regions : r # s => Disjoint(r, s)
=============================================================================
