----------------------------- MODULE BootMemory -----------------------------
(***************************************************************************)
(* Addresses, ranges and the bump allocator of the boot loader             *)
(* (main/memory.c, the range macros of bootkit/runtime.h and the address   *)
(* translation macros of main/mach_boot.c).                                *)
(*                                                                         *)
(* Addresses are natural numbers: the instances and the assumptions of the *)
(* modules that use these operators keep every address below the end of    *)
(* the modelled memory, so the 32-bit arithmetic of the code never wraps.  *)
(***************************************************************************)
EXTENDS Integers

(* The macros of bootkit/runtime.h: round down or up to a multiple of n.   *)
align_down(x, n) == x - (x % n)
align_up(x, n) == align_down(x + (n - 1), n)

(* memory_range_t, its null value and the test for it. *)
memory_range(base, size) == [base |-> base, size |-> size]
NullRange == memory_range(0, 0)
RANGE_IS_NULL(r) == r.base = 0 /\ r.size = 0

(* The addresses of a range, its end, and whether two ranges share one. *)
Bytes(r) == r.base .. (r.base + r.size - 1)
End(r) == r.base + r.size
Disjoint(r, s) == End(r) <= s.base \/ End(s) <= r.base

(* A memory_region_t grows up from pos, or down to pos.  memory_reserve    *)
(* answers the region after the reservation and the start of the chunk;    *)
(* a boundary of 0 asks for no alignment.                                  *)
memory_region(base, pos, down) == [base |-> base, pos |-> pos, down |-> down]

Aligned(x, boundary, align(_, _)) ==
    IF boundary = 0 THEN x ELSE align(x, boundary)

memory_reserve(region, size, boundary) ==
    IF region.down
    THEN LET start == Aligned(region.pos - size, boundary, align_down)
         IN  [start |-> start, region |-> [region EXCEPT !.pos = start]]
    ELSE LET start == Aligned(region.pos, boundary, align_up)
         IN  [start |-> start, region |-> [region EXCEPT !.pos = start + size]]

(* Physical to kernel virtual and back, for a kernel whose first section   *)
(* is at phys and is mapped at virt.                                       *)
ptokv(addr, phys, virt) == (addr - phys) + virt
kvtop(addr, phys, virt) == (addr - virt) + phys

(* A write of one kind of content to a range of memory. *)
Fill(mem, r, content) ==
    [a \in DOMAIN mem |-> IF r.base <= a /\ a < End(r) THEN content ELSE mem[a]]
=============================================================================
