------------------------------ MODULE AcpiMap ------------------------------
(***************************************************************************)
(* How the ACPI driver (platform/acpi/src/handler.rs) maps physical memory *)
(* for the table parser and the AML interpreter: a region of any address   *)
(* and size becomes whole pages at an address that only grows, with a      *)
(* capability slot of its own; it is unmapped when the parser drops it.    *)
(***************************************************************************)
EXTENDS Integers, FiniteSets

CONSTANTS
  PGSIZE,    \* the size of a page
  Memory,    \* how many bytes of physical memory there are
  Regions,   \* the sizes of the regions that are mapped
  Slots,     \* how many slots there are for their capabilities
  MaxLive    \* bound on the regions mapped at a time

AcpiMapAssumption ==
  /\ PGSIZE \in Nat \ {0} /\ Memory \in Nat /\ Slots \in Nat /\ MaxLive \in Nat
  /\ Regions \subseteq Nat \ {0}

VARIABLES
  va_allocator,    \* the next virtual address, from MAP_VA_BASE
  slot_allocator,  \* the slots used
  pages,           \* the pages mapped: virtual -> physical page
  live,            \* the regions the parser holds
  kept,            \* the virtual pages whose unmapping failed
  panic            \* the driver has stopped

vars == <<va_allocator, slot_allocator, pages, live, kept, panic>>

Init ==
  /\ va_allocator = 0 /\ slot_allocator = 0 /\ pages = [p \in {} |-> 0]
  /\ live = {} /\ kept = {} /\ panic = FALSE

Down(x) == (x \div PGSIZE) * PGSIZE

\* A slip to detect: the part of the first page before the region is forgotten.
AlignedNoOffset(phys, size) == Down(size + PGSIZE - 1)

\* size_aligned: the pages from that of the first byte to that of the last.
Aligned(phys, size) == Down(size + (phys - Down(phys)) + PGSIZE - 1)

Virtual(phys) == va_allocator + (phys - Down(phys))

PagesAt(from, len) == from \div PGSIZE .. (from + len) \div PGSIZE - 1

\* map_physical_region; the kernel may refuse and has no slot after the last.
Map(phys, size) ==
  /\ ~panic /\ Cardinality(live) < MaxLive
  /\ LET len  == Aligned(phys, size)
         new  == PagesAt(va_allocator, len)
     IN  /\ va_allocator' = va_allocator + len
         /\ slot_allocator' = slot_allocator + 1
         /\ \/ /\ slot_allocator < Slots
               /\ pages' = [p \in DOMAIN pages \cup new |->
                              IF p \in new
                              THEN phys \div PGSIZE + (p - va_allocator \div PGSIZE)
                              ELSE pages[p]]
               /\ live' = live \cup {[physical_start |-> phys, virtual_start |-> Virtual(phys),
                                      region_length |-> size, mapped_length |-> len]}
               /\ UNCHANGED panic
            \/ panic' = TRUE /\ UNCHANGED <<pages, live>>
  /\ UNCHANGED kept

Unmapped(r) == PagesAt(Down(r.virtual_start), r.mapped_length)

\* unmap_physical_region; a failure is ignored.
Unmap(r) ==
  /\ ~panic /\ r \in live
  /\ live' = live \ {r}
  /\ \/ pages' = [p \in DOMAIN pages \ Unmapped(r) |-> pages[p]] /\ UNCHANGED kept
     \/ kept' = kept \cup Unmapped(r) /\ UNCHANGED pages
  /\ UNCHANGED <<va_allocator, slot_allocator, panic>>

Next == \/ \E phys \in 0 .. Memory - 1, size \in Regions : Map(phys, size)
        \/ \E r \in live : Unmap(r)

Spec == Init /\ [][Next]_vars

(***************************************************************************)
(* Properties                                                              *)
(***************************************************************************)

(* Every byte of a region the parser holds is where the parser looks for   *)
(* it, across page boundaries, whatever else was mapped and unmapped.      *)
RegionsReadable ==
  \A r \in live : \A k \in 0 .. r.region_length - 1 :
    LET v == r.virtual_start + k
        x == r.physical_start + k
    IN  /\ v \div PGSIZE \in DOMAIN pages
        /\ pages[v \div PGSIZE] = x \div PGSIZE
        /\ v % PGSIZE = x % PGSIZE

(* What is mapped belongs to a region that is held or could not be         *)
(* unmapped: dropping a region takes all its pages and no other's.         *)
NothingLeft ==
  DOMAIN pages = kept \cup
    UNION {PagesAt(Down(r.virtual_start), r.mapped_length) : r \in live}

(* What is mapped is exactly what the parser holds, and is all of it.      *)
MappingExact == RegionsReadable /\ NothingLeft
=============================================================================
