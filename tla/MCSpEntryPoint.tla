--------------------------- MODULE MCSpEntryPoint ---------------------------
(***************************************************************************)
(* Images of up to MaxSections sections for the boot.  Every section is    *)
(* larger than a page.  In a page-aligned image section i begins on page   *)
(* 2i - 1; in the others a section is one and a half pages and they follow *)
(* each other from the middle of the first page on, so that headers, code  *)
(* and data share pages.  The stack is one page of the first code section. *)
(***************************************************************************)
EXTENDS SpEntryPoint, FiniteSetsExt, TLC

CONSTANT MaxSections  \* bound on the sections of an image

Kinds == {"empty", "code", "writable code", "data", "rodata"}
CharacteristicsOf ==
  [empty |-> {"write"}, code |-> {"execute"}, data |-> {"write"}, rodata |-> {}]
    @@ ("writable code" :> {"execute", "write"})

HALF_PAGE == EFI_PAGE_SIZE \div 2
AddressOf(aligned, i) ==
  IF aligned THEN (2 * i - 1) * EFI_PAGE_SIZE ELSE HALF_PAGE + (i - 1) * 3 * HALF_PAGE

SectionsOf(aligned, kinds) ==
  [i \in DOMAIN kinds |->
     [Characteristics |-> CharacteristicsOf[kinds[i]],
      VirtualAddress |-> AddressOf(aligned, i),
      VirtualSize |-> IF kinds[i] = "empty" THEN 0 ELSE 3 * HALF_PAGE]]

\* The first page that lies in section i as a whole.
StackIn(aligned, i) ==
  ((AddressOf(aligned, i) + EFI_PAGE_SIZE - 1) \div EFI_PAGE_SIZE) * EFI_PAGE_SIZE

Code(kinds) == {i \in DOMAIN kinds : kinds[i] \in {"code", "writable code"}}

ImagesMC ==
  {[te |-> te, aligned |-> aligned, linked |-> linked,
    stack |-> StackIn(aligned, Min(Code(kinds))), sections |-> SectionsOf(aligned, kinds)]
     : te \in BOOLEAN, aligned \in BOOLEAN, linked \in {0, LOADED_BASE},
       kinds \in {k \in UNION {[1 .. n -> Kinds] : n \in 1 .. MaxSections} : Code(k) # {}}}
=============================================================================
