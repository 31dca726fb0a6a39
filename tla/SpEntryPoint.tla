---------------------------- MODULE SpEntryPoint ----------------------------
(***************************************************************************)
(* The boot of a secure partition: the stack (ModuleEntryPoint.S), the     *)
(* checks of ModuleEntryPoint, the permissions of the sections of the      *)
(* partition's own image (SetPermissions.c), the services table and the    *)
(* library constructors.  The firmware has mapped all of the image         *)
(* read-only and executable.                                               *)
(*                                                                         *)
(* Addresses are bytes, permissions are kept per page.  The sections of an *)
(* image whose SectionAlignment is a page have pages of their own; those   *)
(* of any other share pages with each other and with the headers.  What a  *)
(* check reads from the SPMC, the boot information, the manifest and the   *)
(* firmware volume is read once and chosen when it is read; the section    *)
(* headers are read one by one and part of the state.                      *)
(***************************************************************************)
EXTENDS Integers, Sequences

CONSTANTS
  EFI_PAGE_SIZE,
  MEMORY_PAGES,   \* bound on the pages in memory
  STACK_PAGES,    \* pages from StackBase to StackEnd (2 in the code)
  StrippedSize,   \* headers a TE image has lost, and the header it has instead
  TE_HEADER_SIZE,
  LOADED_BASE,    \* where the image, with all its headers, would begin in memory
  Images          \* the images a partition may be built as

ASSUME BootAssumption ==
  /\ EFI_PAGE_SIZE \in Nat \ {0}
  /\ MEMORY_PAGES \in Nat /\ STACK_PAGES \in Nat \ {0}
  /\ TE_HEADER_SIZE \in Nat /\ StrippedSize \in Nat
  /\ TE_HEADER_SIZE < StrippedSize /\ StrippedSize < EFI_PAGE_SIZE
  /\ LOADED_BASE \in Nat /\ LOADED_BASE % EFI_PAGE_SIZE = 0

\* Section headers and images; aligned means that SectionAlignment is a page or more.
Section == [Characteristics : SUBSET {"execute", "write"}, VirtualAddress : Nat, VirtualSize : Nat]
Image == [te : BOOLEAN, aligned : BOOLEAN, linked : Nat, stack : Nat, sections : Seq(Section)]
SectionEnd(s) == s.VirtualAddress + s.VirtualSize

\* The linker puts sections in order and without overlap, and the stack, which is aligned
\* to a page, into the code.  In a page-aligned image every section begins a page, behind
\* the one with the headers.
ImageLayout(m) ==
  /\ \A i, j \in 1 .. Len(m.sections) :
       i < j => SectionEnd(m.sections[i]) <= m.sections[j].VirtualAddress
  /\ \A i \in 1 .. Len(m.sections) :
       /\ LOADED_BASE + SectionEnd(m.sections[i]) <= MEMORY_PAGES * EFI_PAGE_SIZE
       /\ m.aligned => /\ m.sections[i].VirtualAddress % EFI_PAGE_SIZE = 0
                       /\ m.sections[i].VirtualAddress >= EFI_PAGE_SIZE
  /\ m.stack % EFI_PAGE_SIZE = 0
  /\ \E i \in 1 .. Len(m.sections) :
       /\ "execute" \in m.sections[i].Characteristics
       /\ m.sections[i].VirtualAddress <= m.stack
       /\ m.stack + STACK_PAGES * EFI_PAGE_SIZE <= SectionEnd(m.sections[i])

ASSUME ImageAssumption == Images \subseteq Image /\ \A m \in Images : ImageLayout(m)

VARIABLES
  pc,                   \* the step of the boot
  bfv,                  \* what SpMemBase points to
  image,                \* the PE or TE image the partition is, found there
  ImageBase,
  Index, SectionHeaderOffset,  \* the loop over the sections; the offset in headers
  perm,                 \* permissions of pages, besides reading
  refused,              \* whether the SPMC has refused to change any
  gSpst,                \* whether the services table is set
  heap                  \* whether the heap was handed to MmInitializeMemoryServices

vars == <<pc, bfv, image, ImageBase, Index, SectionHeaderOffset, perm, refused, gSpst, heap>>
checked == <<bfv, image, ImageBase>>
loop == <<Index, SectionHeaderOffset>>

Pages == 0 .. (MEMORY_PAGES - 1)
Permissions == SUBSET {"execute", "write"}
Ends == {"spin", "finish", "core"}
Steps == {"stack", "version", "boot info", "manifest", "volume", "image", "sections",
          "section write", "header", "header write", "constructors"} \cup Ends

TypeOK ==
  /\ pc \in Steps
  /\ bfv \in {"unset", "volume", "unknown"}
  /\ image \in Image
  /\ ImageBase \in Int
  /\ Index \in 0 .. Len(image.sections)
  /\ SectionHeaderOffset \in 0 .. Index
  /\ perm \in [Pages -> Permissions]
  /\ refused \in BOOLEAN /\ gSpst \in BOOLEAN /\ heap \in BOOLEAN

Init ==
  /\ pc = "stack"
  /\ bfv = "unset"
  /\ image \in Images
  /\ ImageBase = 0
  /\ Index = 0
  /\ SectionHeaderOffset = 0
  /\ perm = [p \in Pages |-> {"execute"}]
  /\ refused = FALSE
  /\ gSpst = FALSE
  /\ heap = FALSE

-----------------------------------------------------------------------------
(***************************************************************************)
(* The checks.  Any failure ends the boot.                                 *)
(***************************************************************************)

\* The pages of a range of bytes.
PagesOf(base, size) == (base \div EFI_PAGE_SIZE) .. ((base + size - 1) \div EFI_PAGE_SIZE)
StackPages == PagesOf(LOADED_BASE + image.stack, STACK_PAGES * EFI_PAGE_SIZE)

\* The stack, in the image's code, is made writable and not executable by one call to the
\* SPMC, FFA_MEM_PERM_SET.  If the SPMC refuses, the processor spins.
_ModuleEntryPoint ==
  /\ pc = "stack"
  /\ \/ /\ perm' = [p \in Pages |-> IF p \in StackPages THEN {"write"} ELSE perm[p]]
        /\ pc' = "version"
     \/ /\ pc' = "spin"
        /\ UNCHANGED perm
  /\ UNCHANGED <<checked, loop, refused, gSpst, heap>>

PassIf(ok, next) == pc' = IF ok THEN next ELSE "finish"

\* A minor version below ours, here 1, means that the FF-A calls are not enough.
CheckFfaCompatibility ==
  /\ pc = "version"
  /\ \E answered \in BOOLEAN, major \in 1 .. 2, minor \in 0 .. 2 :
       PassIf(answered /\ major = 1 /\ minor >= 1, "boot info")
  /\ UNCHANGED <<checked, loop, perm, refused, gSpst, heap>>

\* Only the first descriptor is looked at.
GetSpManifest ==
  /\ pc = "boot info"
  /\ \E info \in {"null", "bad magic", "other descriptor", "manifest"} :
       PassIf(info = "manifest", "manifest")
  /\ UNCHANGED <<checked, loop, perm, refused, gSpst, heap>>

\* The status of reading entrypoint-offset is not looked at: without it SpMemBase is
\* computed from an uninitialized offset.
PopulateBootinformation ==
  /\ pc = "manifest"
  /\ \E properties \in SUBSET {"compatible", "load-address", "entrypoint-offset", "image-size",
                               "xlat-granule"},
        granule \in 0 .. 3 :
       /\ PassIf(/\ {"compatible", "load-address", "image-size", "xlat-granule"} \subseteq properties
                 /\ granule \in 0 .. 2,
                 "volume")
       /\ bfv' = IF "entrypoint-offset" \in properties THEN "volume" ELSE "unknown"
  /\ UNCHANGED <<image, ImageBase, loop, perm, refused, gSpst, heap>>

\* The first SEC core file, and in it a PE32 section before a TE section.  The image the
\* partition runs from is in the volume; an offset that was never read may, among other
\* things, be the right one.
LocateStandaloneMmCorePeCoffData ==
  /\ pc = "volume"
  /\ \E file \in BOOLEAN, found \in SUBSET {"pe32", "te"} :
       /\ file /\ found # {} => image.te = ("pe32" \notin found)
       /\ PassIf(file /\ found # {}, "image")
  /\ UNCHANGED <<checked, loop, perm, refused, gSpst, heap>>

Shift(i) == IF i.te THEN StrippedSize - TE_HEADER_SIZE ELSE 0
TeData(i) == LOADED_BASE + Shift(i)
ImageAddress(i) == i.linked + Shift(i)

\* Fault variant: the base stays the one the image was linked for.
LoadedImageBaseAsLinked(i) == ImageAddress(i) - Shift(i)

LoadedImageBase(i) == (ImageAddress(i) - Shift(i)) + (TeData(i) - ImageAddress(i))

\* A PE image whose sections are not aligned to pages is refused, a TE image is taken to
\* be aligned.  ModuleEntryPoint then corrects the base to where the image is.
GetStandaloneMmCorePeCoffSections ==
  /\ pc = "image"
  /\ \E readable \in BOOLEAN : PassIf(readable /\ (image.aligned \/ image.te), "sections")
  /\ ImageBase' = IF pc' = "sections" THEN LoadedImageBase(image) ELSE ImageBase
  /\ UNCHANGED <<bfv, image, loop, perm, refused, gSpst, heap>>

-----------------------------------------------------------------------------
(***************************************************************************)
(* UpdateMmFoundationPeCoffPermissions.                                    *)
(***************************************************************************)

NumberOfSections == Len(image.sections)
SectionHeader == image.sections[SectionHeaderOffset + 1]
SectionBase == ImageBase + SectionHeader.VirtualAddress

\* The calls that change permissions, of every page of a range: the SPMC may refuse, and
\* nobody looks at the status.
SetPermission(base, size, without, with) ==
  \/ /\ perm' = [p \in Pages |-> IF p \in PagesOf(base, size)
                                 THEN (perm[p] \ without) \cup with ELSE perm[p]]
     /\ UNCHANGED refused
  \/ /\ refused' = TRUE
     /\ UNCHANGED perm

\* Fault variant: pages stay executable.
ArmSetMemoryRegionNoExecKeeps(base, size) == SetPermission(base, size, {}, {})

ArmSetMemoryRegionNoExec(base, size) == SetPermission(base, size, {"execute"}, {})
ArmClearMemoryRegionReadOnly(base, size) == SetPermission(base, size, {}, {"write"})

NextSection ==
  /\ Index' = Index + 1
  /\ SectionHeaderOffset' = SectionHeaderOffset + 1

\* Fault variant: the loop does not count the section either.
SkipSectionForever ==
  /\ pc = "sections" /\ Index < NumberOfSections
  /\ SectionHeader.VirtualSize = 0
  /\ UNCHANGED vars

\* An empty section is left with continue, which does not move the offset.
SkipSection ==
  /\ pc = "sections" /\ Index < NumberOfSections
  /\ SectionHeader.VirtualSize = 0
  /\ Index' = Index + 1
  /\ UNCHANGED <<pc, checked, SectionHeaderOffset, perm, refused, gSpst, heap>>

\* Fault variant: the offset moves by two headers.
IgnoreSectionTwice ==
  /\ pc = "sections" /\ Index < NumberOfSections
  /\ SectionHeader.VirtualSize # 0 /\ "execute" \in SectionHeader.Characteristics
  /\ Index' = Index + 1
  /\ SectionHeaderOffset' = SectionHeaderOffset + 2
  /\ UNCHANGED <<pc, checked, perm, refused, gSpst, heap>>

IgnoreSection ==
  /\ pc = "sections" /\ Index < NumberOfSections
  /\ SectionHeader.VirtualSize # 0 /\ "execute" \in SectionHeader.Characteristics
  /\ NextSection
  /\ UNCHANGED <<pc, checked, perm, refused, gSpst, heap>>

TextUpdater ==
  /\ pc = "sections" /\ Index < NumberOfSections
  /\ SectionHeader.VirtualSize # 0 /\ "execute" \notin SectionHeader.Characteristics
  /\ ArmSetMemoryRegionNoExec(SectionBase, SectionHeader.VirtualSize)
  /\ IF "write" \in SectionHeader.Characteristics THEN pc' = "section write" /\ UNCHANGED loop
     ELSE NextSection /\ UNCHANGED pc
  /\ UNCHANGED <<checked, gSpst, heap>>

\* Fault variant: the pages behind the section's.
ReadWriteUpdaterNextPage ==
  /\ pc = "section write"
  /\ ArmClearMemoryRegionReadOnly(SectionBase + EFI_PAGE_SIZE, SectionHeader.VirtualSize)
  /\ NextSection
  /\ pc' = "sections"
  /\ UNCHANGED <<checked, gSpst, heap>>

ReadWriteUpdater ==
  /\ pc = "section write"
  /\ ArmClearMemoryRegionReadOnly(SectionBase, SectionHeader.VirtualSize)
  /\ NextSection
  /\ pc' = "sections"
  /\ UNCHANGED <<checked, gSpst, heap>>

-----------------------------------------------------------------------------
(***************************************************************************)
(* From here on globals are written.                                       *)
(***************************************************************************)

SetServicesTable ==
  /\ pc = "sections" /\ Index = NumberOfSections
  /\ gSpst' = TRUE
  /\ pc' = IF ImageAddress(image) # TeData(image) THEN "header" ELSE "constructors"
  /\ UNCHANGED <<checked, loop, perm, refused, heap>>

\* An image that was not linked for where it is: its first page is made writable and the
\* image is relocated.
HeaderNoExec ==
  /\ pc = "header"
  /\ ArmSetMemoryRegionNoExec(ImageBase, EFI_PAGE_SIZE)
  /\ pc' = "header write"
  /\ UNCHANGED <<checked, loop, gSpst, heap>>

HeaderWritable ==
  /\ pc = "header write"
  /\ ArmClearMemoryRegionReadOnly(ImageBase, EFI_PAGE_SIZE)
  /\ pc' = "constructors"
  /\ UNCHANGED <<checked, loop, gSpst, heap>>

\* The first memory region of the manifest must be the heap, complete: the loop over the
\* regions never reaches a second one.  Without a region it ends at once.
MemoryAllocationLibConstructor ==
  /\ pc = "constructors"
  /\ \E regions \in {"missing", "none", "other first", "incomplete", "heap first"} :
       heap' = (regions = "heap first")
  /\ pc' = "core"
  /\ UNCHANGED <<checked, loop, perm, refused, gSpst>>

Next ==
  \/ _ModuleEntryPoint
  \/ CheckFfaCompatibility
  \/ GetSpManifest
  \/ PopulateBootinformation
  \/ LocateStandaloneMmCorePeCoffData
  \/ GetStandaloneMmCorePeCoffSections
  \/ SkipSection
  \/ IgnoreSection
  \/ TextUpdater
  \/ ReadWriteUpdater
  \/ SetServicesTable
  \/ HeaderNoExec
  \/ HeaderWritable
  \/ MemoryAllocationLibConstructor

Spec == Init /\ [][Next]_vars

\* The partition is the only actor; the processor goes on unless it spins.
FairSpec == Spec /\ WF_vars(Next)

-----------------------------------------------------------------------------
(***************************************************************************)
(* Properties.                                                             *)
(***************************************************************************)

ImagePages(s) == PagesOf(LOADED_BASE + s.VirtualAddress, s.VirtualSize)
Required(s) ==
  IF "execute" \in s.Characteristics THEN {"execute"} ELSE s.Characteristics

\* No page is ever writable and executable at once, between any two calls to the SPMC,
\* for as long as the SPMC does what it is asked: TextUpdater comes before
\* ReadWriteUpdater, and both act on the same pages.
NeverWritableAndExecutable ==
  ~refused => \A p \in Pages : perm[p] # {"execute", "write"}

\* Every page of section i that is not part of the stack is as its header asks.
AsItsHeaderAsks(i) ==
  \A p \in Pages \ StackPages :
    p \in ImagePages(image.sections[i]) => perm[p] = Required(image.sections[i])

\* When the first global is written (mSpst, gSpst), for every section up to the first empty
\* one: in a page-aligned image its pages have the permissions its header asks for, except
\* for the stack.  Whatever the layout, and whichever other sections share a page with it,
\* writable data and the stack are writable and not executable, and other data is not
\* executable.
SectionsProtected ==
  gSpst /\ ~refused =>
    /\ \A i \in 1 .. NumberOfSections :
         (\A j \in 1 .. i : image.sections[j].VirtualSize # 0) =>
           /\ image.aligned => AsItsHeaderAsks(i)
           /\ "execute" \notin image.sections[i].Characteristics =>
                \A p \in Pages : p \in ImagePages(image.sections[i]) =>
                  /\ "execute" \notin perm[p]
                  /\ image.sections[i].Characteristics \subseteq perm[p]
    /\ \A p \in Pages : p \in StackPages => perm[p] = {"write"}

\* The comment on UpdateMmFoundationPeCoffPermissions: it "sets the correct permissions of
\* sections in the Standalone MM Core module" - of all sections that are not empty, in an
\* image of the alignment it needs.
AllSectionsProtected ==
  gSpst /\ ~refused /\ image.aligned =>
    \A i \in 1 .. NumberOfSections :
      image.sections[i].VirtualSize # 0 => AsItsHeaderAsks(i)

\* Boot changes the permissions of no page but those of the stack, once, before anything
\* else, those of the image's data sections, and at the end its first one, wherever the
\* image was linked and whatever headers it was stripped of.
OnlyImageDataChanges ==
  [][\A p \in Pages : perm'[p] # perm[p] =>
       \/ p \in StackPages /\ pc = "stack"
       \/ p \in PagesOf(LOADED_BASE, EFI_PAGE_SIZE) /\ gSpst
       \/ \E i \in 1 .. NumberOfSections :
            /\ p \in ImagePages(image.sections[i]) /\ image.sections[i].VirtualSize # 0
            /\ "execute" \notin image.sections[i].Characteristics]_vars

\* The boot ends: the core is started, a check has failed, or the processor spins; no
\* image makes the loop over the sections run forever.
BootEnds == <>(pc \in Ends)
=============================================================================
