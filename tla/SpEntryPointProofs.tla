------------------------- MODULE SpEntryPointProofs -------------------------
(***************************************************************************)
(* Theorems about SpEntryPoint, for any images and any page, header and    *)
(* stack sizes.                                                            *)
(***************************************************************************)
EXTENDS SpEntryPoint, TLAPS

\* Correcting the base for where the image was linked and for the headers it has lost
\* gives the place where it is.
LEMMA BaseIsLoaded ==
  ASSUME NEW m \in Image
  PROVE  LoadedImageBase(m) = LOADED_BASE
<1>1. m.linked \in Int /\ m.te \in BOOLEAN
  BY DEF Image
<1>2. Shift(m) \in Int
  BY BootAssumption, <1>1 DEF Shift
<1> QED  BY <1>1, <1>2, BootAssumption DEF LoadedImageBase, ImageAddress, TeData

-----------------------------------------------------------------------------
(***************************************************************************)
(* Pages of sections.                                                      *)
(***************************************************************************)

\* What ends before a page begins is on an earlier page.
LEMMA EndsBefore ==
  ASSUME NEW a \in Nat, NEW k \in Nat, a < EFI_PAGE_SIZE * k
  PROVE  a \div EFI_PAGE_SIZE < k
<1> DEFINE P == EFI_PAGE_SIZE
           q == a \div P
<1>1. P \in Int /\ P > 0
  BY BootAssumption
<1>2. q \in Nat /\ P * q <= a
  BY <1>1
<1> HIDE DEF P, q
<1>3. CASE k <= q
  <2> DEFINE d == q - k
  <2>1. d \in Nat /\ q = k + d
    BY <1>2, <1>3
  <2> HIDE DEF d
  <2>2. P * q = P * k + P * d /\ P * d >= 0 /\ P * k \in Int
    BY <1>1, <2>1
  <2> QED  BY <1>1, <1>2, <2>2 DEF P
<1> QED  BY <1>2, <1>3 DEF q, P

\* The first page of a range that begins with one.
LEMMA BeginsPage ==
  ASSUME NEW k \in Nat
  PROVE  (EFI_PAGE_SIZE * k) \div EFI_PAGE_SIZE = k
<1>1. EFI_PAGE_SIZE \in Int /\ EFI_PAGE_SIZE > 0
  BY BootAssumption
<1> QED  BY <1>1

\* A multiple of a page.
LEMMA MultipleIs ==
  ASSUME NEW a \in Nat, a % EFI_PAGE_SIZE = 0
  PROVE  \E k \in Nat : a = EFI_PAGE_SIZE * k
<1> DEFINE k == a \div EFI_PAGE_SIZE
<1>1. EFI_PAGE_SIZE \in Int /\ EFI_PAGE_SIZE > 0
  BY BootAssumption
<1>2. k \in Nat /\ a = EFI_PAGE_SIZE * k + (a % EFI_PAGE_SIZE)
  BY <1>1
<1>3. EFI_PAGE_SIZE * k \in Nat
  BY <1>1, <1>2
<1>4. a = EFI_PAGE_SIZE * k
  <2> HIDE DEF k
  <2> QED  BY <1>2, <1>3
<1> QED  BY <1>2, <1>4

\* Two ranges, the second of which begins a page where the first one has ended, share none.
LEMMA RangesApart ==
  ASSUME NEW a \in Nat, NEW m \in Nat, NEW b \in Nat, NEW n \in Nat,
         0 < a + m, a + m <= b, b % EFI_PAGE_SIZE = 0
  PROVE  PagesOf(a, m) \cap PagesOf(b, n) = {}
<1>1. PICK k \in Nat : b = EFI_PAGE_SIZE * k
  BY MultipleIs
<1>2. b \div EFI_PAGE_SIZE = k
  BY <1>1, BeginsPage
<1> DEFINE e == a + m - 1
<1>3. e \in Nat /\ e < EFI_PAGE_SIZE * k
  BY <1>1
<1>4. e \div EFI_PAGE_SIZE < k
  <2> HIDE DEF e
  <2> QED  BY <1>3, EndsBefore
<1>5. EFI_PAGE_SIZE \in Nat \ {0}
  BY BootAssumption
<1>6. e \div EFI_PAGE_SIZE \in Int
  BY <1>3, <1>5
<1> QED  BY <1>2, <1>4, <1>6 DEF PagesOf

\* What is known of the sections of an image.
LEMMA SectionsOfImages ==
  ASSUME NEW m \in Images
  PROVE  /\ m \in Image /\ m.sections \in Seq(Section) /\ Len(m.sections) \in Nat
         /\ \A k \in 1 .. Len(m.sections) :
              /\ m.sections[k] \in Section
              /\ m.sections[k].VirtualAddress \in Nat /\ m.sections[k].VirtualSize \in Nat
              /\ m.sections[k].Characteristics \subseteq {"execute", "write"}
<1>1. m \in Image
  BY ImageAssumption
<1>2. m.sections \in Seq(Section)
  BY <1>1 DEF Image
<1>3. Len(m.sections) \in Nat
  BY <1>2
<1>4. ASSUME NEW k \in 1 .. Len(m.sections) PROVE m.sections[k] \in Section
  BY <1>2
<1> QED  BY <1>1, <1>2, <1>3, <1>4 DEF Section

\* A page-aligned image: no section shares a page with another or with the headers.
LEMMA AlignedApart ==
  ASSUME NEW m \in Images, m.aligned, NEW i \in 1 .. Len(m.sections)
  PROVE  /\ PagesOf(LOADED_BASE, EFI_PAGE_SIZE) \cap ImagePages(m.sections[i]) = {}
         /\ \A j \in 1 .. Len(m.sections) :
              i # j => ImagePages(m.sections[i]) \cap ImagePages(m.sections[j]) = {}
<1> DEFINE B == LOADED_BASE
           P == EFI_PAGE_SIZE
           S(k) == m.sections[k]
<1>1. P \in Nat \ {0} /\ B \in Nat /\ B % P = 0
  BY BootAssumption
<1>2. ASSUME NEW k \in 1 .. Len(m.sections)
      PROVE  /\ S(k).VirtualAddress \in Nat /\ S(k).VirtualSize \in Nat
             /\ S(k).VirtualAddress % P = 0 /\ S(k).VirtualAddress >= P
  BY ImageAssumption, SectionsOfImages DEF ImageLayout
<1>3. ASSUME NEW k \in 1 .. Len(m.sections)
      PROVE  B + S(k).VirtualAddress \in Nat /\ (B + S(k).VirtualAddress) % P = 0
  <2> DEFINE v == S(k).VirtualAddress
  <2>1. v \in Nat /\ v % P = 0
    BY <1>2
  <2> HIDE DEF v
  <2>2. PICK x \in Nat : B = P * x
    BY <1>1, MultipleIs
  <2>3. PICK y \in Nat : v = P * y
    BY <2>1, MultipleIs
  <2>4. B + v = P * (x + y)
    BY <1>1, <2>2, <2>3
  <2>5. (P * (x + y)) % P = 0
    BY <1>1
  <2>6. B + v \in Nat
    BY <1>1, <2>1
  <2> QED  BY <2>4, <2>5, <2>6 DEF v
<1>4. ASSUME NEW k \in 1 .. Len(m.sections), NEW l \in 1 .. Len(m.sections), k < l
      PROVE  ImagePages(S(k)) \cap ImagePages(S(l)) = {}
  <2>1. S(k).VirtualAddress + S(k).VirtualSize <= S(l).VirtualAddress
    BY <1>4, ImageAssumption DEF ImageLayout, SectionEnd
  <2> DEFINE v == S(k).VirtualAddress
             w == S(l).VirtualAddress
             z == S(k).VirtualSize
  <2>2. v \in Nat /\ w \in Nat /\ z \in Nat /\ v >= P /\ S(l).VirtualSize \in Nat
    BY <1>2
  <2>3. (B + w) % P = 0
    BY <1>3
  <2>4. v + z <= w
    BY <2>1
  <2> HIDE DEF v, w, z, B, P
  <2>5. /\ B + v \in Nat /\ B + w \in Nat
        /\ 0 < (B + v) + z /\ (B + v) + z <= B + w
    BY <1>1, <2>2, <2>4
  <2>6. PagesOf(B + v, z) \cap PagesOf(B + w, S(l).VirtualSize) = {}
    BY <2>2, <2>3, <2>5, RangesApart DEF P
  <2> QED  BY <2>6 DEF ImagePages, v, w, z, B
<1>5. PagesOf(B, P) \cap ImagePages(S(i)) = {}
  <2> DEFINE v == S(i).VirtualAddress
  <2>1. v \in Nat /\ v >= P /\ S(i).VirtualSize \in Nat
    BY <1>2
  <2>2. (B + v) % P = 0
    BY <1>3
  <2> HIDE DEF v, B, P
  <2>3. B + v \in Nat /\ 0 < B + P /\ B + P <= B + v
    BY <1>1, <2>1
  <2>4. PagesOf(B, P) \cap PagesOf(B + v, S(i).VirtualSize) = {}
    BY <1>1, <2>1, <2>2, <2>3, RangesApart DEF P
  <2> QED  BY <2>4 DEF ImagePages, v, B
<1>6. ASSUME NEW j \in 1 .. Len(m.sections), i # j
      PROVE  ImagePages(S(i)) \cap ImagePages(S(j)) = {}
  <2>1. i \in Int /\ j \in Int
    OBVIOUS
  <2>2. i < j \/ j < i
    BY <1>6, <2>1
  <2> QED  BY <1>4, <2>2
<1> QED  BY <1>5, <1>6

-----------------------------------------------------------------------------
(***************************************************************************)
(* The inductive invariant.                                                *)
(***************************************************************************)

Mapped == {"execute"}
Early == {"version", "boot info", "manifest", "volume", "image"}
Late == {"header", "header write", "constructors", "core"}

Executable(i) == "execute" \in image.sections[i].Characteristics
PagesAt(i) == ImagePages(image.sections[i])
FirstPages == PagesOf(LOADED_BASE, EFI_PAGE_SIZE)

\* Where the boot stands.
Progress ==
  /\ pc \in Early \cup {"stack"} => Index = 0 /\ SectionHeaderOffset = 0
  /\ pc \in {"sections", "section write", "header", "header write"} => ImageBase = LOADED_BASE
  /\ pc = "section write" =>
       /\ Index < NumberOfSections /\ SectionHeader.VirtualSize # 0
       /\ SectionHeader.Characteristics = {"write"}
  /\ gSpst => pc \in Late /\ Index = NumberOfSections
  /\ pc \in {"header", "header write"} => gSpst

\* The offset keeps up with the index, or has stopped at an empty section for good.
OffsetStopsAtEmpty ==
  \/ SectionHeaderOffset = Index
  \/ SectionHeaderOffset < Index /\ SectionHeader.VirtualSize = 0

\* The stack, once the partition runs on it.
StackWritable ==
  ~refused /\ pc \notin {"stack", "spin"} =>
    \A p \in Pages : p \in StackPages => perm[p] = {"write"}

\* The data sections that the loop has done, whatever shares their pages.
DataIs(i) ==
  ~Executable(i) => \A p \in Pages : p \in PagesAt(i) =>
                      "execute" \notin perm[p] /\ image.sections[i].Characteristics \subseteq perm[p]
DataDone == ~refused => \A i \in 1 .. SectionHeaderOffset : DataIs(i)

\* Between the two calls for the same pages.
NoExecFirst ==
  ~refused =>
    /\ pc = "section write" =>
         \A p \in Pages : p \in PagesAt(SectionHeaderOffset + 1) => "execute" \notin perm[p]
    /\ pc = "header write" => \A p \in Pages : p \in FirstPages => "execute" \notin perm[p]

\* The permissions of the pages of section i of a page-aligned image, as far as the loop
\* has come.
SoFar(i) ==
  IF i <= SectionHeaderOffset THEN Required(image.sections[i])
  ELSE IF pc = "section write" /\ i = SectionHeaderOffset + 1 THEN {}
  ELSE Mapped

AlignedIs(i) == \A p \in Pages \ StackPages : p \in PagesAt(i) => perm[p] = SoFar(i)
AlignedSoFar ==
  ~refused /\ image.aligned => \A i \in 1 .. NumberOfSections : AlignedIs(i)

IInv ==
  /\ TypeOK
  /\ image \in Images
  /\ Progress
  /\ OffsetStopsAtEmpty
  /\ StackWritable
  /\ DataDone
  /\ NoExecFirst
  /\ AlignedSoFar
  /\ NeverWritableAndExecutable

-----------------------------------------------------------------------------
\* The invariant at the entry point.
LEMMA InitInv == Init => IInv
<1> SUFFICES ASSUME Init PROVE IInv
  OBVIOUS
<1>1. /\ pc = "stack" /\ bfv = "unset" /\ image \in Images /\ ImageBase = 0 /\ Index = 0
      /\ SectionHeaderOffset = 0 /\ perm = [p \in Pages |-> {"execute"}] /\ gSpst = FALSE
  BY DEF Init
<1>2. image \in Image /\ Len(image.sections) \in Nat
  BY <1>1, SectionsOfImages
<1>3. TypeOK
  <2>1. refused \in BOOLEAN /\ gSpst \in BOOLEAN /\ heap \in BOOLEAN
    BY Zenon DEF Init
  <2>2. perm \in [Pages -> Permissions]
    BY <1>1 DEF Permissions
  <2>3. Index \in 0 .. Len(image.sections) /\ SectionHeaderOffset \in 0 .. Index
    BY <1>1, <1>2
  <2>4. pc \in Steps /\ bfv \in {"unset", "volume", "unknown"} /\ ImageBase \in Int
    BY <1>1 DEF Steps
  <2> QED  BY <1>2, <2>1, <2>2, <2>3, <2>4 DEF TypeOK
<1>4. Progress
  BY <1>1 DEF Progress, Early
<1>5. OffsetStopsAtEmpty /\ StackWritable /\ DataDone /\ NoExecFirst
  BY <1>1 DEF OffsetStopsAtEmpty, StackWritable, DataDone, NoExecFirst
<1>6. AlignedSoFar
  <2> SUFFICES ASSUME NEW i \in 1 .. NumberOfSections, NEW p \in Pages
               PROVE  perm[p] = SoFar(i)
    BY DEF AlignedSoFar, AlignedIs
  <2>1. ~(i <= SectionHeaderOffset)
    BY <1>1, <1>2 DEF NumberOfSections
  <2> QED  BY <1>1, <2>1 DEF SoFar, Mapped
<1>7. NeverWritableAndExecutable
  BY <1>1 DEF NeverWritableAndExecutable
<1> QED  BY <1>1, <1>3, <1>4, <1>5, <1>6, <1>7 DEF IInv

-----------------------------------------------------------------------------
(***************************************************************************)
(* What every call leaves alone: after the stack, no page becomes          *)
(* executable again and none becomes read-only again.                      *)
(***************************************************************************)

Tightens ==
  \A p \in Pages : /\ "execute" \in perm'[p] => "execute" \in perm[p]
                   /\ "write" \in perm[p] => "write" \in perm'[p]

\* The stack and the data that are done stay as they are.
LEMMA TightensKeeps ==
  ASSUME IInv, image' = image, perm' \in [Pages -> Permissions], ~refused' => ~refused /\ Tightens
  PROVE  /\ pc \notin {"stack", "spin"} => StackWritable'
         /\ \A i \in 1 .. NumberOfSections : ~refused' /\ DataIs(i) => DataIs(i)'
<1>1. ASSUME pc \notin {"stack", "spin"} PROVE StackWritable'
  <2> SUFFICES ASSUME ~refused', NEW p \in Pages, p \in StackPages'
               PROVE  perm'[p] = {"write"}
    BY DEF StackWritable
  <2>1. p \in StackPages
    BY DEF StackPages
  <2>2. perm[p] = {"write"}
    BY <1>1, <2>1 DEF IInv, StackWritable
  <2>3. "execute" \notin perm'[p] /\ "write" \in perm'[p]
    BY <2>2 DEF Tightens
  <2>4. perm'[p] \subseteq {"execute", "write"}
    BY DEF Permissions
  <2> QED  BY <2>3, <2>4
<1>2. ASSUME NEW i \in 1 .. NumberOfSections, ~refused', DataIs(i) PROVE DataIs(i)'
  <2> DEFINE c == image.sections[i].Characteristics
  <2>1. c \subseteq {"execute", "write"}
    BY SectionsOfImages DEF IInv, NumberOfSections
  <2> SUFFICES ASSUME ~Executable(i), NEW p \in Pages, p \in PagesAt(i)
               PROVE  "execute" \notin perm'[p] /\ c \subseteq perm'[p]
    BY DEF DataIs, Executable, PagesAt
  <2>2. "execute" \notin perm[p] /\ c \subseteq perm[p] /\ "execute" \notin c
    BY <1>2 DEF DataIs, Executable
  <2>3. "execute" \notin perm'[p] /\ ("write" \in c => "write" \in perm'[p])
    BY <1>2, <2>2 DEF Tightens
  <2> QED  BY <2>1, <2>2, <2>3
<1> QED  BY <1>1, <1>2

\* A call that changes permissions changes those of its pages, or is refused.
LEMMA SetPermissionEffect ==
  ASSUME NEW base, NEW size, NEW without, NEW with \in Permissions,
         perm \in [Pages -> Permissions], refused \in BOOLEAN,
         SetPermission(base, size, without, with)
  PROVE  /\ perm' \in [Pages -> Permissions]
         /\ refused' \in BOOLEAN
         /\ ~refused' =>
              /\ ~refused
              /\ \A p \in Pages :
                   perm'[p] = IF p \in PagesOf(base, size) THEN (perm[p] \ without) \cup with
                              ELSE perm[p]
         /\ \A p \in Pages : perm'[p] # perm[p] => p \in PagesOf(base, size)
<1> DEFINE R == PagesOf(base, size)
<1>1. CASE /\ perm' = [p \in Pages |-> IF p \in R THEN (perm[p] \ without) \cup with ELSE perm[p]]
           /\ refused' = refused
  <2> HIDE DEF R
  <2>1. /\ \A p \in Pages : perm'[p] = IF p \in R THEN (perm[p] \ without) \cup with ELSE perm[p]
        /\ perm' \in [Pages -> Permissions]
    BY <1>1 DEF Permissions
  <2>2. refused' \in BOOLEAN /\ (~refused' => ~refused)
    BY <1>1, Zenon
  <2>3. \A p \in Pages : perm'[p] # perm[p] => p \in R
    BY <2>1
  <2> QED  BY <2>1, <2>2, <2>3, Zenon DEF R
<1>2. CASE refused' = TRUE /\ perm' = perm
  BY <1>2, Zenon
<1> QED  BY <1>1, <1>2 DEF SetPermission

\* Without execution, and with writing: what the two calls do.
LEMMA CallEffects ==
  ASSUME IInv, NEW base, NEW size,
         \/ ArmSetMemoryRegionNoExec(base, size)
         \/ ArmClearMemoryRegionReadOnly(base, size)
  PROVE  /\ perm' \in [Pages -> Permissions]
         /\ refused' \in BOOLEAN
         /\ ~refused' => /\ ~refused /\ Tightens
                         /\ \A p \in Pages : p \notin PagesOf(base, size) => perm'[p] = perm[p]
         /\ \A p \in Pages : perm'[p] # perm[p] => p \in PagesOf(base, size)
<1>1. perm \in [Pages -> Permissions] /\ refused \in BOOLEAN
  BY Zenon DEF IInv, TypeOK
<1>2. {} \in Permissions /\ {"write"} \in Permissions
  BY DEF Permissions
<1>3. CASE ArmSetMemoryRegionNoExec(base, size)
  <2>1. SetPermission(base, size, {"execute"}, {})
    BY <1>3 DEF ArmSetMemoryRegionNoExec
  <2>2. /\ perm' \in [Pages -> Permissions] /\ refused' \in BOOLEAN
        /\ ~refused' => /\ ~refused
                        /\ \A p \in Pages :
                             perm'[p] = IF p \in PagesOf(base, size)
                                        THEN (perm[p] \ {"execute"}) \cup {} ELSE perm[p]
        /\ \A p \in Pages : perm'[p] # perm[p] => p \in PagesOf(base, size)
    BY <1>1, <1>2, <2>1, SetPermissionEffect
  <2>3. ~refused' => Tightens
    BY <2>2 DEF Tightens
  <2> QED  BY <2>2, <2>3
<1>4. CASE ArmClearMemoryRegionReadOnly(base, size)
  <2>1. SetPermission(base, size, {}, {"write"})
    BY <1>4 DEF ArmClearMemoryRegionReadOnly
  <2>2. /\ perm' \in [Pages -> Permissions] /\ refused' \in BOOLEAN
        /\ ~refused' => /\ ~refused
                        /\ \A p \in Pages :
                             perm'[p] = IF p \in PagesOf(base, size)
                                        THEN (perm[p] \ {}) \cup {"write"} ELSE perm[p]
        /\ \A p \in Pages : perm'[p] # perm[p] => p \in PagesOf(base, size)
    BY <1>1, <1>2, <2>1, SetPermissionEffect
  <2>3. ~refused' => Tightens
    BY <2>2 DEF Tightens
  <2> QED  BY <2>2, <2>3
<1> QED  BY <1>3, <1>4

\* The first call leaves no page executable, and none writable that was not.
LEMMA NoExecEffect ==
  ASSUME IInv, NEW base, NEW size, ArmSetMemoryRegionNoExec(base, size), ~refused'
  PROVE  /\ \A p \in Pages : p \in PagesOf(base, size) => perm'[p] = perm[p] \ {"execute"}
         /\ NeverWritableAndExecutable'
<1>1. perm \in [Pages -> Permissions] /\ refused \in BOOLEAN
  BY Zenon DEF IInv, TypeOK
<1>2. {} \in Permissions /\ SetPermission(base, size, {"execute"}, {})
  BY DEF Permissions, ArmSetMemoryRegionNoExec
<1>3. /\ ~refused
      /\ \A p \in Pages : perm'[p] = IF p \in PagesOf(base, size)
                                     THEN (perm[p] \ {"execute"}) \cup {} ELSE perm[p]
  BY <1>1, <1>2, SetPermissionEffect
<1>4. \A p \in Pages : perm[p] # {"execute", "write"}
  BY <1>3 DEF IInv, NeverWritableAndExecutable
<1>5. ASSUME NEW p \in Pages PROVE perm'[p] # {"execute", "write"}
  BY <1>3, <1>4
<1>6. \A p \in Pages : p \in PagesOf(base, size) => perm'[p] = perm[p] \ {"execute"}
  BY <1>3
<1> QED  BY <1>5, <1>6 DEF NeverWritableAndExecutable

\* The second one makes pages writable that are not executable.
LEMMA WriteEffect ==
  ASSUME IInv, NEW base, NEW size, ArmClearMemoryRegionReadOnly(base, size), ~refused',
         \A p \in Pages : p \in PagesOf(base, size) => "execute" \notin perm[p]
  PROVE  /\ \A p \in Pages : p \in PagesOf(base, size) => perm'[p] = {"write"}
         /\ NeverWritableAndExecutable'
<1>1. perm \in [Pages -> Permissions] /\ refused \in BOOLEAN
  BY Zenon DEF IInv, TypeOK
<1>2. {"write"} \in Permissions /\ SetPermission(base, size, {}, {"write"})
  BY DEF Permissions, ArmClearMemoryRegionReadOnly
<1>3. /\ ~refused
      /\ \A p \in Pages : perm'[p] = IF p \in PagesOf(base, size)
                                     THEN (perm[p] \ {}) \cup {"write"} ELSE perm[p]
  BY <1>1, <1>2, SetPermissionEffect
<1>4. \A p \in Pages : perm[p] # {"execute", "write"} /\ perm[p] \subseteq {"execute", "write"}
  BY <1>1, <1>3 DEF IInv, NeverWritableAndExecutable, Permissions
<1>5. ASSUME NEW p \in Pages, p \in PagesOf(base, size) PROVE perm'[p] = {"write"}
  BY <1>3, <1>4, <1>5
<1>6. ASSUME NEW p \in Pages PROVE perm'[p] # {"execute", "write"}
  <2>1. CASE p \in PagesOf(base, size)
    BY <1>5, <2>1
  <2>2. CASE p \notin PagesOf(base, size)
    BY <1>3, <1>4, <2>2
  <2> QED  BY <2>1, <2>2
<1> QED  BY <1>5, <1>6 DEF NeverWritableAndExecutable

-----------------------------------------------------------------------------
(***************************************************************************)
(* Before the loop.                                                        *)
(***************************************************************************)

\* The stack is made writable before anything else.
LEMMA StackInv ==
  ASSUME IInv, _ModuleEntryPoint
  PROVE  IInv'
<1>1. /\ pc = "stack" /\ pc' \in {"version", "spin"}
      /\ UNCHANGED <<bfv, image, ImageBase, Index, SectionHeaderOffset, refused, gSpst, heap>>
      /\ \/ pc' = "spin" /\ perm' = perm
         \/ perm' = [p \in Pages |-> IF p \in StackPages THEN {"write"} ELSE perm[p]]
  BY DEF _ModuleEntryPoint, checked, loop
<1>2. perm \in [Pages -> Permissions]
  BY DEF IInv, TypeOK
<1>3. /\ perm' \in [Pages -> Permissions]
      /\ \A p \in Pages : perm'[p] = perm[p] \/ perm'[p] = {"write"}
      /\ \A p \in Pages \ StackPages : perm'[p] = perm[p]
  <2> HIDE DEF StackPages
  <2>1. {"write"} \in Permissions
    BY DEF Permissions
  <2> QED  BY <1>1, <1>2, <2>1
<1>4. pc' = "version" => \A p \in Pages : p \in StackPages => perm'[p] = {"write"}
  BY <1>1
<1>5. Index = 0 /\ SectionHeaderOffset = 0 /\ gSpst = FALSE
  <2>1. Index = 0 /\ SectionHeaderOffset = 0 /\ ~gSpst
    BY <1>1 DEF IInv, Progress, Late
  <2>2. gSpst \in BOOLEAN
    BY Zenon DEF IInv, TypeOK
  <2> QED  BY <2>1, <2>2
<1>6. TypeOK'
  <2>1. pc' \in Steps
    BY <1>1 DEF Steps, Ends
  <2>2. (refused \in BOOLEAN /\ gSpst \in BOOLEAN /\ heap \in BOOLEAN)'
    BY <1>1, Zenon DEF IInv, TypeOK
  <2> QED  BY <1>1, <1>3, <2>1, <2>2 DEF IInv, TypeOK
<1>7. Progress'
  BY <1>1, <1>5 DEF Progress, Early, Late
<1>8. OffsetStopsAtEmpty'
  BY <1>1, <1>5 DEF OffsetStopsAtEmpty
<1>9. StackWritable'
  <2>1. StackPages' = StackPages
    BY <1>1 DEF StackPages
  <2> QED  BY <1>1, <1>4, <2>1 DEF StackWritable
<1>10. DataDone' /\ NoExecFirst'
  <2>1. SectionHeaderOffset' = 0
    BY <1>1, <1>5
  <2>2. 1 .. SectionHeaderOffset' = {}
    BY <2>1
  <2>3. DataDone'
    BY <2>2 DEF DataDone
  <2>4. NoExecFirst'
    BY <1>1 DEF NoExecFirst
  <2> QED  BY <2>3, <2>4
<1>11. AlignedSoFar'
  <2> SUFFICES ASSUME ~refused', image'.aligned, NEW i \in 1 .. NumberOfSections'
               PROVE  AlignedIs(i)'
    BY DEF AlignedSoFar
  <2>1. i \in 1 .. NumberOfSections /\ ~refused /\ image.aligned
    BY <1>1 DEF NumberOfSections
  <2>2. AlignedIs(i)
    BY <2>1 DEF IInv, AlignedSoFar
  <2>3. SoFar(i)' = SoFar(i)
    BY <1>1 DEF SoFar, Required, Mapped
  <2>4. StackPages' = StackPages /\ PagesAt(i)' = PagesAt(i)
    BY <1>1 DEF StackPages, PagesAt
  <2> QED  BY <1>3, <2>2, <2>3, <2>4 DEF AlignedIs
<1>12. NeverWritableAndExecutable'
  BY <1>1, <1>3 DEF IInv, NeverWritableAndExecutable
<1>13. image' \in Images
  BY <1>1 DEF IInv
<1> QED  BY <1>6, <1>7, <1>8, <1>9, <1>10, <1>11, <1>12, <1>13 DEF IInv

\* The checks of ModuleEntryPoint.
Checks ==
  \/ CheckFfaCompatibility
  \/ GetSpManifest
  \/ PopulateBootinformation
  \/ LocateStandaloneMmCorePeCoffData
  \/ GetStandaloneMmCorePeCoffSections

\* Where they lead: the loop has not begun and no permission changes.
LEMMA ChecksChange ==
  ASSUME IInv, Checks
  PROVE  /\ pc \in Early
         /\ pc' \in Early \cup {"sections", "finish"}
         /\ pc' = "sections" => ImageBase' = LOADED_BASE
         /\ ImageBase' \in Int
         /\ bfv' \in {"unset", "volume", "unknown"}
         /\ UNCHANGED <<image, Index, SectionHeaderOffset, perm, refused, gSpst, heap>>
<1> USE DEF IInv, TypeOK, checked, loop, PassIf, Early
<1>1. CASE CheckFfaCompatibility
  BY <1>1 DEF CheckFfaCompatibility
<1>2. CASE GetSpManifest
  BY <1>2 DEF GetSpManifest
<1>3. CASE PopulateBootinformation
  BY <1>3 DEF PopulateBootinformation
<1>4. CASE LocateStandaloneMmCorePeCoffData
  BY <1>4 DEF LocateStandaloneMmCorePeCoffData
<1>5. CASE GetStandaloneMmCorePeCoffSections
  <2>1. LoadedImageBase(image) = LOADED_BASE
    BY BaseIsLoaded
  <2>2. LOADED_BASE \in Int
    BY BootAssumption
  <2> QED  BY <1>5, <2>1, <2>2 DEF GetStandaloneMmCorePeCoffSections
<1> QED  BY <1>1, <1>2, <1>3, <1>4, <1>5 DEF Checks

\* A step that changes no permission, outside the two calls, keeps what is said of them.
LEMMA PermissionsKeep ==
  ASSUME IInv, UNCHANGED <<image, SectionHeaderOffset, perm, refused>>,
         pc \notin {"stack", "spin", "section write"},
         pc' \notin {"section write", "header write"}
  PROVE  /\ StackWritable' /\ DataDone' /\ NoExecFirst'
         /\ AlignedSoFar' /\ NeverWritableAndExecutable'
<1>1. StackWritable'
  BY DEF IInv, StackWritable, StackPages
<1>2. DataDone'
  BY DEF IInv, DataDone, DataIs, Executable, PagesAt
<1>3. NoExecFirst'
  BY DEF NoExecFirst
<1>4. AlignedSoFar'
  BY DEF IInv, AlignedSoFar, AlignedIs, SoFar, Required, Mapped, StackPages, PagesAt,
         NumberOfSections
<1>5. NeverWritableAndExecutable'
  BY DEF IInv, NeverWritableAndExecutable
<1> QED  BY <1>1, <1>2, <1>3, <1>4, <1>5

\* The checks keep the invariant.
LEMMA ChecksInv ==
  ASSUME IInv, Checks
  PROVE  IInv'
<1>1. /\ pc \in Early
      /\ pc' \in Early \cup {"sections", "finish"}
      /\ pc' = "sections" => ImageBase' = LOADED_BASE
      /\ ImageBase' \in Int
      /\ bfv' \in {"unset", "volume", "unknown"}
      /\ UNCHANGED <<image, Index, SectionHeaderOffset, perm, refused, gSpst, heap>>
  BY ChecksChange
<1>2. Index = 0 /\ SectionHeaderOffset = 0 /\ ~gSpst
  BY <1>1 DEF IInv, Progress, Early, Late
<1>3. TypeOK'
  <2>1. (refused \in BOOLEAN /\ gSpst \in BOOLEAN /\ heap \in BOOLEAN)'
    BY <1>1, Zenon DEF IInv, TypeOK
  <2>2. pc' \in Steps
    BY <1>1 DEF Steps, Ends, Early
  <2> QED  BY <1>1, <2>1, <2>2 DEF IInv, TypeOK
<1>4. Progress'
  BY <1>1, <1>2 DEF Progress, Early, Late
<1>5. OffsetStopsAtEmpty'
  BY <1>1, <1>2 DEF OffsetStopsAtEmpty
<1>6. pc \notin {"stack", "spin", "section write"} /\ pc' \notin {"section write", "header write"}
  BY <1>1 DEF Early
<1>7. /\ StackWritable' /\ DataDone' /\ NoExecFirst'
      /\ AlignedSoFar' /\ NeverWritableAndExecutable'
  BY <1>1, <1>6, PermissionsKeep
<1>8. image' \in Images
  BY <1>1 DEF IInv
<1> QED  BY <1>3, <1>4, <1>5, <1>7, <1>8 DEF IInv

-----------------------------------------------------------------------------
(***************************************************************************)
(* The loop over the sections.                                             *)
(***************************************************************************)

\* Inside the loop the section looked at exists and its pages are the ones that change.
LEMMA LoopSection ==
  ASSUME IInv, ImageBase = LOADED_BASE, Index < NumberOfSections
  PROVE  /\ SectionHeaderOffset \in Nat /\ Index \in Nat /\ NumberOfSections \in Nat
         /\ SectionHeaderOffset <= Index
         /\ SectionHeaderOffset + 1 \in 1 .. NumberOfSections
         /\ SectionHeader = image.sections[SectionHeaderOffset + 1]
         /\ SectionHeader.Characteristics \subseteq {"execute", "write"}
         /\ PagesOf(SectionBase, SectionHeader.VirtualSize) = PagesAt(SectionHeaderOffset + 1)
         /\ SectionHeader.VirtualSize # 0 => SectionHeaderOffset = Index
<1>1. image \in Images /\ Len(image.sections) \in Nat
  BY SectionsOfImages DEF IInv
<1>2. Index \in 0 .. Len(image.sections) /\ SectionHeaderOffset \in 0 .. Index
  BY DEF IInv, TypeOK
<1>3. /\ SectionHeaderOffset \in Nat /\ Index \in Nat /\ NumberOfSections \in Nat
      /\ SectionHeaderOffset <= Index
      /\ SectionHeaderOffset + 1 \in 1 .. NumberOfSections
  BY <1>1, <1>2 DEF NumberOfSections
<1>4. SectionHeader = image.sections[SectionHeaderOffset + 1]
  BY DEF SectionHeader
<1>5. SectionHeader.Characteristics \subseteq {"execute", "write"}
  BY <1>1, <1>3, <1>4, SectionsOfImages DEF NumberOfSections
<1>6. PagesOf(SectionBase, SectionHeader.VirtualSize) = PagesAt(SectionHeaderOffset + 1)
  BY <1>4 DEF SectionBase, PagesAt, ImagePages
<1>7. SectionHeader.VirtualSize # 0 => SectionHeaderOffset = Index
  BY DEF IInv, OffsetStopsAtEmpty
<1> QED  BY <1>3, <1>4, <1>5, <1>6, <1>7

\* The other sections of a page-aligned image have other pages.
LEMMA OtherSections ==
  ASSUME IInv, image.aligned, NEW i \in 1 .. NumberOfSections
  PROVE  /\ FirstPages \cap PagesAt(i) = {}
         /\ \A j \in 1 .. NumberOfSections : i # j => PagesAt(i) \cap PagesAt(j) = {}
<1>1. image \in Images
  BY DEF IInv
<1> QED  BY <1>1, AlignedApart DEF NumberOfSections, PagesAt, FirstPages

\* An empty section is skipped.
LEMMA SkipInv ==
  ASSUME IInv, SkipSection
  PROVE  IInv'
<1>1. /\ pc = "sections" /\ Index < NumberOfSections /\ SectionHeader.VirtualSize = 0
      /\ Index' = Index + 1
      /\ UNCHANGED <<pc, bfv, image, ImageBase, SectionHeaderOffset, perm, refused, gSpst, heap>>
  BY DEF SkipSection, checked
<1>2. ImageBase = LOADED_BASE
  BY <1>1 DEF IInv, Progress
<1>3. /\ SectionHeaderOffset \in Nat /\ Index \in Nat /\ NumberOfSections \in Nat
      /\ SectionHeaderOffset <= Index
  BY <1>1, <1>2, LoopSection
<1>4. TypeOK'
  <2>1. Index' \in 0 .. Len(image'.sections) /\ SectionHeaderOffset' \in 0 .. Index'
    BY <1>1, <1>3 DEF NumberOfSections
  <2> QED  BY <1>1, <2>1, Zenon DEF IInv, TypeOK
<1>5. Progress'
  BY <1>1, <1>2 DEF IInv, Progress, Early, Late
<1>6. OffsetStopsAtEmpty'
  <2>1. SectionHeaderOffset' < Index'
    BY <1>1, <1>3
  <2>2. SectionHeader'.VirtualSize = 0
    BY <1>1 DEF SectionHeader
  <2> QED  BY <2>1, <2>2 DEF OffsetStopsAtEmpty
<1>7. /\ StackWritable' /\ DataDone' /\ NoExecFirst'
      /\ AlignedSoFar' /\ NeverWritableAndExecutable'
  BY <1>1, PermissionsKeep
<1>8. image' \in Images
  BY <1>1 DEF IInv
<1> QED  BY <1>4, <1>5, <1>6, <1>7, <1>8 DEF IInv

\* A step that is done with a section that is not empty, and has left its pages as its
\* header asks and all others alone.
FinishesSection ==
  /\ ImageBase = LOADED_BASE /\ Index < NumberOfSections /\ SectionHeader.VirtualSize # 0
  /\ pc = "sections" \/ pc = "section write"
  /\ NextSection
  /\ pc' = "sections"
  /\ UNCHANGED <<bfv, image, ImageBase, gSpst, heap>>
  /\ perm' \in [Pages -> Permissions]
  /\ refused' \in BOOLEAN
  /\ ~refused' =>
       /\ ~refused /\ Tightens
       /\ \A p \in Pages : p \notin PagesAt(SectionHeaderOffset + 1) => perm'[p] = perm[p]
       /\ "execute" \notin SectionHeader.Characteristics =>
            \A p \in Pages : p \in PagesAt(SectionHeaderOffset + 1) =>
              "execute" \notin perm'[p] /\ SectionHeader.Characteristics \subseteq perm'[p]
       /\ image.aligned =>
            \A p \in Pages \ StackPages :
              p \in PagesAt(SectionHeaderOffset + 1) => perm'[p] = Required(SectionHeader)
       /\ NeverWritableAndExecutable'

\* It keeps the invariant.
LEMMA SectionDone ==
  ASSUME IInv, FinishesSection
  PROVE  IInv'
<1> DEFINE o == SectionHeaderOffset
<1>1. /\ o \in Nat /\ Index \in Nat /\ NumberOfSections \in Nat
      /\ o + 1 \in 1 .. NumberOfSections
      /\ SectionHeader = image.sections[o + 1]
      /\ o = Index
  BY LoopSection DEF FinishesSection
<1>2. /\ Index' = Index + 1 /\ SectionHeaderOffset' = o + 1
      /\ image' = image
      /\ pc' = "sections"
      /\ pc \notin {"stack", "spin"}
      /\ perm' \in [Pages -> Permissions]
  BY DEF FinishesSection, NextSection
<1>3. TypeOK'
  <2>1. Index' \in 0 .. Len(image'.sections) /\ SectionHeaderOffset' \in 0 .. Index'
    BY <1>1, <1>2 DEF NumberOfSections
  <2>2. pc' \in Steps
    BY <1>2 DEF Steps
  <2>3. (refused \in BOOLEAN /\ gSpst \in BOOLEAN /\ heap \in BOOLEAN)'
    BY Zenon DEF IInv, TypeOK, FinishesSection
  <2> QED  BY <2>1, <2>2, <2>3 DEF IInv, TypeOK, FinishesSection
<1>4. Progress'
  <2>1. ~gSpst'
    BY DEF IInv, Progress, Late, FinishesSection
  <2> QED  BY <1>2, <2>1 DEF Progress, Early, FinishesSection
<1>5. OffsetStopsAtEmpty'
  BY <1>1, <1>2 DEF OffsetStopsAtEmpty
<1>6. ~refused' => ~refused /\ Tightens
  BY DEF FinishesSection
<1>7. /\ StackWritable'
      /\ \A i \in 1 .. NumberOfSections : ~refused' /\ DataIs(i) => DataIs(i)'
  BY <1>2, <1>6, TightensKeeps
<1>8. DataDone'
  <2> SUFFICES ASSUME ~refused', NEW i \in 1 .. (o + 1) PROVE DataIs(i)'
    BY <1>2 DEF DataDone
  <2>1. i \in 1 .. NumberOfSections
    BY <1>1
  <2>2. CASE i = o + 1
    <3>1. ASSUME ~Executable(i), NEW p \in Pages, p \in PagesAt(i)
          PROVE  "execute" \notin perm'[p] /\ image.sections[i].Characteristics \subseteq perm'[p]
      BY <1>1, <2>2, <3>1 DEF FinishesSection, Executable
    <3> QED  BY <1>2, <3>1 DEF DataIs, Executable, PagesAt
  <2>3. CASE i # o + 1
    <3>1. i \in 1 .. o
      BY <1>1, <2>3
    <3>2. DataIs(i)
      BY <1>6, <3>1 DEF IInv, DataDone
    <3> QED  BY <1>7, <2>1, <3>2
  <2> QED  BY <2>2, <2>3
<1>9. NoExecFirst'
  BY <1>2 DEF NoExecFirst
<1>10. AlignedSoFar'
  <2> SUFFICES ASSUME ~refused', image.aligned, NEW i \in 1 .. NumberOfSections
               PROVE  AlignedIs(i)'
    BY <1>2 DEF AlignedSoFar, NumberOfSections
  <2>1. StackPages' = StackPages /\ PagesAt(i)' = PagesAt(i)
    BY <1>2 DEF StackPages, PagesAt
  <2>2. CASE i = o + 1
    <3>1. i <= SectionHeaderOffset'
      BY <1>1, <1>2, <2>2
    <3>2. SoFar(i)' = Required(image.sections[i])
      BY <1>2, <3>1 DEF SoFar, Required
    <3>3. \A p \in Pages \ StackPages : p \in PagesAt(i) => perm'[p] = Required(image.sections[i])
      BY <1>1, <2>2 DEF FinishesSection
    <3> QED  BY <2>1, <3>2, <3>3 DEF AlignedIs
  <2>3. CASE i # o + 1
    <3>1. PagesAt(i) \cap PagesAt(o + 1) = {}
      BY <1>1, <2>3, OtherSections
    <3>2. \A p \in Pages : p \in PagesAt(i) => perm'[p] = perm[p]
      BY <3>1 DEF FinishesSection
    <3>3. AlignedIs(i)
      BY <1>6 DEF IInv, AlignedSoFar
    <3>4. SoFar(i)' = SoFar(i)
      <4>1. i <= SectionHeaderOffset' <=> i <= o
        BY <1>1, <1>2, <2>3
      <4> QED  BY <1>2, <2>3, <4>1 DEF SoFar, Required, Mapped
    <3> QED  BY <2>1, <3>2, <3>3, <3>4 DEF AlignedIs
  <2> QED  BY <2>2, <2>3
<1>11. NeverWritableAndExecutable'
  <2>1. ~refused' => NeverWritableAndExecutable'
    BY DEF FinishesSection
  <2> QED  BY <2>1 DEF NeverWritableAndExecutable
<1>12. image' \in Images
  BY <1>2 DEF IInv
<1> QED  BY <1>3, <1>4, <1>5, <1>7, <1>8, <1>9, <1>10, <1>11, <1>12 DEF IInv

\* Code keeps its permissions.
LEMMA IgnoreInv ==
  ASSUME IInv, IgnoreSection
  PROVE  IInv'
<1> DEFINE o == SectionHeaderOffset
<1>1. /\ pc = "sections" /\ Index < NumberOfSections
      /\ SectionHeader.VirtualSize # 0 /\ "execute" \in SectionHeader.Characteristics
      /\ NextSection
      /\ UNCHANGED <<pc, bfv, image, ImageBase, perm, refused, gSpst, heap>>
  BY DEF IgnoreSection, checked
<1>2. ImageBase = LOADED_BASE
  BY <1>1 DEF IInv, Progress
<1>3. /\ o \in Nat /\ o + 1 \in 1 .. NumberOfSections
      /\ SectionHeader = image.sections[o + 1]
  BY <1>1, <1>2, LoopSection
<1>4. perm' \in [Pages -> Permissions] /\ refused' \in BOOLEAN
  BY <1>1, Zenon DEF IInv, TypeOK
<1>5. Tightens /\ (~refused' => ~refused)
  BY <1>1 DEF Tightens
<1>6. NeverWritableAndExecutable'
  BY <1>1 DEF IInv, NeverWritableAndExecutable
<1>7. ~refused' /\ image.aligned =>
        \A p \in Pages \ StackPages : p \in PagesAt(o + 1) => perm'[p] = Required(SectionHeader)
  <2>1. Required(SectionHeader) = Mapped
    BY <1>1 DEF Required, Mapped
  <2>2. ~(o + 1 <= o)
    BY <1>3
  <2>3. SoFar(o + 1) = Mapped
    BY <1>1, <2>2 DEF SoFar
  <2>4. ~refused /\ image.aligned => AlignedIs(o + 1)
    BY <1>3 DEF IInv, AlignedSoFar
  <2> QED  BY <1>1, <2>1, <2>3, <2>4 DEF AlignedIs
<1>8. FinishesSection
  BY <1>1, <1>2, <1>4, <1>5, <1>6, <1>7 DEF FinishesSection
<1> QED  BY <1>8, SectionDone

\* The first call for a data section (TextUpdater).
LEMMA TextInv ==
  ASSUME IInv, TextUpdater
  PROVE  IInv'
<1> DEFINE o == SectionHeaderOffset
           R == PagesAt(o + 1)
<1>1. /\ pc = "sections" /\ Index < NumberOfSections
      /\ SectionHeader.VirtualSize # 0 /\ "execute" \notin SectionHeader.Characteristics
      /\ ArmSetMemoryRegionNoExec(SectionBase, SectionHeader.VirtualSize)
      /\ UNCHANGED <<bfv, image, ImageBase, gSpst, heap>>
      /\ IF "write" \in SectionHeader.Characteristics
         THEN pc' = "section write" /\ UNCHANGED <<Index, SectionHeaderOffset>>
         ELSE NextSection /\ pc' = pc
  BY DEF TextUpdater, checked, loop
<1>2. ImageBase = LOADED_BASE
  BY <1>1 DEF IInv, Progress
<1>3. /\ o \in Nat /\ o + 1 \in 1 .. NumberOfSections /\ NumberOfSections \in Nat
      /\ SectionHeader = image.sections[o + 1]
      /\ SectionHeader.Characteristics \subseteq {"execute", "write"}
      /\ PagesOf(SectionBase, SectionHeader.VirtualSize) = R
  BY <1>1, <1>2, LoopSection
<1> DEFINE base == SectionBase
           size == SectionHeader.VirtualSize
<1>9. ArmSetMemoryRegionNoExec(base, size) /\ PagesOf(base, size) = R
  BY <1>1, <1>3
<1> HIDE DEF R, base, size
<1>4. /\ perm' \in [Pages -> Permissions]
      /\ refused' \in BOOLEAN
      /\ ~refused' => /\ ~refused /\ Tightens
                      /\ \A p \in Pages : p \notin R => perm'[p] = perm[p]
  BY <1>9, CallEffects
<1>5. ~refused' => /\ \A p \in Pages : p \in R => perm'[p] = perm[p] \ {"execute"}
                   /\ NeverWritableAndExecutable'
  BY <1>9, NoExecEffect
<1>6. ASSUME ~refused', image.aligned, NEW p \in Pages \ StackPages, p \in R
      PROVE  perm'[p] = {}
  <2>1. ~(o + 1 <= o)
    BY <1>3
  <2>2. SoFar(o + 1) = {"execute"}
    BY <1>1, <2>1 DEF SoFar, Mapped
  <2>3. AlignedIs(o + 1)
    BY <1>3, <1>4, <1>6 DEF IInv, AlignedSoFar
  <2>4. perm[p] = {"execute"}
    BY <1>6, <2>2, <2>3 DEF AlignedIs, R
  <2> QED  BY <1>5, <1>6, <2>4
<1>7. CASE "write" \notin SectionHeader.Characteristics
  <2>1. SectionHeader.Characteristics = {} /\ Required(SectionHeader) = {}
    BY <1>1, <1>3, <1>7 DEF Required
  <2>2. ~refused' => \A p \in Pages : p \in R =>
          "execute" \notin perm'[p] /\ SectionHeader.Characteristics \subseteq perm'[p]
    BY <1>5, <2>1
  <2>3. ~refused' /\ image.aligned =>
          \A p \in Pages \ StackPages : p \in R => perm'[p] = Required(SectionHeader)
    BY <1>6, <2>1
  <2>4. FinishesSection
    BY <1>1, <1>2, <1>4, <1>5, <1>7, <2>2, <2>3 DEF FinishesSection, R
  <2> QED  BY <2>4, SectionDone
<1>8. CASE "write" \in SectionHeader.Characteristics
  <2>1. /\ pc' = "section write" /\ Index' = Index /\ SectionHeaderOffset' = o
        /\ image' = image /\ SectionHeader' = SectionHeader
    BY <1>1, <1>8 DEF SectionHeader
  <2>2. SectionHeader.Characteristics = {"write"}
    BY <1>1, <1>3, <1>8
  <2>3. TypeOK'
    <3>1. pc' \in Steps
      BY <2>1 DEF Steps
    <3>2. (refused \in BOOLEAN /\ gSpst \in BOOLEAN /\ heap \in BOOLEAN)'
      BY <1>1, <1>4, Zenon DEF IInv, TypeOK
    <3> QED  BY <1>1, <1>4, <2>1, <3>1, <3>2 DEF IInv, TypeOK
  <2>4. Progress'
    <3>1. ~gSpst'
      BY <1>1 DEF IInv, Progress, Late
    <3>2. NumberOfSections' = NumberOfSections
      BY <2>1 DEF NumberOfSections
    <3> QED  BY <1>1, <1>2, <2>1, <2>2, <3>1, <3>2 DEF Progress, Early
  <2>5. OffsetStopsAtEmpty'
    BY <2>1 DEF IInv, OffsetStopsAtEmpty
  <2>6. /\ StackWritable'
        /\ \A i \in 1 .. NumberOfSections : ~refused' /\ DataIs(i) => DataIs(i)'
    <3>1. pc \notin {"stack", "spin"}
      BY <1>1
    <3> QED  BY <1>4, <2>1, <3>1, TightensKeeps
  <2>7. DataDone'
    <3> SUFFICES ASSUME ~refused', NEW i \in 1 .. o PROVE DataIs(i)'
      BY <2>1 DEF DataDone
    <3>1. i \in 1 .. NumberOfSections
      BY <1>3
    <3>2. DataIs(i)
      BY <1>4 DEF IInv, DataDone
    <3> QED  BY <2>6, <3>1, <3>2
  <2>8. NoExecFirst'
    <3>1. ~refused' => \A p \in Pages : p \in R => "execute" \notin perm'[p]
      BY <1>5
    <3>2. PagesAt(SectionHeaderOffset + 1)' = R
      BY <2>1 DEF PagesAt, R
    <3> QED  BY <2>1, <3>1, <3>2 DEF NoExecFirst
  <2>9. AlignedSoFar'
    <3> SUFFICES ASSUME ~refused', image.aligned, NEW i \in 1 .. NumberOfSections
                 PROVE  AlignedIs(i)'
      BY <2>1 DEF AlignedSoFar, NumberOfSections
    <3>1. StackPages' = StackPages /\ PagesAt(i)' = PagesAt(i)
      BY <2>1 DEF StackPages, PagesAt
    <3>2. CASE i = o + 1
      <4>1. ~(i <= SectionHeaderOffset')
        <5>1. o \in Nat /\ SectionHeaderOffset' = o
          BY <1>3, <2>1
        <5> HIDE DEF o
        <5> QED  BY <3>2, <5>1
      <4>2. SoFar(i)' = {}
        BY <2>1, <3>2, <4>1 DEF SoFar
      <4> QED  BY <1>6, <3>1, <3>2, <4>2 DEF AlignedIs, R
    <3>3. CASE i # o + 1
      <4>1. PagesAt(i) \cap R = {}
        BY <1>3, <3>3, OtherSections DEF R
      <4>2. \A p \in Pages : p \in PagesAt(i) => perm'[p] = perm[p]
        BY <1>4, <4>1
      <4>3. AlignedIs(i)
        BY <1>4 DEF IInv, AlignedSoFar
      <4>4. SoFar(i)' = SoFar(i)
        BY <2>1, <3>3 DEF SoFar, Required, Mapped
      <4> QED  BY <3>1, <4>2, <4>3, <4>4 DEF AlignedIs
    <3> QED  BY <3>2, <3>3
  <2>10. NeverWritableAndExecutable'
    BY <1>5 DEF NeverWritableAndExecutable
  <2>11. image' \in Images
    BY <2>1 DEF IInv
  <2> QED  BY <2>3, <2>4, <2>5, <2>6, <2>7, <2>8, <2>9, <2>10, <2>11 DEF IInv
<1> QED  BY <1>7, <1>8

\* The second one (ReadWriteUpdater).
LEMMA WriteInv ==
  ASSUME IInv, ReadWriteUpdater
  PROVE  IInv'
<1> DEFINE R == PagesAt(SectionHeaderOffset + 1)
<1>1. /\ pc = "section write" /\ pc' = "sections"
      /\ ArmClearMemoryRegionReadOnly(SectionBase, SectionHeader.VirtualSize)
      /\ NextSection
      /\ UNCHANGED <<bfv, image, ImageBase, gSpst, heap>>
  BY DEF ReadWriteUpdater, checked
<1>2. /\ ImageBase = LOADED_BASE /\ Index < NumberOfSections
      /\ SectionHeader.VirtualSize # 0 /\ SectionHeader.Characteristics = {"write"}
  BY <1>1 DEF IInv, Progress
<1>3. PagesOf(SectionBase, SectionHeader.VirtualSize) = R
  BY <1>2, LoopSection
<1> DEFINE base == SectionBase
           size == SectionHeader.VirtualSize
<1>10. ArmClearMemoryRegionReadOnly(base, size) /\ PagesOf(base, size) = R
  BY <1>1, <1>3
<1> HIDE DEF R, base, size
<1>4. /\ perm' \in [Pages -> Permissions]
      /\ refused' \in BOOLEAN
      /\ ~refused' => /\ ~refused /\ Tightens
                      /\ \A p \in Pages : p \notin R => perm'[p] = perm[p]
  BY <1>10, CallEffects
<1>5. ~refused' => \A p \in Pages : p \in R => "execute" \notin perm[p]
  BY <1>1, <1>4 DEF IInv, NoExecFirst, R
<1>6. ~refused' => /\ \A p \in Pages : p \in R => perm'[p] = {"write"}
                   /\ NeverWritableAndExecutable'
  BY <1>5, <1>10, WriteEffect
<1>7. Required(SectionHeader) = {"write"}
  BY <1>2 DEF Required
<1>8. ~refused' =>
        /\ \A p \in Pages : p \in R =>
             "execute" \notin perm'[p] /\ SectionHeader.Characteristics \subseteq perm'[p]
        /\ \A p \in Pages \ StackPages : p \in R => perm'[p] = Required(SectionHeader)
  BY <1>2, <1>6, <1>7
<1>9. FinishesSection
  BY <1>1, <1>2, <1>4, <1>6, <1>8 DEF FinishesSection, R
<1> QED  BY <1>9, SectionDone

-----------------------------------------------------------------------------
(***************************************************************************)
(* After the loop.                                                         *)
(***************************************************************************)

\* The services table is set when the loop is over.
LEMMA TableInv ==
  ASSUME IInv, SetServicesTable
  PROVE  IInv'
<1>1. /\ pc = "sections" /\ Index = NumberOfSections /\ gSpst' = TRUE
      /\ pc' \in {"header", "constructors"}
      /\ UNCHANGED <<bfv, image, ImageBase, Index, SectionHeaderOffset, perm, refused, heap>>
  BY DEF SetServicesTable, checked, loop
<1>2. TypeOK'
  <2>1. pc' \in Steps
    BY <1>1 DEF Steps
  <2>2. (refused \in BOOLEAN /\ gSpst \in BOOLEAN /\ heap \in BOOLEAN)'
    BY <1>1, Zenon DEF IInv, TypeOK
  <2> QED  BY <1>1, <2>1, <2>2 DEF IInv, TypeOK
<1>3. Progress'
  BY <1>1 DEF IInv, Progress, Early, Late, NumberOfSections
<1>4. OffsetStopsAtEmpty'
  BY <1>1 DEF IInv, OffsetStopsAtEmpty, SectionHeader
<1>5. /\ StackWritable' /\ DataDone' /\ NoExecFirst'
      /\ AlignedSoFar' /\ NeverWritableAndExecutable'
  BY <1>1, PermissionsKeep
<1>6. image' \in Images
  BY <1>1 DEF IInv
<1> QED  BY <1>2, <1>3, <1>4, <1>5, <1>6 DEF IInv

\* The constructor of the memory allocation library.
LEMMA ConstructorInv ==
  ASSUME IInv, MemoryAllocationLibConstructor
  PROVE  IInv'
<1>1. /\ pc = "constructors" /\ heap' \in BOOLEAN /\ pc' = "core"
      /\ UNCHANGED <<bfv, image, ImageBase, Index, SectionHeaderOffset, perm, refused, gSpst>>
  BY DEF MemoryAllocationLibConstructor, checked, loop
<1>2. TypeOK'
  <2>1. pc' \in Steps
    BY <1>1 DEF Steps, Ends
  <2>2. (refused \in BOOLEAN /\ gSpst \in BOOLEAN /\ heap \in BOOLEAN)'
    BY <1>1, Zenon DEF IInv, TypeOK
  <2> QED  BY <1>1, <2>1, <2>2 DEF IInv, TypeOK
<1>3. Progress'
  BY <1>1 DEF IInv, Progress, Early, Late, NumberOfSections
<1>4. OffsetStopsAtEmpty'
  BY <1>1 DEF IInv, OffsetStopsAtEmpty, SectionHeader
<1>5. /\ StackWritable' /\ DataDone' /\ NoExecFirst'
      /\ AlignedSoFar' /\ NeverWritableAndExecutable'
  BY <1>1, PermissionsKeep
<1>6. image' \in Images
  BY <1>1 DEF IInv
<1> QED  BY <1>2, <1>3, <1>4, <1>5, <1>6 DEF IInv

\* The two calls for the page of the headers, which no section of a page-aligned image
\* shares.
LEMMA HeaderInv ==
  ASSUME IInv, HeaderNoExec \/ HeaderWritable
  PROVE  IInv'
<1>1. /\ \/ pc = "header" /\ pc' = "header write"
         \/ pc = "header write" /\ pc' = "constructors"
      /\ UNCHANGED <<bfv, image, ImageBase, Index, SectionHeaderOffset, gSpst, heap>>
  BY DEF HeaderNoExec, HeaderWritable, checked, loop
<1>2. ImageBase = LOADED_BASE /\ gSpst
  BY <1>1 DEF IInv, Progress
<1>3. /\ perm' \in [Pages -> Permissions]
      /\ refused' \in BOOLEAN
      /\ ~refused' => /\ ~refused /\ Tightens
                      /\ \A p \in Pages : p \notin FirstPages => perm'[p] = perm[p]
  BY <1>2, CallEffects DEF HeaderNoExec, HeaderWritable, FirstPages
<1>4. TypeOK'
  <2>1. pc' \in Steps
    BY <1>1 DEF Steps
  <2>2. (refused \in BOOLEAN /\ gSpst \in BOOLEAN /\ heap \in BOOLEAN)'
    BY <1>1, <1>3, Zenon DEF IInv, TypeOK
  <2> QED  BY <1>1, <1>3, <2>1, <2>2 DEF IInv, TypeOK
<1>5. Progress'
  BY <1>1 DEF IInv, Progress, Early, Late, NumberOfSections
<1>6. OffsetStopsAtEmpty'
  BY <1>1 DEF IInv, OffsetStopsAtEmpty, SectionHeader
<1>7. /\ StackWritable'
      /\ \A i \in 1 .. NumberOfSections : ~refused' /\ DataIs(i) => DataIs(i)'
  <2>1. pc \notin {"stack", "spin"} /\ image' = image
    BY <1>1
  <2> QED  BY <1>3, <2>1, TightensKeeps
<1>8. DataDone'
  <2> SUFFICES ASSUME ~refused', NEW i \in 1 .. SectionHeaderOffset PROVE DataIs(i)'
    BY <1>1 DEF DataDone
  <2>1. i \in 1 .. NumberOfSections
    <3>1. Index \in 0 .. NumberOfSections /\ SectionHeaderOffset \in 0 .. Index
      BY DEF IInv, TypeOK, NumberOfSections
    <3>2. NumberOfSections \in Nat
      BY SectionsOfImages DEF IInv, NumberOfSections
    <3> QED  BY <3>1, <3>2
  <2>2. DataIs(i)
    BY <1>3 DEF IInv, DataDone
  <2> QED  BY <1>7, <2>1, <2>2
<1>9. AlignedSoFar'
  <2> SUFFICES ASSUME ~refused', image.aligned, NEW i \in 1 .. NumberOfSections
               PROVE  AlignedIs(i)'
    BY <1>1 DEF AlignedSoFar, NumberOfSections
  <2>1. StackPages' = StackPages /\ PagesAt(i)' = PagesAt(i)
    BY <1>1 DEF StackPages, PagesAt
  <2>2. FirstPages \cap PagesAt(i) = {}
    BY OtherSections
  <2>3. \A p \in Pages : p \in PagesAt(i) => perm'[p] = perm[p]
    BY <1>3, <2>2
  <2>4. AlignedIs(i)
    BY <1>3 DEF IInv, AlignedSoFar
  <2>5. SoFar(i)' = SoFar(i)
    BY <1>1 DEF SoFar, Required, Mapped
  <2> QED  BY <2>1, <2>3, <2>4, <2>5 DEF AlignedIs
<1>10. NoExecFirst' /\ NeverWritableAndExecutable'
  <2>1. CASE HeaderNoExec
    <3>1. pc' = "header write" /\ ArmSetMemoryRegionNoExec(LOADED_BASE, EFI_PAGE_SIZE)
      BY <1>2, <2>1 DEF HeaderNoExec
    <3>2. ~refused' =>
            /\ \A p \in Pages : p \in FirstPages => perm'[p] = perm[p] \ {"execute"}
            /\ NeverWritableAndExecutable'
      BY <3>1, NoExecEffect DEF FirstPages
    <3>3. ~refused' => \A p \in Pages : p \in FirstPages => "execute" \notin perm'[p]
      BY <3>2
    <3>4. NoExecFirst'
      BY <3>1, <3>3 DEF NoExecFirst, FirstPages
    <3>5. NeverWritableAndExecutable'
      BY <3>2 DEF NeverWritableAndExecutable
    <3> QED  BY <3>4, <3>5
  <2>2. CASE HeaderWritable
    <3>1. /\ pc = "header write" /\ pc' = "constructors"
          /\ ArmClearMemoryRegionReadOnly(LOADED_BASE, EFI_PAGE_SIZE)
      BY <1>2, <2>2 DEF HeaderWritable
    <3>2. ~refused' => \A p \in Pages : p \in FirstPages => "execute" \notin perm[p]
      BY <1>3, <3>1 DEF IInv, NoExecFirst
    <3>3. ~refused' => NeverWritableAndExecutable'
      BY <3>1, <3>2, WriteEffect DEF FirstPages
    <3>4. NoExecFirst'
      BY <3>1 DEF NoExecFirst
    <3>5. NeverWritableAndExecutable'
      BY <3>3 DEF NeverWritableAndExecutable
    <3> QED  BY <3>4, <3>5
  <2> QED  BY <2>1, <2>2
<1>11. image' \in Images
  BY <1>1 DEF IInv
<1> QED  BY <1>4, <1>5, <1>6, <1>7, <1>8, <1>9, <1>10, <1>11 DEF IInv

-----------------------------------------------------------------------------
\* Every step keeps the invariant.
LEMMA NextInv == IInv /\ [Next]_vars => IInv'
<1> SUFFICES ASSUME IInv, [Next]_vars PROVE IInv'
  OBVIOUS
<1>1. CASE _ModuleEntryPoint
  BY <1>1, StackInv
<1>2. CASE Checks
  BY <1>2, ChecksInv
<1>3. CASE SkipSection
  BY <1>3, SkipInv
<1>4. CASE IgnoreSection
  BY <1>4, IgnoreInv
<1>5. CASE TextUpdater
  BY <1>5, TextInv
<1>6. CASE ReadWriteUpdater
  BY <1>6, WriteInv
<1>7. CASE SetServicesTable
  BY <1>7, TableInv
<1>8. CASE HeaderNoExec \/ HeaderWritable
  BY <1>8, HeaderInv
<1>9. CASE MemoryAllocationLibConstructor
  BY <1>9, ConstructorInv
<1>10. CASE UNCHANGED vars
  <2>1. UNCHANGED <<pc, bfv, image, ImageBase, Index, SectionHeaderOffset, perm, refused, gSpst, heap>>
    BY <1>10 DEF vars
  <2>2. TypeOK'
    BY <2>1, Zenon DEF IInv, TypeOK
  <2>3. Progress' /\ OffsetStopsAtEmpty' /\ image' \in Images
    BY <2>1 DEF IInv, Progress, OffsetStopsAtEmpty, NumberOfSections, SectionHeader
  <2>4. StackWritable' /\ DataDone'
    BY <2>1 DEF IInv, StackWritable, StackPages, DataDone, DataIs, Executable, PagesAt
  <2>5. NoExecFirst'
    BY <2>1 DEF IInv, NoExecFirst, PagesAt
  <2>6. AlignedSoFar'
    BY <2>1 DEF IInv, AlignedSoFar, AlignedIs, SoFar, Required, Mapped, StackPages, PagesAt,
                NumberOfSections
  <2>7. NeverWritableAndExecutable'
    BY <2>1 DEF IInv, NeverWritableAndExecutable
  <2> QED  BY <2>2, <2>3, <2>4, <2>5, <2>6, <2>7 DEF IInv
<1> QED
  BY <1>1, <1>2, <1>3, <1>4, <1>5, <1>6, <1>7, <1>8, <1>9, <1>10 DEF Next, Checks

\* The invariant holds in every reachable state.
LEMMA Invariance == Spec => []IInv
  BY InitInv, NextInv, PTL DEF Spec

\* The offset of the section headers never runs ahead of the number of sections read, and
\* the other state keeps its type, for images of any number of sections.
THEOREM TypeCorrect == Spec => []TypeOK
<1>1. IInv => TypeOK
  BY DEF IInv
<1> QED  BY <1>1, Invariance, PTL

\* No page is writable and executable at any moment of the boot, whatever sections share
\* it, unless the SPMC has refused a call of ArmSetMemoryRegionNoExec or
\* ArmClearMemoryRegionReadOnly.
THEOREM WriteXorExecute == Spec => []NeverWritableAndExecutable
<1>1. IInv => NeverWritableAndExecutable
  BY DEF IInv
<1> QED  BY <1>1, Invariance, PTL

\* When mSpst and gSpst are written, the stack is writable and not executable, every data
\* section up to the first empty section is not executable and writable if its header asks
\* for it, and in a page-aligned image every section up to there has, outside the stack,
\* the permissions its header asks for.
THEOREM SectionsCorrect == Spec => []SectionsProtected
<1>1. IInv => SectionsProtected
  <2> SUFFICES ASSUME IInv, gSpst, ~refused PROVE SectionsProtected
    BY DEF SectionsProtected
  <2>1. Index = NumberOfSections /\ pc \in Late
    BY DEF IInv, Progress
  <2>2. \A p \in Pages : p \in StackPages => perm[p] = {"write"}
    BY <2>1 DEF IInv, StackWritable, Late
  <2>3. NumberOfSections \in Nat /\ SectionHeaderOffset \in 0 .. Index
    BY SectionsOfImages DEF IInv, TypeOK, NumberOfSections
  <2>4. ASSUME NEW i \in 1 .. NumberOfSections,
               \A j \in 1 .. i : image.sections[j].VirtualSize # 0
        PROVE  /\ image.aligned => AsItsHeaderAsks(i)
               /\ "execute" \notin image.sections[i].Characteristics =>
                    \A p \in Pages : p \in ImagePages(image.sections[i]) =>
                      /\ "execute" \notin perm[p]
                      /\ image.sections[i].Characteristics \subseteq perm[p]
    <3>1. SectionHeaderOffset < Index => SectionHeaderOffset + 1 > i
      <4>1. SectionHeaderOffset < Index => SectionHeader.VirtualSize = 0
        BY <2>1, <2>3 DEF IInv, OffsetStopsAtEmpty
      <4>2. SectionHeader.VirtualSize = 0 => SectionHeaderOffset + 1 \notin 1 .. i
        BY <2>4 DEF SectionHeader
      <4> QED  BY <2>1, <2>3, <4>1, <4>2
    <3>2. i <= SectionHeaderOffset /\ i \in 1 .. SectionHeaderOffset
      BY <2>1, <2>3, <3>1
    <3>3. SoFar(i) = Required(image.sections[i])
      BY <3>2 DEF SoFar
    <3>4. image.aligned => AsItsHeaderAsks(i)
      BY <3>3 DEF IInv, AlignedSoFar, AlignedIs, AsItsHeaderAsks, PagesAt
    <3>5. DataIs(i)
      BY <3>2 DEF IInv, DataDone
    <3> QED  BY <3>4, <3>5 DEF DataIs, Executable, PagesAt
  <2> QED  BY <2>2, <2>4 DEF SectionsProtected
<1> QED  BY <1>1, Invariance, PTL

ConfinedChange ==
  \A p \in Pages : perm'[p] # perm[p] =>
    \/ p \in StackPages /\ pc = "stack"
    \/ p \in PagesOf(LOADED_BASE, EFI_PAGE_SIZE) /\ gSpst
    \/ \E i \in 1 .. NumberOfSections :
         /\ p \in ImagePages(image.sections[i]) /\ image.sections[i].VirtualSize # 0
         /\ "execute" \notin image.sections[i].Characteristics

\* Boot changes the permissions of no page but those of the stack, at the start, those of
\* the image's data sections and, once globals are written, its first one: the base
\* computed from the address the image was linked for and the headers it has lost is right.
THEOREM ChangesConfined == Spec => OnlyImageDataChanges
<1>1. ASSUME IInv, [Next]_vars PROVE [ConfinedChange]_vars
  <2>1. CASE _ModuleEntryPoint
    <3>1. \A p \in Pages : perm'[p] # perm[p] => p \in StackPages /\ pc = "stack"
      <4>1. perm' = perm \/ perm' = [p \in Pages |-> IF p \in StackPages THEN {"write"} ELSE perm[p]]
        BY <2>1 DEF _ModuleEntryPoint
      <4>2. pc = "stack"
        BY <2>1 DEF _ModuleEntryPoint
      <4> HIDE DEF StackPages
      <4> QED  BY <4>1, <4>2
    <3> QED  BY <3>1 DEF ConfinedChange
  <2>2. CASE TextUpdater \/ ReadWriteUpdater
    <3>1. /\ pc \in {"sections", "section write"} /\ Index < NumberOfSections
          /\ SectionHeader.VirtualSize # 0 /\ "execute" \notin SectionHeader.Characteristics
      BY <1>1, <2>2 DEF TextUpdater, ReadWriteUpdater, IInv, Progress
    <3>2. ImageBase = LOADED_BASE
      BY <1>1, <3>1 DEF IInv, Progress
    <3>3. /\ SectionHeaderOffset + 1 \in 1 .. NumberOfSections
          /\ SectionHeader = image.sections[SectionHeaderOffset + 1]
          /\ PagesOf(SectionBase, SectionHeader.VirtualSize) = PagesAt(SectionHeaderOffset + 1)
      BY <1>1, <3>1, <3>2, LoopSection
    <3>4. \A p \in Pages : perm'[p] # perm[p] => p \in PagesAt(SectionHeaderOffset + 1)
      BY <1>1, <2>2, <3>3, CallEffects DEF TextUpdater, ReadWriteUpdater
    <3> QED  BY <3>1, <3>3, <3>4 DEF ConfinedChange, PagesAt
  <2>3. CASE HeaderNoExec \/ HeaderWritable
    <3>1. pc \in {"header", "header write"}
      BY <2>3 DEF HeaderNoExec, HeaderWritable
    <3>2. ImageBase = LOADED_BASE /\ gSpst
      BY <1>1, <3>1 DEF IInv, Progress
    <3>3. \A p \in Pages : perm'[p] # perm[p] => p \in PagesOf(LOADED_BASE, EFI_PAGE_SIZE)
      BY <1>1, <2>3, <3>2, CallEffects DEF HeaderNoExec, HeaderWritable
    <3> QED  BY <3>2, <3>3 DEF ConfinedChange
  <2>4. CASE Checks
    <3>1. perm' = perm
      BY <1>1, <2>4, ChecksChange
    <3> QED  BY <3>1 DEF ConfinedChange
  <2>5. CASE SkipSection \/ IgnoreSection \/ SetServicesTable \/ MemoryAllocationLibConstructor
    <3>1. perm' = perm
      BY <2>5 DEF SkipSection, IgnoreSection, SetServicesTable, MemoryAllocationLibConstructor
    <3> QED  BY <3>1 DEF ConfinedChange
  <2> QED  BY <1>1, <2>1, <2>2, <2>3, <2>4, <2>5 DEF Next, Checks
<1>2. [ConfinedChange]_vars => [\A p \in Pages : perm'[p] # perm[p] =>
         \/ p \in StackPages /\ pc = "stack"
         \/ p \in PagesOf(LOADED_BASE, EFI_PAGE_SIZE) /\ gSpst
         \/ \E i \in 1 .. NumberOfSections :
              /\ p \in ImagePages(image.sections[i]) /\ image.sections[i].VirtualSize # 0
              /\ "execute" \notin image.sections[i].Characteristics]_vars
  BY DEF ConfinedChange
<1> QED  BY <1>1, <1>2, Invariance, PTL DEF Spec, OnlyImageDataChanges
=============================================================================
