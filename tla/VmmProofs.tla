----------------------------- MODULE VmmProofs -----------------------------
(***************************************************************************)
(* What vmm.c and the page tables of loader.S keep true for every size of  *)
(* a table, every layout in which the tables lie in the low memory, and    *)
(* every machine: the mapping of the tables into themselves stays right    *)
(* while it is used to change them, the TLB never disagrees with them, and *)
(* frames that were handed out are not shared.                             *)
(***************************************************************************)
EXTENDS Vmm, TLAPS

(* The frames are those of Pmm, and so is what is known of them.  Nothing  *)
(* here depends on how wide the lines of its dump are.                     *)
PP == INSTANCE PmmProofs WITH LineWidth <- 1

----------------------------------------------------------------------------
(* Pages and places in tables. *)

LEMMA DivMod ==
    ASSUME NEW b \in Nat \ {0}, NEW q \in Nat, NEW r \in 0..(b - 1)
    PROVE  (q * b + r) \div b = q /\ (q * b + r) % b = r
  OBVIOUS

(* A page is an entry of one table. *)
LEMMA SplitPage ==
    ASSUME NEW v \in Pages
    PROVE  /\ v \in Nat
           /\ v \div Entries \in 0..(Entries - 1)
           /\ v % Entries \in 0..(Entries - 1)
           /\ v = (v \div Entries) * Entries + (v % Entries)
<1>1. Entries \in Nat \ {0} /\ v \in Nat /\ v < Entries * Entries
  BY TableAssumption DEF Pages
<1>2. v % Entries \in 0..(Entries - 1) /\ v = (v \div Entries) * Entries + (v % Entries)
  BY <1>1
<1>3. v \div Entries \in Nat /\ (v \div Entries) * Entries <= v
  BY <1>1
<1>4. v \div Entries < Entries
  BY <1>1, <1>3
<1> QED
  BY <1>1, <1>2, <1>3, <1>4

LEMMA SamePlaceSamePage ==
    ASSUME NEW v \in Pages, NEW w \in Pages,
           v \div Entries = w \div Entries, v % Entries = w % Entries
    PROVE  v = w
  BY SplitPage

(* Every directory entry from LoadDir on has a table of its own, and these *)
(* are neither the directory nor the first table; all lie in low memory.   *)
LEMMA TableFramesApart ==
    /\ Entries \in Nat \ {0} /\ DirFrame \in Nat \ {0} /\ KernelSpace \in 1..(Entries - 3)
    /\ Self = KernelSpace + 1 /\ LoadDir = KernelSpace + 2
    /\ Self \in 0..(Entries - 1) /\ LoadDir \in 0..(Entries - 1)
    /\ FirstTable \in TableFrames /\ DirFrame \in TableFrames /\ FirstTable # DirFrame
    /\ \A d \in LoadDir..(Entries - 1) :
           TableFrame(d) \in TableFrames \ {FirstTable, DirFrame} /\ TableFrame(d) = DirFrame + 1 + (d - LoadDir)
    /\ \A f \in TableFrames : f \in Nat /\ f < P!LowPages
    /\ P!LowPages \in Nat /\ P!LowPages = PP!LowPages
<1>1. /\ Entries \in Nat \ {0} /\ DirFrame \in Nat \ {0} /\ KernelSpace \in 1..(Entries - 3)
      /\ Self = KernelSpace + 1 /\ LoadDir = KernelSpace + 2
  BY TableAssumption DEF Self, LoadDir
<1>2. P!LowPages \in Nat
  BY FrameAssumption DEF P!LowPages, P!SizeAssumption
<1>3. P!LowPages = PP!LowPages
  BY DEF P!LowPages, PP!LowPages
<1>4. TableFrame(Entries - 1) < P!LowPages
  BY LayoutAssumption
<1>5. \A d \in LoadDir..(Entries - 1) : TableFrame(d) = DirFrame + 1 + (d - LoadDir)
  BY DEF TableFrame
<1>6. Entries - 1 \in LoadDir..(Entries - 1) /\ TableFrame(Entries - 1) \in Nat
  BY <1>1, <1>5
<1>7. TableFrames = (DirFrame - 1)..TableFrame(Entries - 1) /\ FirstTable = DirFrame - 1
  BY DEF TableFrames, FirstTable
<1> QED
  BY <1>1, <1>2, <1>3, <1>4, <1>5, <1>6, <1>7

----------------------------------------------------------------------------
(* The tables that never change: the directory, and the first table.       *)

LowTable == [i \in 0..(Entries - 1) |-> IF i < LowMapped THEN Present(i) ELSE Absent]

TablesTyped == tables \in [TableFrames -> [0..(Entries - 1) -> [frame : Nat, present : BOOLEAN]]]

TablesStand ==
    /\ TablesTyped
    /\ cr3 = DirFrame
    /\ tables[DirFrame] = Directory
    /\ tables[FirstTable] = LowTable

(* The frame that the directory gives, and the walk of the MMU.            *)
LEMMA DirectoryEntries ==
    ASSUME NEW d \in 0..(Entries - 1)
    PROVE  /\ d \in {0, KernelSpace} => Directory[d].present /\ Directory[d].frame = FirstTable
           /\ d = Self => Directory[d].present /\ Directory[d].frame = DirFrame
           /\ d >= LoadDir => Directory[d].present /\ Directory[d].frame = TableFrame(d)
           /\ d \notin {0, KernelSpace, Self} /\ d < LoadDir => ~ Directory[d].present
<1>1. Self = KernelSpace + 1 /\ LoadDir = KernelSpace + 2 /\ KernelSpace \in Nat /\ KernelSpace >= 1
  BY TableFramesApart
<1>2. Directory[d] = CASE d \in {0, KernelSpace} -> Present(FirstTable)
                       [] d = Self               -> Present(DirFrame)
                       [] d >= LoadDir           -> Present(TableFrame(d))
                       [] OTHER                  -> Absent
  BY DEF Directory
<1>3. \A f : Present(f).present /\ Present(f).frame = f
  BY DEF Present
<1>4. ~ Absent.present
  BY DEF Absent
<1>5. CASE d \in {0, KernelSpace}
  BY <1>1, <1>2, <1>3, <1>5
<1>6. CASE d = Self
  BY <1>1, <1>2, <1>3, <1>6
<1>7. CASE d >= LoadDir
  BY <1>1, <1>2, <1>3, <1>7
<1>8. CASE d \notin {0, KernelSpace, Self} /\ d < LoadDir
  BY <1>1, <1>2, <1>4, <1>8
<1> QED
  BY <1>1, <1>5, <1>6, <1>7, <1>8

LEMMA WalkThrough ==
    ASSUME TablesStand, NEW v \in Pages, NEW d, d = v \div Entries, NEW i, i = v % Entries
    PROVE  /\ d \in {0, KernelSpace} => Walk(v) = IF i < LowMapped THEN i ELSE NoFrame
           /\ d = Self => Walk(v) = IF Directory[i].present
                                    THEN Directory[i].frame ELSE NoFrame
           /\ d >= LoadDir =>
                  Walk(v) = IF tables[TableFrame(d)][i].present
                            THEN tables[TableFrame(d)][i].frame ELSE NoFrame
           /\ d \notin {0, KernelSpace, Self} /\ d < LoadDir => Walk(v) = NoFrame
<1>1. d \in 0..(Entries - 1) /\ i \in 0..(Entries - 1)
  BY SplitPage
<1>2. Walk(v) = IF ~ Directory[d].present \/ Directory[d].frame \notin TableFrames THEN NoFrame
                ELSE IF tables[Directory[d].frame][i].present
                     THEN tables[Directory[d].frame][i].frame ELSE NoFrame
  BY DEF Walk, TablesStand
<1>3. ASSUME d \in {0, KernelSpace} PROVE Walk(v) = IF i < LowMapped THEN i ELSE NoFrame
  <2>1. Directory[d].present /\ Directory[d].frame = FirstTable
    BY <1>1, <1>3, DirectoryEntries
  <2>2. LowTable[i] = IF i < LowMapped THEN Present(i) ELSE Absent
    BY <1>1 DEF LowTable
  <2>3. Walk(v) = IF LowTable[i].present THEN LowTable[i].frame ELSE NoFrame
    BY <1>2, <2>1, TableFramesApart DEF TablesStand
  <2> QED
    BY <2>2, <2>3 DEF Present, Absent
<1>4. ASSUME d = Self
      PROVE Walk(v) = IF Directory[i].present THEN Directory[i].frame ELSE NoFrame
  <2>1. Directory[d].present /\ Directory[d].frame = DirFrame
    BY <1>1, <1>4, DirectoryEntries
  <2> QED
    BY <1>2, <2>1, TableFramesApart DEF TablesStand
<1>5. ASSUME d >= LoadDir
      PROVE  Walk(v) = IF tables[TableFrame(d)][i].present
                       THEN tables[TableFrame(d)][i].frame ELSE NoFrame
  <2>1. Directory[d].present /\ Directory[d].frame = TableFrame(d)
    BY <1>1, <1>5, DirectoryEntries
  <2>2. TableFrame(d) \in TableFrames
    BY <1>1, <1>5, TableFramesApart
  <2> QED
    BY <1>2, <2>1, <2>2
<1>6. ASSUME d \notin {0, KernelSpace, Self}, d < LoadDir PROVE Walk(v) = NoFrame
  <2>1. ~ Directory[d].present
    BY <1>1, <1>6, DirectoryEntries
  <2> QED
    BY <1>2, <2>1
<1> QED
  BY <1>3, <1>4, <1>5, <1>6

WalkedPages ==
    \A v \in Pages :
        LET d == v \div Entries
            i == v % Entries
        IN  /\ d \in {0, KernelSpace} => Walk(v) = IF i < LowMapped THEN i ELSE NoFrame
            /\ d = Self => Walk(v) = IF Directory[i].present THEN Directory[i].frame ELSE NoFrame
            /\ d >= LoadDir =>
                   Walk(v) = IF tables[TableFrame(d)][i].present
                             THEN tables[TableFrame(d)][i].frame ELSE NoFrame
            /\ d \notin {0, KernelSpace, Self} /\ d < LoadDir => Walk(v) = NoFrame

LEMMA WalksAre == TablesStand => WalkedPages
  BY WalkThrough DEF WalkedPages

LEMMA WalksWillBe == TablesStand' => WalkedPages'
  BY WalksAre, PTL

LEMMA WalkTyped ==
    ASSUME TablesStand, NEW v \in Pages, Walk(v) # NoFrame
    PROVE  Walk(v) \in Nat
<1> DEFINE d == v \div Entries
           i == v % Entries
<1>1. d \in 0..(Entries - 1) /\ i \in 0..(Entries - 1)
  BY SplitPage
<1>2. /\ tables[cr3][d].frame \in TableFrames
      /\ Walk(v) = tables[tables[cr3][d].frame][i].frame
  BY DEF Walk
<1>3. \A f \in TableFrames : tables[f][i].frame \in Nat
  BY <1>1 DEF TablesStand, TablesTyped
<1> HIDE DEF d, i
<1> QED
  BY <1>2, <1>3

----------------------------------------------------------------------------
(* The mapping of the tables into themselves. *)

LEMMA TablePages ==
    ASSUME NEW d \in 0..(Entries - 1)
    PROVE  /\ Self * Entries + d \in Pages
           /\ (Self * Entries + d) \div Entries = Self
           /\ (Self * Entries + d) % Entries = d
<1>1. Entries \in Nat \ {0} /\ Self \in Nat /\ Self < Entries
  BY TableFramesApart
<1>2. (Self + 1) * Entries <= Entries * Entries
  <2>1. \A a, b, c \in Nat : a <= b => a * c <= b * c
    OBVIOUS
  <2> QED
    BY <1>1, <2>1
<1>3. (Self + 1) * Entries = Self * Entries + Entries /\ Self * Entries \in Nat
  BY <1>1
<1> QED
  BY <1>1, <1>2, <1>3, DivMod DEF Pages

LEMMA GetPageFinds ==
    ASSUME TablesStand, NEW v \in Pages, NEW d, d = v \div Entries, NEW i, i = v % Entries
    PROVE  GetPage(v) = IF Directory[d].present THEN <<Directory[d].frame, i>> ELSE << >>
<1>1. d \in 0..(Entries - 1) /\ i \in 0..(Entries - 1)
  BY SplitPage
<1>2. Walk(DirectoryPage) = DirFrame
  <2>1. Directory[Self].present /\ Directory[Self].frame = DirFrame
    BY DirectoryEntries, TableFramesApart
  <2> QED
    BY <2>1, TablePages, WalkThrough, TableFramesApart DEF DirectoryPage
<1>3. Walk(TablePage(d)) = IF Directory[d].present THEN Directory[d].frame ELSE NoFrame
  BY <1>1, TablePages, WalkThrough DEF TablePage
<1>4. DirFrame \in TableFrames
  BY TableFramesApart
<1> QED
  BY <1>1, <1>2, <1>3, <1>4 DEF GetPage, TablesStand

(* A directory entry that is present points to a table. *)
LEMMA DirectoryPointsToTables ==
    ASSUME NEW d \in 0..(Entries - 1), Directory[d].present
    PROVE  Directory[d].frame \in TableFrames
<1>1. CASE d \in {0, KernelSpace}
  BY <1>1, DirectoryEntries, TableFramesApart
<1>2. CASE d = Self
  BY <1>2, DirectoryEntries, TableFramesApart
<1>3. CASE d >= LoadDir
  BY <1>3, DirectoryEntries, TableFramesApart
<1>4. CASE d \notin {0, KernelSpace, Self} /\ d < LoadDir
  BY <1>4, DirectoryEntries
<1> QED
  BY <1>1, <1>2, <1>3, <1>4, TableFramesApart

LEMMA SelfMapStands ==
    ASSUME TablesStand
    PROVE  SelfMapReachesTheTables
<1> SUFFICES ASSUME NEW v \in Pages
             PROVE  LET pde == tables[cr3][v \div Entries]
                    IN  /\ GetPage(v) = IF pde.present THEN <<pde.frame, v % Entries>> ELSE << >>
                        /\ GetPhysAddr(v) = IF Walk(v) = NoFrame THEN 0 ELSE Walk(v)
  BY DEF SelfMapReachesTheTables
<1> DEFINE d == v \div Entries
           i == v % Entries
<1>1. d \in 0..(Entries - 1) /\ i \in 0..(Entries - 1)
  BY SplitPage
<1>2. GetPage(v) = IF Directory[d].present THEN <<Directory[d].frame, i>> ELSE << >>
  BY GetPageFinds
<1>3. tables[cr3] = Directory
  BY DEF TablesStand
<1>4. Walk(v) = IF ~ Directory[d].present \/ Directory[d].frame \notin TableFrames THEN NoFrame
                ELSE IF tables[Directory[d].frame][i].present
                     THEN tables[Directory[d].frame][i].frame ELSE NoFrame
  BY <1>3 DEF Walk
<1> HIDE DEF d, i
<1>5. GetPhysAddr(v) = IF Walk(v) = NoFrame THEN 0 ELSE Walk(v)
  <2>1. CASE ~ Directory[d].present
    BY <1>2, <1>4, <2>1 DEF GetPhysAddr
  <2>2. CASE Directory[d].present
    <3> DEFINE f == Directory[d].frame
    <3>1. f \in TableFrames
      BY <1>1, <2>2, DirectoryPointsToTables
    <3>2. GetPage(v) = <<f, i>> /\ GetPage(v) # << >> /\ GetPage(v)[1] = f /\ GetPage(v)[2] = i
      BY <1>2, <2>2
    <3>3. Walk(v) = IF tables[f][i].present THEN tables[f][i].frame ELSE NoFrame
      BY <1>4, <2>2, <3>1
    <3> HIDE DEF f
    <3>4. tables[f][i] \in [frame : Nat, present : BOOLEAN]
      BY <1>1, <3>1 DEF TablesStand, TablesTyped
    <3>5. GetPhysAddr(v) = IF tables[f][i].present THEN tables[f][i].frame ELSE 0
      BY <3>2 DEF GetPhysAddr
    <3> QED
      BY <3>3, <3>4, <3>5 DEF NoFrame
  <2> QED
    BY <2>1, <2>2
<1> QED
  BY <1>2, <1>3, <1>5 DEF d, i

----------------------------------------------------------------------------
(* What a change of an entry does to the walks and to the TLB. *)

ChangeablePages == {v \in Pages : v \div Entries \notin {0, KernelSpace, Self}}

EntryOf(v) == tables[TableFrame(v \div Entries)][v % Entries]

LEMMA SetEntryEffect ==
    ASSUME TablesStand, NEW v \in ChangeablePages, NEW entry, SetEntry(v, entry)
    PROVE  \/ v \div Entries < LoadDir /\ GetPage(v) = << >> /\ UNCHANGED <<tables, tlb>>
           \/ /\ v \div Entries >= LoadDir /\ GetPage(v) # << >>
              /\ tables' = [tables EXCEPT ![TableFrame(v \div Entries)][v % Entries] = entry]
              /\ tlb' = [p \in DOMAIN tlb \ {v} |-> tlb[p]]
<1> DEFINE d == v \div Entries
           i == v % Entries
<1>1. d \in 0..(Entries - 1) /\ i \in 0..(Entries - 1) /\ d \notin {0, KernelSpace, Self}
  BY SplitPage DEF ChangeablePages
<1>2. GetPage(v) = IF Directory[d].present THEN <<Directory[d].frame, i>> ELSE << >>
  BY GetPageFinds DEF ChangeablePages
<1> HIDE DEF d, i
<1>3. CASE d < LoadDir
  <2>1. GetPage(v) = << >>
    BY <1>1, <1>2, <1>3, DirectoryEntries
  <2> QED
    BY <1>3, <2>1 DEF SetEntry, d
<1>4. CASE d >= LoadDir
  <2>1. GetPage(v) = <<TableFrame(d), i>>
    BY <1>1, <1>2, <1>4, DirectoryEntries
  <2>2. GetPage(v) # << >> /\ GetPage(v)[1] = TableFrame(d) /\ GetPage(v)[2] = i
    BY <2>1
  <2> QED
    BY <1>4, <2>2 DEF SetEntry, Invalidate, d, i
<1> QED
  BY <1>1, <1>3, <1>4, TableFramesApart

TlbTyped == DOMAIN tlb \subseteq Pages /\ \A v \in DOMAIN tlb : tlb[v] \in Nat

(* The entry of one page changes, and no other page's walk. *)
LEMMA ChangeKeepsWalks ==
    ASSUME TablesStand, NEW v \in ChangeablePages, v \div Entries >= LoadDir,
           NEW entry \in [frame : Nat, present : BOOLEAN],
           tables' = [tables EXCEPT ![TableFrame(v \div Entries)][v % Entries] = entry],
           cr3' = cr3
    PROVE  /\ TablesStand'
           /\ Walk(v)' = IF entry.present THEN entry.frame ELSE NoFrame
           /\ \A w \in Pages \ {v} : Walk(w)' = Walk(w)
<1> DEFINE d == v \div Entries
           i == v % Entries
           t == TableFrame(d)
<1>1. /\ d \in LoadDir..(Entries - 1) /\ i \in 0..(Entries - 1) /\ v \in Pages
      /\ t \in TableFrames \ {FirstTable, DirFrame}
  BY SplitPage, TableFramesApart DEF ChangeablePages
<1>2. tables' = [tables EXCEPT ![t][i] = entry]
  OBVIOUS
<1> HIDE DEF t
<1>3. /\ TablesTyped'
      /\ tables'[t] = [tables[t] EXCEPT ![i] = entry]
      /\ \A f \in TableFrames \ {t} : tables'[f] = tables[f]
  <2> DEFINE row == [tables[t] EXCEPT ![i] = entry]
             Rows == [0..(Entries - 1) -> [frame : Nat, present : BOOLEAN]]
  <2>1. tables \in [TableFrames -> Rows] /\ t \in TableFrames
    BY <1>1 DEF TablesStand, TablesTyped
  <2>2. row \in Rows
    <3>1. tables[t] \in Rows
      BY <2>1
    <3> QED
      BY <1>1, <3>1
  <2>3. tables' = [tables EXCEPT ![t] = row]
    BY <1>2, Zenon
  <2> HIDE DEF row, Rows
  <2>4. tables' \in [TableFrames -> Rows] /\ tables'[t] = row
        /\ \A f \in TableFrames \ {t} : tables'[f] = tables[f]
    BY <2>1, <2>2, <2>3
  <2> QED
    BY <2>4 DEF row, Rows, TablesTyped
<1>4. TablesStand'
  BY <1>1, <1>3, TableFramesApart DEF TablesStand
<1>5. tables'[t][i] = entry /\ \A j \in 0..(Entries - 1) : j # i => tables'[t][j] = tables[t][j]
  BY <1>1, <1>3 DEF TablesStand, TablesTyped
<1>6. WalkedPages /\ WalkedPages'
  BY <1>4, WalksAre, WalksWillBe
<1>7. Walk(v)' = IF entry.present THEN entry.frame ELSE NoFrame
  <2>1. Walk(v)' = IF tables'[t][i].present THEN tables'[t][i].frame ELSE NoFrame
    BY <1>1, <1>6 DEF WalkedPages, t
  <2> QED
    BY <1>5, <2>1
<1>8. ASSUME NEW w \in Pages \ {v} PROVE Walk(w)' = Walk(w)
  <2> DEFINE e == w \div Entries
             j == w % Entries
  <2>1. e \in 0..(Entries - 1) /\ j \in 0..(Entries - 1)
    BY SplitPage
  <2>2. ~ (e = d /\ j = i)
    BY <1>1, <1>8, SamePlaceSamePage
  <2>3. CASE e < LoadDir
    BY <1>6, <2>1, <2>3, TableFramesApart DEF WalkedPages
  <2>4. CASE e >= LoadDir
    <3>1. /\ Walk(w)  = IF tables[TableFrame(e)][j].present
                        THEN tables[TableFrame(e)][j].frame ELSE NoFrame
          /\ Walk(w)' = IF tables'[TableFrame(e)][j].present
                        THEN tables'[TableFrame(e)][j].frame ELSE NoFrame
      BY <1>6, <2>4 DEF WalkedPages
    <3> HIDE DEF e, j, d, i
    <3>2. tables'[TableFrame(e)][j] = tables[TableFrame(e)][j]
      <4>1. e \in LoadDir..(Entries - 1)
        BY <2>1, <2>4, TableFramesApart
      <4>2. TableFrame(e) \in TableFrames /\ (TableFrame(e) = t => e = d)
        BY <1>1, <4>1, TableFramesApart DEF t
      <4>3. CASE TableFrame(e) = t
        BY <1>5, <2>1, <2>2, <4>2, <4>3
      <4>4. CASE TableFrame(e) # t
        BY <1>3, <4>2, <4>4
      <4> QED
        BY <4>3, <4>4
    <3> QED
      BY <3>1, <3>2
  <2> QED
    BY <2>1, <2>3, <2>4, TableFramesApart
<1> QED
  BY <1>4, <1>7, <1>8

----------------------------------------------------------------------------
(* Pmm below Vmm. *)

(* Each instance of Pmm brings its own copy of the definitions. *)
LEMMA SameCardinality == \A S : P!Cardinality(S) = PP!Cardinality(S)
  BY DEF P!Cardinality, PP!Cardinality

LEMMA SameManager ==
    /\ P!Init <=> PP!Init
    /\ P!PmmInit <=> PP!PmmInit
    /\ P!LockRegion <=> PP!LockRegion
    /\ P!AllocPage <=> PP!AllocPage
    /\ P!TypeOK <=> PP!TypeOK
    /\ P!TypeOK' <=> PP!TypeOK'
    /\ P!LastRam(e820) = PP!LastRam(e820)
<1>1. P!Init <=> PP!Init
  BY DEF P!Init, PP!Init, P!NotStarted, PP!NotStarted, P!NoFrame, PP!NoFrame
<1>2. P!LastRam(e820) = PP!LastRam(e820)
  BY DEF P!LastRam, PP!LastRam, P!HighestEnd, PP!HighestEnd, P!Listed, PP!Listed,
         P!IsRam, PP!IsRam, P!RAM, PP!RAM
<1>3. P!PmmInit <=> PP!PmmInit
  BY DEF P!PmmInit, PP!PmmInit, P!NotStarted, PP!NotStarted, P!PANIC, PP!PANIC,
         P!LastRam, PP!LastRam, P!HighestEnd, PP!HighestEnd, P!Listed, PP!Listed,
         P!IsRam, PP!IsRam, P!RAM, PP!RAM
<1>4. P!LockRegion <=> PP!LockRegion
  <2>1. P!Regions = PP!Regions /\ \A r : P!IsRam(r) <=> PP!IsRam(r)
    BY DEF P!Regions, PP!Regions, P!IsRam, PP!IsRam, P!RAM, PP!RAM
  <2>2. \A a, n : P!PagesOf(a, n) = PP!PagesOf(a, n)
    BY DEF P!PagesOf, PP!PagesOf, P!FloorPage, PP!FloorPage, P!CeilPage, PP!CeilPage
  <2>3. \A a, n : P!MarkRegionUsed(a, n) <=> PP!MarkRegionUsed(a, n)
    <3> SUFFICES ASSUME NEW a, NEW n PROVE P!MarkRegionUsed(a, n) <=> PP!MarkRegionUsed(a, n)
      OBVIOUS
    <3>1. \A X : P!NewlyMarked(X) = PP!NewlyMarked(X)
      BY DEF P!NewlyMarked, PP!NewlyMarked
    <3>2. P!PagesOf(a, n) = PP!PagesOf(a, n)
      BY <2>2
    <3>3. P!NewlyMarked(P!PagesOf(a, n)) = PP!NewlyMarked(PP!PagesOf(a, n))
      BY <3>1, <3>2
    <3> QED
      BY <3>2, <3>3, SameCardinality DEF P!MarkRegionUsed, PP!MarkRegionUsed
  <2> QED
    BY <2>1, <2>3, Zenon DEF P!LockRegion, PP!LockRegion
<1>5. P!AllocPage <=> PP!AllocPage
  BY DEF P!AllocPage, PP!AllocPage, P!Ready, PP!Ready, P!Regions, PP!Regions, P!Finds, PP!Finds,
         P!Take, PP!Take, P!FindsNothing, PP!FindsNothing, P!NoFrame, PP!NoFrame,
         P!IsNextFit, PP!IsNextFit, P!Allocatable, PP!Allocatable, P!Distance, PP!Distance,
         P!LowPages, PP!LowPages
<1>6. P!TypeOK <=> PP!TypeOK
  BY DEF P!TypeOK, PP!TypeOK, P!Regions, PP!Regions, P!PANIC, PP!PANIC, P!NotStarted, PP!NotStarted,
         P!LowPages, PP!LowPages, P!NoFrame, PP!NoFrame
<1>7. P!TypeOK' <=> PP!TypeOK'
  BY DEF P!TypeOK, PP!TypeOK, P!Regions, PP!Regions, P!PANIC, PP!PANIC, P!NotStarted, PP!NotStarted,
         P!LowPages, PP!LowPages, P!NoFrame, PP!NoFrame
<1> QED
  BY <1>1, <1>2, <1>3, <1>4, <1>5, <1>6, <1>7

LEMMA ManagerAssumptions == PP!SizeAssumption /\ PP!MapAssumption
  BY FrameAssumption DEF P!SizeAssumption, P!MapAssumption, PP!SizeAssumption, PP!MapAssumption

LEMMA ManagerKeeps ==
    ASSUME PP!PmmInv, P!PmmInit \/ P!LockRegion \/ P!AllocPage \/ UNCHANGED pmmVars
    PROVE  PP!PmmInv' /\ P!TypeOK' /\ UNCHANGED e820
<1>1. [PP!Next]_(PP!vars)
  BY SameManager DEF PP!Next, PP!vars, pmmVars
<1>2. PP!PmmInv'
  BY <1>1, ManagerAssumptions, PP!NextKeepsPmm
<1>3. PP!TypeOK'
  BY <1>2 DEF PP!PmmInv
<1>4. UNCHANGED e820
  BY DEF P!PmmInit, P!LockRegion, P!AllocPage, pmmVars
<1> QED
  BY <1>2, <1>3, <1>4, SameManager

(* What callers hold comes out of the pool of this machine. *)
LEMMA HeldFromPool ==
    ASSUME PP!PmmInv
    PROVE  held \subseteq PP!Pool
<1>1. CASE PP!Ready
  <2>1. step # PP!NotStarted
    BY <1>1, ManagerAssumptions, PP!RegionsTyped, PP!LenProperties
       DEF PP!Ready, PP!NotStarted, PP!PmmInv, PP!TypeOK
  <2>2. max_ram_page = PP!LastRam(e820) \div PageSize
    BY <2>1 DEF PP!PmmInv, PP!MemoryMeasured
  <2> QED
    BY <2>2 DEF PP!PmmInv, PP!TypeOK, PP!NoReservedFrameIsHeld, PP!Pool
<1>2. CASE ~ PP!Ready
  BY <1>2 DEF PP!PmmInv, PP!HeldOnceReady
<1> QED
  BY <1>1, <1>2

LEMMA PoolHoldsHeld == PP!PmmInv => held \subseteq PP!Pool
  BY HeldFromPool

LEMMA HeldWillBeFromPool == PP!PmmInv' => (held \subseteq PP!Pool)'
  BY PoolHoldsHeld, PTL

(* A frame that pmm_alloc_page returns is one of the pool that nobody held. *)
LEMMA FrameGiven ==
    ASSUME PP!PmmInv, P!AllocPage
    PROVE  \/ answer' = NoFrame /\ held' = held
           \/ answer' \in PP!Pool \ held /\ answer' \in Nat /\ held' = held \cup {answer'}
<1>1. PP!Serving /\ (PP!GetsNone \/ \E i \in Nat : PP!Gets(i))
  BY SameManager, ManagerAssumptions, PP!AllocPageEffect
<1>2. CASE PP!GetsNone
  BY <1>2 DEF PP!GetsNone, PP!NoFrame, NoFrame
<1>3. ASSUME NEW i \in Nat, PP!Gets(i)
      PROVE  answer' \in PP!Pool \ held /\ answer' \in Nat /\ held' = held \cup {answer'}
  <2>1. answer' = i /\ held' = held \cup {i} /\ i \notin bitmap
        /\ i \in PP!LowPages..(max_ram_page - 1)
    BY <1>3 DEF PP!Gets
  <2>2. PP!Ready
    BY <1>1 DEF PP!Serving
  <2>3. i \notin held
    BY <2>1, <2>2, ManagerAssumptions, PP!ClearFrameIsFree
  <2>4. PP!PmmInv'
    BY ManagerKeeps
  <2>5. held' \subseteq PP!Pool'
    BY <2>4, HeldWillBeFromPool
  <2>6. PP!Pool' = PP!Pool
    BY <1>1, PP!RegionsStay, ManagerAssumptions DEF PP!Serving
  <2> QED
    BY <2>1, <2>3, <2>5, <2>6
<1> QED
  BY <1>1, <1>2, <1>3

----------------------------------------------------------------------------
(* The inductive invariant of the tables and the TLB. *)

NeverFaultedInBoot == running = "boot" => ~ faulted

VmmInv ==
    /\ TypeOK
    /\ PP!PmmInv
    /\ TablesStand
    /\ TlbAgreesWithTables
    /\ RetrySucceeds
    /\ NeverFaultedInBoot

(* That two pages do not share a frame rests on this: a page that shows a  *)
(* frame of the pool shows one that a caller holds.                        *)
ShownIsHeld == \A v \in Pages \ Leftover : Walk(v) \in PP!Pool => Walk(v) \in held

ShownOnce ==
    \A v, w \in Pages \ Leftover : Walk(v) \in held /\ Walk(w) = Walk(v) => v = w

ShareInv == ShownIsHeld /\ ShownOnce

(* The kernel's stack, at the end of the 32 MB the loader counts on, is    *)
(* not in RAM that pmm.c knows of.                                         *)
StackIsNotRam == \A map \in E820Maps : P!LastRam(map) \div PageSize <= StackFrame

----------------------------------------------------------------------------
(* What loader.S leaves behind. *)

EntryType == [frame : Nat, present : BOOLEAN]

LEMMA KernelPagesNumber == KernelPages \in Int
<1>1. PageSize \in Nat \ {0} /\ KernelBase \in Nat /\ KernelSize \in Nat
  BY FrameAssumption DEF P!SizeAssumption
<1> QED
  BY <1>1 DEF KernelPages, P!CeilPage

LEMMA BootEntryIs ==
    ASSUME NEW v \in Pages, v >= LoadPage
    PROVE  /\ BootEntry(v) \in EntryType
           /\ BootEntry(v).present /\ v \notin Leftover =>
                  \/ BootEntry(v).frame >= StackFrame
                  \/ /\ v - LoadPage \in 0..(KernelPages - 1)
                     /\ BootEntry(v).frame = (KernelBase \div PageSize) + (v - LoadPage)
<1>1. /\ v \in Nat /\ LoadPage \in Nat /\ v < Entries * Entries
      /\ Entries * Entries \in Nat
      /\ BinPage = Entries * Entries - BinPages /\ BinFrame = PhysicalFrames - 1 - BinPages
      /\ StackFrame = PhysicalFrames - StackPages
  BY SplitPage, TableFramesApart DEF Pages, LoadPage, BinPage, BinFrame, StackFrame
<1>2. /\ PhysicalFrames \in Nat /\ BinPages \in 0..(PhysicalFrames - 1)
      /\ ImagePages \in Nat /\ StackPages \in 1..PhysicalFrames
      /\ StackPage \in Nat
      /\ LoadPage + ImagePages <= StackPage - StackPages
      /\ StackPage + StackPages <= BinPage
  BY LayoutAssumption
<1>3. KernelBase \div PageSize \in Nat
  BY FrameAssumption DEF P!SizeAssumption
<1> DEFINE kb == KernelBase \div PageSize
<1>4. BootEntry(v) =
        CASE v \in StackPage..(StackPage + StackPages - 1) -> Present(StackFrame + v - StackPage)
          [] v \in LoadPage..(LoadPage + ImagePages - 1)   -> Present(kb + v - LoadPage)
          [] v >= BinPage                                  -> Present(BinFrame + v - BinPage)
          [] OTHER                                         -> Absent
  BY DEF BootEntry
<1> HIDE DEF kb
<1>5. CASE v \in StackPage..(StackPage + StackPages - 1)
  <2>1. BootEntry(v) = Present(StackFrame + v - StackPage)
    BY <1>1, <1>2, <1>4, <1>5
  <2>2. StackFrame + v - StackPage \in Nat /\ StackFrame + v - StackPage >= StackFrame
    BY <1>1, <1>2, <1>5
  <2> QED
    BY <2>1, <2>2 DEF Present, EntryType
<1>6. CASE v \in LoadPage..(LoadPage + ImagePages - 1)
  <2>1. BootEntry(v) = Present(kb + v - LoadPage)
    BY <1>1, <1>2, <1>4, <1>6
  <2>2. kb + v - LoadPage \in Nat /\ kb + v - LoadPage = kb + (v - LoadPage)
    BY <1>1, <1>3, <1>6 DEF kb
  <2>3. v \notin Leftover => v - LoadPage \in 0..(KernelPages - 1)
    <3>1. KernelPages \in Int
      BY KernelPagesNumber
    <3>2. v \notin Leftover => v \notin (LoadPage + KernelPages)..(LoadPage + ImagePages - 1)
      BY DEF Leftover
    <3> QED
      BY <1>1, <1>2, <1>6, <3>1, <3>2
  <2> QED
    BY <2>1, <2>2, <2>3 DEF Present, EntryType, kb
<1>7. CASE v >= BinPage
  <2>1. BootEntry(v) = Present(BinFrame + v - BinPage)
    BY <1>1, <1>2, <1>4, <1>7
  <2>2. BinFrame + v - BinPage \in Nat
    BY <1>1, <1>2, <1>7
  <2>3. v \in Leftover
    BY <1>1, <1>2, <1>7 DEF Leftover
  <2> QED
    BY <2>1, <2>2, <2>3 DEF Present, EntryType
<1>8. CASE /\ v \notin StackPage..(StackPage + StackPages - 1)
           /\ v \notin LoadPage..(LoadPage + ImagePages - 1)
           /\ ~ (v >= BinPage)
  <2>1. BootEntry(v) = Absent
    BY <1>4, <1>8
  <2> QED
    BY <2>1 DEF Absent, EntryType
<1> QED
  BY <1>5, <1>6, <1>7, <1>8

LEMMA InitTables ==
    ASSUME Init
    PROVE  /\ TablesStand
           /\ \A v \in Pages : v \div Entries >= LoadDir =>
                  /\ v >= LoadPage
                  /\ Walk(v) = IF BootEntry(v).present THEN BootEntry(v).frame ELSE NoFrame
<1>1. tables = BootTables /\ cr3 = DirFrame
  BY DEF Init
<1>2. tables[DirFrame] = Directory /\ tables[FirstTable] = LowTable
  BY <1>1, TableFramesApart DEF BootTables, LowTable
<1>3. ASSUME NEW d \in LoadDir..(Entries - 1), NEW i \in 0..(Entries - 1)
      PROVE  /\ tables[TableFrame(d)][i] = BootEntry(d * Entries + i)
             /\ d * Entries + i \in Pages /\ d * Entries + i >= LoadPage
  <2>1. /\ TableFrame(d) \in TableFrames \ {FirstTable, DirFrame}
        /\ TableFrame(d) = DirFrame + 1 + (d - LoadDir)
        /\ TableFrame(LoadDir) = DirFrame + 1 + (LoadDir - LoadDir)
        /\ LoadDir \in Nat /\ DirFrame \in Nat /\ Entries \in Nat \ {0}
    BY TableFramesApart
  <2>2. tables[TableFrame(d)]
          = [j \in 0..(Entries - 1) |->
                BootEntry((LoadDir + TableFrame(d) - TableFrame(LoadDir)) * Entries + j)]
    BY <1>1, <2>1 DEF BootTables
  <2>3. LoadDir + TableFrame(d) - TableFrame(LoadDir) = d
    BY <2>1
  <2>4. LoadDir * Entries <= d * Entries /\ (d + 1) * Entries <= Entries * Entries
    <3>1. \A a, b, c \in Nat : a <= b => a * c <= b * c
      OBVIOUS
    <3> QED
      BY <2>1, <3>1
  <2>5. (d + 1) * Entries = d * Entries + Entries /\ d * Entries \in Nat /\ LoadDir * Entries \in Nat
    BY <2>1
  <2>6. d * Entries + i \in Pages /\ d * Entries + i >= LoadPage
    BY <2>1, <2>4, <2>5 DEF Pages, LoadPage
  <2> QED
    BY <2>2, <2>3, <2>6
<1>4. TablesTyped
  <2> SUFFICES ASSUME NEW f \in TableFrames
               PROVE  tables[f] \in [0..(Entries - 1) -> EntryType]
    BY <1>1 DEF TablesTyped, BootTables, EntryType
  <2>1. CASE f = DirFrame
    <3>1. Directory \in [0..(Entries - 1) -> EntryType]
      <4> SUFFICES ASSUME NEW d \in 0..(Entries - 1) PROVE Directory[d] \in EntryType
        BY DEF Directory
      <4>1. \A g \in Nat : Present(g) \in EntryType
        BY DEF Present, EntryType
      <4>2. Absent \in EntryType
        BY DEF Absent, EntryType
      <4>3. FirstTable \in Nat /\ DirFrame \in Nat /\ (d >= LoadDir => TableFrame(d) \in Nat)
        BY TableFramesApart
      <4> QED
        BY <4>1, <4>2, <4>3, TableFramesApart DEF Directory
    <3> QED
      BY <1>2, <2>1, <3>1
  <2>2. CASE f = FirstTable
    <3>1. LowTable \in [0..(Entries - 1) -> EntryType]
      BY DEF LowTable, Present, Absent, EntryType
    <3> QED
      BY <1>2, <2>2, <3>1
  <2>3. CASE f \notin {DirFrame, FirstTable}
    <3>1. PICK d \in LoadDir..(Entries - 1) : f = TableFrame(d)
      <4>1. /\ f \in (DirFrame - 1)..TableFrame(Entries - 1) /\ FirstTable = DirFrame - 1
            /\ DirFrame \in Nat /\ f \in Nat /\ Entries - 1 \in LoadDir..(Entries - 1)
        BY TableFramesApart DEF TableFrames, FirstTable
      <4>2. TableFrame(Entries - 1) = DirFrame + 1 + (Entries - 1 - LoadDir)
        BY <4>1, TableFramesApart
      <4>3. f - DirFrame - 1 + LoadDir \in LoadDir..(Entries - 1)
        BY <2>3, <4>1, <4>2, TableFramesApart
      <4>4. TableFrame(f - DirFrame - 1 + LoadDir)
              = DirFrame + 1 + (f - DirFrame - 1 + LoadDir - LoadDir)
        BY <4>1, TableFramesApart DEF TableFrame
      <4>5. f = DirFrame + 1 + (f - DirFrame - 1 + LoadDir - LoadDir)
        BY <4>1, TableFramesApart
      <4> QED
        BY <4>3, <4>4, <4>5, Zenon
    <3>2. \A i \in 0..(Entries - 1) : tables[f][i] \in EntryType
      BY <1>3, <3>1, BootEntryIs
    <3>3. tables[f] = [i \in 0..(Entries - 1) |-> tables[f][i]]
      BY <1>1, <2>3 DEF BootTables
    <3> QED
      BY <3>2, <3>3
  <2> QED
    BY <2>1, <2>2, <2>3
<1>5. TablesStand
  BY <1>1, <1>2, <1>4 DEF TablesStand
<1>6. ASSUME NEW v \in Pages, v \div Entries >= LoadDir
      PROVE  /\ v >= LoadPage
             /\ Walk(v) = IF BootEntry(v).present THEN BootEntry(v).frame ELSE NoFrame
  <2> DEFINE d == v \div Entries
             i == v % Entries
  <2>1. /\ d \in LoadDir..(Entries - 1) /\ i \in 0..(Entries - 1)
        /\ v = d * Entries + i
    BY <1>6, SplitPage, TableFramesApart
  <2>2. Walk(v) = IF tables[TableFrame(d)][i].present THEN tables[TableFrame(d)][i].frame ELSE NoFrame
    BY <1>5, <1>6, WalkThrough
  <2> QED
    BY <1>3, <2>1, <2>2
<1> QED
  BY <1>5, <1>6

LEMMA RamEnd == PP!PmmInv => P!LastRam(e820) \div PageSize \in Nat
<1> SUFFICES ASSUME PP!PmmInv PROVE P!LastRam(e820) \div PageSize \in Nat
  OBVIOUS
<1>1. e820 \in Seq(PP!Entries)
  BY ManagerAssumptions, PP!RegionsTyped DEF PP!PmmInv, PP!TypeOK
<1>2. PP!LastRam(e820) \in Nat
  BY <1>1, ManagerAssumptions, PP!RamIsMemory
<1> QED
  BY <1>2, SameManager, FrameAssumption DEF P!SizeAssumption

LEMMA PoolNumbers ==
    ASSUME PP!PmmInv
    PROVE  \A f \in PP!Pool : /\ f \in Nat /\ f >= P!LowPages
                              /\ f < P!LastRam(e820) \div PageSize
                              /\ ~ PP!Reserved(f)
<1>1. P!LastRam(e820) = PP!LastRam(e820) /\ P!LowPages = PP!LowPages /\ P!LowPages \in Nat
  BY SameManager, TableFramesApart
<1>2. PP!LastRam(e820) \div PageSize \in Nat
  BY <1>1, RamEnd
<1> QED
  BY <1>1, <1>2 DEF PP!Pool

LEMMA InitVmm == Init => VmmInv
<1> SUFFICES ASSUME Init PROVE VmmInv
  OBVIOUS
<1>1. TablesStand
  BY InitTables
<1>2. PP!PmmInv
  BY SameManager, ManagerAssumptions, PP!InitPmm DEF Init
<1>3. TypeOK
  <2>1. P!TypeOK
    BY <1>2, SameManager DEF PP!PmmInv
  <2>2. DOMAIN tlb = {}
    BY DEF Init
  <2> QED
    BY <1>1, <2>1, <2>2, TableFramesApart DEF Init, TypeOK, TablesStand, TablesTyped
<1>4. TlbAgreesWithTables /\ RetrySucceeds /\ NeverFaultedInBoot
  BY DEF Init, TlbAgreesWithTables, RetrySucceeds, NeverFaultedInBoot
<1> QED
  BY <1>1, <1>2, <1>3, <1>4 DEF VmmInv

(* The pages that the kernel itself occupies are reserved. *)
LEMMA KernelIsReserved ==
    ASSUME PP!PmmInv, NEW k \in 0..(KernelPages - 1)
    PROVE  PP!Reserved((KernelBase \div PageSize) + k)
<1> DEFINE kb == KernelBase \div PageSize
           end == KernelBase + KernelSize
           kernel == [addr |-> KernelBase, size |-> KernelSize, type |-> 0]
           n == Len(e820) + 1
           p == kb + k
<1>1. /\ PageSize \in Nat \ {0} /\ KernelBase \in Nat /\ KernelSize \in Nat
      /\ kb \in Nat /\ end \in Nat
  BY FrameAssumption DEF P!SizeAssumption
<1>2. KernelPages = ((end + PageSize - 1) \div PageSize) - kb
  BY DEF KernelPages, P!CeilPage
<1>3. p \in Nat /\ kb <= p /\ p < (end + PageSize - 1) \div PageSize
  <2>1. (end + PageSize - 1) \div PageSize \in Int
    BY <1>1
  <2> HIDE DEF kb, end
  <2> QED
    BY <1>1, <1>2, <2>1
<1>4. KernelBase < (p + 1) * PageSize
  BY <1>1, <1>3, ManagerAssumptions, PP!PageAtOrBelow
<1>5. p * PageSize < end
  BY <1>1, <1>3, ManagerAssumptions, PP!PageAbove
<1>6. n \in 1..Len(PP!Regions) /\ PP!Regions[n] = kernel
  <2>1. e820 \in Seq(PP!Entries) /\ Len(PP!Regions) = Len(e820) + 2
    BY ManagerAssumptions, PP!RegionsTyped DEF PP!PmmInv, PP!TypeOK
  <2>2. Len(e820) \in Nat
    BY <2>1
  <2>3. PP!Regions[n] = kernel
    BY <2>1, <2>2 DEF PP!Regions
  <2> QED
    BY <2>1, <2>2, <2>3
<1>7. ~ PP!IsRam(kernel)
  BY DEF PP!IsRam, PP!RAM
<1>8. PP!Overlaps(p, kernel)
  BY <1>4, <1>5 DEF PP!Overlaps
<1> HIDE DEF p, n, kernel
<1>9. PP!Reserved(p)
  BY <1>6, <1>7, <1>8 DEF PP!Reserved
<1> QED
  BY <1>9 DEF p

(* A page that the loader maps shows no frame that pmm.c may hand out, but *)
(* for the left-over ones.                                                 *)
LEMMA InitShares == StackIsNotRam /\ Init => ShareInv
<1> SUFFICES ASSUME StackIsNotRam, Init PROVE ShareInv
  OBVIOUS
<1>1. TablesStand /\ PP!PmmInv /\ held = {}
  BY InitTables, InitVmm DEF VmmInv, Init, P!Init
<1>2. ASSUME NEW v \in Pages \ Leftover PROVE Walk(v) \notin PP!Pool
  <2> DEFINE d == v \div Entries
             i == v % Entries
  <2>1. d \in 0..(Entries - 1) /\ i \in 0..(Entries - 1)
    BY SplitPage
  <2>2. NoFrame \notin PP!Pool
    BY <1>1, PoolNumbers DEF NoFrame
  <2>3. \A f \in PP!Pool : f \in Nat /\ f >= P!LowPages
    BY <1>1, PoolNumbers
  <2>4. CASE d \in {0, KernelSpace}
    <3>1. Walk(v) = IF i < LowMapped THEN i ELSE NoFrame
      BY <1>1, <2>4, WalkThrough
    <3>2. i < LowMapped => i \notin PP!Pool
      BY <2>1, <2>3, LayoutAssumption, TableFramesApart
    <3> QED
      BY <2>2, <3>1, <3>2
  <2>5. CASE d = Self
    <3>1. Walk(v) = IF Directory[i].present THEN Directory[i].frame ELSE NoFrame
      BY <1>1, <2>5, WalkThrough
    <3>2. Directory[i].present => Directory[i].frame \notin PP!Pool
      BY <2>1, <2>3, DirectoryPointsToTables, TableFramesApart
    <3> QED
      BY <2>2, <3>1, <3>2
  <2>6. CASE d >= LoadDir
    <3>1. /\ v >= LoadPage
          /\ Walk(v) = IF BootEntry(v).present THEN BootEntry(v).frame ELSE NoFrame
      BY <2>6, InitTables
    <3>2. CASE ~ BootEntry(v).present
      BY <2>2, <3>1, <3>2
    <3>3. CASE BootEntry(v).present /\ BootEntry(v).frame >= StackFrame
      <4>1. P!LastRam(e820) \div PageSize <= StackFrame
        BY DEF StackIsNotRam, Init, P!Init
      <4>2. \A f \in PP!Pool : f < P!LastRam(e820) \div PageSize /\ f \in Nat
        BY <1>1, PoolNumbers
      <4>3. P!LastRam(e820) \div PageSize \in Int /\ StackFrame \in Int
        BY <1>1, RamEnd, LayoutAssumption DEF StackFrame
      <4>4. Walk(v) \in Nat
        BY <3>1, <3>3, BootEntryIs DEF EntryType
      <4> QED
        BY <3>1, <3>3, <4>1, <4>2, <4>3, <4>4
    <3>4. CASE /\ BootEntry(v).present
               /\ v - LoadPage \in 0..(KernelPages - 1)
               /\ BootEntry(v).frame = (KernelBase \div PageSize) + (v - LoadPage)
      <4> DEFINE f == (KernelBase \div PageSize) + (v - LoadPage)
      <4>1. ASSUME f \in PP!Pool PROVE PP!Reserved(f)
        BY <1>1, <3>4, KernelIsReserved
      <4>2. f \notin PP!Pool
        BY <1>1, <4>1, PoolNumbers
      <4> QED
        BY <3>1, <3>4, <4>2
    <3> QED
      BY <3>1, <3>2, <3>3, <3>4, BootEntryIs
  <2>7. CASE d \notin {0, KernelSpace, Self} /\ d < LoadDir
    BY <1>1, <2>2, <2>7, WalkThrough
  <2> QED
    BY <2>1, <2>4, <2>5, <2>6, <2>7, TableFramesApart
<1> QED
  BY <1>1, <1>2 DEF ShareInv, ShownIsHeld, ShownOnce

----------------------------------------------------------------------------
(* Steps that change no table, and steps that change the entry of a page.  *)

LEMMA TranslationIsWalk == TlbAgreesWithTables => \A v : Translation(v) = Walk(v)
  BY DEF TlbAgreesWithTables, Translation

LEMMA TranslationWillBeWalk == TlbAgreesWithTables' => (\A v : Translation(v) = Walk(v))'
  BY TranslationIsWalk, PTL

LEMMA WalksStay ==
    ASSUME UNCHANGED <<tables, cr3>>
    PROVE  \A v : Walk(v)' = Walk(v)
  BY DEF Walk

QuietStep ==
    /\ UNCHANGED tables /\ cr3' = DirFrame
    /\ PP!PmmInv' /\ P!TypeOK'
    /\ \A p \in DOMAIN tlb' : p \in Pages /\ tlb'[p] = Walk(p) /\ tlb'[p] \in Nat
    /\ running' \in {"boot", "kernel", "stopped", "reset"}
    /\ access' \in Pages \cup {NoAccess} /\ faulted' \in BOOLEAN
    /\ running' = "kernel" /\ faulted' => running = "kernel" /\ faulted /\ access' = access
    /\ running' = "boot" => running = "boot" /\ faulted' = faulted

LEMMA QuietKeeps == VmmInv /\ QuietStep => VmmInv'
<1> SUFFICES ASSUME VmmInv, QuietStep PROVE VmmInv'
  OBVIOUS
<1>1. cr3' = cr3
  BY DEF VmmInv, TablesStand, QuietStep
<1>2. \A v : Walk(v)' = Walk(v)
  BY <1>1, WalksStay DEF QuietStep
<1>3. TablesStand'
  BY <1>1 DEF VmmInv, TablesStand, TablesTyped, QuietStep
<1>4. TlbAgreesWithTables'
  BY <1>2 DEF QuietStep, TlbAgreesWithTables
<1>5. TypeOK'
  BY <1>1, <1>3, TableFramesApart DEF QuietStep, TypeOK, TablesStand, TablesTyped
<1>6. RetrySucceeds'
  <2> SUFFICES ASSUME running' = "kernel", faulted'
               PROVE  access' # NoAccess /\ Translation(access)' # NoFrame
    BY DEF RetrySucceeds
  <2>1. access' = access /\ access # NoAccess /\ Translation(access) # NoFrame
    BY DEF QuietStep, VmmInv, RetrySucceeds
  <2>2. Translation(access)' = Walk(access)'
    BY <1>4, TranslationWillBeWalk
  <2>3. Walk(access)' = Walk(access)
    BY <1>2, <2>1, <1>1 DEF QuietStep, Walk
  <2>4. Walk(access) = Translation(access)
    BY TranslationIsWalk DEF VmmInv
  <2> QED
    BY <2>1, <2>2, <2>3, <2>4
<1> QED
  BY <1>3, <1>4, <1>5, <1>6 DEF VmmInv, QuietStep, NeverFaultedInBoot

(* What SetEntry is after. *)
Changed(v, entry) ==
    /\ TablesStand' /\ TlbAgreesWithTables'
    /\ DOMAIN tlb' \subseteq Pages /\ \A p \in DOMAIN tlb' : tlb'[p] \in Nat
    /\ \A w \in Pages \ {v} : Walk(w)' = Walk(w)
    /\ \/ GetPage(v) = << >> /\ Walk(v)' = Walk(v)
       \/ GetPage(v) # << >> /\ Walk(v)' = IF entry.present THEN entry.frame ELSE NoFrame

LEMMA SetEntryChanges ==
    ASSUME VmmInv, NEW v \in ChangeablePages, NEW entry \in EntryType,
           SetEntry(v, entry), cr3' = cr3
    PROVE  Changed(v, entry)
<1>0. v \in Pages
  BY DEF ChangeablePages
<1>1. TablesStand /\ TlbAgreesWithTables
      /\ DOMAIN tlb \subseteq Pages /\ \A p \in DOMAIN tlb : tlb[p] \in Nat
  BY DEF VmmInv, TypeOK
<1>2. CASE GetPage(v) = << >> /\ UNCHANGED <<tables, tlb>>
  <2>1. \A w : Walk(w)' = Walk(w)
    BY <1>2, WalksStay
  <2>2. TablesStand' /\ TlbAgreesWithTables'
    BY <1>1, <1>2, <2>1 DEF TablesStand, TablesTyped, TlbAgreesWithTables
  <2> QED
    BY <1>0, <1>1, <1>2, <2>1, <2>2 DEF Changed
<1>3. CASE /\ v \div Entries >= LoadDir /\ GetPage(v) # << >>
           /\ tables' = [tables EXCEPT ![TableFrame(v \div Entries)][v % Entries] = entry]
           /\ tlb' = [p \in DOMAIN tlb \ {v} |-> tlb[p]]
  <2>1. /\ TablesStand'
        /\ Walk(v)' = IF entry.present THEN entry.frame ELSE NoFrame
        /\ \A w \in Pages \ {v} : Walk(w)' = Walk(w)
    BY <1>1, <1>3, ChangeKeepsWalks DEF EntryType
  <2>2. DOMAIN tlb' = DOMAIN tlb \ {v} /\ \A p \in DOMAIN tlb' : tlb'[p] = tlb[p]
    BY <1>3
  <2>3. TlbAgreesWithTables'
    BY <1>1, <2>1, <2>2 DEF TlbAgreesWithTables
  <2> QED
    BY <1>1, <1>3, <2>1, <2>2, <2>3 DEF Changed
<1> QED
  BY <1>1, <1>2, <1>3, SetEntryEffect

(* The step of a change keeps the invariant, if an access that has faulted *)
(* finds its page mapped.                                                  *)
LEMMA ChangeKeeps ==
    ASSUME VmmInv, NEW v \in Pages, NEW entry, Changed(v, entry),
           PP!PmmInv', P!TypeOK', cr3' = cr3,
           running' \in {"kernel", "stopped"}, access' = access, faulted' \in BOOLEAN,
           running' = "kernel" /\ faulted' => access = v /\ v # NoAccess /\ Walk(v)' # NoFrame
    PROVE  VmmInv'
<1>1. TypeOK'
  BY DEF VmmInv, TypeOK, Changed, TablesStand, TablesTyped
<1>2. RetrySucceeds'
  <2> SUFFICES ASSUME running' = "kernel", faulted'
               PROVE  access' # NoAccess /\ Translation(access)' # NoFrame
    BY DEF RetrySucceeds
  <2>1. Translation(access)' = Walk(access)'
    BY TranslationWillBeWalk DEF Changed
  <2>2. Walk(access)' = Walk(v)'
    BY DEF Walk
  <2> QED
    BY <2>1, <2>2
<1> QED
  BY <1>1, <1>2 DEF VmmInv, Changed, NeverFaultedInBoot

----------------------------------------------------------------------------
(* The actions. *)

LEMMA KernelStackPages ==
    \A v \in KernelStack : v \in Pages
<1>1. /\ StackPage \in Nat /\ StackPages \in Nat /\ LoadPage \in Nat
      /\ StackPage - StackPages >= LoadPage
      /\ StackPage + StackPages <= BinPage
      /\ BinPage <= Entries * Entries /\ Entries * Entries \in Nat /\ BinPage \in Int
      /\ StackPages >= 1
  BY LayoutAssumption, TableFramesApart DEF LoadPage, BinPage
<1> DEFINE n == Entries * Entries
<1>2. Pages = 0..(n - 1) /\ KernelStack = (StackPage - StackPages + 1)..StackPage
  BY DEF Pages, KernelStack
<1>3. n \in Nat /\ BinPage <= n
  BY <1>1
<1> HIDE DEF n
<1>4. StackPage < n /\ 0 <= StackPage - StackPages + 1
  BY <1>1, <1>3
<1> QED
  BY <1>1, <1>2, <1>3, <1>4

(* The actions that leave the tables alone, and what each may do instead:  *)
(* the handler returns to the access only from a fault.                    *)
QuietActions ==
    \/ Boot \/ VmmInit \/ Translate \/ SwitchPageDirectory \/ Stopped \/ UNCHANGED vars
    \/ \E v \in Touched : Touch(v) \/ Evict(v)
    \/ \E v \in KernelStack : Push(v)
    \/ PageFault /\ access < LoadPage

LEMMA QuietActionsAreQuiet == VmmInv /\ QuietActions => QuietStep /\ UNCHANGED <<e820, held>>
<1> SUFFICES ASSUME VmmInv, QuietActions PROVE QuietStep /\ UNCHANGED <<e820, held>>
  OBVIOUS
<1>1. /\ TypeOK /\ PP!PmmInv /\ cr3 = DirFrame
      /\ TlbAgreesWithTables /\ RetrySucceeds
      /\ \A v : Translation(v) = Walk(v)
      /\ \A p \in DOMAIN tlb : p \in Pages /\ tlb[p] = Walk(p) /\ tlb[p] \in Nat
  BY TranslationIsWalk DEF VmmInv, TablesStand, TypeOK, TlbAgreesWithTables
<1>2. /\ running \in {"boot", "kernel", "stopped", "reset"}
      /\ access \in Pages \cup {NoAccess} /\ faulted \in BOOLEAN
  BY <1>1 DEF TypeOK
<1>3. UNCHANGED pmmVars => PP!PmmInv' /\ P!TypeOK' /\ UNCHANGED <<e820, held>>
  BY <1>1, ManagerKeeps DEF pmmVars
<1>4. CASE Boot
  <2>1. PP!PmmInv' /\ P!TypeOK' /\ UNCHANGED e820
    BY <1>1, <1>4, ManagerKeeps DEF Boot
  <2>2. UNCHANGED held
    BY <1>4 DEF Boot, P!PmmInit, P!LockRegion
  <2> QED
    BY <1>1, <1>2, <1>4, <2>1, <2>2 DEF Boot, QuietStep
<1>5. CASE VmmInit \/ Stopped \/ UNCHANGED vars
  <2>1. /\ UNCHANGED <<pmmVars, tables, tlb, cr3, access, faulted>>
        /\ running' \in {"boot", "kernel", "stopped", "reset"}
        /\ running' = "kernel" /\ running # "kernel" => running = "boot"
        /\ running' = "boot" => running = "boot"
    BY <1>2, <1>5 DEF VmmInit, Stopped, vars, pmmVars
  <2>2. ~ (running = "boot" /\ running' = "kernel" /\ faulted)
    BY <1>1, <1>5 DEF VmmInv, NeverFaultedInBoot
  <2> QED
    BY <1>1, <1>2, <1>3, <2>1, <2>2 DEF QuietStep
<1>6. CASE Translate
  <2>1. /\ UNCHANGED <<pmmVars, tables, cr3, running>> /\ access' = NoAccess /\ faulted' = FALSE
        /\ running = "kernel" /\ access # NoAccess /\ Translation(access) # NoFrame
        /\ tlb' = [p \in DOMAIN tlb \cup {access} |-> Translation(p)]
    BY <1>6 DEF Translate
  <2>2. access \in Pages /\ Walk(access) \in Nat
    <3>1. access \in Pages
      BY <1>2, <2>1
    <3> QED
      BY <1>1, <2>1, <3>1, WalkTyped DEF VmmInv
  <2>3. \A p \in DOMAIN tlb' : p \in Pages /\ tlb'[p] = Walk(p) /\ tlb'[p] \in Nat
    BY <1>1, <2>1, <2>2
  <2> QED
    BY <1>1, <1>2, <1>3, <2>1, <2>3 DEF QuietStep
<1>7. CASE SwitchPageDirectory
  <2>1. UNCHANGED <<pmmVars, tables, running, access, faulted>> /\ cr3' = DirFrame /\ tlb' = << >>
    BY <1>7 DEF SwitchPageDirectory
  <2>2. DOMAIN tlb' = {}
    BY <2>1
  <2> QED
    BY <1>1, <1>2, <1>3, <2>1, <2>2 DEF QuietStep
<1>8. ASSUME NEW v \in Touched, Touch(v) PROVE QuietStep /\ UNCHANGED <<e820, held>>
  <2>1. v \in Pages
    BY TableAssumption
  <2>2. UNCHANGED <<pmmVars, tables, tlb, cr3, running, faulted>> /\ access' = v
        /\ running = "kernel" /\ access = NoAccess
    BY <1>8 DEF Touch, Idle
  <2>3. ~ faulted
    BY <1>1, <1>2, <2>2 DEF RetrySucceeds
  <2>4. ~ faulted' /\ (running' = "boot" => running = "boot" /\ faulted' = faulted)
    BY <1>2, <2>2, <2>3
  <2> QED
    <3>1. running' = "kernel" /\ access' \in Pages \cup {NoAccess} /\ faulted' \in BOOLEAN
      BY <1>2, <2>1, <2>2
    <3>2. UNCHANGED <<pmmVars, tables, tlb, cr3>>
      BY <2>2
    <3>3. UNCHANGED tables /\ cr3' = DirFrame
      BY <1>1, <3>2
    <3>4. PP!PmmInv' /\ P!TypeOK' /\ UNCHANGED <<e820, held>>
      BY <1>3, <3>2
    <3>5. \A p \in DOMAIN tlb' : p \in Pages /\ tlb'[p] = Walk(p) /\ tlb'[p] \in Nat
      BY <1>1, <3>2
    <3> QED
      BY <2>4, <3>1, <3>3, <3>4, <3>5, Zenon DEF QuietStep
<1>9. ASSUME NEW v \in Touched, Evict(v) PROVE QuietStep /\ UNCHANGED <<e820, held>>
  <2>1. /\ UNCHANGED <<pmmVars, tables, cr3, running, access, faulted>>
        /\ tlb' = [p \in DOMAIN tlb \ {v} |-> tlb[p]]
    BY <1>9 DEF Evict
  <2>2. \A p \in DOMAIN tlb' : p \in DOMAIN tlb /\ tlb'[p] = tlb[p]
    BY <2>1
  <2> QED
    BY <1>1, <1>2, <1>3, <2>1, <2>2 DEF QuietStep
<1>10. ASSUME NEW v \in KernelStack, Push(v) PROVE QuietStep /\ UNCHANGED <<e820, held>>
  <2>1. v \in Pages
    BY KernelStackPages
  <2>2. /\ UNCHANGED <<pmmVars, tables, tlb, cr3, faulted>>
        /\ running = "kernel" /\ access = NoAccess
        /\ running' \in {"kernel", "reset"} /\ access' \in {v, NoAccess}
    BY <1>10 DEF Push, Idle
  <2>3. ~ faulted
    BY <1>1, <1>2, <2>2 DEF RetrySucceeds
  <2>4. ~ faulted' /\ (running' = "boot" => running = "boot" /\ faulted' = faulted)
    BY <1>2, <2>2, <2>3
  <2> QED
    <3>1. /\ running' \in {"boot", "kernel", "stopped", "reset"}
          /\ access' \in Pages \cup {NoAccess} /\ faulted' \in BOOLEAN
      BY <1>2, <2>1, <2>2
    <3>2. UNCHANGED <<pmmVars, tables, tlb, cr3>>
      BY <2>2
    <3> QED
      BY <1>1, <1>3, <2>4, <3>1, <3>2 DEF QuietStep
<1>11. CASE PageFault /\ access < LoadPage
  <2>1. access \in Pages
    BY <1>2, <1>11 DEF PageFault
  <2>2. access \in Int /\ LoadPage \in Int
    BY <2>1, SplitPage, TableFramesApart DEF LoadPage
  <2>3. UNCHANGED <<pmmVars, tables, tlb, cr3, access, faulted>> /\ running' = "stopped"
    BY <1>11, <2>2 DEF PageFault
  <2> QED
    BY <1>1, <1>2, <1>3, <2>3 DEF QuietStep
<1> QED
  BY <1>4, <1>5, <1>6, <1>7, <1>8, <1>9, <1>10, <1>11 DEF QuietActions

(* The actions that change the entry of a page, with the page and the      *)
(* entry; a call for a page that has no table changes nothing.             *)
Changes(v, entry) ==
    /\ v \in ChangeablePages /\ entry \in EntryType
    /\ SetEntry(v, entry) /\ cr3' = cr3

LEMMA MappedAreChangeable == \A v \in Mapped : v \in ChangeablePages
  BY TableAssumption DEF ChangeablePages

LEMMA FaultIsChangeable ==
    ASSUME VmmInv, access # NoAccess, access >= LoadPage
    PROVE  access \in ChangeablePages
<1>1. access \in Pages
  BY DEF VmmInv, TypeOK
<1>2. /\ access \div Entries \in Nat /\ access % Entries \in 0..(Entries - 1)
      /\ access = (access \div Entries) * Entries + (access % Entries)
      /\ LoadDir \in Nat /\ Entries \in Nat \ {0} /\ LoadPage = LoadDir * Entries
  BY <1>1, SplitPage, TableFramesApart DEF LoadPage
<1>3. access \div Entries >= LoadDir
  <2>1. \A a, b, c \in Nat : a + 1 <= b => a * c + c <= b * c
    <3> SUFFICES ASSUME NEW a \in Nat, NEW b \in Nat, NEW c \in Nat, a + 1 <= b
                 PROVE  a * c + c <= b * c
      OBVIOUS
    <3>1. b * c = (a + 1) * c + (b - (a + 1)) * c /\ (b - (a + 1)) * c >= 0
      OBVIOUS
    <3> QED
      BY <3>1
  <2> DEFINE d == access \div Entries
  <2>2. ~ (d + 1 <= LoadDir)
    <3> SUFFICES ASSUME d + 1 <= LoadDir PROVE FALSE
      OBVIOUS
    <3>1. d * Entries + Entries <= LoadPage
      BY <1>2, <2>1
    <3>2. d * Entries \in Nat
      BY <1>2
    <3> QED
      BY <1>2, <3>1, <3>2
  <2> QED
    BY <1>2, <2>2
<1> QED
  BY <1>1, <1>3, TableFramesApart DEF ChangeablePages

(* vmm_alloc_and_map_page: no frame, or a new one and, when the page has a *)
(* table, the new one behind the page.                                     *)
LEMMA AllocAndMapEffect ==
    ASSUME VmmInv, NEW v \in ChangeablePages, AllocAndMap(v), cr3' = cr3
    PROVE  /\ PP!PmmInv' /\ P!TypeOK' /\ UNCHANGED e820
           /\ \/ answer' = NoFrame /\ UNCHANGED <<held, tables, tlb>>
              \/ /\ answer' \in PP!Pool \ held /\ answer' \in Nat /\ answer' # NoFrame
                 /\ held' = held \cup {answer'}
                 /\ Changed(v, EntryFor(answer', TRUE))
<1>1. P!AllocPage /\ PP!PmmInv
  BY DEF AllocAndMap, VmmInv
<1>2. PP!PmmInv' /\ P!TypeOK' /\ UNCHANGED e820
  BY <1>1, ManagerKeeps
<1>3. CASE answer' = NoFrame /\ held' = held
  BY <1>2, <1>3 DEF AllocAndMap
<1>4. CASE answer' \in PP!Pool \ held /\ answer' \in Nat /\ held' = held \cup {answer'}
  <2>1. answer' # NoFrame
    BY <1>4 DEF NoFrame
  <2>2. SetEntry(v, EntryFor(answer', TRUE)) /\ EntryFor(answer', TRUE) \in EntryType
    BY <1>4, <2>1 DEF AllocAndMap, EntryFor, EntryType
  <2> QED
    BY <1>2, <1>4, <2>1, <2>2, SetEntryChanges
<1> QED
  BY <1>1, <1>3, <1>4, FrameGiven

(* What a step that changes entries does, as far as sharing is concerned:  *)
(* one page may now show what it did, a new frame, or what is not memory   *)
(* of pmm.c.                                                               *)
MapsOne ==
    \E v \in Pages, given \in SUBSET (PP!Pool \ held) :
        /\ UNCHANGED e820 /\ held' = held \cup given
        /\ \A w \in Pages \ {v} : Walk(w)' = Walk(w)
        /\ \/ Walk(v)' = Walk(v) \/ Walk(v)' \in given \/ Walk(v)' \notin PP!Pool

LEMMA FaultMaps ==
    ASSUME VmmInv, PageFault, access >= LoadPage
    PROVE  VmmInv' /\ MapsOne
<1> PICK v \in ChangeablePages : v = access
  BY FaultIsChangeable DEF PageFault
<1>1. /\ v \in Pages /\ access = v /\ access' = v
      /\ v # NoAccess /\ running = "kernel" /\ cr3' = cr3
  BY DEF PageFault, ChangeablePages
<1>2. v \in Int /\ LoadPage \in Int
  BY <1>1, SplitPage, TableFramesApart DEF LoadPage
<1>3. AllocAndMap(v) /\ PanicOnFailure(AllocAndMapReturns) /\ faulted' = TRUE
  BY <1>1, <1>2 DEF PageFault
<1>4. /\ PP!PmmInv' /\ P!TypeOK' /\ UNCHANGED e820
      /\ \/ answer' = NoFrame /\ UNCHANGED <<held, tables, tlb>>
         \/ /\ answer' \in PP!Pool \ held /\ answer' \in Nat /\ answer' # NoFrame
            /\ held' = held \cup {answer'}
            /\ Changed(v, EntryFor(answer', TRUE))
  BY <1>1, <1>3, AllocAndMapEffect
<1>5. running' = IF answer' # NoFrame /\ GetPage(v) # << >> THEN "kernel" ELSE "stopped"
  BY <1>1, <1>3 DEF PanicOnFailure, AllocAndMapReturns
<1>6. CASE answer' = NoFrame /\ UNCHANGED <<held, tables, tlb>>
  <2>1. \A w : Walk(w)' = Walk(w)
    BY <1>1, <1>6, WalksStay
  <2>2. MapsOne
    <3>1. {} \in SUBSET (PP!Pool \ held) /\ held' = held \cup {}
      BY <1>6
    <3> QED
      BY <1>1, <1>4, <2>1, <3>1 DEF MapsOne
  <2>3. running' = "stopped"
    BY <1>5, <1>6
  <2>4. /\ cr3 = DirFrame
        /\ \A p \in DOMAIN tlb : p \in Pages /\ tlb[p] = Walk(p) /\ tlb[p] \in Nat
    BY DEF VmmInv, TypeOK, TablesStand, TlbAgreesWithTables
  <2>5. QuietStep
    BY <1>1, <1>3, <1>4, <1>6, <2>3, <2>4 DEF QuietStep
  <2> QED
    BY <2>2, <2>5, QuietKeeps
<1>7. CASE /\ answer' \in PP!Pool \ held /\ answer' \in Nat /\ answer' # NoFrame
           /\ held' = held \cup {answer'}
           /\ Changed(v, EntryFor(answer', TRUE))
  <2>1. \/ GetPage(v) = << >> /\ Walk(v)' = Walk(v) /\ running' = "stopped"
        \/ Walk(v)' = answer' /\ running' = "kernel"
    BY <1>5, <1>7 DEF Changed, EntryFor
  <2>2. MapsOne
    <3>1. {answer'} \in SUBSET (PP!Pool \ held) /\ held' = held \cup {answer'}
      BY <1>7
    <3>2. Walk(v)' = Walk(v) \/ Walk(v)' \in {answer'}
      BY <2>1
    <3>3. \A w \in Pages \ {v} : Walk(w)' = Walk(w)
      BY <1>7 DEF Changed
    <3> QED
      BY <1>1, <1>4, <3>1, <3>2, <3>3 DEF MapsOne
  <2>3. running' = "kernel" => Walk(v)' # NoFrame
    BY <1>7, <2>1
  <2>4. running' \in {"kernel", "stopped"}
    BY <2>1
  <2>5. faulted' \in BOOLEAN
    BY <1>3
  <2>6. VmmInv'
    BY <1>1, <1>4, <1>7, <2>3, <2>4, <2>5, ChangeKeeps
  <2> QED
    BY <2>2, <2>6
<1> QED
  BY <1>4, <1>6, <1>7

LEMMA MapsKeep ==
    ASSUME VmmInv, NEW v \in Mapped, Idle,
           \/ \E f \in DeviceFrames, present \in BOOLEAN : MapPage(v, f, present)
           \/ AllocAndMapPage(v)
           \/ UnmapPage(v)
    PROVE  VmmInv' /\ MapsOne
<1>1. /\ v \in ChangeablePages /\ v \in Pages
      /\ UNCHANGED <<cr3, running, access, faulted>> /\ running = "kernel" /\ faulted \in BOOLEAN
      /\ access = NoAccess /\ (running = "kernel" /\ faulted => access # NoAccess)
      /\ cr3 = DirFrame
      /\ access \in Pages \cup {NoAccess}
      /\ \A p \in DOMAIN tlb : p \in Pages /\ tlb[p] = Walk(p) /\ tlb[p] \in Nat
  BY MappedAreChangeable
     DEF MapPage, AllocAndMapPage, UnmapPage, ChangeablePages, Idle, VmmInv, TypeOK, RetrySucceeds,
         TablesStand, TlbAgreesWithTables
<1>2. ~ (running' = "kernel" /\ faulted')
  BY <1>1
<1>3. ASSUME NEW entry, Changed(v, entry), PP!PmmInv', P!TypeOK' PROVE VmmInv'
  BY <1>1, <1>2, <1>3, ChangeKeeps
<1>4. UNCHANGED pmmVars => PP!PmmInv' /\ P!TypeOK' /\ UNCHANGED <<e820, held>>
  BY ManagerKeeps DEF VmmInv, pmmVars
<1>5. ASSUME UNCHANGED <<tables, tlb>>, PP!PmmInv', P!TypeOK', UNCHANGED <<e820, held>>
      PROVE  VmmInv' /\ MapsOne
  <2>1. QuietStep
    BY <1>1, <1>2, <1>5 DEF QuietStep
  <2>2. \A w : Walk(w)' = Walk(w)
    BY <1>1, <1>5, WalksStay
  <2>3. {} \in SUBSET (PP!Pool \ held) /\ held' = held \cup {}
    BY <1>5
  <2> QED
    BY <1>1, <1>5, <2>1, <2>2, <2>3, QuietKeeps DEF MapsOne
<1>6. ASSUME NEW entry \in EntryType, SetEntry(v, entry), UNCHANGED pmmVars,
             entry.present => entry.frame \notin PP!Pool
      PROVE  VmmInv' /\ MapsOne
  <2>1. Changed(v, entry)
    BY <1>1, <1>6, SetEntryChanges
  <2>2. VmmInv'
    BY <1>3, <1>4, <1>6, <2>1
  <2>3. {} \in SUBSET (PP!Pool \ held) /\ held' = held \cup {} /\ UNCHANGED e820
    BY <1>4, <1>6
  <2>4. NoFrame \notin PP!Pool
    BY PoolNumbers DEF VmmInv, NoFrame
  <2>5. Walk(v)' = Walk(v) \/ Walk(v)' \notin PP!Pool
    BY <1>6, <2>1, <2>4 DEF Changed
  <2>6. \A w \in Pages \ {v} : Walk(w)' = Walk(w)
    BY <2>1 DEF Changed
  <2> QED
    BY <1>1, <2>2, <2>3, <2>5, <2>6 DEF MapsOne
<1>7. ASSUME NEW f \in DeviceFrames, NEW present \in BOOLEAN, MapPage(v, f, present)
      PROVE  VmmInv' /\ MapsOne
  <2>1. EntryFor(f, present) \in EntryType /\ EntryFor(f, present).frame = f
    BY DeviceAssumption DEF EntryFor, EntryType
  <2>2. SetEntry(v, EntryFor(f, present)) /\ UNCHANGED pmmVars
    BY <1>7 DEF MapPage
  <2>3. f \notin PP!Pool
    <3>1. e820 \in E820Maps
      BY DEF VmmInv, TypeOK, P!TypeOK
    <3>2. f >= P!LastRam(e820) \div PageSize /\ f \in Nat
      BY <3>1, DeviceAssumption
    <3>3. \A g \in PP!Pool : g \in Nat /\ g < P!LastRam(e820) \div PageSize
      BY PoolNumbers DEF VmmInv
    <3>4. P!LastRam(e820) \div PageSize \in Int
      BY RamEnd DEF VmmInv
    <3> QED
      BY <3>2, <3>3, <3>4
  <2> QED
    BY <1>6, <2>1, <2>2, <2>3
<1>8. CASE UnmapPage(v)
  <2>1. UNCHANGED pmmVars /\ (SetEntry(v, Absent) \/ UNCHANGED <<tables, tlb>>)
    BY <1>8 DEF UnmapPage
  <2>2. Absent \in EntryType /\ ~ Absent.present
    BY DEF Absent, EntryType
  <2> QED
    BY <1>4, <1>5, <1>6, <2>1, <2>2
<1>9. CASE AllocAndMapPage(v)
  <2>1. /\ PP!PmmInv' /\ P!TypeOK' /\ UNCHANGED e820
        /\ \/ answer' = NoFrame /\ UNCHANGED <<held, tables, tlb>>
           \/ /\ answer' \in PP!Pool \ held /\ answer' \in Nat /\ answer' # NoFrame
              /\ held' = held \cup {answer'}
              /\ Changed(v, EntryFor(answer', TRUE))
    BY <1>1, <1>9, AllocAndMapEffect DEF AllocAndMapPage
  <2>2. CASE UNCHANGED <<held, tables, tlb>>
    BY <1>5, <2>1, <2>2
  <2>3. CASE /\ answer' \in PP!Pool \ held /\ held' = held \cup {answer'}
             /\ Changed(v, EntryFor(answer', TRUE))
    <3>1. VmmInv'
      BY <1>3, <2>1, <2>3
    <3>2. {answer'} \in SUBSET (PP!Pool \ held)
      BY <2>3
    <3>3. Walk(v)' = Walk(v) \/ Walk(v)' \in {answer'}
      BY <2>3 DEF Changed, EntryFor
    <3>4. \A w \in Pages \ {v} : Walk(w)' = Walk(w)
      BY <2>3 DEF Changed
    <3> QED
      BY <1>1, <2>1, <2>3, <3>1, <3>2, <3>3, <3>4 DEF MapsOne
  <2> QED
    BY <2>1, <2>2, <2>3
<1> QED
  BY <1>7, <1>8, <1>9

LEMMA StepKeepsVmm ==
    ASSUME VmmInv, [Next]_vars
    PROVE  /\ VmmInv'
           /\ MapsOne \/ ((\A v : Walk(v)' = Walk(v)) /\ UNCHANGED <<e820, held>>)
<1>1. CASE QuietActions
  <2>1. QuietStep /\ UNCHANGED <<e820, held>>
    BY <1>1, QuietActionsAreQuiet
  <2>2. \A v : Walk(v)' = Walk(v)
    BY <2>1, WalksStay DEF QuietStep, VmmInv, TablesStand
  <2> QED
    BY <2>1, <2>2, QuietKeeps
<1>2. CASE PageFault /\ access >= LoadPage
  BY <1>2, FaultMaps
<1>3. ASSUME NEW v \in Mapped,
             \/ \E f \in DeviceFrames, present \in BOOLEAN : MapPage(v, f, present)
             \/ AllocAndMapPage(v)
             \/ UnmapPage(v)
      PROVE  VmmInv' /\ MapsOne
  <2>1. Idle
    BY <1>3 DEF MapPage, AllocAndMapPage, UnmapPage
  <2> QED
    BY <1>3, <2>1, MapsKeep
<1>4. PageFault => access < LoadPage \/ access >= LoadPage
  BY DEF PageFault
<1> QED
  BY <1>1, <1>2, <1>3, <1>4 DEF Next, QuietActions

(* The loader's tables, the MMU and vmm.c, for every sequence of accesses, *)
(* faults and calls, keep together what the tables, the TLB, the frames    *)
(* and an access that is under way say.                                    *)
THEOREM VmmInvariant == Spec => []VmmInv
<1>1. VmmInv /\ [Next]_vars => VmmInv'
  BY StepKeepsVmm
<1> QED
  BY <1>1, InitVmm, PTL DEF Spec

(* The tables stay tables, a translation is of a page, the page fault      *)
(* handler runs only for an access.                                        *)
THEOREM VmmTypeCorrectness == Spec => []TypeOK
<1>1. VmmInv => TypeOK
  BY DEF VmmInv
<1> QED
  BY <1>1, VmmInvariant, PTL

(* No translation outlives the entry it came from: invlpg in vmm_map_page  *)
(* and vmm_unmap_page is enough, and a fault needs none but its own.       *)
THEOREM TlbNeverDisagrees == Spec => []TlbAgreesWithTables
<1>1. VmmInv => TlbAgreesWithTables
  BY DEF VmmInv
<1> QED
  BY <1>1, VmmInvariant, PTL

(* get_page works on the entry that the MMU walks to, for every page: the  *)
(* directory's entry for itself is never changed through itself.           *)
THEOREM SelfMapHolds == Spec => []SelfMapReachesTheTables
<1>1. VmmInv => SelfMapReachesTheTables
  BY SelfMapStands DEF VmmInv
<1> QED
  BY <1>1, VmmInvariant, PTL

(* One access faults once: after the handler the page is mapped, or the    *)
(* kernel has stopped.                                                     *)
THEOREM FaultIsServed == Spec => []RetrySucceeds
<1>1. VmmInv => RetrySucceeds
  BY DEF VmmInv
<1> QED
  BY <1>1, VmmInvariant, PTL

----------------------------------------------------------------------------
(* Frames are not shared. *)

LEMMA StepKeepsShare ==
    ASSUME VmmInv, VmmInv', ShareInv, [Next]_vars
    PROVE  ShareInv'
<1>1. held \subseteq PP!Pool /\ held' \subseteq PP!Pool'
  BY HeldFromPool, HeldWillBeFromPool DEF VmmInv
<1>2. CASE (\A v : Walk(v)' = Walk(v)) /\ UNCHANGED <<e820, held>>
  <2>1. PP!Pool' = PP!Pool
    BY <1>2, PP!RegionsStay, ManagerAssumptions
  <2> QED
    BY <1>2, <2>1 DEF ShareInv, ShownIsHeld, ShownOnce
<1>3. CASE MapsOne
  <2>1. PICK v0 \in Pages, given \in SUBSET (PP!Pool \ held) :
               /\ UNCHANGED e820 /\ held' = held \cup given
               /\ \A w \in Pages \ {v0} : Walk(w)' = Walk(w)
               /\ \/ Walk(v0)' = Walk(v0) \/ Walk(v0)' \in given \/ Walk(v0)' \notin PP!Pool
    BY <1>3 DEF MapsOne
  <2>2. PP!Pool' = PP!Pool
    BY <2>1, PP!RegionsStay, ManagerAssumptions
  <2>3. \A v \in Pages \ Leftover : Walk(v) \in PP!Pool => Walk(v) \in held
    BY DEF ShareInv, ShownIsHeld
  <2>4. \A v, w \in Pages \ Leftover : Walk(v) \in held /\ Walk(w) = Walk(v) => v = w
    BY DEF ShareInv, ShownOnce
  <2>5. ShownIsHeld'
    <3> SUFFICES ASSUME NEW v \in Pages \ Leftover, Walk(v)' \in PP!Pool
                 PROVE  Walk(v)' \in held'
      BY <2>2 DEF ShownIsHeld
    <3>1. CASE v = v0
      BY <2>1, <2>3, <3>1
    <3>2. CASE v # v0
      BY <2>1, <2>3, <3>2
    <3> QED
      BY <3>1, <3>2
  <2>6. ShownOnce'
    <3> SUFFICES ASSUME NEW v \in Pages \ Leftover, NEW w \in Pages \ Leftover,
                        Walk(v)' \in held', Walk(w)' = Walk(v)'
                 PROVE  v = w
      BY DEF ShownOnce
    <3>1. Walk(v)' \in PP!Pool
      BY <1>1, <2>2
    <3>2. \A u \in Pages \ Leftover : u # v0 /\ Walk(u)' = Walk(v)' => Walk(u) = Walk(v)' /\ Walk(v)' \in held
      BY <2>1, <2>3, <3>1
    <3>3. CASE Walk(v0)' = Walk(v0)
      BY <2>1, <2>3, <2>4, <3>1, <3>3
    <3>4. CASE Walk(v0)' \in given
      BY <2>1, <2>4, <3>2, <3>4
    <3>5. CASE Walk(v0)' \notin PP!Pool
      BY <2>1, <2>4, <3>1, <3>2, <3>5
    <3> QED
      BY <2>1, <3>3, <3>4, <3>5
  <2> QED
    BY <2>5, <2>6 DEF ShareInv
<1> QED
  BY <1>2, <1>3, StepKeepsVmm

(* Where the kernel's stack does not lie in RAM that pmm.c hands out, a    *)
(* frame that was handed out is behind one page and is no page table.      *)
THEOREM FramesAreNotShared == StackIsNotRam => (Spec => []HandedOutFramesAreMappedOnce)
<1> SUFFICES ASSUME StackIsNotRam PROVE Spec => []HandedOutFramesAreMappedOnce
  OBVIOUS
<1>1. Init => ShareInv
  BY InitShares
<1>2. VmmInv /\ VmmInv' /\ ShareInv /\ [Next]_vars => ShareInv'
  BY StepKeepsShare
<1>3. VmmInv /\ ShareInv => HandedOutFramesAreMappedOnce
  <2> SUFFICES ASSUME VmmInv, ShareInv, NEW f \in held
               PROVE  /\ f \notin TableFrames
                      /\ \A v, w \in Pages \ Leftover : Walk(v) = f /\ Walk(w) = f => v = w
    BY DEF HandedOutFramesAreMappedOnce
  <2>1. f \in Nat /\ f >= P!LowPages
    BY HeldFromPool, PoolNumbers DEF VmmInv
  <2>2. f \notin TableFrames
    BY <2>1, TableFramesApart
  <2> QED
    BY <2>2 DEF ShareInv, ShownOnce
<1> QED
  BY <1>1, <1>2, <1>3, VmmInvariant, PTL DEF Spec
=============================================================================
