--------------------------- MODULE GmrDescriptors ---------------------------
(***************************************************************************)
(* CEsvga2Accel::createGMR tells the device of which physical pages a      *)
(* guest memory region consists.  The pages come as physical segments of a *)
(* wired memory descriptor.  For each segment there is one entry in a      *)
(* table of helper pages that the device reads by physical address; the    *)
(* last entry of a helper page can only name the next helper page, which   *)
(* need not be the next physical one.                                      *)
(*                                                                         *)
(* The device (external, described in ceinclude/svga_reg.h) reads the      *)
(* table while the register is written: one entry is one step here.        *)
(*                                                                         *)
(* A segment is [page, off, len]: it starts off units into its page, and   *)
(* PageSize units are a page.  Helper pages are 0..(num_pages - 1).        *)
(***************************************************************************)
EXTENDS Integers, Sequences, FiniteSets, SequencesExt

CONSTANTS PageSize,     \* units of a page
          DPP,          \* dpp: entries of a helper page without the last one
          PpnLimit,     \* 2^32: pages that an entry cannot name start here
          MaxLength,    \* getMaxGMRDescriptorLength(): entries the device reads
          Memory,       \* the memory descriptors to wrap, sequences of segments
          Base,         \* the physical page of helper page 0
          Gap           \* pages left out where the helper is not contiguous

Segment == [page : Nat \ {0}, off : 0..(PageSize - 1), len : Nat \ {0}]

ASSUME TableAssumption ==
  /\ PageSize \in Nat \ {0} /\ DPP \in Nat \ {0} /\ Base \in Nat \ {0}
  /\ MaxLength \in Nat /\ Gap \in Nat \ {0} /\ PpnLimit \in Nat
  /\ Memory \subseteq Seq(Segment)

Entry == [ppn : Nat, numPages : Nat]
Empty == [ppn |-> 0, numPages |-> 0]

VARIABLES md,           \* the segments of the memory
          breaks,       \* helper pages that do not follow the one before
          table,        \* the entries: a function of helper page and slot
          offset,       \* segments written
          page, slot,   \* helper_ptr
          num_pages, next_page, helper_ppn, helper_length,
          pc,           \* what createGMR does next
          at,           \* the helper page and slot the device reads next
          reads,        \* entries the device has read
          region        \* the physical pages the device has taken, in order

driver == << md, breaks, table, offset, page, slot, num_pages, next_page,
             helper_ppn, helper_length >>
device == << at, reads, region >>
vars   == << driver, pc, device >>

-----------------------------------------------------------------------------
\* The helper is one range of kernel addresses; physically it is contiguous up
\* to the next break.
PpnOf(k) == Base + k + Gap * Cardinality({b \in breaks : b <= k})

HelperPages == 0..(num_pages - 1)

\* getPhysicalSegment of the helper: pages from page k to the next break.
ContiguousFrom(k) ==
  CHOOSE n \in 1..num_pages :
    /\ k + n = num_pages \/ k + n \in breaks
    /\ \A m \in 1..(n - 1) : k + m # num_pages /\ k + m \notin breaks

\* Mutant: a part of a page at the end is not counted.
PagesOfRoundDown(s) == (s.off + s.len) \div PageSize

\* The pages of a segment: the start is rounded down, the end up.
PagesOf(s) == (s.off + s.len + PageSize - 1) \div PageSize

Init ==
  /\ md \in Memory /\ breaks = {}
  /\ table = << >> /\ offset = 0 /\ page = 0 /\ slot = 0
  /\ num_pages = 0 /\ next_page = 0 /\ helper_ppn = 0 /\ helper_length = 0
  /\ pc = "count"
  /\ at = << 0, 0 >> /\ reads = 0 /\ region = << >>

PagesNeeded == (Len(md) + (DPP - 1)) \div DPP

\* Mutant: the links between helper pages are not counted.
AcceptedWithoutLinks ==
  /\ \A i \in DOMAIN md : md[i].page < PpnLimit
  /\ md # << >>
  /\ Len(md) <= MaxLength

\* The first pass: every segment can be named, there is one, and the device
\* will read as many entries as there are segments and helper pages.
Accepted ==
  /\ \A i \in DOMAIN md : md[i].page < PpnLimit
  /\ md # << >>
  /\ Len(md) + PagesNeeded <= MaxLength

\* Nothing has been allocated yet when the memory is refused; without a helper
\* or when it cannot be wired, createGMR gives up too.
Refuse ==
  /\ pc = "count"
  /\ pc' = "failed"
  /\ UNCHANGED << driver, device >>

\* The helper is allocated and zeroed, its first page is known to the device by
\* its physical page.
AllocateHelper ==
  /\ pc = "count" /\ Accepted
  /\ num_pages' = PagesNeeded
  /\ breaks' \in SUBSET (1..(num_pages' - 1))
  /\ table' = [k \in 0..(num_pages' - 1) |-> [s \in 0..DPP |-> Empty]]
  /\ helper_ppn' = Base + 1
  /\ helper_length' = ContiguousFrom(0)' - 1
  /\ next_page' = 1
  /\ pc' = "fill"
  /\ UNCHANGED << md, offset, page, slot, device >>

\* The entry of the next segment.
Described == [ppn |-> md[offset + 1].page, numPages |-> PagesOf(md[offset + 1])]

\* A segment goes into the next slot, and there is another one free.
WriteEntry ==
  /\ pc = "fill" /\ offset < Len(md)
  /\ slot + 1 < DPP
  /\ table' = [table EXCEPT ![page][slot] = Described]
  /\ offset' = offset + 1 /\ slot' = slot + 1
  /\ UNCHANGED << md, breaks, page, num_pages, next_page, helper_ppn,
                  helper_length, pc, device >>

\* The physical page of the next helper page: the next physical page as long as
\* the helper is contiguous there.
LinkPpn == IF helper_length > 0 THEN helper_ppn ELSE PpnOf(next_page)

\* A segment fills the page, and the last slot names the next helper page.
WriteEntryAndLink ==
  /\ pc = "fill" /\ offset < Len(md)
  /\ slot + 1 = DPP
  /\ helper_length > 0 \/ next_page < num_pages
  /\ table' = [table EXCEPT ![page][slot] = Described,
                            ![page][DPP] = [ppn |-> LinkPpn, numPages |-> 0]]
  /\ offset' = offset + 1
  /\ helper_ppn' = LinkPpn + 1
  /\ helper_length' =
       (IF helper_length > 0 THEN helper_length ELSE ContiguousFrom(next_page)) - 1
  /\ page' = next_page /\ slot' = 0 /\ next_page' = next_page + 1
  /\ UNCHANGED << md, breaks, num_pages, pc, device >>

\* A segment fills the last helper page: its last slot stays empty.
WriteLastEntry ==
  /\ pc = "fill" /\ offset < Len(md)
  /\ slot + 1 = DPP
  /\ helper_length <= 0 /\ next_page >= num_pages
  /\ table' = [table EXCEPT ![page][slot] = Described]
  /\ offset' = offset + 1 /\ slot' = slot + 1
  /\ pc' = "define"
  /\ UNCHANGED << md, breaks, page, num_pages, next_page, helper_ppn,
                  helper_length, device >>

\* No segment is left.
FillEnds ==
  /\ pc = "fill" /\ offset = Len(md)
  /\ pc' = "define"
  /\ UNCHANGED << driver, device >>

\* defineGMR: the device gets the physical page of the first helper page.
DefineGMR ==
  /\ pc = "define"
  /\ pc' = "device"
  /\ UNCHANGED << driver, device >>

Current == table[at[1]][at[2]]

\* The device never crosses the end of a page by itself, and it stops reading
\* after as many entries as it allows.
CanRead ==
  pc = "device" /\ at[1] \in HelperPages /\ at[2] <= DPP /\ reads < MaxLength

DeviceTakesRange ==
  /\ CanRead /\ Current.ppn # 0 /\ Current.numPages # 0
  /\ region' = region \o [i \in 1..Current.numPages |-> Current.ppn + i - 1]
  /\ at' = << at[1], at[2] + 1 >>
  /\ reads' = reads + 1
  /\ UNCHANGED << driver, pc >>

\* A link to a page that is no helper page leads nowhere known: -1.
DeviceFollowsLink ==
  /\ CanRead /\ Current.ppn # 0 /\ Current.numPages = 0
  /\ at' = << IF \E k \in HelperPages : PpnOf(k) = Current.ppn
              THEN CHOOSE k \in HelperPages : PpnOf(k) = Current.ppn
              ELSE -1, 0 >>
  /\ reads' = reads + 1
  /\ UNCHANGED << driver, pc, region >>

\* The empty entry ends the table; createGMR frees the helper.
DeviceEnds ==
  /\ CanRead /\ Current = Empty
  /\ reads' = reads + 1
  /\ pc' = "done"
  /\ UNCHANGED << driver, at, region >>

Next ==
  \/ Refuse \/ AllocateHelper \/ WriteEntry \/ WriteEntryAndLink
  \/ WriteLastEntry \/ FillEnds \/ DefineGMR
  \/ DeviceTakesRange \/ DeviceFollowsLink \/ DeviceEnds

\* createGMR runs to its end, and so does the device's read.
Spec == Init /\ [][Next]_vars /\ WF_vars(Next)

-----------------------------------------------------------------------------
TypeOK ==
  /\ md \in Seq(Segment) /\ breaks \subseteq 1..(num_pages - 1)
  /\ num_pages \in Nat /\ next_page \in Nat /\ helper_ppn \in Nat
  /\ offset \in 0..Len(md) /\ helper_length \in Int
  /\ page \in Nat /\ slot \in 0..DPP
  /\ pc \in {"count", "failed", "fill", "define", "device", "done"}
  /\ pc \in {"fill", "define", "device", "done"} =>
       table \in [HelperPages -> [0..DPP -> Entry]]
  /\ at \in Int \X (0..(DPP + 1)) /\ reads \in Nat
  /\ region \in Seq(Nat \ {0})

\* The pages of the memory, in order: what the region must consist of.
MemoryPages ==
  FlattenSeq([i \in DOMAIN md |->
    [k \in 1..((md[i].off + md[i].len - 1) \div PageSize + 1) |->
       md[i].page + k - 1]])

\* The region the device ends up with is the memory: every page that holds a
\* byte of it, no other page, and in the order in which a guest pointer counts.
\* A wrong link, a lost last page or a stray entry makes the device's transfers
\* read or write another page of the machine.
RegionIsMemory == pc = "done" => region = MemoryPages

\* The table stays inside the helper and within the device's limit: createGMR
\* writes no slot past the end of a helper page, the device never gets to a page
\* that createGMR does not own, and it gets to the end of the table before its limit
\* stops it, for the links and the empty entry at the end count as well
\* (SVGA_REG_GMR_MAX_DESCRIPTOR_LENGTH).
TableWithinLimits ==
  /\ pc = "fill" /\ offset < Len(md) => page \in HelperPages /\ slot < DPP
  /\ pc \in {"device", "done"} => at[1] \in HelperPages /\ at[2] <= DPP
  /\ pc = "device" => reads < MaxLength

=============================================================================
