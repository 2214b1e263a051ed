----------------------------- MODULE BootAlloc -----------------------------
(***************************************************************************)
(* The boot-time root-server allocator of src/src/boot/root_server.rs:     *)
(* root_server_mem_init chooses, scanning the free-memory array from the   *)
(* highest index down, a region that can hold all root-server objects at  *)
(* the strictest alignment, and create_rootserver_objects carves it up     *)
(* bump-style.  Boot is sequential, so the model has one step, the whole   *)
(* call, over every free-memory layout and every (extra boot-info size,    *)
(* number of paging structures) input.  Addresses are W-bit words: the     *)
(* subtraction end - size wraps as usize does.  Object sizes are scaled    *)
(* down but keep the order of the real ones (CNode > VSpace = page = ASID  *)
(* pool = boot info = page table > TCB).                                   *)
(***************************************************************************)
EXTENDS Integers

CONSTANTS
    W,                  \* bits of a machine word (usize)
    FreememLen,         \* MAX_NUM_FREEMEM_REG
    SlotBits,           \* seL4_SlotBits
    RootCNodeSizeBits,  \* CONFIG_ROOT_CNODE_SIZE_BITS
    TCBBits,            \* seL4_TCBBits
    PageBits,           \* seL4_PageBits
    BIFrameBits,        \* BI_FRAME_SIZE_BITS
    ASIDPoolBits,       \* seL4_ASIDPoolBits
    VSpaceBits,         \* seL4_VSpaceBits
    PageTableBits,      \* seL4_PageTableBits
    Points,             \* candidate boundaries of free regions
    ExtraChoices,       \* extra_bi_size_bits values the caller can pass
    NPagingChoices,     \* arch_get_n_paging(it_v_reg) values
    OverflowChecks      \* TRUE: a build in which usize underflow panics

WordMax == 2^W - 1                 \* usize::MAX
BIT(b) == 2^b
ROUND_DOWN(n, b) == (n \div 2^b) * 2^b
Region(s, e) == [start |-> s, end |-> e]
EmptyRegion == Region(0, 0)
is_reg_empty(r) == r.start = r.end

ObjFields == {"cnode", "vspace", "asid_pool", "ipc_buf", "boot_info",
              "extra_bi", "tcb", "paging_start", "paging_end"}
NoRootserver == [f \in ObjFields |-> 0]

VARIABLES
    freemem,        \* ndks_boot.freemem, indexed 0..FreememLen-1
    freemem0,       \* history: freemem before the call
    extra,          \* extra_bi_size_bits argument
    npaging,        \* arch_get_n_paging(it_v_reg)
    rootserver,     \* the rootserver record of object addresses
    rootserver_mem, \* the bump region
    halt,           \* "none" or "panic" (a failed assert!)
    pc              \* "init" before the call, "done" after it

vars == <<freemem, freemem0, extra, npaging, rootserver, rootserver_mem, halt, pc>>

Idx == 0..FreememLen - 1

(***************************************************************************)
(* Sizes: calculate_rootserver_size and rootserver_max_size_bits.         *)
(***************************************************************************)
calculate_rootserver_size(n, ebits) ==
    BIT(RootCNodeSizeBits + SlotBits) + BIT(TCBBits) + BIT(PageBits)
      + BIT(BIFrameBits) + BIT(ASIDPoolBits)
      + (IF ebits > 0 THEN BIT(ebits) ELSE 0)
      + BIT(VSpaceBits) + n * BIT(PageTableBits)

rootserver_max_size_bits(ebits) ==
    LET cnode_size_bits == RootCNodeSizeBits + SlotBits
        maxx == IF cnode_size_bits > VSpaceBits THEN cnode_size_bits ELSE VSpaceBits
    IN  IF maxx > ebits THEN maxx ELSE ebits

(***************************************************************************)
(* The bump allocator.  st is [mem, rs, halt]; once an assert has failed  *)
(* nothing further happens.                                                *)
(***************************************************************************)
alloc_rootserver_obj(st, f, size_bits, n) ==
    LET allocated == st.mem.start
        newStart  == allocated + n * BIT(size_bits)
    IN  IF st.halt # "none" THEN st
        ELSE IF allocated % BIT(size_bits) # 0 \/ newStart > st.mem.end
             THEN [st EXCEPT !.halt = "panic"]
             ELSE [st EXCEPT !.mem.start = newStart, !.rs[f] = allocated]

maybe_alloc_extra_bi(st, cmp_size_bits, ebits) ==
    IF ebits >= cmp_size_bits /\ st.rs.extra_bi = 0
    THEN alloc_rootserver_obj(st, "extra_bi", ebits, 1)
    ELSE st

(* A plausible slip: the extra boot-info region is placed only after the  *)
(* page-sized objects, whatever its size.                                  *)
create_rootserver_objects_lateExtra(start, n, ebits) ==
    LET size == calculate_rootserver_size(n, ebits)
        st0  == [mem |-> Region(start, start + size), rs |-> NoRootserver, halt |-> "none"]
        st1  == alloc_rootserver_obj(st0, "cnode", RootCNodeSizeBits + SlotBits, 1)
        st2  == alloc_rootserver_obj(st1, "vspace", VSpaceBits, 1)
        st3  == alloc_rootserver_obj(st2, "asid_pool", ASIDPoolBits, 1)
        st4  == alloc_rootserver_obj(st3, "ipc_buf", PageBits, 1)
        st5  == alloc_rootserver_obj(st4, "boot_info", BIFrameBits, 1)
        st6  == maybe_alloc_extra_bi(st5, PageBits, ebits)
        st7  == alloc_rootserver_obj(st6, "paging_start", PageTableBits, n)
        st8  == [st7 EXCEPT !.rs.paging_end = st7.rs.paging_start + n * BIT(PageTableBits)]
        st9  == alloc_rootserver_obj(st8, "tcb", TCBBits, 1)
    IN  IF st9.halt = "none" /\ st9.mem.start # st9.mem.end
        THEN [st9 EXCEPT !.halt = "panic"] ELSE st9

create_rootserver_objects(start, n, ebits) ==
    LET max  == rootserver_max_size_bits(ebits)
        size == calculate_rootserver_size(n, ebits)
        st0  == [mem |-> Region(start, start + size), rs |-> NoRootserver, halt |-> "none"]
        st1  == maybe_alloc_extra_bi(st0, max, ebits)
        st2  == alloc_rootserver_obj(st1, "cnode", RootCNodeSizeBits + SlotBits, 1)
        st3  == maybe_alloc_extra_bi(st2, VSpaceBits, ebits)
        st4  == alloc_rootserver_obj(st3, "vspace", VSpaceBits, 1)
        st5  == maybe_alloc_extra_bi(st4, PageBits, ebits)
        st6  == alloc_rootserver_obj(st5, "asid_pool", ASIDPoolBits, 1)
        st7  == alloc_rootserver_obj(st6, "ipc_buf", PageBits, 1)
        st8  == alloc_rootserver_obj(st7, "boot_info", BIFrameBits, 1)
        st9  == alloc_rootserver_obj(st8, "paging_start", PageTableBits, n)
        st10 == [st9 EXCEPT !.rs.paging_end = st9.rs.paging_start + n * BIT(PageTableBits)]
        st11 == alloc_rootserver_obj(st10, "tcb", TCBBits, 1)
    IN  \* assert_eq!(rootserver_mem.start, rootserver_mem.end)
        IF st11.halt = "none" /\ st11.mem.start # st11.mem.end
        THEN [st11 EXCEPT !.halt = "panic"] ELSE st11

(***************************************************************************)
(* root_server_mem_init.  The index i is a usize: the scans end when it   *)
(* is decremented past 0 to usize::MAX (with overflow checks that        *)
(* decrement panics instead).  Each iteration asserts that i+1            *)
(* is a valid, empty slot, tries region i, and otherwise shuffles it up    *)
(* into slot i+1.  The result is the new free array and the allocator's    *)
(* state; if no region fits the loop ends without allocating anything.     *)
(***************************************************************************)
Dec(i) == (i - 1) % 2^W

(* Skipping the empty slots never decrements past 0: slot 0 holds memory. *)
RECURSIVE SkipEmpty(_, _)
SkipEmpty(fm, i) ==
    IF i # WordMax /\ is_reg_empty(fm[i]) THEN SkipEmpty(fm, Dec(i)) ELSE i

NotPlaced == [mem |-> EmptyRegion, rs |-> NoRootserver, halt |-> "none"]
Panicked  == [NotPlaced EXCEPT !.halt = "panic"]

(* A plausible slip: the region must leave room strictly above its start. *)
RECURSIVE MemInitLoop_strictFit(_, _, _, _)
MemInitLoop_strictFit(fm, i, n, ebits) ==
    LET size == calculate_rootserver_size(n, ebits)
        max  == rootserver_max_size_bits(ebits)
    IN  IF ~(i # WordMax /\ i < FreememLen) THEN [fm |-> fm, st |-> NotPlaced]
        ELSE IF ~(i < FreememLen - 1) \/ ~is_reg_empty(fm[i + 1])
        THEN [fm |-> fm, st |-> Panicked]
        ELSE LET unaligned_start == (fm[i].end - size) % 2^W
                 start == ROUND_DOWN(unaligned_start, max)
             IN  IF unaligned_start <= fm[i].end /\ start > fm[i].start
                 THEN [fm |-> [fm EXCEPT ![i + 1] = Region(start + size, fm[i].end),
                                         ![i].end = start],
                       st |-> create_rootserver_objects(start, n, ebits)]
                 ELSE LET shuffled == [fm EXCEPT ![i + 1] = fm[i], ![i] = EmptyRegion]
                      IN  IF i = 0 /\ OverflowChecks THEN [fm |-> shuffled, st |-> Panicked]
                          ELSE MemInitLoop_strictFit(shuffled, Dec(i), n, ebits)

(* A plausible slip: the underflow test on end - size is left out.        *)
RECURSIVE MemInitLoop_noUnderflowCheck(_, _, _, _)
MemInitLoop_noUnderflowCheck(fm, i, n, ebits) ==
    LET size == calculate_rootserver_size(n, ebits)
        max  == rootserver_max_size_bits(ebits)
    IN  IF ~(i # WordMax /\ i < FreememLen) THEN [fm |-> fm, st |-> NotPlaced]
        ELSE IF ~(i < FreememLen - 1) \/ ~is_reg_empty(fm[i + 1])
        THEN [fm |-> fm, st |-> Panicked]
        ELSE LET unaligned_start == (fm[i].end - size) % 2^W
                 start == ROUND_DOWN(unaligned_start, max)
             IN  IF start >= fm[i].start
                 THEN [fm |-> [fm EXCEPT ![i + 1] = Region(start + size, fm[i].end),
                                         ![i].end = start],
                       st |-> create_rootserver_objects(start, n, ebits)]
                 ELSE LET shuffled == [fm EXCEPT ![i + 1] = fm[i], ![i] = EmptyRegion]
                      IN  IF i = 0 /\ OverflowChecks THEN [fm |-> shuffled, st |-> Panicked]
                          ELSE MemInitLoop_noUnderflowCheck(shuffled, Dec(i), n, ebits)

(* A plausible slip: the chosen region is not shortened to end at start.  *)
RECURSIVE MemInitLoop_keepEnd(_, _, _, _)
MemInitLoop_keepEnd(fm, i, n, ebits) ==
    LET size == calculate_rootserver_size(n, ebits)
        max  == rootserver_max_size_bits(ebits)
    IN  IF ~(i # WordMax /\ i < FreememLen) THEN [fm |-> fm, st |-> NotPlaced]
        ELSE IF ~(i < FreememLen - 1) \/ ~is_reg_empty(fm[i + 1])
        THEN [fm |-> fm, st |-> Panicked]
        ELSE LET unaligned_start == (fm[i].end - size) % 2^W
                 start == ROUND_DOWN(unaligned_start, max)
             IN  IF unaligned_start <= fm[i].end /\ start >= fm[i].start
                 THEN [fm |-> [fm EXCEPT ![i + 1] = Region(start + size, fm[i].end)],
                       st |-> create_rootserver_objects(start, n, ebits)]
                 ELSE LET shuffled == [fm EXCEPT ![i + 1] = fm[i], ![i] = EmptyRegion]
                      IN  IF i = 0 /\ OverflowChecks THEN [fm |-> shuffled, st |-> Panicked]
                          ELSE MemInitLoop_keepEnd(shuffled, Dec(i), n, ebits)

RECURSIVE MemInitLoop(_, _, _, _)
MemInitLoop(fm, i, n, ebits) ==
    LET size == calculate_rootserver_size(n, ebits)
        max  == rootserver_max_size_bits(ebits)
    IN  IF ~(i # WordMax /\ i < FreememLen) THEN [fm |-> fm, st |-> NotPlaced]
        ELSE IF ~(i < FreememLen - 1) \/ ~is_reg_empty(fm[i + 1])   \* the two asserts
        THEN [fm |-> fm, st |-> Panicked]
        ELSE LET unaligned_start == (fm[i].end - size) % 2^W
                 start == ROUND_DOWN(unaligned_start, max)
             IN  IF unaligned_start <= fm[i].end /\ start >= fm[i].start
                 THEN [fm |-> [fm EXCEPT ![i + 1] = Region(start + size, fm[i].end),
                                         ![i].end = start],
                       st |-> create_rootserver_objects(start, n, ebits)]
                 ELSE LET shuffled == [fm EXCEPT ![i + 1] = fm[i], ![i] = EmptyRegion]
                      IN  IF i = 0 /\ OverflowChecks THEN [fm |-> shuffled, st |-> Panicked]
                          ELSE MemInitLoop(shuffled, Dec(i), n, ebits)

root_server_mem_init(fm, n, ebits) ==
    MemInitLoop(fm, SkipEmpty(fm, FreememLen - 1), n, ebits)

(***************************************************************************)
(* The free-memory arrays the boot code hands over (init_freemem, outside  *)
(* src/): non-empty regions first, in ascending address order and not     *)
(* overlapping, then empty slots; the last slot is kept empty and the    *)
(* first holds memory.                                                     *)
(***************************************************************************)
NonEmptyRegions == {r \in [start : Points, end : Points] : r.start < r.end}

Layouts ==
    {fm \in [Idx -> NonEmptyRegions \cup {EmptyRegion}] :
        /\ fm[FreememLen - 1] = EmptyRegion
        /\ fm[0] # EmptyRegion
        /\ \A i, j \in Idx : i < j /\ fm[j] # EmptyRegion =>
               fm[i] # EmptyRegion /\ fm[i].end <= fm[j].start}

Init ==
    /\ freemem \in Layouts
    /\ freemem0 = freemem
    /\ extra \in ExtraChoices
    /\ npaging \in NPagingChoices
    /\ rootserver = NoRootserver
    /\ rootserver_mem = EmptyRegion
    /\ halt = "none"
    /\ pc = "init"

RootServerMemInit ==
    /\ pc = "init"
    /\ LET r == root_server_mem_init(freemem, npaging, extra)
       IN  /\ freemem' = r.fm
           /\ rootserver' = r.st.rs
           /\ rootserver_mem' = r.st.mem
           /\ halt' = r.st.halt
    /\ pc' = "done"
    /\ UNCHANGED <<freemem0, extra, npaging>>

\* Boot continues with the rest of root_server_init; nothing here changes.
Done == pc = "done" /\ UNCHANGED vars

Next == RootServerMemInit \/ Done

Spec == Init /\ [][Next]_vars

(***************************************************************************)
(* Properties.                                                             *)
(***************************************************************************)
Size == calculate_rootserver_size(npaging, extra)
Align == rootserver_max_size_bits(extra)
Placed == rootserver_mem.end > 0          \* start + size > 0 once placed
AllocStart == rootserver_mem.end - Size    \* the bump region is used up
Addrs(r) == r.start..(r.end - 1)
FreeAddrs(fm) == UNION {Addrs(fm[i]) : i \in Idx}

TypeOK ==
    /\ freemem \in [Idx -> [start : 0..WordMax, end : 0..WordMax]]
    /\ rootserver \in [ObjFields -> 0..WordMax]
    /\ rootserver_mem \in [start : 0..WordMax, end : 0..WordMax]
    /\ halt \in {"none", "panic"}
    /\ pc \in {"init", "done"}

(* Reference for spec.md 4.8: region i can hold the objects at an aligned *)
(* start, computed without machine arithmetic.                             *)
Fits(r) == r.end >= Size /\ ROUND_DOWN(r.end - Size, Align) >= r.start
Fitting == {i \in Idx : Fits(freemem0[i])}

(* root_server_mem_init places the root-server objects exactly when some  *)
(* free region can hold them, and then in the highest such region at the  *)
(* highest aligned start, as the scan from the top with its usize          *)
(* underflow test intends.                                                 *)
AllocatorChoosesHighestFit ==
    (pc = "done" /\ halt = "none") =>
        /\ Placed <=> Fitting # {}
        /\ Placed =>
             LET j == CHOOSE i \in Fitting : \A k \in Fitting : k <= i
             IN  AllocStart = ROUND_DOWN(freemem0[j].end - Size, Align)

(* After root_server_mem_init the free array and the root-server region   *)
(* partition the memory that was free before: nothing is lost, nothing is *)
(* handed out twice, and the non-empty free regions are still ordered and *)
(* disjoint after the shuffling.                                           *)
FreeMemAccounted ==
    (pc = "done" /\ halt = "none") =>
        /\ Placed => FreeAddrs(freemem) \cap AllocStart..(rootserver_mem.end - 1) = {}
        /\ FreeAddrs(freemem) \cup (IF Placed THEN AllocStart..(rootserver_mem.end - 1) ELSE {})
               = FreeAddrs(freemem0)
        /\ \A i, k \in Idx : i < k /\ ~is_reg_empty(freemem[i]) /\ ~is_reg_empty(freemem[k])
               => freemem[i].end <= freemem[k].start

(* None of the asserts of root_server_mem_init, alloc_rootserver_obj and  *)
(* create_rootserver_objects fails: the slot above the candidate is empty,*)
(* every object is naturally aligned within the region, and the objects   *)
(* fill it exactly.                                                        *)
BootAllocNeverPanics == halt = "none"

(* When no free region can hold the root-server objects, boot stops       *)
(* (seL4's root_server_mem_init fails here) rather than continuing with   *)
(* every root-server object at address 0.                                 *)
RootServerAlwaysPlaced == pc = "done" => (Placed \/ halt = "panic")

====
