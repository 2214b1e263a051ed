--------------------------- MODULE RootServerInit ---------------------------
(***************************************************************************)
(* root_server_init of src/src/boot/root_server.rs after the allocator:   *)
(* the root CNode is filled with the initial capabilities at their fixed  *)
(* slots, the page tables of the initial address space, the extra         *)
(* boot-info frames and the user-image frames are handed out through      *)
(* provide_cap from ndks_boot.slot_pos_cur upwards, the boot-info frame   *)
(* records which slot ranges hold which caps, and the initial thread gets *)
(* copies of its CSpace, VSpace and IPC-buffer caps.                      *)
(*                                                                         *)
(* The module extends BootAlloc, whose root_server_mem_init is the first *)
(* call of root_server_init: the objects it allocates are the ones the    *)
(* caps name.  Boot is sequential; every call of root_server_init is one  *)
(* step and its loops are recursive operators.  A cap is its type and the *)
(* object address it names; mapping bits, rights and the MDB links made   *)
(* by cteInsert (CNode.tla) are left out.                                 *)
(***************************************************************************)
EXTENDS BootAlloc, FiniteSets, Sequences

CONSTANTS
    NumInitialCaps,   \* seL4_NumInitialCaps
    CapSlot,          \* the fixed slot of each initial cap (seL4_CapInitThreadTCB, ...)
    PTLevels,         \* CONFIG_PT_LEVELS
    PTIndexBits,      \* RISCV_PT_INDEX_BITS
    VRegs,            \* it_v_reg values: the initial thread's virtual image
    UIRegs,           \* ui_reg values: the physical user-image region
    ExtraSizes,       \* extra_bi_size values (bytes)
    IRQs,             \* 0..maxIRQ
    IRQInvalid,       \* irqInvalid
    KernelTimerIRQ,   \* KERNEL_TIMER_IRQ
    DomSchedule,      \* ksDomSchedule: a sequence of [domain, length]
    NumDomains        \* CONFIG_NUM_DOMAINS

Slots    == 0..BIT(RootCNodeSizeBits) - 1
Cap(t, p) == [type |-> t, ptr |-> p]
NullCap  == Cap("null", 0)
CapTypes == {"null", "cnode", "domain", "irq_control", "page_table", "frame",
             "asid_pool", "asid_control", "thread", "reply"}
NoRegion == Region(0, 0)

(* Stages of root_server_init: the call to make next, or how it ended.    *)
Stages == {"mem_init", "root_cnode", "domain_cap", "irqs", "bi_frame",
           "address_space", "bi_frame_cap", "ipcbuf", "ui_frames", "asid",
           "initial_thread", "done", "failed", "halted"}

VARIABLES
    itVReg, uiReg, extraSize,  \* arguments of root_server_init
    cslots,     \* the root CNode's slots
    slotPos,    \* ndks_boot.slot_pos_cur
    bi,         \* the boot-info fields this code writes
    loc,        \* root_server_init's locals: root CNode, VSpace and IPC-buffer caps
    tcb,        \* the initial TCB's CTable, VTable, IPC-buffer and reply slots
    irqState,   \* intStateIRQTable
    asidTable,  \* riscvKSASIDTable entry and the pool's IT_ASID entry
    domSched,   \* ksCurDomain and ksDomainTime
    stage,
    panicAt     \* the assert! that failed after root_server_mem_init, if any

initVars == <<itVReg, uiReg, extraSize, cslots, slotPos, bi, loc, tcb, irqState,
              asidTable, domSched, stage, panicAt>>
allVars == <<vars, initVars>>

(***************************************************************************)
(* Boot helpers outside src/ (boot utils and the seL4 boot code they      *)
(* port), as seL4 defines them.                                            *)
(***************************************************************************)
LvlPgSizeBits(i) == PTIndexBits * (PTLevels - 1 - i) + PageBits   \* RISCV_GET_LVL_PGSIZE_BITS
ROUND_UP(n, b) == ((n + 2^b - 1) \div 2^b) * 2^b

(* arch_get_n_paging: per page-table level below the root, the number of *)
(* level-sized spans it_v_reg touches.                                    *)
arch_get_n_paging(v) ==
    LET Spans(b) == (ROUND_UP(v.end, b) - ROUND_DOWN(v.start, b)) \div 2^b
        RECURSIVE Sum(_)
        Sum(i) == IF i >= PTLevels - 1 THEN 0 ELSE Spans(LvlPgSizeBits(i)) + Sum(i + 1)
    IN  Sum(0)

(* calculate_extra_bi_size_bits: log2 of the extra boot-info size rounded *)
(* up to a page, over-allocating when it is not a power of two.          *)
calculate_extra_bi_size_bits(size) ==
    IF size = 0 THEN 0
    ELSE LET r   == ROUND_UP(size, PageBits)
             msb == CHOOSE b \in 0..W - 1 : 2^b <= r /\ r < 2^(b + 1)
         IN  IF size > 2^msb THEN msb + 1 ELSE msb

(* The loops below carry bs = [slots, pos, paging, ok, panic, region].     *)
(* provide_cap: write the cap at slot_pos_cur and advance it, or fail     *)
(* once every slot of the root CNode is used.                              *)
provide_cap(bs, cap) ==
    IF bs.pos >= BIT(RootCNodeSizeBits) THEN [bs EXCEPT !.ok = FALSE]
    ELSE [bs EXCEPT !.slots[bs.pos] = cap, !.pos = bs.pos + 1]

(* it_alloc_paging: the next page-table object of the bump region        *)
(* rootserver.paging; the assert fails past its end.                      *)
it_alloc_paging(bs) ==
    IF bs.paging + BIT(PageTableBits) > rootserver.paging_end
    THEN [bs EXCEPT !.panic = TRUE]
    ELSE [bs EXCEPT !.paging = bs.paging + BIT(PageTableBits)]

(* The page-table loop of rust_create_it_address_space: for each level    *)
(* i < CONFIG_PT_LEVELS - 1, one page table per level-sized span from     *)
(* ROUND_DOWN(it_v_reg.start) below it_v_reg.end.  The table is          *)
(* allocated before provide_cap is tried, so a full CNode still uses it.  *)
(* A plausible slip: the span loop runs while pt_vptr <= it_v_reg.end.    *)
RECURSIVE PTSpans_le(_, _, _, _)
PTSpans_le(bs, v, i, vptr) ==
    IF vptr > v.end THEN bs
    ELSE LET a == it_alloc_paging(bs)
             p == provide_cap(a, Cap("page_table", bs.paging))
         IN  IF a.panic THEN a
             ELSE IF ~p.ok THEN p
             ELSE PTSpans_le(p, v, i, vptr + BIT(LvlPgSizeBits(i)))

RECURSIVE PTSpans(_, _, _, _)
PTSpans(bs, v, i, vptr) ==
    IF vptr >= v.end THEN bs
    ELSE LET a == it_alloc_paging(bs)
             p == provide_cap(a, Cap("page_table", bs.paging))
         IN  IF a.panic THEN a
             ELSE IF ~p.ok THEN p
             ELSE PTSpans(p, v, i, vptr + BIT(LvlPgSizeBits(i)))

RECURSIVE PTLevelsLoop(_, _, _)
PTLevelsLoop(bs, v, i) ==
    IF i >= PTLevels - 1 THEN bs
    ELSE LET r == PTSpans(bs, v, i, ROUND_DOWN(v.start, LvlPgSizeBits(i)))
         IN  IF r.panic \/ ~r.ok THEN r ELSE PTLevelsLoop(r, v, i + 1)

(* rust_create_mapped_it_frame_cap: a 4K frame cap for pptr (its entry in *)
(* the initial page tables, map_it_frame_cap, is not modelled).           *)
rust_create_mapped_it_frame_cap(pptr) == Cap("frame", pptr)

(* The frame loop of rust_create_frames_of_region: a mapped frame cap per *)
(* page of reg, stopping at the first provide_cap that fails.              *)
RECURSIVE FramesLoop(_, _, _)
FramesLoop(bs, f, end) ==
    IF f >= end THEN bs
    ELSE LET p == provide_cap(bs, rust_create_mapped_it_frame_cap(f))
         IN  IF ~p.ok THEN p ELSE FramesLoop(p, f + BIT(PageBits), end)

(* rust_create_frames_of_region: on success the slot range it filled.     *)
rust_create_frames_of_region(bs, reg) ==
    LET r == FramesLoop(bs, reg.start, reg.end)
    IN  [r EXCEPT !.region = IF r.ok THEN Region(bs.pos, r.pos) ELSE NoRegion]

(* The loop state at the current global state.                            *)
LoopStart == [slots |-> cslots, pos |-> slotPos, paging |-> rootserver.paging_start,
              ok |-> TRUE, panic |-> FALSE, region |-> NoRegion]

(* The globals a loop leaves behind.                                       *)
LoopEffect(r) ==
    /\ cslots' = r.slots
    /\ slotPos' = r.pos
    /\ rootserver' = [rootserver EXCEPT !.paging_start = r.paging]

(***************************************************************************)
(* The calls of root_server_init, in its order.  The null-cap tests after *)
(* create_root_cnode, create_ipcbuf_frame_cap and rust_create_it_asid_pool*)
(* never fire (those functions always return a real cap) and the test of *)
(* the initial thread against 0 cannot either; they have no step.         *)
(***************************************************************************)
Write(slot, cap) == cslots' = [cslots EXCEPT ![CapSlot[slot]] = cap]

(* root_server_mem_init.  With no region placed, rootserver stays all 0   *)
(* and the next call writes through the null rootserver.cnode: a kernel   *)
(* fault, modelled as a halt.                                              *)
MemInit ==
    /\ stage = "mem_init"
    /\ RootServerMemInit
    /\ stage' = IF halt' = "none" /\ rootserver_mem'.end > 0 THEN "root_cnode" ELSE "halted"
    /\ panicAt' = IF halt' = "none" /\ rootserver_mem'.end = 0 THEN "null_rootserver" ELSE "none"
    /\ UNCHANGED <<itVReg, uiReg, extraSize, cslots, slotPos, bi, loc, tcb, irqState,
                   asidTable, domSched>>

create_root_cnode ==
    /\ stage = "root_cnode"
    /\ Write("InitThreadCNode", Cap("cnode", rootserver.cnode))
    /\ loc' = [loc EXCEPT !.rootCNode = Cap("cnode", rootserver.cnode)]
    /\ stage' = "domain_cap"
    /\ UNCHANGED <<vars, itVReg, uiReg, extraSize, slotPos, bi, tcb, irqState, asidTable,
                   domSched, panicAt>>

(* The asserts on ksDomSchedule, then the domain cap.                      *)
create_domain_cap ==
    /\ stage = "domain_cap"
    /\ IF /\ Len(DomSchedule) > 0
          /\ \A i \in DOMAIN DomSchedule :
                DomSchedule[i].domain < NumDomains /\ DomSchedule[i].length > 0
       THEN Write("Domain", Cap("domain", 0)) /\ stage' = "irqs" /\ UNCHANGED panicAt
       ELSE stage' = "halted" /\ panicAt' = "create_domain_cap" /\ UNCHANGED cslots
    /\ UNCHANGED <<vars, itVReg, uiReg, extraSize, slotPos, bi, loc, tcb, irqState,
                   asidTable, domSched>>

init_irqs ==
    /\ stage = "irqs"
    /\ irqState' = [i \in IRQs |-> IF i = KernelTimerIRQ THEN "Timer"
                                   ELSE IF i # IRQInvalid THEN "Inactive" ELSE irqState[i]]
    /\ Write("IRQControl", Cap("irq_control", 0))
    /\ stage' = "bi_frame"
    /\ UNCHANGED <<vars, itVReg, uiReg, extraSize, slotPos, bi, loc, tcb, asidTable,
                   domSched, panicAt>>

(* The boot-info frame is cleared, so its slot regions start empty; the   *)
(* dynamic caps start at seL4_NumInitialCaps.                              *)
(* A plausible slip: ndks_boot.slot_pos_cur is not set here.              *)
rust_populate_bi_frame_noSlotPos ==
    /\ stage = "bi_frame"
    /\ bi' = [userImagePaging |-> NoRegion, extraBIPages |-> NoRegion,
              userImageFrames |-> NoRegion, extraLen |-> extraSize,
              initThreadDomain |-> DomSchedule[1].domain]
    /\ stage' = "address_space"
    /\ UNCHANGED <<vars, itVReg, uiReg, extraSize, cslots, slotPos, loc, tcb, irqState,
                   asidTable, domSched, panicAt>>

rust_populate_bi_frame ==
    /\ stage = "bi_frame"
    /\ bi' = [userImagePaging |-> NoRegion, extraBIPages |-> NoRegion,
              userImageFrames |-> NoRegion, extraLen |-> extraSize,
              initThreadDomain |-> DomSchedule[1].domain]
    /\ slotPos' = NumInitialCaps
    /\ stage' = "address_space"
    /\ UNCHANGED <<vars, itVReg, uiReg, extraSize, cslots, loc, tcb, irqState, asidTable,
                   domSched, panicAt>>

rust_create_it_address_space ==
    /\ stage = "address_space"
    /\ LET pd == Cap("page_table", rootserver.vspace)
           r  == PTLevelsLoop([LoopStart EXCEPT !.slots[CapSlot["InitThreadVSpace"]] = pd],
                              itVReg, 0)
       IN  /\ LoopEffect(r)
           /\ CASE r.panic -> stage' = "halted" /\ panicAt' = "it_alloc_paging"
                              /\ UNCHANGED <<bi, loc>>
                [] ~r.ok   -> stage' = "failed" /\ UNCHANGED <<bi, loc, panicAt>>
                [] OTHER   -> /\ bi' = [bi EXCEPT !.userImagePaging = Region(slotPos, r.pos)]
                              /\ loc' = [loc EXCEPT !.itPD = pd]
                              /\ stage' = "bi_frame_cap"
                              /\ UNCHANGED panicAt
    /\ UNCHANGED <<freemem, freemem0, extra, npaging, rootserver_mem, halt, pc, itVReg,
                   uiReg, extraSize, tcb, irqState, asidTable, domSched>>

create_bi_frame_cap(bs) ==
    [bs EXCEPT !.slots[CapSlot["BootInfoFrame"]] =
                   rust_create_mapped_it_frame_cap(rootserver.boot_info)]

(* create_bi_frame_cap, then, for a non-empty extra boot info, a frame    *)
(* cap per page of [rootserver.extra_bi, + extra_bi_size).                 *)
init_bi_frame_cap ==
    /\ stage = "bi_frame_cap"
    /\ LET bs == create_bi_frame_cap(LoopStart)
           r  == IF extraSize > 0
                 THEN rust_create_frames_of_region(bs,
                          Region(rootserver.extra_bi, rootserver.extra_bi + extraSize))
                 ELSE bs
       IN  /\ LoopEffect(r)
           /\ bi' = IF extraSize > 0 /\ r.ok THEN [bi EXCEPT !.extraBIPages = r.region] ELSE bi
           /\ stage' = IF r.ok THEN "ipcbuf" ELSE "failed"
    /\ UNCHANGED <<freemem, freemem0, extra, npaging, rootserver_mem, halt, pc, itVReg,
                   uiReg, extraSize, loc, tcb, irqState, asidTable, domSched, panicAt>>

(* A plausible slip: the IPC-buffer cap names rootserver.boot_info, as    *)
(* create_bi_frame_cap's does.                                              *)
create_ipcbuf_frame_cap_bootInfo ==
    /\ stage = "ipcbuf"
    /\ Write("InitThreadIPCBuffer", rust_create_mapped_it_frame_cap(rootserver.boot_info))
    /\ loc' = [loc EXCEPT !.ipcbuf = rust_create_mapped_it_frame_cap(rootserver.boot_info)]
    /\ stage' = "ui_frames"
    /\ UNCHANGED <<vars, itVReg, uiReg, extraSize, slotPos, bi, tcb, irqState, asidTable,
                   domSched, panicAt>>

create_ipcbuf_frame_cap ==
    /\ stage = "ipcbuf"
    /\ Write("InitThreadIPCBuffer", rust_create_mapped_it_frame_cap(rootserver.ipc_buf))
    /\ loc' = [loc EXCEPT !.ipcbuf = rust_create_mapped_it_frame_cap(rootserver.ipc_buf)]
    /\ stage' = "ui_frames"
    /\ UNCHANGED <<vars, itVReg, uiReg, extraSize, slotPos, bi, tcb, irqState, asidTable,
                   domSched, panicAt>>

create_frame_ui_frames ==
    /\ stage = "ui_frames"
    /\ LET r == rust_create_frames_of_region(LoopStart, uiReg)
       IN  /\ LoopEffect(r)
           /\ bi' = IF r.ok THEN [bi EXCEPT !.userImageFrames = r.region] ELSE bi
           /\ stage' = IF r.ok THEN "asid" ELSE "failed"
    /\ UNCHANGED <<freemem, freemem0, extra, npaging, rootserver_mem, halt, pc, itVReg,
                   uiReg, extraSize, loc, tcb, irqState, asidTable, domSched, panicAt>>

(* rust_create_it_asid_pool and write_it_asid_pool.                        *)
asid_init ==
    /\ stage = "asid"
    /\ cslots' = [cslots EXCEPT ![CapSlot["InitThreadASIDPool"]] = Cap("asid_pool", rootserver.asid_pool),
                                ![CapSlot["ASIDControl"]] = Cap("asid_control", 0)]
    /\ asidTable' = [pool |-> rootserver.asid_pool, entry |-> loc.itPD.ptr]
    /\ stage' = "initial_thread"
    /\ UNCHANGED <<vars, itVReg, uiReg, extraSize, slotPos, bi, loc, tcb, irqState,
                   domSched, panicAt>>

(* create_initial_thread: deriveCap of a frame cap succeeds; the TCB gets *)
(* copies of the caps root_server_init holds, a reply cap, and the domain *)
(* of the first schedule entry (ksDomScheduleIdx is 0 at boot).           *)
create_initial_thread ==
    /\ stage = "initial_thread"
    /\ tcb' = [ctable |-> loc.rootCNode, vtable |-> loc.itPD, buffer |-> loc.ipcbuf,
               reply |-> Cap("reply", rootserver.tcb)]
    /\ domSched' = [cur |-> DomSchedule[1].domain, time |-> DomSchedule[1].length]
    /\ Write("InitThreadTCB", Cap("thread", rootserver.tcb))
    /\ stage' = "done"
    /\ UNCHANGED <<vars, itVReg, uiReg, extraSize, slotPos, bi, loc, irqState, asidTable,
                   panicAt>>

(* root_server_init has returned (Some or None) or the kernel stopped.     *)
Finished == stage \in {"done", "failed", "halted"} /\ UNCHANGED allVars

BootInit ==
    /\ itVReg \in VRegs
    /\ uiReg \in UIRegs
    /\ extraSize \in ExtraSizes
    /\ Init
    /\ npaging = arch_get_n_paging(itVReg)
    /\ extra = calculate_extra_bi_size_bits(extraSize)
    /\ cslots = [i \in Slots |-> NullCap]
    /\ slotPos = 0
    /\ bi = [userImagePaging |-> NoRegion, extraBIPages |-> NoRegion,
             userImageFrames |-> NoRegion, extraLen |-> 0, initThreadDomain |-> 0]
    /\ loc = [rootCNode |-> NullCap, itPD |-> NullCap, ipcbuf |-> NullCap]
    /\ tcb = [ctable |-> NullCap, vtable |-> NullCap, buffer |-> NullCap, reply |-> NullCap]
    /\ irqState = [i \in IRQs |-> "Inactive"]
    /\ asidTable = [pool |-> 0, entry |-> 0]
    /\ domSched = [cur |-> 0, time |-> 0]
    /\ stage = "mem_init"
    /\ panicAt = "none"

BootNext ==
    \/ MemInit
    \/ create_root_cnode
    \/ create_domain_cap
    \/ init_irqs
    \/ rust_populate_bi_frame
    \/ rust_create_it_address_space
    \/ init_bi_frame_cap
    \/ create_ipcbuf_frame_cap
    \/ create_frame_ui_frames
    \/ asid_init
    \/ create_initial_thread
    \/ Finished

BootSpec == BootInit /\ [][BootNext]_allVars

(***************************************************************************)
(* Properties.                                                             *)
(***************************************************************************)
NumPages(bytes) == (bytes + BIT(PageBits) - 1) \div BIT(PageBits)
CapsIn(r) == [k \in 0..(r.end - r.start - 1) |-> cslots[r.start + k]]
PagesFrom(t, first, n, b) == [k \in 0..(n - 1) |-> Cap(t, first + k * BIT(b))]
CapsNeeded == NumInitialCaps + npaging + NumPages(extraSize)
                + NumPages(uiReg.end - uiReg.start)

BootTypeOK ==
    /\ TypeOK
    /\ cslots \in [Slots -> [type : CapTypes, ptr : 0..WordMax]]
    /\ slotPos \in 0..BIT(RootCNodeSizeBits)
    /\ stage \in Stages
    /\ panicAt \in {"none", "null_rootserver", "create_domain_cap", "it_alloc_paging"}

(* When root_server_init returns the initial thread, the boot-info frame  *)
(* tells the root task exactly where its caps are: the page tables, the   *)
(* extra boot-info frames and the user-image frames lie in consecutive    *)
(* slot ranges from seL4_NumInitialCaps up to slot_pos_cur, each range    *)
(* holds one cap per object or page in address order (every page table   *)
(* rootserver.paging reserved is used), and every slot above is empty.    *)
BootInfoRegionsExact ==
    stage = "done" =>
        LET pg == bi.userImagePaging
            ex == bi.extraBIPages
            ui == bi.userImageFrames
        IN  /\ pg.start = NumInitialCaps
            /\ ex.start = IF extraSize > 0 THEN pg.end ELSE 0
            /\ ui.start = IF extraSize > 0 THEN ex.end ELSE pg.end
            /\ ui.end = slotPos
            /\ rootserver.paging_start = rootserver.paging_end
            /\ CapsIn(pg) = PagesFrom("page_table", rootserver.paging_end - npaging * BIT(PageTableBits),
                                      npaging, PageTableBits)
            /\ CapsIn(ex) = PagesFrom("frame", rootserver.extra_bi, NumPages(extraSize), PageBits)
            /\ CapsIn(ui) = PagesFrom("frame", uiReg.start, NumPages(uiReg.end - uiReg.start), PageBits)
            /\ \A i \in slotPos..BIT(RootCNodeSizeBits) - 1 : cslots[i] = NullCap

(* The initial caps at their fixed slots, the initial TCB's cap slots and *)
(* the ASID table name the objects root_server_mem_init allocated, after  *)
(* every later call (and every cap handed out from slot_pos_cur) has run. *)
RootCapsNameRootServerObjects ==
    stage = "done" =>
        LET expected ==
                [InitThreadTCB |-> Cap("thread", rootserver.tcb),
                 InitThreadCNode |-> Cap("cnode", rootserver.cnode),
                 InitThreadVSpace |-> Cap("page_table", rootserver.vspace),
                 IRQControl |-> Cap("irq_control", 0),
                 ASIDControl |-> Cap("asid_control", 0),
                 InitThreadASIDPool |-> Cap("asid_pool", rootserver.asid_pool),
                 BootInfoFrame |-> Cap("frame", rootserver.boot_info),
                 InitThreadIPCBuffer |-> Cap("frame", rootserver.ipc_buf),
                 Domain |-> Cap("domain", 0)]
        IN  /\ \A n \in DOMAIN expected : cslots[CapSlot[n]] = expected[n]
            /\ tcb.ctable = expected.InitThreadCNode
            /\ tcb.vtable = expected.InitThreadVSpace
            /\ tcb.buffer = expected.InitThreadIPCBuffer
            /\ asidTable = [pool |-> rootserver.asid_pool, entry |-> rootserver.vspace]

(* Once the root-server objects are placed, root_server_init never hits   *)
(* an assert (it_alloc_paging in particular always finds a page table    *)
(* reserved by create_rootserver_objects), and it returns None exactly   *)
(* when the initial caps, page tables and frames do not fit in the root   *)
(* CNode.                                                                  *)
BootFailsOnlyWhenCNodeFull ==
    (Placed /\ halt = "none" /\ stage \in {"done", "failed", "halted"}) =>
        /\ panicAt = "none"
        /\ (stage = "done" <=> CapsNeeded <= BIT(RootCNodeSizeBits))

====
