---------------------------- MODULE MC_BootAlloc ----------------------------
(***************************************************************************)
(* root_server_init for TLC: 8-bit addresses; object sizes scaled from    *)
(* riscv64 (CNode 2^17, page-sized 2^12, TCB 2^10) to a 32-slot root      *)
(* CNode of one-byte slots, pages of 2^2 and a TCB of 2^1.  The free      *)
(* region boundaries make regions fit exactly, fit only when unaligned,   *)
(* be too small, or lie below the root-server size (the underflow case). *)
(* Free regions are kernel-window addresses, never 0 (0 is also the "not  *)
(* allocated" sentinel of maybe_alloc_extra_bi).                          *)
(*                                                                         *)
(* Three page-table levels of one index bit give spans of 2^4 and 2^3:    *)
(* it_v_reg [8,16) needs 2 page tables and ends on a span boundary,       *)
(* [4,12) needs 3.  The extra boot-info sizes give 0, 1, 8 and 10 frames  *)
(* (sizes bits 0, 2, 5, 6) and the user images 5 or 7 frames, so that the *)
(* 18 slots above seL4_NumInitialCaps are filled exactly, one short, or    *)
(* overrun by one or two.  Slot numbers are seL4's.                       *)
(***************************************************************************)
EXTENDS RootServerInit

MC_Points == {4, 8, 12, 64, 96, 128, 160, 255}
MC_ExtraChoices == {0, 2, 5, 6}
MC_NPagingChoices == {2, 3}

MC_CapSlot ==
    [InitThreadTCB |-> 1, InitThreadCNode |-> 2, InitThreadVSpace |-> 3,
     IRQControl |-> 4, ASIDControl |-> 5, InitThreadASIDPool |-> 6,
     BootInfoFrame |-> 9, InitThreadIPCBuffer |-> 10, Domain |-> 11]
MC_VRegs == {Region(8, 16), Region(4, 12)}
MC_UIRegs == {Region(200, 220), Region(200, 228)}
MC_ExtraSizes == {0, 4, 32, 40}
MC_IRQs == 0..2
MC_DomSchedule == << [domain |-> 0, length |-> 1] >>

====
