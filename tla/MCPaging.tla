------------------------------ MODULE MCPaging ------------------------------
(***************************************************************************)
(* Twelve frames: two of the kernel, one that the BIOS may withhold, two   *)
(* for the kernel's tables.  User space has three slots.  After the boot   *)
(* there is one frame left, or none, for two pages that may be touched.    *)
(***************************************************************************)
EXTENDS Paging

CONSTANTS low, high, code, heap, stack

Slots3 == {code, heap, stack}
CodePages2 == <<<<code, 0>>, <<stack, 11>>>>
HeapPage1 == <<heap, 2>>
Touched5 == {<<code, 0>>, <<code, 5>>, HeapPage1, <<heap, 3>>, <<low, 0>>}
=============================================================================
