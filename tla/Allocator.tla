----------------------------- MODULE Allocator -----------------------------
(***************************************************************************)
(* What kmalloc/kfree (and umalloc/ufree) promise their callers, whatever  *)
(* the list behind them looks like: a call either fails or hands out a     *)
(* range of heap bytes that no other caller holds, and a free gives the    *)
(* range back.  KernelHeap is shown to implement this module.              *)
(***************************************************************************)
EXTENDS Integers

CONSTANTS HEAP_SIZE,   \* bytes from heap.start to heap.end
          REQUESTS     \* sizes that callers ask for

VARIABLE live   \* pointer handed out and not yet freed |-> bytes asked for

\* Nobody holds a byte of p .. p+n-1, all of which lie in the heap.
Unused(p, n) ==
  /\ p + n <= HEAP_SIZE
  /\ \A q \in DOMAIN live : q + live[q] <= p \/ p + n <= q

Init == live = [p \in {} |-> 0]

Malloc ==
  \E n \in REQUESTS, p \in 0 .. HEAP_SIZE :
    /\ n > 0
    /\ p \notin DOMAIN live
    /\ Unused(p, n)
    /\ live' = [q \in DOMAIN live \cup {p} |-> IF q = p THEN n ELSE live[q]]

Free ==
  \E p \in DOMAIN live : live' = [q \in DOMAIN live \ {p} |-> live[q]]

Next == Malloc \/ Free

Spec == Init /\ [][Next]_live
=============================================================================
