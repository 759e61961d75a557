------------------------------- MODULE Allocator -------------------------------
(***************************************************************************)
(* What realloc promises its caller: the blocks handed out and not freed   *)
(* yet lie apart, within the heap, and hold what their owner wrote.        *)
(***************************************************************************)
EXTENDS Naturals

CONSTANTS Top,      \* the heap's end
          Sizes,    \* how large a block can be
          Data      \* what its owner can write to it

VARIABLE live       \* of each block in use: its size and its contents

Blocks == [size : Sizes, data : Data]

Clear(p, size, q) == p + size <= q \/ q + live[q].size <= p

Apart == \A p, q \in DOMAIN live : p # q => Clear(p, live[p].size, q)

Init == live = [p \in {} |-> {}]

(* A new block lies clear of the others, and disturbs none.                 *)
Alloc(p) ==
    /\ live'[p] \in Blocks /\ p # 0 /\ p + live'[p].size <= Top
    /\ DOMAIN live' = DOMAIN live \cup {p}
    /\ \A q \in DOMAIN live : live'[q] = live[q] /\ Clear(p, live'[p].size, q)

Free(p) == live' = [q \in DOMAIN live \ {p} |-> live[q]]

Next ==
    \/ \E p \in DOMAIN live' \ DOMAIN live : Alloc(p)
    \/ \E p \in DOMAIN live : Free(p)

Spec == Init /\ [][Next]_live
=============================================================================
