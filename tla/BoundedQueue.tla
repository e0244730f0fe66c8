---------------------------- MODULE BoundedQueue ----------------------------
(***************************************************************************)
(* What a buffer between two parties promises: what went in comes out      *)
(* once, in that order, and never more is held than there is room for.     *)
(***************************************************************************)
EXTENDS Naturals, Sequences

CONSTANTS Items, Capacity, Nothing

VARIABLES held,     \* what is in the buffer
          got       \* what was taken out last

QueueInit == held = <<>> /\ got = Nothing

Enter(x) ==
    /\ Len(held) < Capacity
    /\ held' = Append(held, x)
    /\ UNCHANGED got

Leave ==
    /\ held # <<>>
    /\ got' = Head(held)
    /\ held' = Tail(held)

\* the reader gives up everything that had come in by some moment
Discard == \E n \in 0 .. Len(held) : held' = SubSeq(held, n + 1, Len(held)) /\ got' = Nothing

QueueNext == (\E x \in Items : Enter(x)) \/ Leave \/ Discard

QueueSpec == QueueInit /\ [][QueueNext]_<< held, got >>
=============================================================================
