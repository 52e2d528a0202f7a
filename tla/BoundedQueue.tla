---------------------------- MODULE BoundedQueue ----------------------------
(***************************************************************************)
(* A bounded FIFO: what a synchronized_pointer_queue promises.             *)
(***************************************************************************)
EXTENDS Naturals, Sequences

CONSTANTS Values, Capacity

VARIABLE contents

Init == contents = <<>>

Put(v) == Len(contents) < Capacity /\ contents' = Append(contents, v)

Take == contents # <<>> /\ contents' = Tail(contents)

Next == Take \/ \E v \in Values : Put(v)

Spec == Init /\ [][Next]_contents
=============================================================================
