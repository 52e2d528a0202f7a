---------------------------- MODULE RegionSource ----------------------------
(***************************************************************************)
(* What layer 3 of the allocator expects of layer 4: a region it is given  *)
(* is nobody else's, and stays mapped until it is given back.              *)
(***************************************************************************)
CONSTANT Regions

VARIABLES out,   \* regions layer 3 has
          mapped \* regions whose memory is there

Init == out = {} /\ mapped = {}

Take == \E r \in mapped \ out : out' = out \cup {r} /\ UNCHANGED mapped
Give == \E r \in out : out' = out \ {r} /\ UNCHANGED mapped
Remap == /\ mapped' \in {m \in SUBSET Regions : out \subseteq m}
         /\ UNCHANGED out

Next == Take \/ Give \/ Remap
Spec == Init /\ [][Next]_<<out, mapped>>
=============================================================================
