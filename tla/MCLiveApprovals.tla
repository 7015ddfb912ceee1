---------------------------- MODULE MCLiveApprovals ----------------------------
(* The instance of LiveApprovals for TLC.                                   *)
EXTENDS LiveApprovals, TLC

CONSTANTS r1, r2, k1, c1, c2

(* The first wait may be about one call, as requests and contents are       *)
(* interchangeable, the second about any call of the same key.              *)
FirstCallFixed ==
    1 :> {[request |-> r1, key |-> k1, content |-> c1]} @@
    2 :> {[request |-> r, key |-> k1, content |-> c] : r \in {r1, r2}, c \in {c1, c2}}
=============================================================================
