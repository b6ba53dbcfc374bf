----------------------------- MODULE MCMapStore -----------------------------
(***************************************************************************)
(* The three stores over a hash map; a behaviour is of one of them.        *)
(***************************************************************************)
EXTENDS TtlCache, ExpiringCache, UnboundCache

Next ==
    \/ kind = "TtlCache" /\ TtlNext
    \/ kind = "ExpiringCache" /\ ExpiringNext
    \/ kind = "UnboundCache" /\ UnboundNext
    \/ Common

Spec == Init /\ [][Next]_vars
=============================================================================
