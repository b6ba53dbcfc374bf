--------------------------- MODULE MCBoundedStore ---------------------------
(***************************************************************************)
(* The two bounded stores with expiry; a behaviour is of one of them.      *)
(***************************************************************************)
EXTENDS LruTtlCache, ExpiringLruCache

Next ==
    \/ kind = "LruTtlCache" /\ LruTtlNext
    \/ kind = "ExpiringLruCache" /\ ExpiringLruNext
    \/ Common

Spec == Init /\ [][Next]_vars
=============================================================================
