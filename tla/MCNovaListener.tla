--------------------------- MODULE MCNovaListener ---------------------------
(* Three instances: one on cores of its own, one whose policy uses a       *)
(* plugin, and one on another host.                                        *)
EXTENDS NovaListener

CONSTANTS k1, k2, u1, u2, u3

NoPolicies == <<>>

OneCoreEach == [u \in UUIDs |-> IF u = u1 THEN {k1} ELSE IF u = u2 THEN {k2} ELSE {}]
=============================================================================
