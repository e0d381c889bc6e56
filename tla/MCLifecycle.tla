---------------------------- MODULE MCLifecycle ----------------------------
(* Three launches at the same time: one that has failed and whose child is *)
(* about to end, the one that follows it, and one too many.                *)
EXTENDS Lifecycle

CONSTANTS s1, s2, s3
=============================================================================
