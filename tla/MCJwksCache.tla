---------------------------- MODULE MCJwksCache ----------------------------
(* Small instances of JwksCache for TLC. *)
EXTENDS JwksCache

CONSTANTS r1, r2, k1
=============================================================================
