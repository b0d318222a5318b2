----------------------------- MODULE MCPageReading ----------------------------
(* Two ids, one DSN: every list of up to MaxKeys keys, repeated ids included. *)
EXTENDS PageReading

CONSTANTS k1, k2, d1

MCKeyIds == {k1, k2}
MCDsns   == {d1}

===============================================================================
