----------------------------- MODULE MCRegroupLoop ----------------------------
(* Lists of up to three elements: a full key, one whose activity and secrets  *)
(* only are known, one that carries nothing the policy forwards, and ones     *)
(* without a DSN or with nothing but a label.                                 *)
EXTENDS RegroupLoop, TLC

CONSTANTS k1, k2, k3, d1, d2, s1, l1

MCKeyIds == {k1, k2, k3}
MCDsns   == {d1, d2}
MCLabels == {l1}

Full(id, active, dsn) ==
    ".id" :> id @@ ".isActive" :> active @@ ".dsn.public" :> dsn
      @@ ".secret" :> s1 @@ ".dsn.secret" :> s1

Elements ==
    { Full(k1, TRUE, d1), Full(k2, FALSE, d2),
      ".id" :> k3 @@ ".isActive" :> TRUE @@ ".label" :> l1,
      ".isActive" :> TRUE @@ ".secret" :> s1,
      ".label" :> l1,
      ".dsn.secret" :> s1 }

MCBodies == UNION {[1..n -> Elements] : n \in 0..3}

===============================================================================
