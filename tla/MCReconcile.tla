----------------------------- MODULE MCReconcile ------------------------------
(* Two addresses, two projects: p1 holds an active and a revoked key, p2 an    *)
(* active key without a DSN; a further active key may be created in either.    *)
(* Bindings with and without an explicit key, for both addresses, one with a   *)
(* DSN to reconcile and a build reference, one that does not parse and one     *)
(* that is invalid; the two contracts, each also without a generation, and one *)
(* target of which the SDK refuses what is proposed.                           *)
EXTENDS Reconcile

CONSTANTS a1, a2, p1, p2, k1, k2, k3, k4, d1, d2, t1

MCAddresses == {a1, a2}
MCProjects  == {p1, p2}
MCKeyIds    == {k1, k2, k3, k4}
MCDsns      == {d1, d2}
MCTexts     == {t1}
MCNewKeys   == {[id |-> k4, active |-> TRUE, dsn |-> d2]}

MCInitialKeys ==
    [p \in MCProjects |->
       IF p = p1 THEN <<[id |-> k1, active |-> TRUE, dsn |-> d1],
                        [id |-> k2, active |-> FALSE, dsn |-> d2]>>
                 ELSE <<[id |-> k3, active |-> TRUE, dsn |-> NoText]>>]

MCFaultCodes == {302, 403, 429, 500}

Binding(address, key) ==
    [parsed |-> TRUE, problems |-> {}, address |-> address,
     clientKeyID |-> key, expectedDSN |-> NoText, environment |-> t1,
     release |-> NoText, build |-> NoText]

MCLoopInputs ==
    { Binding(a1, NoText), Binding(a1, k2),
      [Binding(a2, k3) EXCEPT !.expectedDSN = d1, !.build = t1],
      [Binding(a1, NoText) EXCEPT !.parsed = FALSE],
      [Binding(a1, NoText) EXCEPT
         !.problems = {Diag("ERROR", "invalid-input")}] }

MCTargets ==
    { [contract |-> "error-tracking", generation |-> 1],
      [contract |-> "error-tracking", generation |-> 2],
      [contract |-> "error-tracking", generation |-> 0],
      [contract |-> "error-tracking-build", generation |-> 0],
      [contract |-> "error-tracking-build", generation |-> 1] }

MCAccepts(target, values) == target.generation = 1

MCAcceptsAll(target, values) == TRUE

\* The explicit key and no explicit key, at one address, one target.
MCFewInputs == {Binding(a1, NoText), Binding(a1, k2)}

MCOneTarget == {[contract |-> "error-tracking", generation |-> 1]}

===============================================================================
