------------------------------- MODULE MCProvider -----------------------------
(* The remote of MCReconcile and a binding for each of its addresses, told     *)
(* apart by their environments; one of them has a build reference as well.     *)
EXTENDS MCReconcile, ProviderLoop

CONSTANT t2

MCEnvironments == {t1, t2}

MCBindings ==
    { Binding(a1, NoText),
      [Binding(a2, NoText) EXCEPT !.environment = t2, !.build = t1] }

MCTargetsTo(n) ==
    { [contract |-> c, generation |-> g] :
        c \in {"error-tracking", "error-tracking-build"}, g \in 1..n }

MCTwoGenerations == MCTargetsTo(2)

\* What an earlier plan of the first binding projects, altered.
MCForged ==
    { ProjectionAction("error-tracking-project",
                       [contract |-> "error-tracking", generation |-> 1],
                       {PublicOutput("SENTRY_DSN", d2)}) }

\* A server with a host, and a host that keeps no state yet; the runs of the
\* handlers cover the others.
MCServing == hosted /\ admitted /\ named /\ held = NoState

MCInit == ProviderInit /\ MCServing

MCProviderSpec == MCInit /\ [][ProviderNext]_providerVars

MCFewFaults == {500}

===============================================================================
