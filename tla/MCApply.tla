-------------------------------- MODULE MCApply -------------------------------
(* Two runtime plans of successive generations, one for the build, one that   *)
(* is blocked and one whose projection has no proposal; a caller may hand no   *)
(* action, a mutating one, or the first projection with another DSN in it.     *)
EXTENDS ApplyRetries

CONSTANTS a1, k1, d1, d2, t1

MCAddresses == {a1}
MCProjects  == {}
MCKeyIds    == {k1}
MCDsns      == {d1, d2}
MCTexts     == {t1}

MCAccepts(target, values) == TRUE

Runtime(generation, dsn) ==
    ProjectionAction("error-tracking-project",
                     [contract |-> "error-tracking", generation |-> generation],
                     {PublicOutput("SENTRY_DSN", dsn)})

Selected == Action("NO_OP", "client-key-selected", k1)

Build == ProjectionAction("error-tracking-build-project",
                          [contract |-> "error-tracking-build", generation |-> 1],
                          {ReferenceOutput("SENTRY_AUTH_TOKEN", t1)})

MCRuntimePlans == { <<Selected, Runtime(1, d1)>>, <<Selected, Runtime(2, d2)>> }

MCPlans == MCRuntimePlans \cup
           { <<Build>>, <<Action("BLOCKED", "project-inaccessible", NoText)>>,
             <<Runtime(0, d1)>> }

MCHandedActions ==
    { NoAction, Runtime(1, d2), [Selected EXCEPT !.type = "CREATE"] }

===============================================================================
