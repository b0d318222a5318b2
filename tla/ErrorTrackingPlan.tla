--------------------------- MODULE ErrorTrackingPlan --------------------------
(***************************************************************************)
(* The offline planner of internal/provider/plan.go: a function of the     *)
(* desired input, the observation and the output target.                   *)
(***************************************************************************)
EXTENDS Observation, SentryRead

CONSTANTS Texts,             \* environments, releases and build references
          SDKAccepts(_, _)   \* whether sdk.NewProjectOutputAction makes an action
                             \* of a target and its values, for reasons of its own

ASSUME PlanTextAssumption == NoText \notin Texts

\* What validateInputs may report of an input.
InputProblems == {Diag("ERROR", "invalid-input"),
                  Diag("WARNING", "self-hosted-admission")}

\* The typed inputs.  "parsed" is whether parseInputs accepts the raw input,
\* "problems" what validateInputs then reports.  "build" is the opaque
\* reference with the BUILD purpose among the credential references.
Inputs == [parsed : BOOLEAN, problems : SUBSET InputProblems,
           address : Addresses, clientKeyID : Optional(KeyIds),
           expectedDSN : Optional(Dsns), environment : Optional(Texts),
           release : Optional(Texts), build : Optional(Texts)]

Contracts == {"error-tracking", "error-tracking-build", "other"}

OutputTarget == [contract : Contracts, generation : Nat]

ActionTypes == {"NO_OP", "PROJECT_OUTPUT", "BLOCKED", "MANUAL"}

\* The ids and the names that the planner gives.  A literal is not known to the
\* provers as a member of STRING.
ActionIds == {"project-inaccessible", "client-key-selected", "client-key-none",
              "client-key-incomplete", "client-key-ambiguous",
              "client-key-revoked", "client-key-missing",
              "error-tracking-project", "build-credential-absent",
              "error-tracking-build-project"}

OutputNames == {"SENTRY_DSN", "SENTRY_ENVIRONMENT", "SENTRY_RELEASE",
                "SENTRY_AUTH_TOKEN", "SENTRY_ORG_PROJECT"}

OutputValue == [name : STRING \cup OutputNames, kind : {"public", "reference"},
                value : Dsns \cup Texts \cup Addresses]

PublicOutput(name, value)    == [name |-> name, kind |-> "public", value |-> value]
ReferenceOutput(name, value) == [name |-> name, kind |-> "reference", value |-> value]

PlannedAction == [type : ActionTypes, id : ActionIds,
                  remoteID : Optional(KeyIds \cup Projects),
                  contract : Contracts, generation : Nat,
                  values : SUBSET OutputValue]

Action(type, id, remoteID) ==
    [type |-> type, id |-> id, remoteID |-> remoteID,
     contract |-> "other", generation |-> 0, values |-> {}]

ProjectionAction(id, target, values) ==
    [type |-> "PROJECT_OUTPUT", id |-> id, remoteID |-> NoText,
     contract |-> target.contract, generation |-> target.generation,
     values |-> values]

\* The SDK may refuse any proposal; one without a generation is no proposal.
ProposalAccepted(target, values) ==
    target.generation > 0 /\ SDKAccepts(target, values)

Verdict(action, diagnostics) == [actions |-> <<action>>,
                                 diagnostics |-> diagnostics]

-------------------------------------------------------------------------------
(* The project gate. *)

\* Mutant: any accessible project passes.
AnyAccessible(in, observation) ==
    \E p \in observation.projects : p.accessible

Confirmed(in, observation) ==
    \E p \in observation.projects : p.accessible /\ p.address = in.address

\* Mutant: an absent project is inaccessible, however it came to be absent.
AlwaysInaccessible(observation) == "project-inaccessible"

GateCode(observation) ==
    IF observation.projects = {} /\ ~observation.complete
      THEN "outcome-unknown" ELSE "project-inaccessible"

BlockedProject(observation) ==
    LET remoteID == IF observation.projects = {} THEN NoText
                    ELSE (CHOOSE p \in observation.projects : TRUE).remoteID
    IN  Verdict(Action("BLOCKED", "project-inaccessible", remoteID),
                {Diag("ERROR", GateCode(observation))})

-------------------------------------------------------------------------------
(* The runtime contract. *)

\* Mutant: an unset environment or release is projected as the empty string.
UnguardedValues(in, key) ==
    { PublicOutput("SENTRY_DSN", key.dsn),
      PublicOutput("SENTRY_ENVIRONMENT", in.environment),
      PublicOutput("SENTRY_RELEASE", in.release) }

RuntimeValues(in, key) ==
    {PublicOutput("SENTRY_DSN", key.dsn)}
      \cup {PublicOutput("SENTRY_ENVIRONMENT", e) : e \in {in.environment} \ {NoText}}
      \cup {PublicOutput("SENTRY_RELEASE", r) : r \in {in.release} \ {NoText}}

RuntimeTarget(target) ==
    target.contract = "error-tracking" /\ target.generation # 0

NoProjection(diagnostics) == [actions |-> << >>, diagnostics |-> diagnostics]

\* Mutant: a selected key without a public DSN is passed over in silence.
SilentErrorTracking(in, target, key) ==
    LET values == RuntimeValues(in, key) IN
    IF /\ RuntimeTarget(target) /\ key.dsn # NoText
       /\ ProposalAccepted(target, values)
      THEN Verdict(ProjectionAction("error-tracking-project", target, values), {})
      ELSE NoProjection({})

\* A selected key without a public DSN is schema drift, not a projection; a
\* proposal that the SDK refuses is dropped in silence.
PlanErrorTracking(in, target, key) ==
    LET values == RuntimeValues(in, key) IN
    IF ~RuntimeTarget(target) THEN NoProjection({})
    ELSE IF key.dsn = NoText
      THEN NoProjection({Diag("ERROR", "schema-drift")})
    ELSE IF ProposalAccepted(target, values)
      THEN Verdict(ProjectionAction("error-tracking-project", target, values), {})
    ELSE NoProjection({})

PlanSelected(in, target, sel) ==
    LET output   == PlanErrorTracking(in, target, sel.key)
        mismatch == in.expectedDSN # NoText /\ in.expectedDSN # sel.key.dsn
    IN  [actions |-> <<Action("NO_OP", "client-key-selected", sel.key.id)>>
                       \o output.actions,
         diagnostics |-> output.diagnostics
           \cup (IF mismatch THEN {Diag("WARNING", "supplied-dsn-mismatch")}
                             ELSE {})]

\* A conclusion that depends on the whole list is blocked over an incomplete one.
PlanRuntime(in, target, keys, complete) ==
    LET sel == SelectClientKey(keys, in.clientKeyID)
        Blocked(id, remoteID, code) ==
          Verdict(Action("BLOCKED", id, remoteID), {Diag("ERROR", code)})
    IN  IF ~complete /\ ExhaustivenessDependent(sel)
          THEN Blocked("client-key-incomplete", NoText, "outcome-unknown")
        ELSE IF sel.outcome = "selected"
          THEN PlanSelected(in, target, sel)
        ELSE IF sel.outcome = "no-active"
          THEN Verdict(Action("MANUAL", "client-key-none", NoText),
                       {Diag("ERROR", "no-active-client-key")})
        ELSE IF sel.outcome = "ambiguous"
          THEN Blocked("client-key-ambiguous", NoText, "ambiguous-client-key")
        ELSE IF sel.outcome = "explicit-revoked"
          THEN Blocked("client-key-revoked", sel.key.id, "client-key-revoked")
        ELSE Blocked("client-key-missing", NoText, "client-key-mismatch")

-------------------------------------------------------------------------------
(* The build contract: an opaque reference, from the build credential only. *)

BuildValues(in) == { ReferenceOutput("SENTRY_AUTH_TOKEN", in.build),
                     PublicOutput("SENTRY_ORG_PROJECT", in.address) }

\* A proposal that the SDK refuses takes the diagnostic with it.
PlanBuild(in, target) ==
    LET unverified == {Diag("INFO", "scope-unverified")} IN
    IF in.build = NoText
      THEN Verdict(Action("NO_OP", "build-credential-absent", NoText), unverified)
    ELSE IF ProposalAccepted(target, BuildValues(in))
      THEN Verdict(ProjectionAction("error-tracking-build-project", target,
                                    BuildValues(in)), unverified)
    ELSE NoProjection({})

-------------------------------------------------------------------------------

Unplanned(diagnostics) ==
    [planned |-> FALSE, actions |-> << >>, diagnostics |-> diagnostics]

Planned(verdict) ==
    [planned |-> TRUE, actions |-> verdict.actions,
     diagnostics |-> verdict.diagnostics]

\* Parse, validate, the project gate, then the contract the target asks for.
Plan(in, observation, target) ==
    IF ~in.parsed
      THEN Unplanned({Diag("ERROR", "invalid-input")})
    ELSE IF HasError(in.problems)
      THEN Unplanned(in.problems)
    ELSE IF ~Confirmed(in, observation)
      THEN Planned(BlockedProject(observation))
    ELSE IF target.contract = "error-tracking-build"
      THEN Planned(PlanBuild(in, target))
    ELSE Planned(PlanRuntime(in, target, observation.keys, observation.complete))

===============================================================================
