------------------------------- MODULE Reconcile ------------------------------
(***************************************************************************)
(* The host's loop around the provider: observe, resuming an incomplete    *)
(* observation from its next cursor; plan offline from the latest          *)
(* observation and the desired input as it is then; observe again.  The    *)
(* desired input and the remote may change at any point of it.             *)
(***************************************************************************)
EXTENDS ObserveHandler

CONSTANT Targets  \* the output targets the host may plan for

ASSUME TargetsAssumption == Targets \subseteq OutputTarget

VARIABLE plan  \* the plan made from the current observation, if any

loopVars == <<vars, plan>>

NoPlan == [made |-> FALSE]

MadePlan == [made : {TRUE}, in : DesiredInputs, target : Targets,
             planned : BOOLEAN, actions : Seq(PlannedAction),
             diagnostics : SUBSET Diagnostic]

-------------------------------------------------------------------------------

Init == ObserveInit /\ plan = NoPlan

\* A new observation supersedes the plan of the one before.
HostObserve ==
    /\ Observe(IF observation.complete THEN "" ELSE observation.nextCursor)
    /\ plan' = NoPlan

HostPlan ==
    /\ call.pc = "idle"
    /\ ~plan.made
    /\ \E target \in Targets :
         LET response == Plan(desired, observation, target) IN
         plan' = [made |-> TRUE, in |-> desired, target |-> target,
                  planned |-> response.planned, actions |-> response.actions,
                  diagnostics |-> response.diagnostics]
    /\ UNCHANGED vars

AnswerProjectRead == ReadProject /\ UNCHANGED plan

AnswerKeyRead == ReadKeys /\ UNCHANGED plan

Disturb == \/ EditInput /\ UNCHANGED plan
           \/ RemoteChange /\ UNCHANGED <<setupVars, desired, observeVars, plan>>

Next == HostObserve \/ AnswerProjectRead \/ AnswerKeyRead \/ HostPlan
          \/ Disturb

Spec == Init /\ [][Next]_loopVars

-------------------------------------------------------------------------------

Definitive == {"no-active-client-key", "ambiguous-client-key",
               "client-key-revoked", "client-key-mismatch"}

Projections == {plan.actions[i] : i \in {j \in DOMAIN plan.actions :
                                  plan.actions[j].type = "PROJECT_OUTPUT"}}

Reports(code) == \E d \in plan.diagnostics : d.code = code

ForRuntime == plan.made /\ plan.target.contract # "error-tracking-build"

TypeOK == ObserveTypeOK /\ (plan = NoPlan \/ plan \in MadePlan)

\* A read that was rate-limited, failed at the server or was refused by the
\* host never becomes a definitive verdict: an unread project is not called
\* inaccessible, unread keys are not called missing, revoked, ambiguous or
\* none, and neither leads to a projection (observe.go:16-22, plan.go:78-81,
\* 118-124; observe_test.go:236-264).
UncertainNeverDefinitive ==
    /\ plan.made /\ read.project = "uncertain" =>
         ~Reports("project-inaccessible") /\ Projections = {}
    /\ ForRuntime /\ read.keys = "uncertain" =>
         (\A code \in Definitive : ~Reports(code)) /\ Projections = {}

\* A projected DSN is that of an active key on the page that was read at the
\* address still desired, when that read and the project's had succeeded; it is
\* the configured key, or the page's only active one.
ProjectionSound ==
    ForRuntime =>
      \A action \in Projections : \A v \in action.values :
        v.name = "SENTRY_DSN" =>
          /\ read.project = "ok" /\ read.keys = "ok"
          /\ read.address = plan.in.address
          /\ \E i \in DOMAIN read.page :
               /\ read.page[i].active
               /\ read.page[i].dsn = v.value /\ v.value # NoText
               /\ IF plan.in.clientKeyID # NoText
                    THEN read.page[i].id = plan.in.clientKeyID
                    ELSE ActiveAt(read.page) = {i}

\* What Plan reports of the keys is true of the list as it was read, when one
\* page held all of it.
VerdictsTrue ==
    LET list     == read.list
        explicit == plan.in.clientKeyID
    IN  ForRuntime /\ read.keys = "ok" /\ read.page = list =>
          /\ Reports("no-active-client-key") => ActiveAt(list) = {}
          /\ Reports("client-key-mismatch") => MatchesAt(list, explicit) = {}
          /\ Reports("client-key-revoked") =>
               \E i \in MatchesAt(list, explicit) : ~list[i].active
          /\ Reports("ambiguous-client-key") =>
               Cardinality(ActiveAt(list)) > 1 /\ explicit = NoText

\* The SDK refused what this plan proposes: the projection of the key that the
\* plan says it selected, or of the build reference.
RefusedBySDK ==
    IF ForRuntime
      THEN \E k \in DOMAIN observation.keys, i \in DOMAIN plan.actions :
             LET key == observation.keys[k] IN
             /\ plan.actions[i] = Action("NO_OP", "client-key-selected", key.id)
             /\ ~ProposalAccepted(plan.target, RuntimeValues(plan.in, key))
      ELSE ~ProposalAccepted(plan.target, BuildValues(plan.in))

\* A plan that projects nothing says why: it reports an error, nothing was asked
\* for (another contract or no generation, plan.go:204; no build credential), or
\* the SDK refused the projection, of the very key the plan names, which is the
\* one refusal the planner passes over in silence (plan.go:248-250, 264-267).
\* Nothing is projected along with an error, or that was not asked for.
PlansExplainThemselves ==
    LET asked == IF ForRuntime THEN RuntimeTarget(plan.target)
                 ELSE plan.in.build # NoText
    IN  plan.made =>
          IF Projections = {}
            THEN HasError(plan.diagnostics) \/ ~asked \/ RefusedBySDK
            ELSE ~HasError(plan.diagnostics) /\ asked

-------------------------------------------------------------------------------
(* Claims of the repository that the code does not keep. *)

\* "treats an unconfirmed client-key list as incomplete and blocks a
\* sole-active selection rather than risk a silent array[0]" (README.md:102-104):
\* a key selected as the sole active one is the only active key of the project.
SoleActiveIsExhaustive ==
    ForRuntime /\ plan.in.clientKeyID = NoText =>
      \A i \in DOMAIN plan.actions :
        plan.actions[i].id = "client-key-selected" =>
          Cardinality(ActiveAt(read.list)) = 1

\* No-active and explicit-missing "are all valid only over a complete list"
\* (observe.go:340-344): neither is reported of a list that was not read.
NoVerdictForUnreadKeys ==
    ForRuntime
      /\ (Reports("no-active-client-key") \/ Reports("client-key-mismatch"))
        => read.keys = "ok"

\* The restart marker "is a resume marker, never a Sentry-issued cursor"
\* (observe.go:109-111): it is never sent to Sentry as the list's cursor.
RestartIsNotASentryCursor ==
    call.pc = "keys" => call.cursor # Restart

-------------------------------------------------------------------------------

\* The host answers every callback and keeps observing and planning.
Fairness == /\ WF_loopVars(AnswerProjectRead)
            /\ WF_loopVars(AnswerKeyRead)
            /\ WF_loopVars(HostObserve)
            /\ SF_loopVars(HostPlan)

FairSpec == Spec /\ Fairness

\* What an undisturbed Observe of the remote as it is now would return.
FreshObservation ==
    LET a == desired.address IN
    [complete |-> TRUE, nextCursor |-> "",
     projects |-> IF leadsTo[a] = NoText THEN {} ELSE {ProjectResource(a)},
     keys     |-> PageOf(KeyListOf(a), "")]

UpToDate ==
    LET response == Plan(desired, FreshObservation, plan.target) IN
    /\ plan.in = desired
    /\ plan.planned = response.planned
    /\ plan.actions = response.actions
    /\ plan.diagnostics = response.diagnostics

\* Once failures and changes stop, the plans settle on what the remote really
\* holds, whatever was observed, resumed or planned in between.
PlansSettle ==
    hosted /\ admitted => []<>plan.made /\ <>[](plan.made => UpToDate)

===============================================================================
