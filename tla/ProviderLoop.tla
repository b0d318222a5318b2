------------------------------ MODULE ProviderLoop ----------------------------
(***************************************************************************)
(* The whole of the provider under its host: observe, plan and apply, each *)
(* call a few steps long, while people change the remote and edit the      *)
(* input, callbacks fail, replies get lost and calls are given up.  The    *)
(* host plans for the generation after its latest output, and a plan is    *)
(* dropped when a new observation starts, though not a call under way.     *)
(***************************************************************************)
EXTENDS Reconcile, ApplyHandler, Functions

VARIABLES wanted,  \* history: the inputs ever desired
          seen     \* history: what was ever true at Sentry

providerVars == <<loopVars, applyVars, wanted, seen>>

\* What is true at Sentry: the addresses that lead to a project, and the active
\* keys there.
Truths ==
    {[address |-> a, key |-> NoKey] :
       a \in {b \in Addresses : leadsTo[b] # NoText}}
    \cup UNION {{[address |-> a, key |-> key] :
                   key \in {k \in Range(KeyListOf(a)) : k.active}} :
                a \in Addresses}

ProviderInit == /\ Init /\ ApplyInit
                /\ wanted = {desired}
                /\ seen = Truths

Remember == /\ wanted' = wanted \cup {desired'}
            /\ seen' = seen \cup Truths'

-------------------------------------------------------------------------------

PlanNextGeneration ==
    /\ HostPlan
    /\ plan'.target.generation = outputs[plan'.target.contract].generation + 1

ObserveAndPlan == HostObserve \/ AnswerProjectRead \/ AnswerKeyRead
                    \/ PlanNextGeneration

Recorded(c) == /\ held.contract = c
               /\ held.generation = outputs[c].generation

\* A projection is needed for other values, or for a commit without a record.
Needed(action) == \/ action.values # outputs[action.contract].values
                  \/ ~Recorded(action.contract)

HostApply == /\ plan.made
             /\ \E action \in Range(plan.actions) \cup HandedActions :
                  /\ action.type = "PROJECT_OUTPUT" => Needed(action)
                  /\ ApplyAction(plan.actions, action)

ProviderNext ==
    /\ \/ (ObserveAndPlan \/ Disturb) /\ UNCHANGED applyVars
       \/ (HostApply \/ ApplyStep) /\ UNCHANGED loopVars
    /\ Remember

ProviderSpec == ProviderInit /\ [][ProviderNext]_providerVars

-------------------------------------------------------------------------------

\* The abstract promise, of the outputs without the proposals they came from.
Promise == INSTANCE ProjectionContract WITH
             outputs <- [c \in Contracts |->
                           [generation |-> outputs[c].generation,
                            values |-> outputs[c].values]]

\* Whatever is observed, planned, applied, retried, abandoned or delivered late,
\* each output the host commits keeps the promise (plan.go:71-81, apply.go:45-48).
ContractKept == Promise!Spec

===============================================================================
