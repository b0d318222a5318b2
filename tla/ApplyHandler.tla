------------------------------ MODULE ApplyHandler ----------------------------
(***************************************************************************)
(* The ApplyAction handler (internal/provider/apply.go) and the host that  *)
(* calls it and commits what it proposes.  A call runs in two steps, before*)
(* and after ProposeOutput.  The host numbers its outputs itself and fences*)
(* them: it commits a proposal for a later generation than the last of its *)
(* contract, repeats its reply to the one it committed last, and refuses   *)
(* any other.  Replies get lost, commits fail, and a call that the host    *)
(* gave up may still bring its proposal later.                             *)
(***************************************************************************)
EXTENDS ErrorTrackingPlan, ProviderServer, FiniteSets

CONSTANTS HandedActions,  \* actions a caller may hand besides the bound plan's
          MaxSkip,        \* bound: generations the host leaves out at once
          MaxGeneration,  \* bound: the generations the host commits
          MaxMishaps      \* bound: failed, lost and abandoned proposals

ASSUME ApplyAssumption ==
    MaxSkip \in Nat /\ MaxGeneration \in Nat /\ MaxMishaps \in Nat

VARIABLES named,      \* whether the admitted context names the binding
          apply,      \* the call under way
          applied,    \* how the latest call returned: its status and receipt
          held,       \* the provider state the host holds
          outputs,    \* the host's latest output of each contract
          committed,  \* history: every output the host ever committed
          late,       \* proposals of abandoned calls that may still arrive
          mishaps     \* failed, lost and abandoned proposals so far

applyVars == <<named, apply, applied, held, outputs, committed, late, mishaps>>

MutatingTypes == {"CREATE", "UPDATE", "REPLACE", "DELETE", "IMPORT"}

\* A request without an action.
NoAction == [Action("NO_OP", "none", NoText) EXCEPT !.type = "NONE"]

\* An action carries a proposal when it was made for a generation.
HasProposal(action) == action.generation > 0

Proposal(action) == [contract |-> action.contract,
                     target |-> action.generation, values |-> action.values]

NoOutput == [target |-> 0, generation |-> 0, values |-> {}]

\* The reply to ProposeOutput.  A digest is the values it is the digest of.
Reply(kind, generation, digest) ==
    [kind |-> kind, generation |-> generation, digest |-> digest]

NoReply == Reply("none", 0, {})

\* The provider state: none at all, one without a V1 payload, or V1.
ProviderState(kind, contract, generation, digest) ==
    [kind |-> kind, contract |-> contract,
     generation |-> generation, digest |-> digest]

NoState == ProviderState("none", "other", 0, {})

\* A state the host keeps before any projection.
PriorStates == {NoState} \cup
               {ProviderState(kind, "other", 0, {}) : kind \in {"bare", "v1"}}

NoApply == [pc |-> "idle", action |-> NoAction, reply |-> NoReply]

Returned(status, receipt) == [status |-> status, receipt |-> receipt]

ApplyInit == /\ named \in BOOLEAN
             /\ apply = NoApply
             /\ applied = Returned("OK", NoAction)
             /\ held \in PriorStates
             /\ outputs = [c \in Contracts |-> NoOutput]
             /\ committed = {}
             /\ late = {}
             /\ mishaps = 0

-------------------------------------------------------------------------------
(* The provider. *)

Refuse(code) == /\ applied' = Returned(code, NoAction)
                /\ apply' = NoApply
                /\ UNCHANGED held

\* Mutant: the action is looked up by its id.
PlanHasID(actions, action) ==
    \E i \in DOMAIN actions : actions[i].id = action.id

\* The whole action must be one that the bound plan carries.
ActionInPlan(actions, action) == \E i \in DOMAIN actions : actions[i] = action

\* Mutant: an action of the plan is taken to carry a proposal.
ApplyUnproposed(actions, action) ==
    IF ~hosted THEN Refuse("Unavailable")
    ELSE IF ~ActionInPlan(actions, action) THEN Refuse("FailedPrecondition")
    ELSE /\ apply' = [pc |-> "proposing", action |-> action, reply |-> NoReply]
         /\ UNCHANGED <<held, applied>>

ApplyProjectOutput(actions, action) ==
    IF ~hosted THEN Refuse("Unavailable")
    ELSE IF ~ActionInPlan(actions, action) THEN Refuse("FailedPrecondition")
    ELSE IF ~HasProposal(action) THEN Refuse("InvalidArgument")
    ELSE /\ apply' = [pc |-> "proposing", action |-> action, reply |-> NoReply]
         /\ UNCHANGED <<held, applied>>

\* Mutant: no state is returned, since nothing was projected.
DropState(action) == /\ applied' = Returned("OK", action)
                     /\ held' = NoState
                     /\ UNCHANGED apply

\* The state of the request is the next state.
ApplyInert(action) == /\ applied' = Returned("OK", action)
                      /\ UNCHANGED <<held, apply>>

\* The host hands an action, with the plan it bound and the state it holds.
ApplyAction(actions, action) ==
    /\ apply.pc = "idle"
    /\ IF action = NoAction THEN Refuse("InvalidArgument")
       ELSE IF action.type = "PROJECT_OUTPUT"
         THEN ApplyProjectOutput(actions, action)
       ELSE IF action.type = "NO_OP" THEN ApplyInert(action)
       ELSE Refuse("FailedPrecondition")
    /\ UNCHANGED <<named, outputs, committed, late, mishaps>>

\* Mutant: the contract of the prior state stays.
StampWithoutContract(action, reply) ==
    IF held.kind = "v1"
      THEN [held EXCEPT !.generation = reply.generation, !.digest = reply.digest]
    ELSE ProviderState("v1", action.contract, reply.generation, reply.digest)

\* Mutant: a prior state is returned as it came.
MintOnly(action, reply) ==
    IF held = NoState /\ named
      THEN ProviderState("v1", action.contract, reply.generation, reply.digest)
      ELSE held

\* A V1 state is stamped, any other prior state kept, and a missing one minted
\* for the binding the context names.
ProjectedState(action, reply) ==
    IF held.kind = "v1" \/ (held = NoState /\ named)
      THEN ProviderState("v1", action.contract, reply.generation, reply.digest)
      ELSE held

\* Mutant: a reply is taken for a commit, durable or not.
FinishUnchecked ==
    /\ apply.pc = "replied"
    /\ IF apply.reply.kind = "failed"
         THEN Refuse("HostError")
       ELSE /\ applied' = Returned("OK", apply.action)
            /\ held' = ProjectedState(apply.action, apply.reply)
            /\ apply' = NoApply
    /\ UNCHANGED <<named, outputs, committed, late, mishaps>>

\* The rest of the call, once the host has replied.
FinishApply ==
    /\ apply.pc = "replied"
    /\ IF apply.reply.kind = "failed"
         THEN Refuse("HostError")
       ELSE IF apply.reply.kind = "undurable"
         THEN Refuse("Unavailable")
       ELSE /\ applied' = Returned("OK", apply.action)
            /\ held' = ProjectedState(apply.action, apply.reply)
            /\ apply' = NoApply
    /\ UNCHANGED <<named, outputs, committed, late, mishaps>>

-------------------------------------------------------------------------------
(* The host. *)

Result(output, reply) == [output |-> output, reply |-> reply]

\* What the host's fence makes of a proposal.
Fenced(p) ==
    LET last == outputs[p.contract] IN
    IF p.target = last.target /\ p.values = last.values
      THEN {Result(last, Reply("durable", last.generation, last.values))}
    ELSE IF p.target > last.generation
      THEN {Result([target |-> p.target, generation |-> g, values |-> p.values],
                   Reply("durable", g, p.values)) :
              g \in (p.target..(p.target + MaxSkip)) \cap (1..MaxGeneration)}
    ELSE {Result(last, Reply("failed", 0, {}))}

\* The commit fails, does not become durable, or loses its reply.
Failing(p) == {Result(r.output, Reply("failed", 0, {})) : r \in Fenced(p)}
                \cup {Result(outputs[p.contract], Reply(kind, 0, {})) :
                        kind \in {"failed", "undurable"}}

Commit(p, output) ==
    /\ outputs' = [outputs EXCEPT ![p.contract] = output]
    /\ committed' =
         IF output = NoOutput THEN committed
         ELSE committed \cup {[contract |-> p.contract, target |-> output.target,
                               generation |-> output.generation,
                               values |-> output.values]}

Mishap == mishaps < MaxMishaps /\ mishaps' = mishaps + 1

AnswerProposal ==
    LET p == Proposal(apply.action) IN
    /\ apply.pc = "proposing"
    /\ \E r \in Fenced(p) \cup Failing(p) :
         /\ \/ r \in Fenced(p) /\ UNCHANGED mishaps
            \/ Mishap
         /\ Commit(p, r.output)
         /\ apply' = [apply EXCEPT !.pc = "replied", !.reply = r.reply]
    /\ UNCHANGED <<named, applied, held, late>>

\* The host gives the call up.  Whatever it still returns is discarded, but a
\* proposal under way may yet arrive.
AbandonApply ==
    /\ apply.pc # "idle"
    /\ Mishap
    /\ late' = IF apply.pc = "proposing" THEN late \cup {Proposal(apply.action)}
                                         ELSE late
    /\ apply' = NoApply
    /\ applied' = Returned("DeadlineExceeded", NoAction)
    /\ UNCHANGED <<named, held, outputs, committed>>

LateProposal ==
    /\ \E p \in late :
         /\ late' = late \ {p}
         /\ \/ \E r \in Fenced(p) : Commit(p, r.output)
            \/ UNCHANGED <<outputs, committed>>
    /\ UNCHANGED <<named, apply, applied, held, mishaps>>

ApplyStep == FinishApply \/ AnswerProposal \/ AbandonApply \/ LateProposal

-------------------------------------------------------------------------------

AnyAction ==
    [type : ActionTypes \cup MutatingTypes \cup {"NONE"},
     id : STRING \cup ActionIds \cup {"none"},
     remoteID : Optional(KeyIds \cup Projects), contract : Contracts,
     generation : Nat, values : SUBSET OutputValue]

ApplyTypeOK ==
    /\ SetupTypeOK /\ named \in BOOLEAN
    /\ apply \in [pc : {"idle", "proposing", "replied"}, action : AnyAction,
                  reply : [kind : {"none", "durable", "undurable", "failed"},
                           generation : Nat, digest : SUBSET OutputValue]]
    /\ apply.pc # "idle" => hosted /\ Proposal(apply.action).target > 0
    /\ applied \in [status : Codes, receipt : AnyAction]
    /\ held \in [kind : {"none", "bare", "v1"}, contract : Contracts,
                 generation : Nat, digest : SUBSET OutputValue]
    /\ outputs \in [Contracts -> [target : Nat, generation : Nat,
                                  values : SUBSET OutputValue]]
    /\ committed \subseteq [contract : Contracts, target : Nat,
                            generation : Nat, values : SUBSET OutputValue]
    /\ late \subseteq [contract : Contracts, target : Nat,
                       values : SUBSET OutputValue]
    /\ mishaps \in 0..MaxMishaps

\* A receipt of a projection is only given for what the host committed, however
\* the call went: replies fail and get lost, and a reply that is not durable is
\* none (apply.go:66-86).
ReceiptsAreOfCommits ==
    applied.receipt.type = "PROJECT_OUTPUT" =>
      \E c \in committed :
        /\ c.contract = applied.receipt.contract
        /\ c.target = applied.receipt.generation
        /\ c.values = applied.receipt.values

\* The contract, generation and digest that the provider state records belong to
\* one output the host committed, never to two of them (apply.go:123-148).
StateRecordsOneCommit ==
    held.generation > 0 =>
      \E c \in committed :
        /\ c.contract = held.contract
        /\ c.generation = held.generation
        /\ c.values = held.digest

\* A generation that was recorded is neither dropped nor replaced by an earlier
\* one of its contract, whichever calls are repeated, abandoned or arrive late
\* (apply.go:117-121: "the committed generation is never silently dropped").
RecordedGenerationNeverFalls ==
    [][held.generation > 0 =>
         /\ held'.generation > 0
         /\ held'.contract = held.contract =>
              held'.generation >= held.generation]_applyVars

===============================================================================
