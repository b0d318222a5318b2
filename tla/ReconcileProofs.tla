---------------------------- MODULE ReconcileProofs ---------------------------
(***************************************************************************)
(* Proofs about the Observe handler and the host's loop around it: what an *)
(* observation says of the two reads it was made from, and what a plan may *)
(* say, for every remote, every page size, input and target, and any       *)
(* number of changes, failures and resumptions.                            *)
(***************************************************************************)
EXTENDS ProviderLoop, SharedProofs

-------------------------------------------------------------------------------
(* Types. *)

VolatileType == [diagnostics : SUBSET Diagnostic, retryAfter : BOOLEAN]

\* Adding an outcome's diagnostics to well-typed ones keeps them so.
LEMMA DiagnosticsTyped ==
    ASSUME NEW v \in VolatileType, NEW answer \in Answer,
           answer.kind # "undecodable"
    PROVE  AddDiagnostics(v, ReadOutcome(answer)) \in VolatileType
<1> DEFINE outcome == ReadOutcome(answer)
<1>1. outcome.retryAfter \in BOOLEAN /\ outcome.diagnostics \subseteq Diagnostic
  BY OutcomeOfAnswer
<1> HIDE DEF outcome
<1>2. AddDiagnostics(v, outcome) \in VolatileType
  BY <1>1 DEF AddDiagnostics, VolatileType
<1> QED
  BY <1>2 DEF outcome

\* Between calls the locals have their initial values.
LEMMA NoCallTyped ==
    ASSUME desired \in DesiredInputs
    PROVE  NoCall \in CallType
<1>1. NoVolatile \in VolatileType
  BY DEF NoVolatile, VolatileType
<1> QED
  BY <1>1 DEF NoCall, CallType, VolatileType, Cursors

\* The initial state is well-typed.
LEMMA InitTyped == ObserveInit => ObserveTypeOK
<1> SUFFICES ASSUME ObserveInit PROVE ObserveTypeOK
  OBVIOUS
<1>1. RemoteTypeOK
  BY RemoteAssumption DEF ObserveInit, RemoteInit, RemoteTypeOK
<1>2. NoVolatile \in VolatileType
  BY DEF NoVolatile, VolatileType
<1>3. NoCall \in CallType
  BY NoCallTyped DEF ObserveInit
<1>4. NoObservation \in Material
  BY EmptySeq DEF NoObservation, Material, Cursors
<1> QED
  BY <1>1, <1>2, <1>3, <1>4 DEF ObserveInit, ObserveTypeOK, SetupTypeOK, VolatileType, Codes

\* A call that fails leaves everything well-typed.
LEMMA FailTyped ==
    ASSUME ObserveTypeOK, NEW code \in Codes, Fail(code)
    PROVE  /\ call' \in CallType /\ status' \in Codes
           /\ observation' \in Material /\ volatile' \in VolatileType
<1>1. NoCall \in CallType
  BY NoCallTyped DEF ObserveTypeOK, SetupTypeOK
<1> QED
  BY <1>1 DEF Fail, ObserveTypeOK, SetupTypeOK, VolatileType

\* Each step keeps the types.
LEMMA StepTyped ==
    ASSUME ObserveTypeOK, [ObserveNext]_vars
    PROVE  ObserveTypeOK'
<1> USE DEF ObserveTypeOK, SetupTypeOK
<1>1. ASSUME NEW cursor \in HostCursors, Observe(cursor)
      PROVE  ObserveTypeOK'
  <2>1. cursor \in Cursors
    BY DEF HostCursors, Cursors, Material
  <2>2. UNCHANGED <<remoteVars, setupVars, desired>>
    BY <1>1 DEF Observe
  <2>3. CASE \E code \in {"Unavailable", "InvalidArgument"} : Fail(code)
    BY <2>2, <2>3, FailTyped
       DEF Codes, remoteVars, setupVars, RemoteTypeOK, VolatileType
  <2>4. CASE /\ call' = [NoCall EXCEPT !.pc = "project", !.in = desired,
                                       !.cursor = cursor]
             /\ UNCHANGED <<status, observation, volatile, read>>
    <3>1. call' \in CallType
      BY <2>1, <2>4 DEF NoCall, NoVolatile, CallType, Cursors
    <3> QED
      BY <2>2, <2>4, <3>1 DEF remoteVars, setupVars, RemoteTypeOK
  <2> QED
    BY <1>1, <2>3, <2>4 DEF Observe
<1>2. ASSUME ReadProject
      PROVE  ObserveTypeOK'
  <2> DEFINE a == call.in.address
  <2>1. call.in \in Inputs /\ a \in Addresses
    BY InputAssumption DEF CallType, Inputs
  <2>2. UNCHANGED <<leadsTo, keyring, changes, setupVars, desired>>
    BY <1>2 DEF ReadProject
  <2>3. CASE ~admitted
    <3>1. Fail("FailedPrecondition") /\ UNCHANGED faults
      BY <1>2, <2>3 DEF ReadProject
    <3> QED
      BY <2>2, <3>1, FailTyped
         DEF Codes, setupVars, RemoteTypeOK, VolatileType
  <2>4. CASE admitted
    <3>1. PICK answer \in ProjectAnswers(a) \cup FaultAnswers :
            /\ Answers(ProjectAnswers(a), answer)
            /\ IF answer = Undecodable
                 THEN Fail("Internal")
                 ELSE LET outcome == ReadOutcome(answer) IN
                   /\ call' = [call EXCEPT
                        !.pc = "keys",
                        !.volatile = AddDiagnostics(@, outcome),
                        !.complete = @ /\ ~outcome.uncertain,
                        !.project = Knowledge(outcome),
                        !.projects = IF outcome.ok
                          THEN {ProjectResource(a)} ELSE @]
                   /\ UNCHANGED <<status, observation, volatile, read>>
      BY <1>2, <2>4 DEF ReadProject
    <3>2. RemoteTypeOK'
      <4>1. faults' \in 0..MaxFaults
        BY <3>1, FaultsBounded
      <4> QED
        BY <2>2, <4>1 DEF RemoteTypeOK
    <3>3. CASE answer = Undecodable
      BY <2>2, <3>1, <3>2, <3>3, FailTyped DEF Codes, setupVars, VolatileType
    <3>4. CASE answer # Undecodable
      <4> DEFINE outcome == ReadOutcome(answer)
                 v == AddDiagnostics(call.volatile, outcome)
                 shown == IF outcome.ok THEN {ProjectResource(a)}
                                        ELSE call.projects
      <4>1. v \in VolatileType
        BY <3>4, AnswersTyped, DiagnosticsTyped DEF CallType, VolatileType
      <4>2. shown \in SUBSET ObservedProject
        BY <2>1 DEF ProjectResource, ObservedProject, Optional, RemoteTypeOK,
                    CallType
      <4>3. Knowledge(outcome) \in {"ok", "uncertain", "denied"}
        BY DEF Knowledge
      <4>4. call' = [call EXCEPT !.pc = "keys", !.volatile = v,
                       !.complete = call.complete /\ ~outcome.uncertain,
                       !.project = Knowledge(outcome), !.projects = shown]
        BY <3>1, <3>4
      <4> HIDE DEF outcome, v, shown
      <4>5. call' \in CallType
        BY <4>1, <4>2, <4>3, <4>4 DEF CallType, VolatileType
      <4> QED
        BY <2>2, <3>1, <3>2, <3>4, <4>5 DEF setupVars
    <3> QED
      BY <3>3, <3>4
  <2> QED
    BY <2>3, <2>4
<1>3. ASSUME ReadKeys
      PROVE  ObserveTypeOK'
  <2> DEFINE a == call.in.address
             page == PageOf(KeyListOf(a), call.cursor)
  <2>1. call.in \in Inputs /\ a \in Addresses
    BY InputAssumption DEF CallType, Inputs
  <2>2. UNCHANGED <<leadsTo, keyring, changes, setupVars, desired>>
    BY <1>3 DEF ReadKeys
  <2>3. PICK answer \in KeyListAnswers(a, call.cursor) \cup FaultAnswers :
          /\ Answers(KeyListAnswers(a, call.cursor), answer)
          /\ IF answer = Undecodable
               THEN Fail("Internal")
               ELSE LET outcome == ReadOutcome(answer)
                        shown   == IF outcome.ok THEN page ELSE << >>
                        fields  == FilterKeyList(KeyListBody(shown))
                    IN /\ observation' = MaterialOf(call, outcome,
                                            ClientKeysFromResponse(fields))
                       /\ volatile' = AddDiagnostics(call.volatile, outcome)
                       /\ status' = "OK"
                       /\ call' = NoCall
    BY <1>3 DEF ReadKeys
  <2>4. RemoteTypeOK'
    <3>1. faults' \in 0..MaxFaults
      BY <2>3, FaultsBounded
    <3> QED
      BY <2>2, <3>1 DEF RemoteTypeOK
  <2>5. CASE answer = Undecodable
    BY <2>2, <2>3, <2>4, <2>5, FailTyped DEF Codes, setupVars, VolatileType
  <2>6. CASE answer # Undecodable
    <3> DEFINE outcome == ReadOutcome(answer)
               shown == IF outcome.ok THEN page ELSE << >>
    <3>1. volatile' \in VolatileType
      BY <2>3, <2>6, AnswersTyped, DiagnosticsTyped DEF CallType, VolatileType
    <3>2. shown \in Seq(ClientKey)
      BY <2>1, PageIsKeys, EmptySeq
    <3>3. observation' = MaterialOf(call, outcome, shown)
      BY <2>3, <2>6, <3>2, RoundTrip
    <3> HIDE DEF outcome, shown
    <3>4. observation' \in Material
      BY <3>2, <3>3 DEF MaterialOf, Material, CallType, Cursors
    <3>5. call' \in CallType
      BY <2>3, <2>6, NoCallTyped
    <3> QED
      BY <2>2, <2>3, <2>4, <2>6, <3>1, <3>4, <3>5
         DEF setupVars, Codes, VolatileType
  <2> QED
    BY <2>5, <2>6
<1>4. ASSUME EditInput
      PROVE  ObserveTypeOK'
  BY <1>4, RemoteAssumption
     DEF EditInput, Changed, RemoteTypeOK, setupVars, observeVars
<1>5. ASSUME RemoteChange /\ UNCHANGED <<setupVars, desired, observeVars>>
      PROVE  ObserveTypeOK'
  BY <1>5, RemoteTypeKept DEF setupVars, observeVars
<1>6. ASSUME UNCHANGED vars
      PROVE  ObserveTypeOK'
  BY <1>6 DEF vars, remoteVars, setupVars, observeVars, RemoteTypeOK
<1> QED
  BY <1>1, <1>2, <1>3, <1>4, <1>5, <1>6 DEF ObserveNext

\* The state of an Observe call, what the host holds of it, and the remote keep
\* their types, whatever is answered and in whatever order.
THEOREM ObserveTypeCorrect == ObserveSpec => []ObserveTypeOK
  BY InitTyped, StepTyped, PTL DEF ObserveSpec

-------------------------------------------------------------------------------
(* What an observation says of its reads. *)

\* Diagnostics order to back off exactly when one of them is a rate limit.
BackOff(v) == v.retryAfter <=> \E d \in v.diagnostics : d.code = "rate-limit"

\* The locals of a call account for the project's read.
CallAccounts ==
    /\ call.pc = "project" => /\ call.complete /\ call.projects = {}
                              /\ BackOff(call.volatile)
    /\ call.pc = "keys" => /\ call.complete <=> call.project # "uncertain"
                           /\ call.project # "ok" => call.projects = {}
                           /\ \A p \in call.projects :
                                p.address = call.in.address
                           /\ BackOff(call.volatile)

\* The observation accounts for both reads.
ObservationAccounts ==
    /\ UncertainIsIncomplete
    /\ BackOffIffRateLimited
    /\ PageReachesHost
    /\ read.project # "ok" => observation.projects = {}
    /\ read.keys # "ok" => read.page = << >>
    /\ \A p \in observation.projects : p.address = read.address

Accounts == CallAccounts /\ ObservationAccounts

\* Adding the diagnostics of a read keeps the order to back off in step.
LEMMA BackOffAdds ==
    ASSUME NEW v, BackOff(v), NEW answer \in Answer,
           answer.kind # "undecodable"
    PROVE  BackOff(AddDiagnostics(v, ReadOutcome(answer)))
<1> DEFINE outcome == ReadOutcome(answer)
           sum == AddDiagnostics(v, outcome)
<1>1. outcome.retryAfter <=> \E d \in outcome.diagnostics : d.code = "rate-limit"
  BY OutcomeOfAnswer
<1>2. v.retryAfter <=> \E d \in v.diagnostics : d.code = "rate-limit"
  BY DEF BackOff
<1> HIDE DEF outcome
<1>3. /\ sum.diagnostics = v.diagnostics \cup outcome.diagnostics
      /\ sum.retryAfter <=> (v.retryAfter \/ outcome.retryAfter)
  BY DEF AddDiagnostics
<1> HIDE DEF sum
<1>4. BackOff(sum)
  BY <1>1, <1>2, <1>3 DEF BackOff
<1> QED
  BY <1>4 DEF sum, outcome

\* What the history records of an outcome.
LEMMA KnowledgeOfOutcome ==
    ASSUME NEW answer \in Answer, answer.kind # "undecodable"
    PROVE  LET outcome == ReadOutcome(answer)
           IN  /\ Knowledge(outcome) = "uncertain" <=> outcome.uncertain
               /\ Knowledge(outcome) = "ok" <=> outcome.ok
  BY OutcomeOfAnswer DEF Knowledge

\* Nothing has been observed at first.
LEMMA InitAccounts == ObserveInit => Accounts
<1> SUFFICES ASSUME ObserveInit
             PROVE  Accounts
  OBVIOUS
<1>1. CallAccounts
  BY DEF ObserveInit, CallAccounts, NoCall
<1>2. UncertainIsIncomplete
  BY DEF ObserveInit, UncertainIsIncomplete
<1>3. BackOffIffRateLimited
  BY DEF ObserveInit, BackOffIffRateLimited, NoVolatile
<1>4. PageReachesHost
  BY DEF ObserveInit, PageReachesHost, NoObservation, Unread
<1>5. /\ observation.projects = {}
      /\ read.page = << >>
  BY DEF ObserveInit, NoObservation, Unread
<1> QED
  BY <1>1, <1>2, <1>3, <1>4, <1>5 DEF Accounts, ObservationAccounts

\* A failing call leaves the observation and what it was read from alone.
LEMMA FailAccounts ==
    ASSUME Accounts, NEW code, Fail(code)
    PROVE  Accounts'
  BY DEF Accounts, CallAccounts, ObservationAccounts, Fail, NoCall,
         UncertainIsIncomplete, BackOffIffRateLimited, PageReachesHost

\* Each step keeps the accounts.
LEMMA StepAccounts ==
    ASSUME ObserveTypeOK, Accounts, [ObserveNext]_vars
    PROVE  Accounts'
<1> DEFINE Held == <<observation, volatile, read>>
<1>1. ASSUME UNCHANGED Held
      PROVE  ObservationAccounts'
  BY <1>1 DEF Accounts, ObservationAccounts, UncertainIsIncomplete,
              BackOffIffRateLimited, PageReachesHost
<1>2. ASSUME UNCHANGED observeVars
      PROVE  Accounts'
  BY <1>1, <1>2 DEF observeVars, Accounts, CallAccounts
<1>3. ASSUME NEW cursor \in HostCursors, Observe(cursor)
      PROVE  Accounts'
  <2>1. CASE \E code \in {"Unavailable", "InvalidArgument"} : Fail(code)
    BY <2>1, FailAccounts
  <2>2. CASE /\ call' = [NoCall EXCEPT !.pc = "project", !.in = desired,
                                       !.cursor = cursor]
             /\ UNCHANGED <<status, observation, volatile, read>>
    <3>1. CallAccounts'
      BY <2>2 DEF CallAccounts, NoCall, NoVolatile, BackOff
    <3> QED
      BY <1>1, <2>2, <3>1 DEF Accounts
  <2> QED
    BY <1>3, <2>1, <2>2 DEF Observe
<1>4. ASSUME ReadProject
      PROVE  Accounts'
  <2> DEFINE a == call.in.address
  <2>1. call.pc = "project" /\ call \in CallType
    BY <1>4 DEF ReadProject, ObserveTypeOK, SetupTypeOK
  <2>2. CASE \E code \in {"FailedPrecondition", "Internal"} : Fail(code)
    BY <2>2, FailAccounts
  <2>3. CASE ~ \E code \in {"FailedPrecondition", "Internal"} : Fail(code)
    <3>1. PICK answer \in ProjectAnswers(a) \cup FaultAnswers :
            /\ answer # Undecodable
            /\ LET outcome == ReadOutcome(answer) IN
                 call' = [call EXCEPT
                      !.pc = "keys",
                      !.volatile = AddDiagnostics(@, outcome),
                      !.complete = @ /\ ~outcome.uncertain,
                      !.project = Knowledge(outcome),
                      !.projects = IF outcome.ok
                        THEN {ProjectResource(a)} ELSE @]
            /\ UNCHANGED <<status, observation, volatile, read>>
      BY <1>4, <2>3 DEF ReadProject
    <3> DEFINE outcome == ReadOutcome(answer)
               v == AddDiagnostics(call.volatile, outcome)
               known == Knowledge(outcome)
               resource == ProjectResource(a)
    <3>2. answer \in Answer /\ answer.kind # "undecodable"
      BY <3>1, AnswersTyped
    <3>3. /\ known = "uncertain" <=> outcome.uncertain
          /\ known = "ok" <=> outcome.ok
      BY <3>2, KnowledgeOfOutcome
    <3>4. call.complete /\ call.projects = {} /\ BackOff(v)
      BY <2>1, <3>2, BackOffAdds DEF Accounts, CallAccounts
    <3>5. resource.address = a
      BY DEF ProjectResource
    <3>6. call' = [call EXCEPT !.pc = "keys", !.volatile = v,
                     !.complete = call.complete /\ ~outcome.uncertain,
                     !.project = known,
                     !.projects = IF outcome.ok THEN {resource}
                                                ELSE call.projects]
      BY <3>1
    <3> HIDE DEF outcome, v, known, resource
    <3>7. /\ call'.pc = "keys" /\ call'.in = call.in
          /\ call'.complete <=> (call.complete /\ ~outcome.uncertain)
          /\ call'.project = known /\ call'.volatile = v
          /\ call'.projects = IF outcome.ok THEN {resource} ELSE call.projects
      BY <2>1, <3>6 DEF CallType
    <3>8. CallAccounts'
      BY <3>3, <3>4, <3>5, <3>7 DEF CallAccounts, BackOff
    <3> QED
      BY <1>1, <3>1, <3>8 DEF Accounts
  <2> QED
    BY <2>2, <2>3
<1>5. ASSUME ReadKeys
      PROVE  Accounts'
  <2> DEFINE a == call.in.address
             page == PageOf(KeyListOf(a), call.cursor)
  <2>1. /\ call.pc = "keys" /\ call \in CallType /\ RemoteTypeOK
        /\ call.in \in Inputs /\ a \in Addresses
    BY <1>5, InputAssumption DEF ReadKeys, ObserveTypeOK, SetupTypeOK, CallType, Inputs
  <2>2. CASE Fail("Internal")
    BY <2>2, FailAccounts
  <2>3. CASE ~Fail("Internal")
    <3>1. PICK answer \in KeyListAnswers(a, call.cursor) \cup FaultAnswers :
            /\ answer # Undecodable
            /\ LET outcome == ReadOutcome(answer)
                   shown   == IF outcome.ok THEN page ELSE << >>
                   fields  == FilterKeyList(KeyListBody(shown))
               IN /\ observation' = MaterialOf(call, outcome,
                                       ClientKeysFromResponse(fields))
                  /\ volatile' = AddDiagnostics(call.volatile, outcome)
                  /\ read' = [address |-> a, cursor |-> call.cursor,
                              project |-> call.project,
                              keys |-> Knowledge(outcome),
                              page |-> shown, list |-> KeyListOf(a)]
                  /\ call' = NoCall
      BY <1>5, <2>3 DEF ReadKeys
    <3> DEFINE outcome == ReadOutcome(answer)
               known == Knowledge(outcome)
               shown == IF outcome.ok THEN page ELSE << >>
    <3>2. answer \in Answer /\ answer.kind # "undecodable"
      BY <3>1, AnswersTyped
    <3>3. /\ known = "uncertain" <=> outcome.uncertain
          /\ known = "ok" <=> outcome.ok
      BY <3>2, KnowledgeOfOutcome
    <3>4. BackOff(volatile')
      BY <2>1, <3>1, <3>2, BackOffAdds DEF Accounts, CallAccounts
    <3>5. shown \in Seq(ClientKey)
      BY <2>1, PageIsKeys, EmptySeq
    <3>6. observation' = MaterialOf(call, outcome, shown)
      BY <3>1, <3>5, RoundTrip
    <3>7. /\ read'.project = call.project /\ read'.keys = known
          /\ read'.page = shown /\ read'.address = a
      BY <3>1
    <3>8. known # "ok" => shown = << >>
      BY <3>3
    <3> HIDE DEF outcome, known, shown
    <3>9. /\ observation'.keys = shown
          /\ observation'.projects = call.projects
          /\ observation'.complete <=> (call.complete /\ ~outcome.uncertain)
          /\ observation'.complete <=> observation'.nextCursor = ""
      BY <3>6 DEF MaterialOf, Restart
    <3>10. UncertainIsIncomplete'
      BY <2>1, <3>3, <3>7, <3>9
         DEF Accounts, CallAccounts, UncertainIsIncomplete
    <3>11. BackOffIffRateLimited' /\ PageReachesHost'
      BY <3>4, <3>7, <3>9 DEF BackOff, BackOffIffRateLimited, PageReachesHost
    <3>12. ObservationAccounts'
      BY <2>1, <3>7, <3>8, <3>9, <3>10, <3>11
         DEF Accounts, CallAccounts, ObservationAccounts
    <3> QED
      BY <3>1, <3>12 DEF Accounts, CallAccounts, NoCall
  <2> QED
    BY <2>2, <2>3
<1>6. ASSUME EditInput
      PROVE  Accounts'
  BY <1>2, <1>6 DEF EditInput
<1>7. ASSUME RemoteChange /\ UNCHANGED <<setupVars, desired, observeVars>>
      PROVE  Accounts'
  BY <1>2, <1>7
<1>8. ASSUME UNCHANGED vars
      PROVE  Accounts'
  BY <1>2, <1>8 DEF vars
<1> QED
  BY <1>3, <1>4, <1>5, <1>6, <1>7, <1>8 DEF ObserveNext

\* The accounts hold of every call and of every observation.
LEMMA AccountsKept == ObserveSpec => []Accounts
  BY InitTyped, StepTyped, InitAccounts, StepAccounts, PTL DEF ObserveSpec

\* An observation is incomplete exactly when one of its reads is uncertain, and
\* then it names where to resume.
THEOREM UncertainReadsAreIncomplete == ObserveSpec => []UncertainIsIncomplete
<1>1. Accounts => UncertainIsIncomplete
  BY DEF Accounts, ObservationAccounts
<1> QED
  BY <1>1, AccountsKept, PTL

\* The keys of an observation are those of the page Sentry listed, in its order.
THEOREM PagesReachHost == ObserveSpec => []PageReachesHost
<1>1. Accounts => PageReachesHost
  BY DEF Accounts, ObservationAccounts
<1> QED
  BY <1>1, AccountsKept, PTL

\* The host is told to back off exactly when a read was rate-limited.
THEOREM RateLimitsBackOff == ObserveSpec => []BackOffIffRateLimited
<1>1. Accounts => BackOffIffRateLimited
  BY DEF Accounts, ObservationAccounts
<1> QED
  BY <1>1, AccountsKept, PTL

-------------------------------------------------------------------------------
(* The loop. *)

\* What HostPlan makes of an observation.
Composed(in, target, o) ==
    LET response == Plan(in, o, target) IN
    [made |-> TRUE, in |-> in, target |-> target, planned |-> response.planned,
     actions |-> response.actions, diagnostics |-> response.diagnostics]

\* A plan was composed of the observation still held, and no call is under way.
PlanOfObservation ==
    \/ plan = NoPlan
    \/ /\ call.pc = "idle"
       /\ \E in \in DesiredInputs, target \in Targets :
            plan = Composed(in, target, observation)

\* The loop does nothing to the handler and the remote but what any host may.
LEMMA LoopStepObserves == [Next]_loopVars => [ObserveNext]_vars
<1>1. ASSUME HostObserve PROVE ObserveNext
  <2> DEFINE cursor == IF observation.complete THEN ""
                       ELSE observation.nextCursor
  <2>1. Observe(cursor) /\ cursor \in HostCursors
    BY <1>1 DEF HostObserve, HostCursors
  <2> QED
    BY <2>1 DEF ObserveNext
<1>2. ASSUME HostPlan PROVE UNCHANGED vars
  BY <1>2 DEF HostPlan
<1>3. ASSUME AnswerProjectRead \/ AnswerKeyRead \/ Disturb PROVE ObserveNext
  BY <1>3 DEF AnswerProjectRead, AnswerKeyRead, Disturb, ObserveNext
<1>4. ASSUME UNCHANGED loopVars PROVE UNCHANGED vars
  BY <1>4 DEF loopVars
<1> QED
  BY <1>1, <1>2, <1>3, <1>4 DEF Next

\* So the loop is one of the hosts that the Observe handler may serve.
THEOREM LoopObserves == Spec => ObserveSpec
<1>1. Init => ObserveInit
  BY DEF Init
<1> QED
  BY <1>1, LoopStepObserves, PTL DEF Spec, ObserveSpec

\* Every step of the loop keeps the plan that of the observation, or drops it.
LEMMA PlanFollows ==
    ASSUME ObserveTypeOK, PlanOfObservation, [Next]_loopVars
    PROVE  PlanOfObservation'
<1>1. CASE HostObserve
  BY <1>1 DEF HostObserve, PlanOfObservation, NoPlan
<1>2. CASE HostPlan
  <2>1. PICK target \in Targets : plan' = Composed(desired, target, observation)
    BY <1>2 DEF HostPlan, Composed
  <2>2. UNCHANGED <<call, observation>> /\ call.pc = "idle"
    BY <1>2 DEF HostPlan, vars, observeVars
  <2>3. desired \in DesiredInputs
    BY DEF ObserveTypeOK, SetupTypeOK
  <2> QED
    BY <2>1, <2>2, <2>3 DEF PlanOfObservation
<1>3. CASE AnswerProjectRead
  BY <1>3 DEF AnswerProjectRead, ReadProject, PlanOfObservation, NoPlan
<1>4. CASE AnswerKeyRead
  BY <1>4 DEF AnswerKeyRead, ReadKeys, PlanOfObservation, NoPlan
<1>5. CASE Disturb \/ UNCHANGED loopVars
  <2>1. UNCHANGED <<call, observation, plan>>
    BY <1>5 DEF Disturb, EditInput, loopVars, vars, observeVars
  <2> QED
    BY <2>1 DEF PlanOfObservation, NoPlan, Composed
<1> QED
  BY <1>1, <1>2, <1>3, <1>4, <1>5 DEF Next

\* The loop's inductive invariant.
LoopAccounts == ObserveTypeOK /\ Accounts /\ PlanOfObservation

\* It holds throughout the loop.
LEMMA LoopAccountsKept == Spec => []LoopAccounts
<1>1. Init => PlanOfObservation
  BY DEF Init, PlanOfObservation
<1>2. Spec => []PlanOfObservation
  BY <1>1, PlanFollows, LoopObserves, ObserveTypeCorrect, PTL DEF Spec
<1> QED
  BY <1>2, LoopObserves, ObserveTypeCorrect, AccountsKept, PTL DEF LoopAccounts

\* The facts of the accounts that plans rest on.
LEMMA WhatIsObserved ==
    ASSUME LoopAccounts
    PROVE  /\ observation.keys = read.page /\ observation.keys \in Seq(ClientKey)
           /\ observation.complete \in BOOLEAN
           /\ read.project = "uncertain" \/ read.keys = "uncertain"
                => ~observation.complete
           /\ read.project # "ok" => observation.projects = {}
           /\ read.keys # "ok" => observation.keys = << >>
           /\ \A p \in observation.projects : p.address = read.address
<1>1. read.project = "uncertain" \/ read.keys = "uncertain" => read # Unread
  <2>1. Unread.project = "unread" /\ Unread.keys = "unread"
    BY DEF Unread
  <2> QED
    BY <2>1
<1>2. observation \in Material
  BY DEF LoopAccounts, ObserveTypeOK, SetupTypeOK
<1> QED
  BY <1>1, <1>2 DEF LoopAccounts, Accounts, ObservationAccounts, Material,
                    UncertainIsIncomplete, PageReachesHost

\* A plan is what Plan makes of a well-formed observation.
LEMMA PlanMade ==
    ASSUME LoopAccounts, plan # NoPlan
    PROVE  \E in \in DesiredInputs, target \in Targets :
             LET r == Plan(in, observation, target) IN
             /\ plan = Composed(in, target, observation)
             /\ r.planned \in BOOLEAN
             /\ WellFormed(r) /\ SelfExplained(r, in, observation, target)
             /\ \A j \in Projecting(r.actions) :
                  ProjectionMade(r.actions[j], in, observation, target)
<1>1. PICK in \in DesiredInputs, target \in Targets :
        plan = Composed(in, target, observation)
  BY DEF LoopAccounts, PlanOfObservation
<1>2. in \in Inputs /\ target \in OutputTarget /\ observation \in Material
  BY InputAssumption, TargetsAssumption DEF LoopAccounts, ObserveTypeOK
<1>3. LET r == Plan(in, observation, target) IN
      /\ r.planned \in BOOLEAN
      /\ WellFormed(r) /\ SelfExplained(r, in, observation, target)
      /\ \A j \in Projecting(r.actions) :
           ProjectionMade(r.actions[j], in, observation, target)
  BY <1>2, PlanExactly
<1> QED
  BY <1>1, <1>3

\* The plan is of its type.
LEMMA PlanTyped ==
    ASSUME LoopAccounts
    PROVE  TypeOK
<1>1. ASSUME plan # NoPlan PROVE plan \in MadePlan
  <2>1. PICK in \in DesiredInputs, target \in Targets :
          LET r == Plan(in, observation, target) IN
          /\ plan = Composed(in, target, observation)
          /\ r.planned \in BOOLEAN /\ WellFormed(r)
    BY <1>1, PlanMade
  <2> DEFINE r == Plan(in, observation, target)
  <2>2. plan = [made |-> TRUE, in |-> in, target |-> target, planned |-> r.planned,
                actions |-> r.actions, diagnostics |-> r.diagnostics]
    BY <2>1 DEF Composed
  <2>3. /\ r.planned \in BOOLEAN /\ r.actions \in Seq(PlannedAction)
        /\ r.diagnostics \in SUBSET Diagnostic
    BY <2>1 DEF WellFormed
  <2> HIDE DEF r
  <2> QED
    BY <2>2, <2>3 DEF MadePlan
<1> QED
  BY <1>1 DEF LoopAccounts, TypeOK

\* A plan that projects nothing reports an error, was not asked to, or names the
\* key that the SDK refused to project.
LEMMA PlansAreExplained ==
    ASSUME LoopAccounts
    PROVE  PlansExplainThemselves
<1>1. CASE plan = NoPlan
  BY <1>1 DEF NoPlan, PlansExplainThemselves
<1>2. CASE plan # NoPlan
  <2>1. PICK in \in DesiredInputs, target \in Targets :
          /\ plan = Composed(in, target, observation)
          /\ SelfExplained(Plan(in, observation, target), in, observation, target)
    BY <1>2, PlanMade
  <2> DEFINE r == Plan(in, observation, target)
  <2>2. /\ plan.actions = r.actions /\ plan.diagnostics = r.diagnostics
        /\ plan.in = in /\ plan.target = target /\ plan.made
    BY <2>1 DEF Composed
  <2>3. SelfExplained(r, in, observation, target)
    BY <2>1
  <2> HIDE DEF r
  <2>4. Projections = {} <=> Projecting(r.actions) = {}
    BY <2>2 DEF Projections, Projecting
  <2>5. ForRuntime <=> target.contract # "error-tracking-build"
    BY <2>2 DEF ForRuntime
  <2>6. RefusedBySDK <=> ProposalRefused(r, in, observation, target)
    BY <2>2, <2>5 DEF RefusedBySDK, ProposalRefused, ListedRefused, KeyRefused
  <2> QED
    BY <2>2, <2>3, <2>4, <2>5, <2>6
    DEF SelfExplained, Explained, Asked, PlansExplainThemselves
<1> QED
  BY <1>1, <1>2

\* The three safety properties of a plan hold wherever the accounts do.
LEMMA PlanKeepsReserve ==
    ASSUME LoopAccounts
    PROVE  UncertainNeverDefinitive
<1>1. CASE plan = NoPlan
  BY <1>1 DEF NoPlan, UncertainNeverDefinitive, ForRuntime
<1>2. CASE plan # NoPlan
  <2>1. PICK in \in DesiredInputs, target \in Targets :
          plan = Composed(in, target, observation)
    BY <1>2 DEF LoopAccounts, PlanOfObservation
  <2> DEFINE r == Plan(in, observation, target)
             runtime == PlanRuntime(in, target, observation.keys,
                                    observation.complete)
  <2>2. /\ plan.actions = r.actions /\ plan.diagnostics = r.diagnostics
        /\ plan.target = target
    BY <2>1 DEF Composed
  <2>3. in \in Inputs
    BY InputAssumption
  <2>4. \/ r.actions = << >> /\ r.diagnostics \subseteq InputProblems
        \/ /\ ~Confirmed(in, observation) /\ Projecting(r.actions) = {}
           /\ r.diagnostics = {Diag("ERROR", GateCode(observation))}
        \/ /\ Confirmed(in, observation)
           /\ target.contract = "error-tracking-build"
        \/ /\ Confirmed(in, observation)
           /\ target.contract # "error-tracking-build"
           /\ r.actions = runtime.actions
           /\ r.diagnostics = runtime.diagnostics
    BY <2>3, PlanShape
  <2> HIDE DEF r
  <2>5. r.actions = << >> => Projecting(r.actions) = {}
    BY DEF Projecting
  <2>6. Projecting(r.actions) = {} => Projections = {}
    BY <2>2 DEF Projections, Projecting
  <2>7. \A d \in InputProblems :
          d.code \notin Definitive \cup {"project-inaccessible"}
    BY DEF InputProblems, Diag, Definitive
  <2>8. ASSUME read.project = "uncertain"
        PROVE  ~Reports("project-inaccessible") /\ Projections = {}
    <3>1. observation.projects = {} /\ ~observation.complete
      BY <2>8, WhatIsObserved
    <3>2. ~Confirmed(in, observation) /\ GateCode(observation) = "outcome-unknown"
      BY <3>1 DEF Confirmed, GateCode
    <3>3. Projecting(r.actions) = {}
      BY <2>4, <2>5, <3>2
    <3>4. \A d \in r.diagnostics : d.code # "project-inaccessible"
      BY <2>4, <2>7, <3>2 DEF Diag
    <3> QED
      BY <2>2, <2>6, <3>3, <3>4 DEF Reports
  <2>9. ASSUME target.contract # "error-tracking-build", read.keys = "uncertain"
        PROVE  (\A code \in Definitive : ~Reports(code)) /\ Projections = {}
    <3>1. observation.keys = << >> /\ ~observation.complete
      BY <2>9, WhatIsObserved
    <3>2. GateCode(observation) \notin Definitive
      BY DEF GateCode, Definitive
    <3>3. /\ Projecting(runtime.actions) = {}
          /\ runtime.diagnostics = {Diag("ERROR", "outcome-unknown")}
      <4>1. /\ observation.keys \in Seq(ClientKey)
            /\ observation.complete \in BOOLEAN
        BY WhatIsObserved
      <4>2. ExhaustivenessDependent(
              SelectClientKey(observation.keys, in.clientKeyID))
        BY <3>1, NothingFromNoKeys
      <4> QED
        BY <3>1, <4>1, <4>2, RuntimePlan
    <3>4. Projecting(r.actions) = {}
      BY <2>4, <2>5, <2>9, <3>3
    <3> HIDE DEF runtime
    <3>5. \A d \in r.diagnostics : d.code \notin Definitive
      BY <2>4, <2>7, <2>9, <3>2, <3>3 DEF Diag, Definitive
    <3> QED
      BY <2>2, <2>6, <3>4, <3>5 DEF Reports
  <2> QED
    BY <2>2, <2>8, <2>9 DEF UncertainNeverDefinitive, ForRuntime
<1> QED
  BY <1>1, <1>2

\* A projection for the runtime is of an active key of the page.
LEMMA ProjectionsAreSound ==
    ASSUME LoopAccounts
    PROVE  ProjectionSound
<1> SUFFICES ASSUME ForRuntime, NEW action \in Projections,
                    NEW v \in action.values, v.name = "SENTRY_DSN"
             PROVE  /\ read.project = "ok" /\ read.keys = "ok"
                    /\ read.address = plan.in.address
                    /\ \E i \in DOMAIN read.page :
                         /\ read.page[i].active
                         /\ read.page[i].dsn = v.value /\ v.value # NoText
                         /\ IF plan.in.clientKeyID # NoText
                              THEN read.page[i].id = plan.in.clientKeyID
                              ELSE ActiveAt(read.page) = {i}
  BY DEF ProjectionSound
<1>1. PICK in \in DesiredInputs, target \in Targets :
        plan = Composed(in, target, observation)
  BY DEF LoopAccounts, PlanOfObservation, ForRuntime, NoPlan
<1> DEFINE r == Plan(in, observation, target)
           keys == observation.keys
           runtime == PlanRuntime(in, target, keys, observation.complete)
           sel == SelectClientKey(keys, in.clientKeyID)
<1>2. /\ plan.actions = r.actions /\ plan.in = in
      /\ target.contract # "error-tracking-build"
  BY <1>1 DEF Composed, ForRuntime
<1>3. PICK j \in Projecting(r.actions) : action = r.actions[j]
  BY <1>2 DEF Projections, Projecting
<1>4. r.actions # << >>
  BY <1>3 DEF Projecting
<1>5. in \in Inputs
  BY InputAssumption
<1>6. Confirmed(in, observation) /\ r.actions = runtime.actions
  BY <1>2, <1>3, <1>4, <1>5, PlanShape
<1>7. keys \in Seq(ClientKey) /\ observation.complete \in BOOLEAN
      /\ keys = read.page
  BY WhatIsObserved
<1>8. sel.outcome = "selected" /\ runtime = PlanSelected(in, target, sel)
  BY <1>3, <1>6, <1>7, RuntimePlan
<1>9. v \in RuntimeValues(in, sel.key) /\ sel.key.dsn # NoText
  BY <1>3, <1>6, <1>8, SelectedPlan
<1>10. v.value = sel.key.dsn
  BY <1>9, ProjectedDSN
<1>11. PICK i \in DOMAIN keys :
         /\ keys[i].active
         /\ sel.key = keys[i]
         /\ IF in.clientKeyID # NoText THEN keys[i].id = in.clientKeyID
                                       ELSE ActiveAt(keys) = {i}
  BY <1>7, <1>8, SelectedKey
<1>12. keys # << >>
  BY <1>11
<1>13. PICK p \in observation.projects : p.address = in.address
  BY <1>6 DEF Confirmed
<1> HIDE DEF keys, sel
<1>14. read.project = "ok" /\ read.keys = "ok" /\ read.address = in.address
  BY <1>12, <1>13, WhatIsObserved DEF keys
<1> QED
  BY <1>2, <1>7, <1>9, <1>10, <1>11, <1>14

\* A verdict over the whole list is true of it.
LEMMA VerdictsAreOfTheList ==
    ASSUME LoopAccounts
    PROVE  VerdictsTrue
<1> DEFINE list     == read.list
           explicit == plan.in.clientKeyID
<1> SUFFICES ASSUME ForRuntime, read.keys = "ok", read.page = list
             PROVE  /\ Reports("no-active-client-key") => ActiveAt(list) = {}
                    /\ Reports("client-key-mismatch") =>
                         MatchesAt(list, explicit) = {}
                    /\ Reports("client-key-revoked") =>
                         \E i \in MatchesAt(list, explicit) : ~list[i].active
                    /\ Reports("ambiguous-client-key") =>
                         Cardinality(ActiveAt(list)) > 1 /\ explicit = NoText
  BY DEF VerdictsTrue
<1>1. PICK in \in DesiredInputs, target \in Targets :
        plan = Composed(in, target, observation)
  BY DEF LoopAccounts, PlanOfObservation, ForRuntime, NoPlan
<1> DEFINE r == Plan(in, observation, target)
           runtime == PlanRuntime(in, target, list, observation.complete)
           sel == SelectClientKey(list, explicit)
<1>2. /\ plan.diagnostics = r.diagnostics /\ explicit = in.clientKeyID
      /\ target.contract # "error-tracking-build"
  BY <1>1 DEF Composed, ForRuntime
<1>3. observation.keys = list /\ list \in Seq(ClientKey)
      /\ observation.complete \in BOOLEAN
  BY WhatIsObserved
<1>4. in \in Inputs
  BY InputAssumption
<1>5. \/ r.diagnostics \subseteq InputProblems
      \/ r.diagnostics = {Diag("ERROR", GateCode(observation))}
      \/ r.diagnostics = runtime.diagnostics
  BY <1>2, <1>3, <1>4, PlanShape
<1>6. \/ r.diagnostics \subseteq InputProblems
      \/ r.diagnostics = {Diag("ERROR", GateCode(observation))}
      \/ /\ r.diagnostics = runtime.diagnostics
         /\ runtime = PlanSelected(in, target, sel)
      \/ r.diagnostics = {Diag("ERROR", "outcome-unknown")}
      \/ ReportsOnly(r, sel, "no-active", "no-active-client-key")
      \/ ReportsOnly(r, sel, "ambiguous", "ambiguous-client-key")
      \/ ReportsOnly(r, sel, "explicit-revoked", "client-key-revoked")
      \/ ReportsOnly(r, sel, "explicit-missing", "client-key-mismatch")
  <2>1. \/ runtime = PlanSelected(in, target, sel)
        \/ runtime.diagnostics = {Diag("ERROR", "outcome-unknown")}
        \/ ReportsOnly(runtime, sel, "no-active", "no-active-client-key")
        \/ ReportsOnly(runtime, sel, "ambiguous", "ambiguous-client-key")
        \/ ReportsOnly(runtime, sel, "explicit-revoked", "client-key-revoked")
        \/ ReportsOnly(runtime, sel, "explicit-missing", "client-key-mismatch")
    BY <1>2, <1>3, RuntimePlan
  <2> HIDE DEF r, runtime, sel
  <2> QED
    BY <1>5, <2>1 DEF ReportsOnly
<1>7. CASE \/ r.diagnostics \subseteq InputProblems
           \/ r.diagnostics = {Diag("ERROR", GateCode(observation))}
           \/ /\ r.diagnostics = runtime.diagnostics
              /\ runtime = PlanSelected(in, target, sel)
           \/ r.diagnostics = {Diag("ERROR", "outcome-unknown")}
  <2>1. \A d \in r.diagnostics :
          d.code \in {"invalid-input", "self-hosted-admission", "outcome-unknown",
                     "project-inaccessible", "schema-drift",
                     "supplied-dsn-mismatch"}
    <3>1. CASE /\ r.diagnostics = runtime.diagnostics
               /\ runtime = PlanSelected(in, target, sel)
      BY <3>1, SelectedPlan
    <3> QED
      BY <1>7, <3>1 DEF InputProblems, GateCode, Diag
  <2> HIDE DEF r
  <2> QED
    BY <1>2, <2>1 DEF Reports
<1>8. CASE ReportsOnly(r, sel, "no-active", "no-active-client-key")
  <2>1. ActiveAt(list) = {}
    BY <1>3, <1>8, UnselectedKeys DEF ReportsOnly
  <2>2. \A code : Reports(code) => code = "no-active-client-key"
    BY <1>2, <1>8 DEF ReportsOnly, Reports, Diag
  <2> QED
    BY <2>1, <2>2
<1>9. CASE ReportsOnly(r, sel, "ambiguous", "ambiguous-client-key")
  <2>1. explicit = NoText /\ ActiveAt(list) # {} /\ ~Sole(list)
    BY <1>3, <1>9, UnselectedKeys DEF ReportsOnly
  <2>2. Cardinality(ActiveAt(list)) > 1
    BY <1>3, <2>1, SeveralActive
  <2>3. \A code : Reports(code) => code = "ambiguous-client-key"
    BY <1>2, <1>9 DEF ReportsOnly, Reports, Diag
  <2> QED
    BY <2>1, <2>2, <2>3
<1>10. CASE ReportsOnly(r, sel, "explicit-revoked", "client-key-revoked")
  <2>1. \E i \in MatchesAt(list, explicit) : ~list[i].active
    BY <1>3, <1>10, UnselectedKeys DEF ReportsOnly
  <2>2. \A code : Reports(code) => code = "client-key-revoked"
    BY <1>2, <1>10 DEF ReportsOnly, Reports, Diag
  <2> QED
    BY <2>1, <2>2
<1>11. CASE ReportsOnly(r, sel, "explicit-missing", "client-key-mismatch")
  <2>1. MatchesAt(list, explicit) = {}
    BY <1>3, <1>11, UnselectedKeys DEF ReportsOnly
  <2>2. \A code : Reports(code) => code = "client-key-mismatch"
    BY <1>2, <1>11 DEF ReportsOnly, Reports, Diag
  <2> QED
    BY <2>1, <2>2
<1> QED
  BY <1>6, <1>7, <1>8, <1>9, <1>10, <1>11

\* A read that failed uncertainly never becomes a definitive verdict, nor leads
\* to a projection.
THEOREM UncertainReadsStayUncertain == Spec => []UncertainNeverDefinitive
  BY PlanKeepsReserve, LoopAccountsKept, PTL

\* A projected DSN is that of an active key of the project that is desired, as
\* it was read, and of the key that was asked for or the page's only active one.
THEOREM ProjectionsAreOfActiveKeys == Spec => []ProjectionSound
  BY ProjectionsAreSound, LoopAccountsKept, PTL

\* What a plan reports of a list that was read whole is true of that list.
THEOREM VerdictsAreTrue == Spec => []VerdictsTrue
  BY VerdictsAreOfTheList, LoopAccountsKept, PTL

\* The loop keeps the types of its variables, the plan's among them: its actions
\* and its diagnostics are those the planner and the catalog know.
THEOREM ReconcileTypeCorrect == Spec => []TypeOK
  BY PlanTyped, LoopAccountsKept, PTL

\* Whatever proposals the SDK may refuse, a plan that projects nothing reports an
\* error, was asked for nothing, or had what it proposed refused: the key it names
\* or the build reference.  A refusal is the only reason that is not reported
\* (plan.go:248-250, 264-267).
THEOREM PlansAreSelfExplanatory == Spec => []PlansExplainThemselves
  BY PlansAreExplained, LoopAccountsKept, PTL

-------------------------------------------------------------------------------
(* The whole provider: why every output it has committed keeps the contract.   *)

\* Something that was desired once, and that was true of its address once, are
\* what a proposal was made of.
Promised(p) ==
    \E in \in wanted, fact \in seen :
      /\ fact.address = in.address
      /\ \/ /\ p.contract = "error-tracking"
            /\ fact.key.active /\ fact.key.dsn # NoText
            /\ in.clientKeyID \in {NoText, fact.key.id}
            /\ p.values = RuntimeValues(in, fact.key)
         \/ /\ p.contract = "error-tracking-build" /\ in.build # NoText
            /\ p.values = BuildValues(in)

ProposalPromised(p) == p.target \in Nat /\ Promised(p)

\* What the histories hold: inputs and facts, the current ones among them.
HistoriesKept ==
    /\ wanted \subseteq Inputs /\ desired \in wanted
    /\ seen \subseteq Promise!Fact /\ Truths \subseteq seen

\* Whatever the handler and the loop hold of the inputs and of the remote is in
\* the histories.
HeldIsRemembered ==
    /\ call.pc # "idle" => call.in \in wanted
    /\ plan.made => plan.in \in wanted
    /\ \A p \in call.projects \cup observation.projects :
         [address |-> p.address, key |-> NoKey] \in seen
    /\ \A i \in DOMAIN read.page :
         read.page[i].active =>
           [address |-> read.address, key |-> read.page[i]] \in seen

\* So are the proposals that may still reach the host.
ProposalsKept ==
    /\ \A c \in Contracts : outputs[c].generation \in Nat
    /\ DOMAIN outputs = Contracts
    /\ apply.pc = "proposing" => ProposalPromised(Proposal(apply.action))
    /\ \A p \in late : ProposalPromised(p)

ProviderAccounts == LoopAccounts /\ HistoriesKept /\ HeldIsRemembered
                      /\ ProposalsKept

\* The contract's vocabulary is the planner's.
LEMMA SameWords ==
    /\ Promise!ClientKey = ClientKey /\ Promise!Inputs = Inputs
    /\ Promise!Contracts = Contracts /\ Promise!NoText = NoText
    /\ \A in, key : Promise!RuntimeValues(in, key) = RuntimeValues(in, key)
    /\ \A in : Promise!BuildValues(in) = BuildValues(in)
<1>1. Promise!NoText = NoText
  BY DEF NoText, Promise!NoText
<1>2. Promise!ClientKey = ClientKey
  BY <1>1 DEF ClientKey, Promise!ClientKey
<1>3. Promise!InputProblems = InputProblems
  BY DEF InputProblems, Promise!InputProblems, Diag, Promise!Diag
<1>4. \A S : Promise!Optional(S) = Optional(S)
  BY <1>1 DEF Optional, Promise!Optional
<1>5. Promise!Inputs = Inputs
  BY <1>3, <1>4 DEF Inputs, Promise!Inputs
<1>6. Promise!Contracts = Contracts
  BY DEF Contracts, Promise!Contracts
<1>7. \A name, value : Promise!PublicOutput(name, value) = PublicOutput(name, value)
  BY DEF PublicOutput, Promise!PublicOutput
<1>8. \A in, key : Promise!RuntimeValues(in, key) = RuntimeValues(in, key)
  BY <1>1, <1>7 DEF RuntimeValues, Promise!RuntimeValues
<1>9. \A in : Promise!BuildValues(in) = BuildValues(in)
  BY DEF BuildValues, Promise!BuildValues, ReferenceOutput,
         Promise!ReferenceOutput, PublicOutput, Promise!PublicOutput
<1> QED
  BY <1>1, <1>2, <1>5, <1>6, <1>8, <1>9

\* What is true is a fact, and what is true of an address is among the truths.
LEMMA TruthsAreFacts == RemoteTypeOK => Truths \subseteq Promise!Fact
<1> SUFFICES ASSUME RemoteTypeOK PROVE Truths \subseteq Promise!Fact
  OBVIOUS
<1>1. ASSUME NEW a \in Addresses PROVE KeyListOf(a) \in Seq(ClientKey)
  BY PageIsKeys
<1>2. ASSUME NEW a \in Addresses, NEW key \in Range(KeyListOf(a))
      PROVE  key \in ClientKey
  BY <1>1 DEF Range
<1>3. NoKey \in ClientKey
  BY DEF NoKey, ClientKey
<1>4. ASSUME NEW a \in Addresses, NEW key \in ClientKey
      PROVE  [address |-> a, key |-> key] \in Promise!Fact
  BY SameWords DEF Promise!Fact
<1> SUFFICES ASSUME NEW t \in Truths PROVE t \in Promise!Fact
  OBVIOUS
<1>5. CASE \E a \in Addresses : t = [address |-> a, key |-> NoKey]
  BY <1>3, <1>4, <1>5
<1>6. CASE \E a \in Addresses : \E key \in Range(KeyListOf(a)) :
             t = [address |-> a, key |-> key]
  BY <1>2, <1>4, <1>6
<1> QED
  BY <1>5, <1>6 DEF Truths

\* Who lives at an address, and each active key listed there, is a truth.
LEMMA TruthsOfAddress ==
    ASSUME NEW a \in Addresses
    PROVE  /\ leadsTo[a] # NoText => [address |-> a, key |-> NoKey] \in Truths
           /\ \A key \in Range(KeyListOf(a)) :
                key.active => [address |-> a, key |-> key] \in Truths
  BY DEF Truths

\* A read of a project succeeds only where one is.
LEMMA SuccessIsGenuine ==
    ASSUME NEW a, NEW answer \in ProjectAnswers(a) \cup FaultAnswers,
           answer # Undecodable, ReadOutcome(answer).ok
    PROVE  leadsTo[a] # NoText
<1>1. answer.kind # "refused" /\ Succeeded(answer.code)
  BY DEF ReadOutcome
<1>2. answer \notin FaultAnswers
  <2>1. answer # Refused
    BY <1>1 DEF Refused
  <2>2. ASSUME NEW c \in FaultCodes PROVE answer # Answered(c)
    <3>1. c \in 300..599
      BY RemoteAssumption
    <3>2. answer.code \in 200..299
      BY <1>1 DEF Succeeded
    <3> QED
      BY <3>1, <3>2 DEF Answered
  <2> QED
    BY <2>1, <2>2 DEF FaultAnswers
<1>3. answer # Answered(404)
  BY <1>1 DEF Answered, Succeeded
<1> QED
  BY <1>2, <1>3 DEF ProjectAnswers

\* A page holds elements of the list.
LEMMA PageOfList ==
    ASSUME NEW list \in Seq(ClientKey), NEW cursor,
           NEW i \in DOMAIN PageOf(list, cursor)
    PROVE  PageOf(list, cursor)[i] \in Range(list)
<1> DEFINE first == IF Len(list) < PageSize THEN Len(list) ELSE PageSize
           n == Len(list)
<1>1. n \in Nat /\ DOMAIN list = 1..n /\ first \in Nat /\ first <= n
  BY LenProperties, RemoteAssumption
<1>2. PageOf(list, cursor) = IF cursor = SecondPage THEN SubSeq(list, first + 1, n)
                             ELSE SubSeq(list, 1, first)
  BY DEF PageOf
<1>3. \A j \in 1..n : list[j] \in ClientKey
  BY ElementOfSeq
<1> HIDE DEF first, n
<1>4. CASE cursor = SecondPage
  <2> DEFINE page == SubSeq(list, first + 1, n)
  <2>1. /\ Len(page) = IF first + 1 <= n THEN n - first ELSE 0
        /\ \A j \in 1..(n - first) : page[j] = list[first + j]
        /\ page \in Seq(ClientKey)
    <3>1. first + 1 \in Int /\ n \in Int
      BY <1>1
    <3>2. \A j \in (first + 1)..n : list[j] \in ClientKey
      BY <1>1, <1>3
    <3> QED
      BY <1>1, <3>1, <3>2, SubSeqProperties
  <2>2. DOMAIN page = 1..Len(page)
    BY <2>1, LenProperties
  <2> HIDE DEF page
  <2>3. i \in 1..(n - first) /\ first + i \in 1..n
    BY <1>1, <1>2, <1>4, <2>1, <2>2 DEF page
  <2> QED
    BY <1>1, <1>2, <1>4, <2>1, <2>3 DEF Range, page
<1>5. CASE cursor # SecondPage
  <2> DEFINE page == SubSeq(list, 1, first)
  <2>1. /\ Len(page) = first
        /\ \A j \in 1..first : page[j] = list[j]
        /\ page \in Seq(ClientKey)
    <3>1. 1 \in Int /\ first \in Int
      BY <1>1
    <3>2. \A j \in 1..first : list[j] \in ClientKey
      BY <1>1, <1>3
    <3> QED
      BY <1>1, <3>1, <3>2, SubSeqProperties
  <2>2. DOMAIN page = 1..Len(page)
    BY <2>1, LenProperties
  <2> HIDE DEF page
  <2>3. i \in 1..first /\ i \in 1..n
    BY <1>1, <1>2, <1>5, <2>1, <2>2 DEF page
  <2> QED
    BY <1>1, <1>2, <1>5, <2>1, <2>3 DEF Range, page
<1> QED
  BY <1>4, <1>5

\* The accounts of the loop survive its steps.
LEMMA LoopAccountsStep ==
    ASSUME LoopAccounts, [Next]_loopVars
    PROVE  LoopAccounts'
<1>1. [ObserveNext]_vars
  BY LoopStepObserves
<1>2. ObserveTypeOK' /\ Accounts'
  BY <1>1, StepTyped, StepAccounts DEF LoopAccounts
<1>3. PlanOfObservation'
  BY PlanFollows DEF LoopAccounts
<1> QED
  BY <1>2, <1>3 DEF LoopAccounts

\* The histories only grow, and keep up with what they record.
LEMMA HistoriesGrow ==
    ASSUME LoopAccounts', HistoriesKept, Remember
    PROVE  /\ HistoriesKept'
           /\ wanted \subseteq wanted' /\ seen \subseteq seen'
<1>1. desired' \in Inputs
  BY InputAssumption DEF LoopAccounts, ObserveTypeOK
<1>2. Truths' \subseteq Promise!Fact
  <2>1. RemoteTypeOK'
    BY DEF LoopAccounts, ObserveTypeOK
  <2>2. (RemoteTypeOK => Truths \subseteq Promise!Fact)'
    BY TruthsAreFacts, PTL
  <2>3. Promise!Fact' = Promise!Fact
    BY SameWords DEF Promise!Fact
  <2> QED
    BY <2>1, <2>2, <2>3
<1> QED
  BY <1>1, <1>2 DEF HistoriesKept, Remember

\* What was promised stays so.
LEMMA PromisesStay ==
    ASSUME wanted \subseteq wanted', seen \subseteq seen',
           NEW p, ProposalPromised(p)
    PROVE  ProposalPromised(p)'
  BY DEF ProposalPromised, Promised

\* Whatever the handler and the loop take up is in the histories already.
LEMMA HeldStep ==
    ASSUME LoopAccounts, HistoriesKept, HeldIsRemembered,
           [Next]_loopVars, wanted \subseteq wanted', seen \subseteq seen'
    PROVE  HeldIsRemembered'
<1>1. /\ wanted \subseteq Inputs /\ desired \in wanted'
      /\ Truths \subseteq seen'
  BY DEF HistoriesKept
<1>2. ASSUME UNCHANGED <<call, observation, read, plan>>
      PROVE  HeldIsRemembered'
  BY <1>2 DEF HeldIsRemembered
<1>3. NoCall.pc = "idle" /\ NoCall.projects = {}
  BY DEF NoCall
<1>4. ASSUME call' = NoCall, UNCHANGED <<observation, read>>,
             plan' = plan \/ plan' = NoPlan
      PROVE  HeldIsRemembered'
  BY <1>3, <1>4 DEF HeldIsRemembered, NoPlan
<1>5. CASE HostObserve
  <2>1. plan' = NoPlan
    BY <1>5 DEF HostObserve
  <2>2. ASSUME NEW code, Fail(code) PROVE HeldIsRemembered'
    BY <1>4, <2>1, <2>2 DEF Fail
  <2>3. CASE UNCHANGED <<status, observation, volatile, read>>
             /\ \E cursor : call' = [NoCall EXCEPT !.pc = "project", !.in = desired,
                                                   !.cursor = cursor]
    <3>1. call'.in = desired /\ call'.projects = {}
      BY <2>3 DEF NoCall
    <3> QED
      BY <1>1, <2>1, <2>3, <3>1 DEF HeldIsRemembered, NoPlan
  <2> QED
    BY <1>5, <2>2, <2>3 DEF HostObserve, Observe
<1>6. CASE HostPlan
  <2>1. UNCHANGED vars /\ plan'.in = desired
    BY <1>6 DEF HostPlan
  <2> QED
    BY <1>1, <2>1 DEF HeldIsRemembered, vars, observeVars
<1>7. CASE AnswerProjectRead
  <2> DEFINE a == call.in.address
  <2>1. plan' = plan /\ call.pc = "project"
    BY <1>7 DEF AnswerProjectRead, ReadProject
  <2>2. call.in \in wanted /\ a \in Addresses
    BY <1>1, <2>1 DEF HeldIsRemembered, Inputs
  <2>3. ASSUME NEW code, Fail(code) PROVE HeldIsRemembered'
    BY <1>4, <2>1, <2>3 DEF Fail
  <2>4. ASSUME NEW answer \in ProjectAnswers(a) \cup FaultAnswers,
               answer # Undecodable,
               call' = [call EXCEPT
                 !.pc = "keys",
                 !.volatile = AddDiagnostics(@, ReadOutcome(answer)),
                 !.complete = @ /\ ~ReadOutcome(answer).uncertain,
                 !.project = Knowledge(ReadOutcome(answer)),
                 !.projects = IF ReadOutcome(answer).ok
                   THEN {ProjectResource(a)} ELSE @],
               UNCHANGED <<status, observation, volatile, read>>
        PROVE  HeldIsRemembered'
    <3>1. call \in CallType
      BY DEF LoopAccounts, ObserveTypeOK
    <3>2. call'.in = call.in
      BY <2>4, <3>1 DEF CallType
    <3>3. call'.projects \subseteq call.projects
            \cup (IF ReadOutcome(answer).ok THEN {ProjectResource(a)} ELSE {})
      BY <2>4, <3>1 DEF CallType
    <3>4. ReadOutcome(answer).ok => [address |-> a, key |-> NoKey] \in seen'
      BY <1>1, <2>2, <2>4, SuccessIsGenuine, TruthsOfAddress
    <3>5. ProjectResource(a).address = a
      BY DEF ProjectResource
    <3>6. \A p \in call'.projects : [address |-> p.address, key |-> NoKey] \in seen'
      BY <3>3, <3>4, <3>5 DEF HeldIsRemembered
    <3> QED
      BY <2>1, <2>2, <2>4, <3>2, <3>6 DEF HeldIsRemembered
  <2> QED
    BY <1>7, <2>3, <2>4 DEF AnswerProjectRead, ReadProject
<1>8. CASE AnswerKeyRead
  <2> DEFINE a == call.in.address
             list == KeyListOf(a)
             page == PageOf(list, call.cursor)
  <2>1. plan' = plan /\ call.pc = "keys"
    BY <1>8 DEF AnswerKeyRead, ReadKeys
  <2>2. call.in \in wanted /\ a \in Addresses
    BY <1>1, <2>1 DEF HeldIsRemembered, Inputs
  <2>3. ASSUME NEW code, Fail(code) PROVE HeldIsRemembered'
    BY <1>4, <2>1, <2>3 DEF Fail
  <2>4. ASSUME call' = NoCall, observation'.projects = call.projects,
               read'.address = a, read'.page \in {page, << >>}
        PROVE  HeldIsRemembered'
    <3>1. list \in Seq(ClientKey)
      BY <2>2, PageIsKeys DEF LoopAccounts, ObserveTypeOK
    <3> HIDE DEF list
    <3>2. \A i \in DOMAIN page : page[i] \in Range(list)
      BY <3>1, PageOfList
    <3> HIDE DEF page
    <3>3. \A i \in DOMAIN page : page[i].active =>
            [address |-> a, key |-> page[i]] \in seen'
      BY <1>1, <2>2, <3>2, TruthsOfAddress DEF list
    <3>4. \A i \in DOMAIN read'.page : read'.page[i].active =>
            [address |-> read'.address, key |-> read'.page[i]] \in seen'
      BY <2>4, <3>3
    <3> QED
      BY <1>3, <2>1, <2>4, <3>4 DEF HeldIsRemembered
  <2>5. ASSUME NEW outcome, NEW keys,
               observation' = MaterialOf(call, outcome, keys)
        PROVE  observation'.projects = call.projects
    BY <2>5 DEF MaterialOf
  <2>6. \/ \E code : Fail(code)
        \/ \E outcome, keys :
             /\ observation' = MaterialOf(call, outcome, keys)
             /\ call' = NoCall
             /\ read'.address = a
             /\ read'.page = IF outcome.ok THEN page ELSE << >>
    BY <1>8 DEF AnswerKeyRead, ReadKeys
  <2> QED
    BY <2>3, <2>4, <2>5, <2>6
<1>9. CASE Disturb \/ UNCHANGED loopVars
  <2>1. UNCHANGED <<call, observation, read, plan>>
    BY <1>9 DEF Disturb, EditInput, loopVars, vars, observeVars
  <2> QED
    BY <1>2, <2>1
<1> QED
  BY <1>5, <1>6, <1>7, <1>8, <1>9 DEF Next

\* A projection of the plan is made of what was desired and true.
LEMMA ProjectionPromised ==
    ASSUME LoopAccounts, HistoriesKept, HeldIsRemembered, plan.made,
           NEW action, action.type = "PROJECT_OUTPUT",
           ActionInPlan(plan.actions, action)
    PROVE  ProposalPromised(Proposal(action))
<1>1. PICK in \in DesiredInputs, target \in Targets :
        LET r == Plan(in, observation, target) IN
        /\ plan = Composed(in, target, observation)
        /\ \A j \in Projecting(r.actions) :
             ProjectionMade(r.actions[j], in, observation, target)
  BY PlanMade DEF NoPlan
<1>2. plan.actions = Plan(in, observation, target).actions /\ plan.in = in
  BY <1>1 DEF Composed
<1>3. ProjectionMade(action, in, observation, target)
  BY <1>1, <1>2 DEF ActionInPlan, Projecting
<1>4. in \in wanted /\ in \in Inputs
  BY <1>2, InputAssumption DEF HeldIsRemembered
<1>5. target.generation \in Nat
  BY TargetsAssumption DEF OutputTarget
<1>6. PICK p \in observation.projects : p.address = in.address
  BY <1>3 DEF ProjectionMade, Confirmed
<1>7. read.address = in.address
  BY <1>6, WhatIsObserved
<1> DEFINE sel == SelectClientKey(observation.keys, in.clientKeyID)
<1>8. CASE /\ target.contract = "error-tracking-build" /\ in.build # NoText
           /\ action = ProjectionAction("error-tracking-build-project", target,
                                        BuildValues(in))
  <2> DEFINE fact == [address |-> in.address, key |-> NoKey]
  <2>1. fact \in seen /\ fact.address = in.address
    BY <1>6 DEF HeldIsRemembered
  <2>2. /\ Proposal(action).contract = "error-tracking-build"
        /\ Proposal(action).target = target.generation
        /\ Proposal(action).values = BuildValues(in)
    BY <1>8 DEF Proposal, ProjectionAction
  <2> HIDE DEF fact
  <2> QED
    BY <1>4, <1>5, <1>8, <2>1, <2>2 DEF ProposalPromised, Promised
<1>9. CASE /\ target.contract = "error-tracking"
           /\ sel.outcome = "selected" /\ sel.key.dsn # NoText
           /\ action = ProjectionAction("error-tracking-project", target,
                                        RuntimeValues(in, sel.key))
  <2>1. observation.keys \in Seq(ClientKey) /\ observation.keys = read.page
    BY WhatIsObserved
  <2>2. PICK i \in DOMAIN observation.keys :
          /\ observation.keys[i].active
          /\ sel.key = observation.keys[i]
          /\ IF in.clientKeyID # NoText
               THEN observation.keys[i].id = in.clientKeyID
               ELSE ActiveAt(observation.keys) = {i}
    BY <1>9, <2>1, SelectedKey
  <2> DEFINE fact == [address |-> in.address, key |-> sel.key]
  <2> HIDE DEF sel
  <2>3. fact \in seen
    BY <1>7, <2>1, <2>2 DEF HeldIsRemembered
  <2>4. /\ fact.address = in.address
        /\ fact.key.active /\ fact.key.dsn # NoText
        /\ in.clientKeyID \in {NoText, fact.key.id}
        /\ fact.key = sel.key
    BY <1>9, <2>2
  <2>5. /\ Proposal(action).contract = "error-tracking"
        /\ Proposal(action).target = target.generation
        /\ Proposal(action).values = RuntimeValues(in, sel.key)
    BY <1>9 DEF Proposal, ProjectionAction
  <2> HIDE DEF fact
  <2> QED
    BY <1>4, <1>5, <2>3, <2>4, <2>5 DEF ProposalPromised, Promised
<1> QED
  BY <1>3, <1>8, <1>9 DEF ProjectionMade

\* What the host has of a contract after a proposal: what it had, or a later
\* output with the proposed values.
LEMMA HostKeepsOrAdvances ==
    ASSUME NEW p, p.target \in Nat, p.contract \in Contracts,
           outputs[p.contract].generation \in Nat,
           NEW r \in Fenced(p) \cup Failing(p)
    PROVE  \/ r.output = outputs[p.contract]
           \/ /\ r.output.values = p.values
              /\ r.output.generation \in Nat
              /\ r.output.generation > outputs[p.contract].generation
<1> DEFINE last == outputs[p.contract]
           Advances(o) == /\ o.values = p.values /\ o.generation \in Nat
                          /\ o.generation > last.generation
<1>1. ASSUME NEW q \in Fenced(p)
      PROVE  q.output = last \/ Advances(q.output)
  <2>1. CASE p.target = last.target /\ p.values = last.values
    BY <2>1 DEF Fenced, Result
  <2>2. CASE /\ ~(p.target = last.target /\ p.values = last.values)
             /\ p.target > last.generation
    <3>1. PICK g \in (p.target..(p.target + MaxSkip)) \cap (1..MaxGeneration) :
            q = Result([target |-> p.target, generation |-> g, values |-> p.values],
                       Reply("durable", g, p.values))
      BY <2>2 DEF Fenced
    <3>2. q.output = [target |-> p.target, generation |-> g, values |-> p.values]
      BY <3>1 DEF Result
    <3>3. g \in Nat /\ g > last.generation
      BY <2>2, ApplyAssumption
    <3> QED
      BY <3>2, <3>3
  <2>3. CASE /\ ~(p.target = last.target /\ p.values = last.values)
             /\ ~(p.target > last.generation)
    BY <2>3 DEF Fenced, Result
  <2> QED
    BY <2>1, <2>2, <2>3
<1>2. ASSUME r \in Failing(p)
      PROVE  \/ r.output = last
             \/ \E q \in Fenced(p) : r.output = q.output
  BY <1>2 DEF Failing, Result
<1> QED
  BY <1>1, <1>2

\* The outputs as the contract sees them.
Promises == [c \in Contracts |-> [generation |-> outputs[c].generation,
                                  values |-> outputs[c].values]]

\* A step that leaves the outputs alone is, for the contract, one of learning.
LEMMA LearningStep ==
    ASSUME wanted \subseteq wanted', seen \subseteq seen', HistoriesKept',
           Promises' = Promises
    PROVE  Promise!Next
<1>1. wanted' \subseteq Promise!Inputs /\ seen' \subseteq Promise!Fact
  <2>1. wanted' \subseteq Inputs /\ seen' \subseteq Promise!Fact'
    BY DEF HistoriesKept
  <2>2. Promise!Fact' = Promise!Fact
    BY SameWords DEF Promise!Fact
  <2> QED
    BY <2>1, <2>2, SameWords
<1>2. Promise!Learn
  BY <1>1 DEF Promise!Learn, Promises
<1> QED
  BY <1>2 DEF Promise!Next

\* A commit keeps the contract: it stutters, or projects what was promised.
LEMMA CommitKeepsContract ==
    ASSUME HistoriesKept, HistoriesKept', UNCHANGED <<wanted, seen>>,
           DOMAIN outputs = Contracts,
           \A c \in Contracts : outputs[c].generation \in Nat,
           NEW p, ProposalPromised(p),
           NEW r \in Fenced(p) \cup Failing(p), Commit(p, r.output)
    PROVE  /\ Promise!Next
           /\ DOMAIN outputs' = Contracts
           /\ \A c \in Contracts : outputs'[c].generation \in Nat
<1>1. p.contract \in Contracts /\ p.target \in Nat
  BY DEF ProposalPromised, Promised, Contracts
<1>2. /\ outputs' = [outputs EXCEPT ![p.contract] = r.output]
      /\ DOMAIN outputs' = Contracts
  BY DEF Commit
<1>3. /\ outputs'[p.contract] = r.output
      /\ \A c \in Contracts \ {p.contract} : outputs'[c] = outputs[c]
  BY <1>1, <1>2
<1>4. \/ r.output = outputs[p.contract]
      \/ /\ r.output.values = p.values /\ r.output.generation \in Nat
         /\ r.output.generation > outputs[p.contract].generation
  BY <1>1, HostKeepsOrAdvances
<1>5. \A c \in Contracts : outputs'[c].generation \in Nat
  BY <1>3, <1>4
<1>6. CASE r.output = outputs[p.contract]
  <2>1. \A c \in Contracts : outputs'[c] = outputs[c]
    BY <1>3, <1>6
  <2>2. Promises' = Promises
    BY <2>1 DEF Promises
  <2>3. Promise!Next
    BY <2>2, LearningStep
  <2> QED
    BY <1>2, <1>5, <2>3
<1>7. CASE /\ r.output.values = p.values /\ r.output.generation \in Nat
           /\ r.output.generation > outputs[p.contract].generation
  <2>1. ASSUME NEW c \in Contracts, p.contract = c
        PROVE  Promise!Project(c, p.values)
    <3>1. /\ \A d \in Contracts : Promises[d] = [generation |-> outputs[d].generation,
                                                 values |-> outputs[d].values]
          /\ \A d \in Contracts : Promises'[d] = [generation |-> outputs'[d].generation,
                                                  values |-> outputs'[d].values]
      BY DEF Promises
    <3>2. /\ Promises'[c].generation > Promises[c].generation
          /\ Promises'[c].values = p.values
      <4>1. /\ Promises'[c].generation = outputs'[c].generation
            /\ Promises'[c].values = outputs'[c].values
        BY DEF Promises
      <4>2. Promises[c].generation = outputs[c].generation
        BY DEF Promises
      <4>3. outputs'[c].generation = r.output.generation
              /\ outputs'[c].values = p.values
        BY <1>3, <1>7, <2>1
      <4>4. r.output.generation > outputs[c].generation
        BY <1>7, <2>1
      <4> QED
        BY <4>1, <4>2, <4>3, <4>4
    <3>3. \A d \in Contracts \ {c} : Promises'[d] = Promises[d]
      BY <1>3, <2>1, <3>1
    <3> QED
      BY <3>2, <3>3, SameWords DEF Promise!Project, Promises
  <2>2. PICK in \in wanted, fact \in seen :
          /\ fact.address = in.address
          /\ \/ /\ p.contract = "error-tracking"
                /\ fact.key.active /\ fact.key.dsn # NoText
                /\ in.clientKeyID \in {NoText, fact.key.id}
                /\ p.values = RuntimeValues(in, fact.key)
             \/ /\ p.contract = "error-tracking-build" /\ in.build # NoText
                /\ p.values = BuildValues(in)
    BY DEF ProposalPromised, Promised
  <2>3. "error-tracking" \in Contracts /\ "error-tracking-build" \in Contracts
    BY DEF Contracts
  <2>4. CASE /\ p.contract = "error-tracking"
             /\ fact.key.active /\ fact.key.dsn # NoText
             /\ in.clientKeyID \in {NoText, fact.key.id}
             /\ p.values = RuntimeValues(in, fact.key)
    <3>1. Promise!Project("error-tracking", p.values)
      BY <2>1, <2>3, <2>4
    <3>2. Promise!ProjectRuntime
      BY <2>2, <2>4, <3>1, SameWords DEF Promise!ProjectRuntime
    <3> QED
      BY <1>2, <1>5, <3>2 DEF Promise!Next
  <2>5. CASE /\ p.contract = "error-tracking-build" /\ in.build # NoText
             /\ p.values = BuildValues(in)
    <3>1. Promise!Project("error-tracking-build", p.values)
      BY <2>1, <2>3, <2>5
    <3>2. Promise!ProjectBuild
      BY <2>2, <2>5, <3>1, SameWords DEF Promise!ProjectBuild
    <3> QED
      BY <1>2, <1>5, <3>2 DEF Promise!Next
  <2> QED
    BY <2>2, <2>4, <2>5
<1> QED
  BY <1>4, <1>6, <1>7

\* At the start nothing is committed, and nothing that would be is on its way.
LEMMA InitKeepsContract == ProviderInit => ProviderAccounts /\ Promise!Init
<1> SUFFICES ASSUME ProviderInit PROVE ProviderAccounts /\ Promise!Init
  OBVIOUS
<1>1. LoopAccounts
  BY InitTyped, InitAccounts
     DEF ProviderInit, Init, LoopAccounts, PlanOfObservation
<1>2. HistoriesKept
  BY <1>1, InputAssumption, TruthsAreFacts
     DEF ProviderInit, LoopAccounts, ObserveTypeOK, HistoriesKept
<1>3. HeldIsRemembered
  <2>1. call = NoCall /\ plan = NoPlan /\ observation = NoObservation /\ read = Unread
    BY DEF ProviderInit, Init, ObserveInit
  <2>2. NoCall.pc = "idle" /\ NoCall.projects = {}
    BY DEF NoCall
  <2>3. ~NoPlan.made /\ NoObservation.projects = {} /\ Unread.page = << >>
    BY DEF NoPlan, NoObservation, Unread
  <2> QED
    BY <2>1, <2>2, <2>3 DEF HeldIsRemembered
<1>4. outputs = [c \in Contracts |-> NoOutput] /\ late = {} /\ apply.pc = "idle"
  BY DEF ProviderInit, ApplyInit, NoApply
<1>5. NoOutput.generation = 0 /\ NoOutput.values = {}
  BY DEF NoOutput
<1>6. ProposalsKept
  BY <1>4, <1>5 DEF ProposalsKept
<1>7. Promise!Init
  <2>1. Promises = [c \in Contracts |-> [generation |-> 0, values |-> {}]]
    BY <1>4, <1>5 DEF Promises
  <2> QED
    BY <1>2, <2>1, SameWords DEF HistoriesKept, Promise!Init, Promises, Promise!Nothing
<1> QED
  BY <1>1, <1>2, <1>3, <1>6, <1>7 DEF ProviderAccounts

\* A step of the loop teaches the contract's people something, if anything.
LEMMA LoopStepKeeps ==
    ASSUME ProviderAccounts, [Next]_loopVars, Remember, UNCHANGED applyVars
    PROVE  ProviderAccounts' /\ Promise!Next
<1>1. LoopAccounts'
  BY LoopAccountsStep DEF ProviderAccounts
<1>2. HistoriesKept' /\ wanted \subseteq wanted' /\ seen \subseteq seen'
  BY <1>1, HistoriesGrow DEF ProviderAccounts
<1>3. HeldIsRemembered'
  BY <1>2, HeldStep DEF ProviderAccounts
<1>4. apply' = apply /\ outputs' = outputs /\ late' = late
  BY DEF applyVars
<1>5. ProposalsKept'
  BY <1>2, <1>4
     DEF ProviderAccounts, ProposalsKept, ProposalPromised, Promised, Proposal
<1>6. Promises' = Promises
  BY <1>4 DEF Promises
<1>7. Promise!Next
  BY <1>2, <1>6, LearningStep
<1> QED
  BY <1>1, <1>2, <1>3, <1>5, <1>7 DEF ProviderAccounts

\* A step of an application is a commit of what was promised, or nothing that
\* the contract tells apart.
LEMMA ApplyStepKeeps ==
    ASSUME ProviderAccounts, HostApply \/ ApplyStep, UNCHANGED loopVars, Remember
    PROVE  ProviderAccounts' /\ Promise!Next
<1>1. LoopAccounts' /\ HistoriesKept'
  BY LoopAccountsStep, HistoriesGrow DEF ProviderAccounts
<1>2. wanted' = wanted /\ seen' = seen
  <2>1. desired' = desired /\ leadsTo' = leadsTo /\ keyring' = keyring
    BY DEF loopVars, vars, remoteVars
  <2>2. Truths' = Truths
    BY <2>1 DEF Truths, KeyListOf
  <2> QED
    BY <2>1, <2>2 DEF ProviderAccounts, HistoriesKept, Remember
<1>3. HeldIsRemembered'
  BY <1>2, HeldStep DEF ProviderAccounts
<1> SUFFICES ProposalsKept' /\ Promise!Next
  BY <1>1, <1>3 DEF ProviderAccounts
<1>4. ASSUME NEW p, ProposalPromised(p) PROVE ProposalPromised(p)'
  BY <1>2, <1>4, PromisesStay
<1>5. ASSUME UNCHANGED outputs PROVE Promise!Next
  <2>1. Promises' = Promises
    BY <1>5 DEF Promises
  <2> QED
    BY <1>1, <1>2, <2>1, LearningStep
<1>6. ASSUME UNCHANGED outputs, apply'.pc # "proposing",
             \A p \in late' : p \in late \/ ProposalPromised(p)
      PROVE  ProposalsKept' /\ Promise!Next
  <2>1. \A p \in late' : ProposalPromised(p)'
    BY <1>4, <1>6 DEF ProviderAccounts, ProposalsKept
  <2> QED
    BY <1>5, <1>6, <2>1 DEF ProviderAccounts, ProposalsKept
<1>7. ASSUME NEW p, ProposalPromised(p), NEW r \in Fenced(p) \cup Failing(p),
             Commit(p, r.output), late' \subseteq late, apply'.pc # "proposing" \/ UNCHANGED apply
      PROVE  ProposalsKept' /\ Promise!Next
  <2>1. /\ Promise!Next /\ DOMAIN outputs' = Contracts
        /\ \A c \in Contracts : outputs'[c].generation \in Nat
    BY <1>1, <1>2, <1>7, CommitKeepsContract DEF ProviderAccounts, ProposalsKept
  <2>2. \A q \in late' : ProposalPromised(q)'
    BY <1>4, <1>7 DEF ProviderAccounts, ProposalsKept
  <2>3. ASSUME apply'.pc = "proposing"
        PROVE  ProposalPromised(Proposal(apply.action))' /\ apply' = apply
    BY <1>2, <1>7, <2>3
       DEF ProviderAccounts, ProposalsKept, ProposalPromised, Promised, Proposal
  <2> QED
    BY <2>1, <2>2, <2>3 DEF ProposalsKept
<1>8. CASE HostApply
  <2>1. PICK action : ApplyAction(plan.actions, action)
    BY <1>8 DEF HostApply
  <2>2. plan.made /\ UNCHANGED <<outputs, late>>
    BY <1>8, <2>1 DEF HostApply, ApplyAction
  <2>3. CASE apply'.pc # "proposing"
    BY <1>6, <2>2, <2>3
  <2>4. CASE apply'.pc = "proposing"
    <3>1. /\ action.type = "PROJECT_OUTPUT" /\ ActionInPlan(plan.actions, action)
          /\ apply'.action = action
      BY <2>1, <2>4 DEF ApplyAction, ApplyProjectOutput, ApplyInert, Refuse, NoApply
    <3>2. ProposalPromised(Proposal(action))
      BY <2>2, <3>1, ProjectionPromised DEF ProviderAccounts
    <3>3. ProposalPromised(Proposal(apply.action))'
      BY <1>2, <3>1, <3>2 DEF ProposalPromised, Promised, Proposal
    <3>4. \A q \in late' : ProposalPromised(q)'
      BY <1>4, <2>2 DEF ProviderAccounts, ProposalsKept
    <3>5. ProposalsKept'
      BY <2>2, <3>3, <3>4 DEF ProviderAccounts, ProposalsKept
    <3> QED
      BY <1>5, <2>2, <3>5
  <2> QED
    BY <2>3, <2>4
<1>9. CASE FinishApply
  <2>1. UNCHANGED <<outputs, late>> /\ apply'.pc # "proposing"
    BY <1>9 DEF FinishApply, Refuse, NoApply
  <2> QED
    BY <1>6, <2>1
<1>10. CASE AnswerProposal
  <2> DEFINE p == Proposal(apply.action)
  <2>1. apply.pc = "proposing" /\ late' = late
    BY <1>10 DEF AnswerProposal
  <2>2. PICK r \in Fenced(p) \cup Failing(p) :
          /\ Commit(p, r.output)
          /\ apply' = [apply EXCEPT !.pc = "replied", !.reply = r.reply]
    BY <1>10 DEF AnswerProposal
  <2>3. ProposalPromised(p)
    BY <2>1 DEF ProviderAccounts, ProposalsKept
  <2>4. apply'.pc # "proposing"
    BY <2>1, <2>2
  <2> HIDE DEF p
  <2> QED
    BY <1>7, <2>1, <2>2, <2>3, <2>4
<1>11. CASE AbandonApply
  <2>1. /\ UNCHANGED outputs /\ apply'.pc # "proposing"
        /\ late' = IF apply.pc = "proposing" THEN late \cup {Proposal(apply.action)}
                                             ELSE late
    BY <1>11 DEF AbandonApply, NoApply
  <2>2. \A p \in late' : p \in late \/ ProposalPromised(p)
    BY <2>1 DEF ProviderAccounts, ProposalsKept
  <2> QED
    BY <1>6, <2>1, <2>2
<1>12. CASE LateProposal
  <2>1. PICK p \in late :
          /\ late' = late \ {p} /\ UNCHANGED apply
          /\ \/ \E r \in Fenced(p) : Commit(p, r.output)
             \/ UNCHANGED <<outputs, committed>>
    BY <1>12 DEF LateProposal
  <2>2. ProposalPromised(p)
    BY DEF ProviderAccounts, ProposalsKept
  <2>3. CASE \E r \in Fenced(p) : Commit(p, r.output)
    BY <1>7, <2>1, <2>2, <2>3
  <2>4. CASE UNCHANGED outputs
    <3>1. \A q \in late' : ProposalPromised(q)'
      BY <1>4, <2>1 DEF ProviderAccounts, ProposalsKept
    <3>2. ProposalsKept'
      BY <1>2, <2>1, <2>4, <3>1
         DEF ProviderAccounts, ProposalsKept, ProposalPromised, Promised, Proposal
    <3> QED
      BY <1>5, <2>4, <3>2
  <2> QED
    BY <2>1, <2>3, <2>4
<1> QED
  BY <1>8, <1>9, <1>10, <1>11, <1>12 DEF ApplyStep

\* Every step of the provider and its host keeps the accounts, and is a step of
\* the contract or none.
LEMMA ProviderStepKeeps ==
    ASSUME ProviderAccounts, [ProviderNext]_providerVars
    PROVE  ProviderAccounts' /\ [Promise!Next]_<<wanted, seen, Promises>>
<1>1. CASE (ObserveAndPlan \/ Disturb) /\ UNCHANGED applyVars /\ Remember
  <2>1. [Next]_loopVars
    BY <1>1 DEF ObserveAndPlan, PlanNextGeneration, Next
  <2> QED
    BY <1>1, <2>1, LoopStepKeeps
<1>2. CASE (HostApply \/ ApplyStep) /\ UNCHANGED loopVars /\ Remember
  BY <1>2, ApplyStepKeeps
<1>3. CASE UNCHANGED providerVars
  <2>1. UNCHANGED loopVars /\ UNCHANGED <<apply, outputs, late, wanted, seen>>
    BY <1>3 DEF providerVars, applyVars
  <2>2. LoopAccounts'
    BY <2>1, LoopAccountsStep DEF ProviderAccounts
  <2>3. HistoriesKept' /\ HeldIsRemembered' /\ ProposalsKept'
    BY <2>1 DEF ProviderAccounts, HistoriesKept, HeldIsRemembered, ProposalsKept,
                ProposalPromised, Promised, Proposal, Truths, KeyListOf,
                loopVars, vars, remoteVars, observeVars
  <2>4. UNCHANGED <<wanted, seen, Promises>>
    BY <2>1 DEF Promises
  <2> QED
    BY <2>2, <2>3, <2>4 DEF ProviderAccounts
<1> QED
  BY <1>1, <1>2, <1>3 DEF ProviderNext

\* Whatever is observed, planned, applied, retried, abandoned or delivered late,
\* each output the host commits keeps the promise: it is of a desired input and
\* of an active key, or an existing project, at the input's own address
\* (plan.go:71-81, apply.go:45-48).
THEOREM ProviderKeepsContract == ProviderSpec => ContractKept
<1>1. ProviderSpec => []ProviderAccounts
  BY InitKeepsContract, ProviderStepKeeps, PTL DEF ProviderSpec
<1>2. ProviderSpec => Promise!Init /\ [][Promise!Next]_<<wanted, seen, Promises>>
  BY <1>1, InitKeepsContract, ProviderStepKeeps, PTL DEF ProviderSpec
<1> QED
  BY <1>2, PTL DEF ContractKept, Promise!Spec, Promises

===============================================================================
