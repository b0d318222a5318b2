----------------------------- MODULE ObserveHandler ---------------------------
(***************************************************************************)
(* The Observe handler (internal/provider/observe.go) against a remote     *)
(* that changes between its two reads.  A call runs in three steps, one    *)
(* per point at which it waits for the host:  Observe starts it,           *)
(* ReadProject takes the answer to project.retrieve, ReadKeys that to      *)
(* client-key.list.  Calls share nothing, so one at a time stands for all. *)
(***************************************************************************)
EXTENDS SentryRemote, ErrorTrackingPlan, ProviderServer

CONSTANTS DesiredInputs  \* the inputs a binding may be edited to

ASSUME InputAssumption == DesiredInputs \subseteq Inputs

VARIABLES desired,      \* the binding's current desired input
          call,         \* the call under way
          status,       \* how the latest call returned
          observation,  \* the material the host holds: of the latest success
          volatile,     \* the volatile part of that observation
          read          \* history: what that observation was read from

observeVars == <<call, status, observation, volatile, read>>

vars == <<remoteVars, setupVars, desired, observeVars>>

\* What a read told about the remote, for the history.
Knowledge(outcome) == IF outcome.ok THEN "ok"
                      ELSE IF outcome.uncertain THEN "uncertain" ELSE "denied"

Unread == [address |-> NoText, cursor |-> "", project |-> "unread",
           keys |-> "unread", page |-> << >>, list |-> << >>]

NoVolatile == [diagnostics |-> {}, retryAfter |-> FALSE]

\* The local variables of the handler.
NoCall == [pc |-> "idle", in |-> CHOOSE in \in DesiredInputs : TRUE,
           cursor |-> "", projects |-> {},
           complete |-> TRUE, volatile |-> NoVolatile, project |-> "unread"]

ObserveInit == /\ RemoteInit
               /\ SetupTypeOK
               /\ desired \in DesiredInputs
               /\ call = NoCall
               /\ status = "OK"
               /\ observation = NoObservation
               /\ volatile = NoVolatile
               /\ read = Unread

-------------------------------------------------------------------------------

\* A call that fails returns no observation; the host keeps the one it has.
Fail(code) == /\ status' = code
              /\ call' = NoCall
              /\ UNCHANGED <<observation, volatile, read>>

EditInput == /\ Changed
             /\ \E in \in DesiredInputs \ {desired} : desired' = in
             /\ UNCHANGED <<leadsTo, keyring, faults, setupVars, observeVars>>

\* The host calls Observe with a cursor.
Observe(cursor) ==
    /\ call.pc = "idle"
    /\ IF ~hosted
         THEN Fail("Unavailable")
       ELSE IF ~desired.parsed \/ HasError(desired.problems)
         THEN Fail("InvalidArgument")
       ELSE /\ call' = [NoCall EXCEPT !.pc = "project", !.in = desired,
                                     !.cursor = cursor]
            /\ UNCHANGED <<status, observation, volatile, read>>
    /\ UNCHANGED <<remoteVars, setupVars, desired>>

\* Mutant: the later read decides alone whether to back off.
LastDiagnostics(v, outcome) ==
    [diagnostics |-> v.diagnostics \cup outcome.diagnostics,
     retryAfter  |-> outcome.retryAfter]

AddDiagnostics(v, outcome) ==
    [diagnostics |-> v.diagnostics \cup outcome.diagnostics,
     retryAfter  |-> v.retryAfter \/ outcome.retryAfter]

\* The project as the filtered response shows it; being read makes it accessible.
ProjectResource(a) ==
    [remoteID |-> leadsTo[a], address |-> a, accessible |-> TRUE]

ReadProject ==
    /\ call.pc = "project"
    /\ IF ~admitted
         THEN Fail("FailedPrecondition") /\ UNCHANGED faults
         ELSE \E answer \in ProjectAnswers(call.in.address) \cup FaultAnswers :
                /\ Answers(ProjectAnswers(call.in.address), answer)
                /\ IF answer = Undecodable
                     THEN Fail("Internal")
                     ELSE LET outcome == ReadOutcome(answer) IN
                       /\ call' = [call EXCEPT
                            !.pc = "keys",
                            !.volatile = AddDiagnostics(@, outcome),
                            !.complete = @ /\ ~outcome.uncertain,
                            !.project = Knowledge(outcome),
                            !.projects = IF outcome.ok
                              THEN {ProjectResource(call.in.address)} ELSE @]
                       /\ UNCHANGED <<status, observation, volatile, read>>
    /\ UNCHANGED <<leadsTo, keyring, changes, setupVars, desired>>

\* Mutant: a complete observation, once made, is served again.
CachedMaterial(c, outcome, keys) ==
    IF observation.complete THEN observation
    ELSE [complete |-> c.complete /\ ~outcome.uncertain, nextCursor |-> "",
          projects |-> c.projects, keys |-> keys]

\* Mutant: the resume marker is left out of a first page.
MaterialWithoutRestart(c, outcome, keys) ==
    LET complete == c.complete /\ ~outcome.uncertain IN
    [complete |-> complete, projects |-> c.projects, keys |-> keys,
     nextCursor |-> IF complete THEN "" ELSE c.cursor]

\* An incomplete observation names where the host resumes.
MaterialOf(c, outcome, keys) ==
    LET complete == c.complete /\ ~outcome.uncertain IN
    [complete |-> complete, projects |-> c.projects, keys |-> keys,
     nextCursor |-> IF complete THEN ""
                    ELSE IF c.cursor = "" THEN Restart ELSE c.cursor]

\* An answer that cannot be decoded and an observation that the SDK does not
\* take (observe.go:101) end in the same error; Undecodable stands for both.
ReadKeys ==
    LET a    == call.in.address
        list == KeyListOf(a)
        page == PageOf(list, call.cursor)
    IN
    /\ call.pc = "keys"
    /\ \E answer \in KeyListAnswers(a, call.cursor) \cup FaultAnswers :
         /\ Answers(KeyListAnswers(a, call.cursor), answer)
         /\ IF answer = Undecodable
              THEN Fail("Internal")
              ELSE LET outcome == ReadOutcome(answer)
                       shown   == IF outcome.ok THEN page ELSE << >>
                       fields  == FilterKeyList(KeyListBody(shown))
                   IN
                /\ observation' = MaterialOf(call, outcome,
                                             ClientKeysFromResponse(fields))
                /\ volatile' = AddDiagnostics(call.volatile, outcome)
                /\ read' = [address |-> a, cursor |-> call.cursor,
                            project |-> call.project,
                            keys |-> Knowledge(outcome),
                            page |-> shown, list |-> list]
                /\ status' = "OK"
                /\ call' = NoCall
    /\ UNCHANGED <<leadsTo, keyring, changes, setupVars, desired>>

-------------------------------------------------------------------------------

\* The cursors a host may pass: none, Sentry's own, or the one it was told.
HostCursors == {"", SecondPage, observation.nextCursor}

ObserveNext == \/ \E cursor \in HostCursors : Observe(cursor)
               \/ ReadProject
               \/ ReadKeys
               \/ EditInput
               \/ RemoteChange /\ UNCHANGED <<setupVars, desired, observeVars>>

ObserveSpec == ObserveInit /\ [][ObserveNext]_vars

-------------------------------------------------------------------------------

CallType ==
    [pc : {"idle", "project", "keys"}, in : DesiredInputs, cursor : Cursors,
     projects : SUBSET ObservedProject, complete : BOOLEAN,
     volatile : [diagnostics : SUBSET Diagnostic, retryAfter : BOOLEAN],
     project : {"unread", "ok", "uncertain", "denied"}]

ObserveTypeOK ==
    /\ RemoteTypeOK
    /\ SetupTypeOK
    /\ desired \in DesiredInputs
    /\ call \in CallType
    /\ status \in Codes
    /\ observation \in Material
    /\ volatile \in [diagnostics : SUBSET Diagnostic, retryAfter : BOOLEAN]

\* Filtering, flattening and regrouping bring the page Sentry listed to Plan
\* key by key, in its order, and a read that failed brings no key at all.
PageReachesHost == observation.keys = read.page

\* Either read being uncertain leaves the observation incomplete, and an
\* incomplete observation names where to resume (observe.go:88-90).
UncertainIsIncomplete ==
    read # Unread =>
      /\ observation.complete <=> "uncertain" \notin {read.project, read.keys}
      /\ observation.complete <=> observation.nextCursor = ""

\* The host is told to back off when, and only when, a read of the call was
\* rate-limited (observe.go:98-100), whichever of the two it was.
BackOffIffRateLimited ==
    volatile.retryAfter
      <=> \E d \in volatile.diagnostics : d.code = "rate-limit"

===============================================================================
