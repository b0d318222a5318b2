---------------------------- MODULE RequestIdentity ---------------------------
(***************************************************************************)
(* How a read becomes a request (internal/provider/request.go,             *)
(* buildExecuteRequest and callbackID) and what its identity is for.  The  *)
(* host executes a request under an id it does not know yet and answers a  *)
(* known one from its ledger, so that a read repeated after a lost call    *)
(* costs nothing and two reads that share an id share an answer.  Observe  *)
(* and Doctor issue their reads side by side, in attempts of the host.     *)
(***************************************************************************)
EXTENDS Observation, SentryRead, SequencesExt

CONSTANTS Contexts,     \* what the host admits for an attempt
          Manifests,    \* the manifests a server may be packaged with
          AttemptIds,   \* the ids of the attempts the host may open, in order
          MaxFaults,    \* bound: reads that fail
          MaxLosses     \* bound: calls that are lost before they return

Descriptors == {"project.retrieve", "client-key.list"}

Origin     == [rule : {"api", "other"}, digest : Nat]
Credential == [purpose : {"management", "build"}, handle : Nat]

\* An attempt may come without its id; "named" tells whether it has it.
Context == [named : BOOLEAN, origins : Seq(Origin), credentials : Seq(Credential)]

\* The packaged descriptors, and those whose response schema is packaged too.
Manifest == [requests : SUBSET Descriptors, schemas : SUBSET Descriptors]

ASSUME RequestAssumption ==
    /\ Contexts \subseteq Context /\ Manifests \subseteq Manifest
    /\ AttemptIds \in Seq(STRING) /\ Len(AttemptIds) > 0
    /\ \A n \in DOMAIN AttemptIds : AttemptIds[n] # NoText
    /\ \A m, n \in DOMAIN AttemptIds : AttemptIds[m] = AttemptIds[n] => m = n
    /\ MaxFaults \in Nat /\ MaxLosses \in Nat

VARIABLES manifest,  \* the manifest of the server
          attempts,  \* the attempts so far: the address desired, the context
          calls,     \* the call of each handler
          progress,  \* of the observation: whether complete, and its cursor
          ledger,    \* the requests the host executed, with their answers
          faults,    \* reads that failed so far
          losses     \* calls lost so far

vars == <<manifest, attempts, calls, progress, ledger, faults, losses>>

Handlers == {"observe", "doctor"}

\* The answer of no read.
NoAnswer == [kind |-> "none", code |-> 0]

\* What is delivered to a call: an answer, and the read it was produced for.
NoDelivery == [answer |-> NoAnswer, read |-> << >>, attempt |-> 0]

NoCall == [pc |-> "idle", attempt |-> 1, cursor |-> "", complete |-> TRUE,
           delivered |-> NoDelivery]

Init == /\ manifest \in Manifests
        /\ attempts = << >>
        /\ calls = [h \in Handlers |-> NoCall]
        /\ progress = [state |-> "open", cursor |-> ""]
        /\ ledger = {}
        /\ faults = 0 /\ losses = 0

-------------------------------------------------------------------------------
(* Building a request. *)

\* Mutant: the origin admitted first is taken, whatever its rule.
AnyOrigin(origins) == IF origins = << >> THEN 0 ELSE 1

\* The first origin admitted under the rule "api", or 0.
ApiOrigin(origins) == SelectInSeq(origins, LAMBDA o : o.rule = "api")

\* The first handle for the management purpose, or 0.
ManagementHandle(credentials) ==
    SelectInSeq(credentials, LAMBDA c : c.purpose = "management")

\* Mutant: the descriptor and the cursor alone are the id.
UnscopedID(attempt, descriptor, cursor) == <<descriptor, cursor>>

\* Mutant: the pages of a list share an id.
PagelessID(attempt, descriptor, cursor) == <<attempt, descriptor>>

\* Mutant: an absent cursor leaves an empty segment.
TrailingID(attempt, descriptor, cursor) == <<attempt, descriptor, cursor>>

\* The segments of the id, which the code joins by colons.
CallbackID(attempt, descriptor, cursor) ==
    (IF attempt = NoText THEN << >> ELSE <<attempt>>) \o <<descriptor>>
      \o (IF cursor = "" THEN << >> ELSE <<cursor>>)

AttemptID(n) == IF attempts[n].context.named THEN AttemptIds[n] ELSE NoText

Descriptor(call) ==
    IF call.pc = "project" THEN "project.retrieve" ELSE "client-key.list"

Cursor(call) == IF call.pc = "keys" THEN call.cursor ELSE ""

\* Mutant: a repeated call draws other ids.
FreshID(h) ==
    IF losses > 0 THEN <<Descriptor(calls[h]), AttemptID(calls[h].attempt)>>
    ELSE CallbackID(AttemptID(calls[h].attempt), Descriptor(calls[h]),
                    Cursor(calls[h]))

\* The id under which the handler issues its next read.
RequestID(h) ==
    CallbackID(AttemptID(calls[h].attempt), Descriptor(calls[h]), Cursor(calls[h]))

\* The read itself: what is asked, of which address.
ReadOf(h) ==
    <<attempts[calls[h].attempt].address, Descriptor(calls[h]), Cursor(calls[h])>>

\* Whether buildExecuteRequest finds everything the request needs.
Buildable(descriptor, context) ==
    /\ descriptor \in manifest.requests
    /\ ApiOrigin(context.origins) # 0
    /\ ManagementHandle(context.credentials) # 0
    /\ descriptor \in manifest.schemas

Request(h) ==
    LET context == attempts[calls[h].attempt].context IN
    [id |-> RequestID(h), attempt |-> calls[h].attempt, read |-> ReadOf(h),
     origin |-> context.origins[ApiOrigin(context.origins)],
     handle |-> context.credentials[ManagementHandle(context.credentials)]]

-------------------------------------------------------------------------------
(* The handlers. *)

\* The host opens an attempt to observe, from where the last one left off.
OpenAttempt ==
    /\ calls["observe"].pc = "idle"
    /\ progress.state = "open"
    /\ Len(attempts) < Len(AttemptIds)
    /\ \E a \in Addresses, context \in Contexts :
         attempts' = Append(attempts, [address |-> a, context |-> context])
    /\ calls' = [calls EXCEPT !["observe"] =
                   [NoCall EXCEPT !.pc = "project", !.attempt = Len(attempts) + 1,
                                  !.cursor = progress.cursor]]
    /\ UNCHANGED <<manifest, progress, ledger, faults, losses>>

\* The host has Doctor look into an attempt.
CallDoctor ==
    /\ calls["doctor"].pc = "idle"
    /\ \E n \in DOMAIN attempts :
         calls' = [calls EXCEPT !["doctor"] =
                     [NoCall EXCEPT !.pc = "project", !.attempt = n]]
    /\ UNCHANGED <<manifest, attempts, progress, ledger, faults, losses>>

Return(h) == calls' = [calls EXCEPT ![h] = NoCall]

\* A request that cannot be built fails the call before the host hears of it.
RejectUnbuildable(h) ==
    /\ calls[h].pc \in {"project", "keys"} /\ calls[h].delivered = NoDelivery
    /\ ~Buildable(Descriptor(calls[h]), attempts[calls[h].attempt].context)
    /\ Return(h)
    /\ progress' = IF h = "observe" THEN [progress EXCEPT !.state = "failed"]
                                    ELSE progress
    /\ UNCHANGED <<manifest, attempts, ledger, faults, losses>>

Fault == faults < MaxFaults /\ faults' = faults + 1

Deliver(h, answer, read, attempt) ==
    calls' = [calls EXCEPT ![h].delivered =
                [answer |-> answer, read |-> read, attempt |-> attempt]]

\* An id the host does not know: the request is executed and recorded, or refused.
Execute(h) ==
    LET request == Request(h) IN
    /\ ~\E e \in ledger : e.request.id = request.id
    /\ \/ \E answer \in {Answered(200), Answered(429)} :
            /\ IF answer = Answered(200) THEN UNCHANGED faults ELSE Fault
            /\ ledger' = ledger \cup {[request |-> request, answer |-> answer]}
            /\ Deliver(h, answer, request.read, request.attempt)
       \/ /\ Fault /\ Deliver(h, Refused, request.read, request.attempt)
          /\ UNCHANGED ledger

\* A known id: the recorded answer is given again.
Replay(h) ==
    /\ \E e \in ledger :
         /\ e.request.id = RequestID(h)
         /\ Deliver(h, e.answer, e.request.read, e.request.attempt)
    /\ UNCHANGED <<ledger, faults>>

IssueRead(h) ==
    /\ calls[h].pc \in {"project", "keys"} /\ calls[h].delivered = NoDelivery
    /\ Buildable(Descriptor(calls[h]), attempts[calls[h].attempt].context)
    /\ Execute(h) \/ Replay(h)
    /\ UNCHANGED <<manifest, attempts, progress, losses>>

\* Observe goes on to the keys whatever the project read brought, and returns
\* after them; an incomplete observation names the cursor to resume from.
ObserveTakes ==
    LET call     == calls["observe"]
        complete == call.complete /\ ~ReadOutcome(call.delivered.answer).uncertain
    IN  IF call.pc = "project"
          THEN /\ calls' = [calls EXCEPT !["observe"] =
                  [@ EXCEPT !.pc = "keys", !.complete = complete,
                            !.delivered = NoDelivery]]
               /\ UNCHANGED progress
          ELSE /\ Return("observe")
               /\ progress' = IF complete THEN [state |-> "complete", cursor |-> ""]
                              ELSE [state |-> "open",
                                    cursor |-> IF call.cursor = "" THEN Restart
                                               ELSE call.cursor]

\* Doctor stops at a project it could not read.
DoctorTakes ==
    LET call == calls["doctor"] IN
    /\ IF call.pc = "project" /\ ReadOutcome(call.delivered.answer).ok
         THEN calls' = [calls EXCEPT !["doctor"] =
                          [@ EXCEPT !.pc = "keys", !.delivered = NoDelivery]]
         ELSE Return("doctor")
    /\ UNCHANGED progress

TakeAnswer(h) ==
    /\ calls[h].delivered # NoDelivery
    /\ IF h = "observe" THEN ObserveTakes ELSE DoctorTakes
    /\ UNCHANGED <<manifest, attempts, ledger, faults, losses>>

\* The provider stops in the middle of a call: the host calls it again, in the
\* same attempt.
LoseCall(h) ==
    /\ calls[h].pc # "idle"
    /\ losses < MaxLosses /\ losses' = losses + 1
    /\ calls' = [calls EXCEPT ![h] =
                   [NoCall EXCEPT !.pc = "project",
                                  !.attempt = calls[h].attempt,
                                  !.cursor = calls[h].cursor]]
    /\ UNCHANGED <<manifest, attempts, progress, ledger, faults>>

Next == \/ OpenAttempt \/ CallDoctor
        \/ \E h \in Handlers : \/ RejectUnbuildable(h) \/ IssueRead(h)
                               \/ TakeAnswer(h) \/ LoseCall(h)

Spec == Init /\ [][Next]_vars

\* The host observes until the observation is complete and answers every read.
Fairness == /\ WF_vars(OpenAttempt)
            /\ WF_vars(RejectUnbuildable("observe"))
            /\ WF_vars(IssueRead("observe"))
            /\ WF_vars(TakeAnswer("observe"))

FairSpec == Spec /\ Fairness

-------------------------------------------------------------------------------

Ids == LET Reads == {<<"project.retrieve">>, <<"client-key.list">>}
                      \cup {<<"client-key.list", c>> : c \in Cursors \ {""}}
       IN  Reads \cup UNION {{<<AttemptIds[n]>> \o s : s \in Reads} :
                                n \in DOMAIN AttemptIds}

TypeOK ==
    /\ manifest \in Manifests
    /\ attempts \in Seq([address : Addresses, context : Contexts])
    /\ Len(attempts) <= Len(AttemptIds)
    /\ \A h \in Handlers : /\ calls[h].pc \in {"idle", "project", "keys"}
                           /\ calls[h].attempt \in DOMAIN AttemptIds
                           /\ calls[h].cursor \in Cursors
                           /\ calls[h].complete \in BOOLEAN
    /\ progress \in [state : {"open", "complete", "failed"}, cursor : Cursors]
    /\ \A e \in ledger : e.request.id \in Ids /\ e.answer \in Answer
    /\ faults \in 0..MaxFaults /\ losses \in 0..MaxLosses

NamedAttempt(n) == attempts[n].context.named

\* An answer given to a call, from the ledger or afresh, was produced for the
\* very read it is waiting for, in its own attempt: no page of the list stands in
\* for another and no earlier attempt for a later one (request.go:74-78).
AnswerIsOwn ==
    \A h \in Handlers :
      LET given == calls[h].delivered IN
      given # NoDelivery /\ NamedAttempt(calls[h].attempt) =>
        given.read = ReadOf(h) /\ given.attempt = calls[h].attempt

\* A read is executed at most once in an attempt, by whichever handlers and
\* however often it is issued, calls lost in between included: the id is "stable
\* for a given logical read" (request.go:78).
ReadOnce ==
    \A e, f \in ledger :
      e.request.attempt = f.request.attempt /\ e.request.read = f.request.read
        => e = f

\* What the host executes goes out through an origin its own attempt admitted for
\* the rule "api", with a management handle of that attempt, others being
\* admitted beside them, for a descriptor packaged with its response schema.
WithinAdmission ==
    \A e \in ledger :
      LET request == e.request
          context == attempts[request.attempt].context
      IN  /\ \E i \in DOMAIN context.origins : request.origin = context.origins[i]
          /\ \E i \in DOMAIN context.credentials :
               request.handle = context.credentials[i]
          /\ request.origin.rule = "api" /\ request.handle.purpose = "management"
          /\ request.read[2] \in manifest.requests \cap manifest.schemas

\* An attempt from which every read can be requested, under an id of its own.
Servable(n) == LET context == attempts[n].context IN
               /\ NamedAttempt(n)
               /\ \A d \in Descriptors : Buildable(d, context)

\* An observation is completed after all, whatever failed or was lost before, as
\* long as there is an attempt for each failure and one more: a failure that the
\* host recorded is not replayed to the attempt that resumes (request.go:79-87).
ObservationCompletes ==
    /\ [](\A n \in DOMAIN attempts : Servable(n))
    /\ [](faults < Len(AttemptIds))
    => <>(progress.state = "complete")

===============================================================================
