------------------------------ MODULE DoctorHandler ---------------------------
(***************************************************************************)
(* The Doctor handler (internal/provider/doctor.go) against a remote that  *)
(* changes between its two reads.  Like Observe it waits for the host      *)
(* twice, but it stops at a read that failed, reads the first page only,   *)
(* and grades what it finds by severities of its own.                      *)
(***************************************************************************)
EXTENDS SentryRemote, ErrorTrackingPlan, ProviderServer

CONSTANT DoctorInputs  \* the inputs of the contexts Doctor is called with

ASSUME DoctorAssumption == DoctorInputs \subseteq Inputs /\ DoctorInputs # {}

VARIABLES doctor,  \* the call under way
          report,  \* what the latest call returned
          heard    \* history: what the latest call, or the one under way, read

doctorVars == <<remoteVars, setupVars, doctor, report, heard>>

NoDoctor == [pc |-> "idle", in |-> CHOOSE in \in DoctorInputs : TRUE,
             healthy |-> TRUE, diagnostics |-> {}]

Report(status, healthy, diagnostics) ==
    [status |-> status, healthy |-> healthy, diagnostics |-> diagnostics]

\* No read yet; "since" is the number of changes when the call started.
Unheard(in) == [in |-> in, since |-> changes, project |-> Refused,
                named |-> NoText, keys |-> Refused, page |-> << >>]

DoctorInit ==
    /\ RemoteInit /\ SetupTypeOK
    /\ doctor = NoDoctor
    /\ report = Report("none", FALSE, {})
    /\ heard = Unheard(NoDoctor.in)

-------------------------------------------------------------------------------

Return(status, healthy, diagnostics) ==
    /\ report' = Report(status, healthy, diagnostics)
    /\ doctor' = NoDoctor

ReturnError(status) == Return(status, FALSE, {})

\* Only the diagnostics of an invalid input are returned: a warning is dropped.
Doctor(in) ==
    /\ doctor.pc = "idle"
    /\ heard' = Unheard(in)
    /\ IF ~hosted
         THEN ReturnError("Unavailable")
       ELSE IF ~in.parsed
         THEN Return("OK", FALSE, {Diag("ERROR", "invalid-input")})
       ELSE IF HasError(in.problems)
         THEN Return("OK", FALSE, in.problems)
       ELSE /\ doctor' = [NoDoctor EXCEPT !.pc = "project", !.in = in]
            /\ UNCHANGED report
    /\ UNCHANGED <<remoteVars, setupVars>>

\* Mutant: a server error is definitive.
SeverityOfRateLimit(code) == IF code = 429 THEN "WARNING" ELSE "ERROR"

DoctorSeverity(code) ==
    IF code = 429 \/ code >= 500 THEN "WARNING" ELSE "ERROR"

ReadDiagnostic(outcome) ==
    Diag(DoctorSeverity(outcome.statusCode),
         ClassifySentryError(StatusError(outcome.statusCode)))

\* A response may leave out the slugs by which the project is recognised.
NamedIn(a, name) == \/ name = a /\ UNCHANGED faults
                    \/ /\ name = NoText
                       /\ faults < MaxFaults /\ faults' = faults + 1

\* A project of another name is an error, but its keys are still read.
RecogniseProject(name) ==
    /\ doctor' = IF name = doctor.in.address
         THEN [doctor EXCEPT !.pc = "keys"]
         ELSE [doctor EXCEPT !.pc = "keys", !.healthy = FALSE,
                 !.diagnostics = {Diag("ERROR", "project-inaccessible")}]
    /\ UNCHANGED report

\* A project that could not be read ends the call.
DoctorReadProject ==
    LET a == doctor.in.address IN
    /\ doctor.pc = "project"
    /\ IF ~admitted
         THEN ReturnError("FailedPrecondition") /\ UNCHANGED <<heard, faults>>
         ELSE \E answer \in ProjectAnswers(a) \cup FaultAnswers,
                 name \in {a, NoText} :
                /\ heard' = [heard EXCEPT !.project = answer, !.named = name]
                /\ IF answer = Undecodable
                     THEN ReturnError("Internal") /\ Answers({}, answer)
                   ELSE IF ReadOutcome(answer).ok
                     THEN RecogniseProject(name) /\ NamedIn(a, name)
                   ELSE /\ name = NoText
                        /\ Return("OK", FALSE, {ReadDiagnostic(ReadOutcome(answer))})
                        /\ Answers(ProjectAnswers(a), answer)
    /\ UNCHANGED <<leadsTo, keyring, changes, setupVars>>

\* Mutant: a revoked key passes if it is the configured one.
LenientKeyDiagnostic(keys, explicitID) ==
    IF SelectClientKey(keys, explicitID).outcome \in {"selected", "explicit-revoked"}
      THEN {} ELSE {Diag("ERROR", "no-active-client-key")}

\* Mutant: some active key is taken for the selected one.
AnyKeyDiagnostic(keys, explicitID) ==
    IF ActiveAt(keys) # {} THEN {}
                           ELSE {Diag("ERROR", "no-active-client-key")}

ClientKeyDiagnostic(keys, explicitID) ==
    LET outcome == SelectClientKey(keys, explicitID).outcome IN
    IF outcome = "selected" THEN {}
    ELSE {Diag("ERROR",
            IF outcome = "no-active" THEN "no-active-client-key"
            ELSE IF outcome = "ambiguous" THEN "ambiguous-client-key"
            ELSE IF outcome = "explicit-revoked" THEN "client-key-revoked"
            ELSE "client-key-mismatch")}

\* The first page of the keys, and the end of the call.
DoctorReadKeys ==
    LET a == doctor.in.address
        page == PageOf(KeyListOf(a), "")
    IN
    /\ doctor.pc = "keys"
    /\ \E answer \in KeyListAnswers(a, "") \cup FaultAnswers :
         LET outcome == ReadOutcome(answer)
             found == IF outcome.ok
               THEN ClientKeyDiagnostic(
                      ClientKeysFromResponse(FilterKeyList(KeyListBody(page))),
                      doctor.in.clientKeyID)
               ELSE {ReadDiagnostic(outcome)}
         IN
         /\ Answers(KeyListAnswers(a, ""), answer)
         /\ heard' = [heard EXCEPT !.keys = answer,
                        !.page = IF outcome.ok THEN page ELSE << >>]
         /\ IF answer = Undecodable
              THEN ReturnError("Internal")
              ELSE Return("OK", doctor.healthy /\ found = {},
                          doctor.diagnostics \cup found)
    /\ UNCHANGED <<leadsTo, keyring, changes, setupVars>>

\* What follows a call, and what goes on beside it.
DoctorStep == \/ DoctorReadProject
              \/ DoctorReadKeys
              \/ RemoteChange /\ UNCHANGED <<setupVars, doctor, report, heard>>

-------------------------------------------------------------------------------

DoctorTypeOK ==
    /\ RemoteTypeOK /\ SetupTypeOK
    /\ doctor \in [pc : {"idle", "project", "keys"}, in : DoctorInputs,
                   healthy : BOOLEAN, diagnostics : SUBSET Diagnostic]
    /\ report \in [status : Codes \cup {"none"}, healthy : BOOLEAN,
                   diagnostics : SUBSET Diagnostic]
    /\ report.healthy => report.status = "OK" /\ report.diagnostics = {}

\* The call has returned, after it had an input to check.
Reported == /\ doctor.pc = "idle" /\ report.status = "OK"
            /\ heard.in.parsed /\ ~HasError(heard.in.problems)

\* What Observe makes of the very answers Doctor heard.  The keys count only if
\* they were read, which they are after any project that could be read.
ObservedAlike ==
    LET project == ReadOutcome(heard.project)
        keys    == ReadOutcome(heard.keys)
    IN  [complete |-> ~project.uncertain /\ (project.ok => ~keys.uncertain),
         nextCursor |-> "",
         projects |-> IF project.ok
                        THEN {[remoteID |-> NoText, address |-> heard.named,
                               accessible |-> TRUE]} ELSE {},
         keys |-> heard.page]

PlannedAlike ==
    Plan(heard.in, ObservedAlike,
         [contract |-> "error-tracking", generation |-> 1]).diagnostics

\* Doctor calls a binding healthy exactly when Plan, over the same answers, finds
\* no error but for the key's missing DSN, though the one stops where the other
\* reads on and they name what they find apart (doctor.go:83-85).
HealthyIffPlannable ==
    Reported =>
      (report.healthy
        <=> \A d \in PlannedAlike : d.severity = "ERROR" => d.code = "schema-drift")

Unhelpful(answer) == answer = Refused \/ answer.code \in 300..399

\* A warning of Doctor is what Plan calls an unknown outcome, and an error is a
\* definite one, whichever read brought it (doctor.go:101-103); a refused or
\* redirected read and a project of another name aside.
WarningMeansUnknown ==
    Reported /\ ~Unhelpful(heard.project)
      /\ (ReadOutcome(heard.project).ok =>
            heard.named = heard.in.address /\ ~Unhelpful(heard.keys)) =>
      ((\E d \in report.diagnostics : d.severity = "WARNING")
         <=> \E d \in PlannedAlike : d.code = "outcome-unknown")

\* If nothing changed during a call that found the binding healthy, the project
\* is there and the key that Plan would project is active: the configured one, or
\* the only active one that is listed.
HealthyIsTrue ==
    LET a == heard.in.address
        listed == PageOf(KeyListOf(a), "")
    IN  Reported /\ report.healthy /\ heard.since = changes =>
          /\ leadsTo[a] # NoText
          /\ \E i \in ActiveAt(listed) :
               IF heard.in.clientKeyID = NoText THEN ActiveAt(listed) = {i}
               ELSE listed[i].id = heard.in.clientKeyID

===============================================================================
