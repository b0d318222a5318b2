------------------------------ MODULE ChecksProofs -----------------------------
(***************************************************************************)
(* Proofs about what the host can ask of a binding without planning: the   *)
(* validation of its raw input, for every host and any number of slashes,  *)
(* and Doctor, for every input, remote and order of answers and changes.   *)
(***************************************************************************)
EXTENDS BindingChecks, SharedProofs

-------------------------------------------------------------------------------
(* What the invariant of Doctor says.                                        *)

\* What Doctor reports of the project that it was answered.
ProjectFound ==
    IF heard.named = heard.in.address
      THEN {} ELSE {Diag("ERROR", "project-inaccessible")}

\* What it reports of the keys.
KeysFound ==
    IF ReadOutcome(heard.keys).ok
      THEN ClientKeyDiagnostic(heard.page, heard.in.clientKeyID)
      ELSE {ReadDiagnostic(ReadOutcome(heard.keys))}

\* An answer that decoded: a refusal, or a status.
Decoded(answer) == \/ answer = Refused
                   \/ answer.code \in Nat /\ answer = Answered(answer.code)

\* Nothing changed since the call began.
Undisturbed == heard.since = changes

Hearing == [in : DoctorInputs, since : Nat, project : Answer,
            named : Optional(Addresses), keys : Answer, page : Seq(ClientKey)]

CallTyped == DoctorTypeOK /\ heard \in Hearing /\ heard.since <= changes

\* A call under way looks into an input that is right, and before each read has
\* heard what came before that read and nothing else.
CallUnderWay ==
    /\ doctor.pc # "idle" =>
         /\ heard.in = doctor.in /\ doctor.in.parsed
         /\ ~HasError(doctor.in.problems)
         /\ heard.keys = Refused /\ heard.page = << >>
    /\ doctor.pc = "project" => doctor.healthy /\ doctor.diagnostics = {}
    /\ doctor.pc = "keys" =>
         /\ Decoded(heard.project) /\ ReadOutcome(heard.project).ok
         /\ doctor.healthy <=> heard.named = heard.in.address
         /\ doctor.diagnostics = ProjectFound
         /\ Undisturbed => leadsTo[heard.in.address] # NoText

\* What a call reported of the project and the keys is what it heard of them,
\* and what it heard is true as long as nothing changes.
CallReported ==
    Reported =>
      /\ Decoded(heard.project) /\ Decoded(heard.keys)
      /\ ~ReadOutcome(heard.keys).ok => heard.page = << >>
      /\ IF ReadOutcome(heard.project).ok
           THEN /\ report.healthy <=> /\ heard.named = heard.in.address
                                      /\ KeysFound = {}
                /\ report.diagnostics = ProjectFound \cup KeysFound
                /\ Undisturbed =>
                     /\ leadsTo[heard.in.address] # NoText
                     /\ ReadOutcome(heard.keys).ok =>
                          heard.page = PageOf(KeyListOf(heard.in.address), "")
           ELSE /\ ~report.healthy
                /\ report.diagnostics = {ReadDiagnostic(ReadOutcome(heard.project))}

DoctorHears == CallTyped /\ CallUnderWay /\ CallReported

-------------------------------------------------------------------------------
(* The answers Doctor is given, and what it reports of them.                 *)

\* A read that decodes is refused, succeeds, or has another status.
LEMMA OutcomeCases ==
    ASSUME NEW answer, Decoded(answer)
    PROVE  LET outcome == ReadOutcome(answer) IN
           \/ /\ answer = Refused /\ ~outcome.ok /\ outcome.uncertain
              /\ outcome.statusCode = 0
           \/ /\ answer # Refused /\ Succeeded(answer.code)
              /\ outcome.ok /\ ~outcome.uncertain
           \/ /\ answer # Refused /\ ~Succeeded(answer.code) /\ ~outcome.ok
              /\ outcome.uncertain <=> UncertainStatus(answer.code)
              /\ outcome.statusCode = answer.code
<1> DEFINE code == answer.code
           outcome == ReadOutcome(answer)
<1>1. CASE answer = Refused
  <2>1. answer.kind = "refused"
    BY <1>1 DEF Refused
  <2> QED
    BY <1>1, <2>1 DEF ReadOutcome
<1>2. CASE answer = Answered(answer.code)
  <2>1. answer.kind = "answered"
    BY <1>2 DEF Answered
  <2>2. answer.kind # "refused" /\ answer # Refused
    BY <2>1 DEF Refused
  <2>3. outcome
          = IF Succeeded(code)
              THEN [ok |-> TRUE, uncertain |-> FALSE, retryAfter |-> FALSE,
                    statusCode |-> code, diagnostics |-> {}]
              ELSE [ok |-> FALSE, uncertain |-> UncertainStatus(code),
                    retryAfter |-> code = 429, statusCode |-> code,
                    diagnostics |->
                      {Diag("WARNING", ClassifySentryError(StatusError(code)))}]
    BY <2>2 DEF ReadOutcome
  <2> HIDE DEF outcome, code
  <2>4. IF Succeeded(code) THEN outcome.ok /\ ~outcome.uncertain
        ELSE /\ ~outcome.ok /\ outcome.statusCode = code
             /\ outcome.uncertain <=> UncertainStatus(code)
    BY <2>3
  <2> QED
    BY <2>2, <2>4 DEF outcome, code
<1> QED
  BY <1>1, <1>2 DEF Decoded

\* A diagnostic of a read is one of the catalog.
LEMMA ReadDiagnosticTyped ==
    ASSUME NEW answer, Decoded(answer), ~ReadOutcome(answer).ok
    PROVE  /\ ReadOutcome(answer).statusCode \in Nat
           /\ ReadDiagnostic(ReadOutcome(answer)) \in Diagnostic
<1> DEFINE code == ReadOutcome(answer).statusCode
<1>1. code \in Nat
  BY OutcomeCases DEF Decoded
<1>2. ClassifySentryError(StatusError(code)) \in DiagnosticCodes
  BY <1>1, ClassOfStatus
<1>3. DoctorSeverity(code) \in Severities
  BY DEF DoctorSeverity, Severities
<1> HIDE DEF code
<1> QED
  BY <1>1, <1>2, <1>3 DEF ReadDiagnostic, Diag, Diagnostic, code

\* A list of keys is in order exactly when a key is selected, and otherwise an
\* error.
LEMMA KeyDiagnosticExactly ==
    ASSUME NEW keys, NEW id
    PROVE  LET found == ClientKeyDiagnostic(keys, id) IN
           /\ found \in SUBSET Diagnostic
           /\ found = {} <=> SelectClientKey(keys, id).outcome = "selected"
           /\ \A d \in found : d.severity = "ERROR"
<1> DEFINE outcome == SelectClientKey(keys, id).outcome
           code == IF outcome = "no-active" THEN "no-active-client-key"
                   ELSE IF outcome = "ambiguous" THEN "ambiguous-client-key"
                   ELSE IF outcome = "explicit-revoked" THEN "client-key-revoked"
                   ELSE "client-key-mismatch"
<1>1. ClientKeyDiagnostic(keys, id)
        = IF outcome = "selected" THEN {} ELSE {Diag("ERROR", code)}
  BY DEF ClientKeyDiagnostic
<1>2. code \in DiagnosticCodes
  BY DEF DiagnosticCodes
<1> HIDE DEF outcome, code
<1>3. Diag("ERROR", code) \in Diagnostic /\ Diag("ERROR", code).severity = "ERROR"
  BY <1>2 DEF Diag, Diagnostic, Severities
<1> QED
  BY <1>1, <1>3 DEF outcome

\* All answers but one decode.
LEMMA AnswersDecoded ==
    ASSUME NEW a, NEW cursor,
           NEW answer \in ProjectAnswers(a) \cup KeyListAnswers(a, cursor)
                            \cup FaultAnswers,
           answer # Undecodable
    PROVE  Decoded(answer)
<1>1. ASSUME NEW c \in Nat, answer = Answered(c) PROVE Decoded(answer)
  BY <1>1 DEF Decoded, Answered
<1>2. FaultCodes \subseteq Nat
  BY RemoteAssumption
<1> QED
  BY <1>1, <1>2 DEF ProjectAnswers, KeyListAnswers, FaultAnswers, Decoded

\* A project that answers with success is there.
LEMMA SuccessMeansThere ==
    ASSUME NEW a, NEW cursor,
           NEW answer \in ProjectAnswers(a) \cup KeyListAnswers(a, cursor)
                            \cup FaultAnswers,
           answer # Undecodable, ReadOutcome(answer).ok
    PROVE  leadsTo[a] # NoText
<1>1. Decoded(answer)
  BY AnswersDecoded
<1>2. answer # Refused /\ Succeeded(answer.code)
  BY <1>1, OutcomeCases
<1>3. answer \notin FaultAnswers
  <2>1. ASSUME NEW c \in FaultCodes PROVE answer # Answered(c)
    <3>1. c \in 300..599 /\ Answered(c).code = c
      BY RemoteAssumption DEF Answered
    <3>2. ~Succeeded(c)
      BY <3>1 DEF Succeeded
    <3> QED
      BY <1>2, <3>1, <3>2
  <2> QED
    BY <1>2, <2>1 DEF FaultAnswers
<1>4. answer # Answered(404)
  BY <1>2 DEF Answered, Succeeded
<1> QED
  BY <1>3, <1>4 DEF ProjectAnswers, KeyListAnswers

-------------------------------------------------------------------------------
(* Every step keeps the invariant.                                           *)

\* What is idle is the zero value of a call.
LEMMA NoDoctorTyped ==
    /\ NoDoctor.pc = "idle" /\ NoDoctor.in \in DoctorInputs
    /\ NoDoctor \in [pc : {"idle", "project", "keys"}, in : DoctorInputs,
                     healthy : BOOLEAN, diagnostics : SUBSET Diagnostic]
<1> DEFINE first == CHOOSE in \in DoctorInputs : TRUE
<1>1. first \in DoctorInputs
  BY DoctorAssumption
<1>2. NoDoctor = [pc |-> "idle", in |-> first, healthy |-> TRUE, diagnostics |-> {}]
  BY DEF NoDoctor
<1> HIDE DEF first
<1>3. /\ NoDoctor.pc = "idle" /\ NoDoctor.in = first
  BY <1>2
<1>4. [pc |-> "idle", in |-> first, healthy |-> TRUE, diagnostics |-> {}]
        \in [pc : {"idle", "project", "keys"}, in : DoctorInputs,
             healthy : BOOLEAN, diagnostics : SUBSET Diagnostic]
  BY <1>1
<1> QED
  BY <1>1, <1>2, <1>3, <1>4

\* A call that returns leaves Doctor idle and its report typed.
LEMMA ReturnTyped ==
    ASSUME NEW status \in Codes, NEW healthy \in BOOLEAN,
           NEW diagnostics \in SUBSET Diagnostic,
           healthy => status = "OK" /\ diagnostics = {},
           Return(status, healthy, diagnostics)
    PROVE  /\ doctor'.pc = "idle"
           /\ doctor' \in [pc : {"idle", "project", "keys"}, in : DoctorInputs,
                           healthy : BOOLEAN, diagnostics : SUBSET Diagnostic]
           /\ report'.status = status /\ (report'.healthy <=> healthy)
           /\ report'.diagnostics = diagnostics
           /\ report' \in [status : Codes \cup {"none"}, healthy : BOOLEAN,
                           diagnostics : SUBSET Diagnostic]
           /\ report'.healthy => report'.status = "OK" /\ report'.diagnostics = {}
<1>1. doctor' = NoDoctor
  BY DEF Return
<1>2. report' = [status |-> status, healthy |-> healthy, diagnostics |-> diagnostics]
  BY DEF Return, Report
<1>3. /\ report'.status = status /\ report'.healthy = healthy
      /\ report'.diagnostics = diagnostics
  BY <1>2
<1>4. [status |-> status, healthy |-> healthy, diagnostics |-> diagnostics]
        \in [status : Codes \cup {"none"}, healthy : BOOLEAN,
             diagnostics : SUBSET Diagnostic]
  OBVIOUS
<1> QED
  BY <1>1, <1>2, <1>3, <1>4, NoDoctorTyped

\* The problems of an input are diagnostics of the catalog.
LEMMA ProblemsTyped ==
    ASSUME NEW in \in DoctorInputs
    PROVE  /\ in \in Inputs /\ in.address \in Addresses
           /\ in.problems \in SUBSET Diagnostic
           /\ {Diag("ERROR", "invalid-input")} \in SUBSET Diagnostic
           /\ {Diag("ERROR", "project-inaccessible")} \in SUBSET Diagnostic
<1>1. in \in Inputs
  BY DoctorAssumption
<1>2. in.problems \in SUBSET InputProblems /\ in.address \in Addresses
  BY <1>1 DEF Inputs
<1>3. InputProblems \subseteq Diagnostic
  BY DEF InputProblems, Diag, Diagnostic, Severities, DiagnosticCodes
<1>4. {Diag("ERROR", "project-inaccessible")} \in SUBSET Diagnostic
  BY DEF Diag, Diagnostic, Severities, DiagnosticCodes
<1> QED
  BY <1>1, <1>2, <1>3, <1>4 DEF InputProblems

\* A call of Doctor.
LEMMA CallKeeps ==
    ASSUME DoctorHears, NEW in \in DoctorInputs, Doctor(in)
    PROVE  DoctorHears'
<1>1. /\ DoctorTypeOK /\ RemoteTypeOK /\ changes \in Nat
      /\ UNCHANGED <<remoteVars, setupVars>>
  BY RemoteAssumption DEF DoctorHears, CallTyped, DoctorTypeOK, RemoteTypeOK, Doctor
<1>2. RemoteTypeOK' /\ SetupTypeOK' /\ changes' = changes
  BY <1>1 DEF DoctorTypeOK, RemoteTypeOK, SetupTypeOK, remoteVars, setupVars
<1>3. /\ heard'.in = in /\ heard'.since = changes
      /\ heard'.keys = Refused /\ heard'.page = << >>
  BY DEF Doctor, Unheard
<1>4. heard' \in Hearing
  <2>1. heard' = [in |-> in, since |-> changes, project |-> Refused,
                  named |-> NoText, keys |-> Refused, page |-> << >>]
    BY DEF Doctor, Unheard
  <2>2. Refused \in Answer /\ NoText \in Optional(Addresses)
    BY DEF Refused, Answer, Optional
  <2>3. << >> \in Seq(ClientKey)
    BY EmptySeq
  <2> HIDE DEF Unheard
  <2> QED
    BY <1>1, <2>1, <2>2, <2>3 DEF Hearing
<1>5. ASSUME NEW status \in {"OK", "Unavailable"},
             NEW diagnostics \in SUBSET Diagnostic,
             Return(status, FALSE, diagnostics),
             status = "OK" => ~in.parsed \/ HasError(in.problems)
      PROVE  DoctorHears'
  <2>1. status \in Codes /\ FALSE \in BOOLEAN
    BY DEF Codes
  <2>2. /\ doctor'.pc = "idle"
        /\ doctor' \in [pc : {"idle", "project", "keys"}, in : DoctorInputs,
                        healthy : BOOLEAN, diagnostics : SUBSET Diagnostic]
        /\ report'.status = status
        /\ report' \in [status : Codes \cup {"none"}, healthy : BOOLEAN,
                        diagnostics : SUBSET Diagnostic]
        /\ report'.healthy => report'.status = "OK" /\ report'.diagnostics = {}
    BY <1>5, <2>1, ReturnTyped
  <2>3. CallTyped'
    BY <1>1, <1>2, <1>3, <1>4, <2>2 DEF CallTyped, DoctorTypeOK
  <2>4. CallUnderWay'
    BY <2>2 DEF CallUnderWay
  <2>5. ~Reported'
    BY <1>3, <1>5, <2>2 DEF Reported
  <2> QED
    BY <2>3, <2>4, <2>5 DEF DoctorHears, CallReported
<1>6. CASE ~hosted
  <2>1. Return("Unavailable", FALSE, {})
    BY <1>6 DEF Doctor, ReturnError
  <2>2. "Unavailable" \in {"OK", "Unavailable"} /\ "Unavailable" # "OK"
        /\ {} \in SUBSET Diagnostic
    OBVIOUS
  <2> QED
    BY <1>5, <2>1, <2>2
<1>7. CASE hosted /\ ~in.parsed
  <2>1. Return("OK", FALSE, {Diag("ERROR", "invalid-input")})
    BY <1>7 DEF Doctor
  <2> QED
    BY <1>5, <1>7, <2>1, ProblemsTyped
<1>8. CASE hosted /\ in.parsed /\ HasError(in.problems)
  <2>1. Return("OK", FALSE, in.problems)
    BY <1>8 DEF Doctor
  <2> QED
    BY <1>5, <1>8, <2>1, ProblemsTyped
<1>9. CASE hosted /\ in.parsed /\ ~HasError(in.problems)
  <2>1. doctor' = [NoDoctor EXCEPT !.pc = "project", !.in = in] /\ report' = report
    BY <1>9 DEF Doctor
  <2>2. /\ doctor'.pc = "project" /\ doctor'.in = in
        /\ doctor'.healthy = TRUE /\ doctor'.diagnostics = {}
        /\ doctor' \in [pc : {"idle", "project", "keys"}, in : DoctorInputs,
                        healthy : BOOLEAN, diagnostics : SUBSET Diagnostic]
    BY <2>1 DEF NoDoctor
  <2>3. CallTyped'
    BY <1>1, <1>2, <1>3, <1>4, <2>1, <2>2 DEF CallTyped, DoctorTypeOK
  <2>4. CallUnderWay'
    BY <1>3, <1>9, <2>2 DEF CallUnderWay
  <2>5. ~Reported'
    BY <2>2 DEF Reported
  <2> QED
    BY <2>3, <2>4, <2>5 DEF DoctorHears, CallReported
<1> QED
  BY <1>6, <1>7, <1>8, <1>9

\* The read of the project.
LEMMA ProjectReadKeeps ==
    ASSUME DoctorHears, DoctorReadProject
    PROVE  DoctorHears'
<1> DEFINE a == doctor.in.address
<1>1. /\ doctor.pc = "project" /\ RemoteTypeOK /\ SetupTypeOK
      /\ UNCHANGED <<leadsTo, keyring, changes, setupVars>>
  BY DEF DoctorHears, CallTyped, DoctorTypeOK, DoctorReadProject
<1>2. /\ doctor \in [pc : {"idle", "project", "keys"}, in : DoctorInputs,
                     healthy : BOOLEAN, diagnostics : SUBSET Diagnostic]
      /\ doctor.in \in DoctorInputs /\ a \in Addresses
      /\ report \in [status : Codes \cup {"none"}, healthy : BOOLEAN,
                     diagnostics : SUBSET Diagnostic]
      /\ report.healthy => report.status = "OK" /\ report.diagnostics = {}
  BY ProblemsTyped DEF DoctorHears, CallTyped, DoctorTypeOK
<1>3. /\ heard.in = doctor.in /\ doctor.in.parsed /\ ~HasError(doctor.in.problems)
      /\ heard.keys = Refused /\ heard.page = << >>
      /\ doctor.healthy /\ doctor.diagnostics = {}
  BY <1>1 DEF DoctorHears, CallUnderWay
<1>4. faults' \in 0..MaxFaults => RemoteTypeOK' /\ SetupTypeOK'
  BY <1>1 DEF RemoteTypeOK, SetupTypeOK, setupVars
<1>5. heard \in Hearing /\ heard.since <= changes
  BY DEF DoctorHears, CallTyped
\* A call that gives up reports nothing.
<1>6. ASSUME NEW status \in {"FailedPrecondition", "Internal"},
             ReturnError(status), faults' \in 0..MaxFaults,
             heard' \in Hearing, heard'.since = heard.since
      PROVE  DoctorHears'
  <2>1. status \in Codes /\ FALSE \in BOOLEAN /\ {} \in SUBSET Diagnostic
        /\ Return(status, FALSE, {})
    BY <1>6 DEF Codes, ReturnError
  <2>2. /\ doctor'.pc = "idle"
        /\ doctor' \in [pc : {"idle", "project", "keys"}, in : DoctorInputs,
                        healthy : BOOLEAN, diagnostics : SUBSET Diagnostic]
        /\ report'.status = status
        /\ report' \in [status : Codes \cup {"none"}, healthy : BOOLEAN,
                        diagnostics : SUBSET Diagnostic]
        /\ report'.healthy => report'.status = "OK" /\ report'.diagnostics = {}
    BY <2>1, ReturnTyped
  <2>3. CallTyped'
    BY <1>1, <1>4, <1>5, <1>6, <2>2 DEF CallTyped, DoctorTypeOK
  <2>4. CallUnderWay' /\ ~Reported'
    BY <2>2 DEF CallUnderWay, Reported
  <2> QED
    BY <2>3, <2>4 DEF DoctorHears, CallReported
<1>7. CASE ~admitted
  <2>1. /\ ReturnError("FailedPrecondition") /\ heard' = heard /\ faults' = faults
    BY <1>7 DEF DoctorReadProject
  <2>2. faults' \in 0..MaxFaults
    BY <1>1, <2>1 DEF RemoteTypeOK
  <2>3. heard' \in Hearing /\ heard'.since = heard.since
    BY <1>5, <2>1
  <2> QED
    BY <1>6, <2>1, <2>2, <2>3
<1>8. CASE admitted
  <2>1. PICK answer \in ProjectAnswers(a) \cup FaultAnswers, name \in {a, NoText} :
          /\ heard' = [heard EXCEPT !.project = answer, !.named = name]
          /\ IF answer = Undecodable
               THEN ReturnError("Internal") /\ Answers({}, answer)
             ELSE IF ReadOutcome(answer).ok
               THEN RecogniseProject(name) /\ NamedIn(a, name)
             ELSE /\ name = NoText
                  /\ Return("OK", FALSE, {ReadDiagnostic(ReadOutcome(answer))})
                  /\ Answers(ProjectAnswers(a), answer)
    BY <1>8 DEF DoctorReadProject
  <2>2. answer \in Answer /\ name \in Optional(Addresses)
    BY <1>2, RemoteAssumption
       DEF ProjectAnswers, FaultAnswers, Answer, Answered, Refused, Undecodable,
           Optional
  <2>3. /\ heard' \in Hearing
        /\ heard'.in = heard.in /\ heard'.since = heard.since
        /\ heard'.page = heard.page /\ heard'.keys = heard.keys
        /\ heard'.project = answer /\ heard'.named = name
    BY <1>5, <2>1, <2>2 DEF Hearing
  <2>4. answer # Undecodable => Decoded(answer)
    BY AnswersDecoded
  <2>5. CASE answer = Undecodable
    <3>1. ReturnError("Internal") /\ Answers({}, answer)
      BY <2>1, <2>5
    <3>2. faults' \in 0..MaxFaults
      BY <1>1, <3>1, FaultsBounded
    <3> QED
      BY <1>6, <2>3, <3>1, <3>2
  <2>6. CASE answer # Undecodable /\ ReadOutcome(answer).ok
    <3>1. RecogniseProject(name) /\ NamedIn(a, name)
      BY <2>1, <2>6
    <3>2. faults' \in 0..MaxFaults
      BY <1>1, <3>1, RemoteAssumption DEF NamedIn, RemoteTypeOK
    <3>3. report' = report /\ doctor'.pc = "keys" /\ doctor'.in = doctor.in
      BY <1>2, <3>1 DEF RecogniseProject
    <3>4. IF name = a THEN doctor'.healthy = TRUE /\ doctor'.diagnostics = {}
          ELSE /\ doctor'.healthy = FALSE
               /\ doctor'.diagnostics = {Diag("ERROR", "project-inaccessible")}
      BY <1>2, <1>3, <3>1 DEF RecogniseProject
    <3>5. doctor' \in [pc : {"idle", "project", "keys"}, in : DoctorInputs,
                       healthy : BOOLEAN, diagnostics : SUBSET Diagnostic]
      BY <1>2, <3>1, ProblemsTyped DEF RecogniseProject
    <3>6. CallTyped'
      BY <1>1, <1>2, <1>4, <1>5, <2>3, <3>2, <3>3, <3>5
         DEF CallTyped, DoctorTypeOK
    <3>7. leadsTo[a] # NoText
      BY <2>6, SuccessMeansThere
    <3>8. CallUnderWay'
      BY <1>1, <1>3, <2>3, <2>4, <2>6, <3>3, <3>4, <3>7
         DEF CallUnderWay, ProjectFound
    <3>9. ~Reported'
      BY <3>3 DEF Reported
    <3> QED
      BY <3>6, <3>8, <3>9 DEF DoctorHears, CallReported
  <2>7. CASE answer # Undecodable /\ ~ReadOutcome(answer).ok
    <3> DEFINE found == {ReadDiagnostic(ReadOutcome(answer))}
    <3>1. Return("OK", FALSE, found) /\ Answers(ProjectAnswers(a), answer)
      BY <2>1, <2>7
    <3>2. faults' \in 0..MaxFaults
      BY <1>1, <3>1, FaultsBounded
    <3>3. "OK" \in Codes /\ FALSE \in BOOLEAN /\ found \in SUBSET Diagnostic
      BY <2>4, <2>7, ReadDiagnosticTyped DEF Codes
    <3> HIDE DEF found
    <3>4. /\ doctor'.pc = "idle"
          /\ doctor' \in [pc : {"idle", "project", "keys"}, in : DoctorInputs,
                          healthy : BOOLEAN, diagnostics : SUBSET Diagnostic]
          /\ report'.status = "OK" /\ ~report'.healthy /\ report'.diagnostics = found
          /\ report' \in [status : Codes \cup {"none"}, healthy : BOOLEAN,
                          diagnostics : SUBSET Diagnostic]
          /\ report'.healthy => report'.status = "OK" /\ report'.diagnostics = {}
      BY <3>1, <3>3, ReturnTyped
    <3>5. CallTyped'
      BY <1>1, <1>4, <1>5, <2>3, <3>2, <3>4 DEF CallTyped, DoctorTypeOK
    <3>6. CallUnderWay'
      BY <3>4 DEF CallUnderWay
    <3>7. Decoded(Refused)
      BY DEF Decoded
    <3>8. CallReported'
      BY <1>3, <2>3, <2>4, <2>7, <3>4, <3>7 DEF CallReported, found
    <3> QED
      BY <3>5, <3>6, <3>8 DEF DoctorHears
  <2> QED
    BY <2>5, <2>6, <2>7
<1> QED
  BY <1>7, <1>8

\* The read of the keys.
LEMMA KeysReadKeeps ==
    ASSUME DoctorHears, DoctorReadKeys
    PROVE  DoctorHears'
<1> DEFINE a == doctor.in.address
           page == PageOf(KeyListOf(a), "")
           regrouped == ClientKeysFromResponse(FilterKeyList(KeyListBody(page)))
<1>1. /\ doctor.pc = "keys" /\ RemoteTypeOK /\ SetupTypeOK
      /\ UNCHANGED <<leadsTo, keyring, changes, setupVars>>
  BY DEF DoctorHears, CallTyped, DoctorTypeOK, DoctorReadKeys
<1>2. /\ doctor.in \in DoctorInputs /\ a \in Addresses
      /\ doctor.healthy \in BOOLEAN /\ doctor.diagnostics \in SUBSET Diagnostic
      /\ heard \in Hearing /\ heard.since <= changes
  BY ProblemsTyped DEF DoctorHears, CallTyped, DoctorTypeOK
<1>3. /\ heard.in = doctor.in /\ doctor.in.parsed /\ ~HasError(doctor.in.problems)
      /\ heard.keys = Refused /\ heard.page = << >>
      /\ Decoded(heard.project) /\ ReadOutcome(heard.project).ok
      /\ doctor.healthy <=> heard.named = a
      /\ doctor.diagnostics = ProjectFound
      /\ Undisturbed => leadsTo[a] # NoText
  BY <1>1 DEF DoctorHears, CallUnderWay
<1>4. page \in Seq(ClientKey) /\ regrouped = page
  BY <1>1, <1>2, PageIsKeys, RoundTrip
<1> HIDE DEF page, regrouped
<1>5. PICK answer \in KeyListAnswers(a, "") \cup FaultAnswers :
        LET outcome == ReadOutcome(answer)
            found == IF outcome.ok
              THEN ClientKeyDiagnostic(regrouped, doctor.in.clientKeyID)
              ELSE {ReadDiagnostic(outcome)}
        IN
        /\ Answers(KeyListAnswers(a, ""), answer)
        /\ heard' = [heard EXCEPT !.keys = answer,
                       !.page = IF outcome.ok THEN page ELSE << >>]
        /\ IF answer = Undecodable
             THEN ReturnError("Internal")
             ELSE Return("OK", doctor.healthy /\ found = {},
                         doctor.diagnostics \cup found)
  BY DEF DoctorReadKeys, page, regrouped
<1> DEFINE outcome == ReadOutcome(answer)
           found == IF outcome.ok
             THEN ClientKeyDiagnostic(page, doctor.in.clientKeyID)
             ELSE {ReadDiagnostic(outcome)}
<1>6. faults' \in 0..MaxFaults
  BY <1>1, <1>5, FaultsBounded
<1>7. RemoteTypeOK' /\ SetupTypeOK'
  BY <1>1, <1>6 DEF RemoteTypeOK, SetupTypeOK, setupVars
<1>8. answer \in Answer
  <2>1. Undecodable \in Answer
    BY DEF Undecodable, Answer
  <2> QED
    BY <2>1, AnswersTyped
<1>9. /\ heard' \in Hearing
      /\ heard'.in = heard.in /\ heard'.since = heard.since
      /\ heard'.project = heard.project /\ heard'.named = heard.named
      /\ heard'.keys = answer
      /\ heard'.page = IF outcome.ok THEN page ELSE << >>
  <2>1. (IF outcome.ok THEN page ELSE << >>) \in Seq(ClientKey)
    BY <1>4, EmptySeq
  <2> HIDE DEF outcome
  <2>2. heard' = [heard EXCEPT !.keys = answer,
                    !.page = IF outcome.ok THEN page ELSE << >>]
    BY <1>5 DEF outcome
  <2> QED
    BY <1>2, <1>8, <2>1, <2>2 DEF Hearing
<1>10. CASE answer = Undecodable
  <2>1. "Internal" \in Codes /\ FALSE \in BOOLEAN /\ {} \in SUBSET Diagnostic
        /\ Return("Internal", FALSE, {})
    BY <1>5, <1>10 DEF Codes, ReturnError
  <2>2. /\ doctor'.pc = "idle"
        /\ doctor' \in [pc : {"idle", "project", "keys"}, in : DoctorInputs,
                        healthy : BOOLEAN, diagnostics : SUBSET Diagnostic]
        /\ report'.status = "Internal"
        /\ report' \in [status : Codes \cup {"none"}, healthy : BOOLEAN,
                        diagnostics : SUBSET Diagnostic]
        /\ report'.healthy => report'.status = "OK" /\ report'.diagnostics = {}
    BY <2>1, ReturnTyped
  <2>3. CallTyped'
    BY <1>1, <1>2, <1>7, <1>9, <2>2 DEF CallTyped, DoctorTypeOK
  <2>4. CallUnderWay' /\ ~Reported'
    BY <2>2 DEF CallUnderWay, Reported
  <2> QED
    BY <2>3, <2>4 DEF DoctorHears, CallReported
<1>11. CASE answer # Undecodable
  <2> DEFINE healthy == doctor.healthy /\ found = {}
             diagnostics == doctor.diagnostics \cup found
  <2>1. Return("OK", healthy, diagnostics)
    BY <1>4, <1>5, <1>11
  <2>2. Decoded(answer)
    BY <1>11, AnswersDecoded
  <2>3. found \in SUBSET Diagnostic
    <3>1. CASE outcome.ok
      BY <3>1, KeyDiagnosticExactly
    <3>2. CASE ~outcome.ok
      BY <2>2, <3>2, ReadDiagnosticTyped
    <3> QED
      BY <3>1, <3>2
  <2> HIDE DEF found, outcome
  <2>4. "OK" \in Codes /\ healthy \in BOOLEAN /\ diagnostics \in SUBSET Diagnostic
    BY <1>2, <2>3 DEF Codes
  <2>5. healthy => diagnostics = {}
    BY <1>3 DEF ProjectFound
  <2> HIDE DEF healthy, diagnostics
  <2>6. /\ doctor'.pc = "idle"
        /\ doctor' \in [pc : {"idle", "project", "keys"}, in : DoctorInputs,
                        healthy : BOOLEAN, diagnostics : SUBSET Diagnostic]
        /\ report'.status = "OK" /\ (report'.healthy <=> healthy)
        /\ report'.diagnostics = diagnostics
        /\ report' \in [status : Codes \cup {"none"}, healthy : BOOLEAN,
                        diagnostics : SUBSET Diagnostic]
        /\ report'.healthy => report'.status = "OK" /\ report'.diagnostics = {}
    BY <2>1, <2>4, <2>5, ReturnTyped
  <2>7. CallTyped'
    BY <1>1, <1>2, <1>7, <1>9, <2>6 DEF CallTyped, DoctorTypeOK
  <2>8. CallUnderWay'
    BY <2>6 DEF CallUnderWay
  <2>9. KeysFound' = found /\ ProjectFound' = ProjectFound
    BY <1>3, <1>9 DEF KeysFound, ProjectFound, found, outcome
  <2>10. (Undisturbed' <=> Undisturbed) /\ leadsTo' = leadsTo
    BY <1>1, <1>9 DEF Undisturbed
  <2>11. /\ PageOf(KeyListOf(heard.in.address), "")' = page
         /\ heard'.in.address = a
    <3>1. heard'.in.address = a /\ leadsTo' = leadsTo /\ keyring' = keyring
      BY <1>1, <1>3, <1>9
    <3> HIDE DEF a
    <3>2. KeyListOf(heard.in.address)' = KeyListOf(a)
      BY <3>1 DEF KeyListOf
    <3> QED
      BY <3>1, <3>2 DEF PageOf, page
  <2>12. CallReported'
    BY <1>3, <1>9, <2>2, <2>6, <2>9, <2>10, <2>11
       DEF CallReported, healthy, diagnostics, outcome
  <2> QED
    BY <2>7, <2>8, <2>12 DEF DoctorHears
<1> QED
  BY <1>10, <1>11

\* What people do to the remote disturbs a call, and so excuses what it heard.
LEMMA ChangeKeeps ==
    ASSUME DoctorHears, RemoteChange, UNCHANGED <<setupVars, doctor, report, heard>>
    PROVE  DoctorHears'
<1>1. RemoteTypeOK /\ SetupTypeOK /\ heard \in Hearing /\ heard.since <= changes
  BY DEF DoctorHears, CallTyped, DoctorTypeOK
<1>2. RemoteTypeOK'
  BY <1>1, RemoteTypeKept
<1>3. changes' = changes + 1
  BY DEF RemoteChange, CreateKey, ToggleKey, MoveAddress, Changed
<1>4. changes \in Nat
  BY <1>1, RemoteAssumption DEF RemoteTypeOK
<1>5. heard'.since <= changes' /\ ~Undisturbed'
  BY <1>1, <1>3, <1>4 DEF Hearing, Undisturbed
<1>6. CallTyped'
  BY <1>2, <1>5 DEF DoctorHears, CallTyped, DoctorTypeOK, SetupTypeOK, setupVars
<1>7. ProjectFound' = ProjectFound /\ KeysFound' = KeysFound
  BY DEF ProjectFound, KeysFound
<1>8. CallUnderWay'
  BY <1>5, <1>7 DEF DoctorHears, CallUnderWay
<1>9. Reported' <=> Reported
  BY DEF Reported
<1>10. CallReported'
  BY <1>5, <1>7, <1>9 DEF DoctorHears, CallReported
<1> QED
  BY <1>6, <1>8, <1>10 DEF DoctorHears

\* A step that leaves Doctor and its remote alone.
LEMMA DoctorLeftAlone ==
    ASSUME DoctorHears, UNCHANGED doctorVars
    PROVE  DoctorHears'
<1>1. /\ UNCHANGED <<leadsTo, keyring, changes, faults, hosted, admitted>>
      /\ UNCHANGED <<doctor, report, heard>>
  BY DEF doctorVars, remoteVars, setupVars
<1>2. CallTyped'
  BY <1>1 DEF DoctorHears, CallTyped, DoctorTypeOK, RemoteTypeOK, SetupTypeOK
<1>3. /\ ProjectFound' = ProjectFound /\ KeysFound' = KeysFound
      /\ (Undisturbed' <=> Undisturbed) /\ (Reported' <=> Reported)
  BY <1>1 DEF ProjectFound, KeysFound, Undisturbed, Reported
<1>4. CallUnderWay'
  BY <1>1, <1>3 DEF DoctorHears, CallUnderWay
<1>5. PageOf(KeyListOf(heard.in.address), "")'
        = PageOf(KeyListOf(heard.in.address), "")
  BY <1>1 DEF PageOf, KeyListOf
<1>6. CallReported'
  BY <1>1, <1>3, <1>5 DEF DoctorHears, CallReported
<1> QED
  BY <1>2, <1>4, <1>6 DEF DoctorHears

\* Before any call, nothing is under way and nothing was reported.
LEMMA DoctorInitHears == DoctorInit => DoctorHears
<1> SUFFICES ASSUME DoctorInit PROVE DoctorHears
  OBVIOUS
<1>1. /\ doctor = NoDoctor /\ SetupTypeOK /\ changes = 0
      /\ report = [status |-> "none", healthy |-> FALSE, diagnostics |-> {}]
      /\ heard = [in |-> NoDoctor.in, since |-> 0, project |-> Refused,
                  named |-> NoText, keys |-> Refused, page |-> << >>]
  BY DEF DoctorInit, RemoteInit, Report, Unheard
<1>2. RemoteTypeOK
  BY RemoteAssumption DEF DoctorInit, RemoteInit, RemoteTypeOK
<1>3. heard \in Hearing /\ heard.since <= changes
  <2>1. Refused \in Answer /\ NoText \in Optional(Addresses)
    BY DEF Refused, Answer, Optional
  <2>2. << >> \in Seq(ClientKey)
    BY EmptySeq
  <2> QED
    BY <1>1, <2>1, <2>2, NoDoctorTyped DEF Hearing
<1>4. CallTyped
  BY <1>1, <1>2, <1>3, NoDoctorTyped DEF CallTyped, DoctorTypeOK
<1>5. doctor.pc = "idle" /\ ~Reported
  BY <1>1, NoDoctorTyped DEF Reported
<1> QED
  BY <1>4, <1>5 DEF DoctorHears, CallUnderWay, CallReported

\* The two handlers side by side: the response is that of the input as it
\* stands.
BindingChecked ==
    /\ raw \in RawInputs
    /\ response = NoResponse \/ response = Validated(raw)
    /\ DoctorHears

\* Whatever is called in whatever order keeps it.
LEMMA ChecksKept == Spec => []BindingChecked
<1>1. Init => BindingChecked
  BY DoctorInitHears DEF Init, RawInit, BindingChecked
<1>2. BindingChecked /\ [Next]_vars => BindingChecked'
  <2> SUFFICES ASSUME BindingChecked, [Next]_vars PROVE BindingChecked'
    OBVIOUS
  <2>1. DoctorHears
    BY DEF BindingChecked
  <2>2. CASE HostValidates
    <3>1. DoctorHears'
      BY <2>1, <2>2, DoctorLeftAlone DEF HostValidates
    <3>2. raw' = raw /\ response' = Validated(raw)
      BY <2>2 DEF HostValidates, Validate
    <3> QED
      BY <3>1, <3>2 DEF BindingChecked, Validated, ParseInputs
  <2>3. ASSUME UNCHANGED inputVars, DoctorHears' PROVE BindingChecked'
    <3>1. raw' = raw /\ response' = response
      BY <2>3 DEF inputVars
    <3> QED
      BY <2>3, <3>1 DEF BindingChecked
  <2>4. CASE HostCallsDoctor
    <3>1. Parsed(raw) \in DoctorInputs /\ Doctor(Parsed(raw))
      BY <2>4, MeaningAssumption DEF HostCallsDoctor
    <3>2. DoctorHears'
      BY <2>1, <3>1, CallKeeps
    <3> QED
      BY <2>3, <2>4, <3>2 DEF HostCallsDoctor
  <2>5. CASE DoctorGoesOn
    <3>1. DoctorStep /\ UNCHANGED inputVars
      BY <2>5 DEF DoctorGoesOn
    <3>2. DoctorHears'
      BY <2>1, <3>1, ProjectReadKeeps, KeysReadKeeps, ChangeKeeps DEF DoctorStep
    <3> QED
      BY <2>3, <3>1, <3>2
  <2>6. CASE UNCHANGED vars
    <3>1. UNCHANGED doctorVars /\ UNCHANGED inputVars
      BY <2>6 DEF vars
    <3>2. DoctorHears'
      BY <2>1, <3>1, DoctorLeftAlone
    <3> QED
      BY <2>3, <3>1, <3>2
  <2> QED
    BY <2>2, <2>4, <2>5, <2>6 DEF Next
<1> QED
  BY <1>1, <1>2, PTL DEF Spec

-------------------------------------------------------------------------------
(* What Plan makes of the same answers.                                      *)

\* A plan over a selection warns of a DSN that was supplied, and errs only over
\* one that is missing.
LEMMA SelectedDiagnostics ==
    ASSUME NEW in, NEW target, NEW sel
    PROVE  \A d \in PlanSelected(in, target, sel).diagnostics :
             \/ d = Diag("ERROR", "schema-drift")
             \/ d = Diag("WARNING", "supplied-dsn-mismatch")
<1>1. \A d \in PlanErrorTracking(in, target, sel.key).diagnostics :
        d = Diag("ERROR", "schema-drift")
  BY DEF PlanErrorTracking, NoProjection, Verdict
<1> QED
  BY <1>1 DEF PlanSelected

\* No read is both known and uncertain.
LEMMA OutcomeOfHeard ==
    ASSUME NEW answer, Decoded(answer)
    PROVE  LET outcome == ReadOutcome(answer) IN
           /\ outcome.ok \in BOOLEAN /\ outcome.uncertain \in BOOLEAN
           /\ ~(outcome.ok /\ outcome.uncertain)
<1>1. answer \in Answer /\ answer.kind # "undecodable"
  BY DEF Decoded, Answer, Answered, Refused
<1> QED
  BY <1>1, OutcomeOfAnswer

\* The codes of an error that holds a plan back.
Holding == {"project-inaccessible", "no-active-client-key", "ambiguous-client-key",
            "client-key-revoked", "client-key-mismatch"}

\* Over what Doctor heard in a call that looked into its input, Plan either
\* selects a key, or errs with one code: of an unknown outcome exactly when the
\* read that settles the matter is uncertain.
LEMMA PlanOfHeard ==
    ASSUME DoctorHears, Reported
    PROVE  LET project == ReadOutcome(heard.project)
               keys    == ReadOutcome(heard.keys)
               sel     == SelectClientKey(heard.page, heard.in.clientKeyID)
               doubt   == IF project.ok THEN keys.uncertain ELSE project.uncertain
               fine    == /\ project.ok /\ heard.named = heard.in.address
                          /\ keys.ok /\ sel.outcome = "selected"
           IN  /\ fine => \A d \in PlannedAlike :
                            \/ d = Diag("ERROR", "schema-drift")
                            \/ d = Diag("WARNING", "supplied-dsn-mismatch")
               /\ ~fine => \E code \in Holding \cup {"outcome-unknown"} :
                    /\ PlannedAlike = {Diag("ERROR", code)}
                    /\ ~project.ok \/ heard.named = heard.in.address =>
                         (code = "outcome-unknown" <=> doubt)
<1> DEFINE project == ReadOutcome(heard.project)
           keys    == ReadOutcome(heard.keys)
           in      == heard.in
           sel     == SelectClientKey(heard.page, in.clientKeyID)
           target  == [contract |-> "error-tracking", generation |-> 1]
           o       == ObservedAlike
           runtime == PlanRuntime(in, target, heard.page, o.complete)
<1>1. /\ Decoded(heard.project) /\ Decoded(heard.keys)
      /\ ~keys.ok => heard.page = << >>
      /\ heard.page \in Seq(ClientKey)
      /\ in.parsed /\ ~HasError(in.problems)
  BY DEF DoctorHears, CallReported, CallTyped, Hearing, Reported
<1>2. /\ project.ok \in BOOLEAN /\ keys.ok \in BOOLEAN
      /\ project.uncertain \in BOOLEAN /\ keys.uncertain \in BOOLEAN
      /\ project.ok => ~project.uncertain
      /\ keys.ok => ~keys.uncertain
  BY <1>1, OutcomeOfHeard
<1>3. /\ o.complete = (~project.uncertain /\ (project.ok => ~keys.uncertain))
      /\ o.keys = heard.page
      /\ o.projects = IF project.ok
                        THEN {[remoteID |-> NoText, address |-> heard.named,
                               accessible |-> TRUE]} ELSE {}
  BY DEF ObservedAlike
<1>4. PlannedAlike = Plan(in, o, target).diagnostics
  BY DEF PlannedAlike
<1>5. target.contract = "error-tracking" /\ target.contract # "error-tracking-build"
  OBVIOUS
<1> HIDE DEF o, target
<1>6. PlannedAlike = IF Confirmed(in, o) THEN runtime.diagnostics
                                         ELSE {Diag("ERROR", GateCode(o))}
  BY <1>1, <1>3, <1>4, <1>5 DEF Plan, Planned, BlockedProject, Verdict
<1>7. Confirmed(in, o) <=> project.ok /\ heard.named = in.address
  <2> DEFINE seen == [remoteID |-> NoText, address |-> heard.named,
                      accessible |-> TRUE]
  <2>1. seen.accessible /\ seen.address = heard.named
    OBVIOUS
  <2> HIDE DEF seen, project, in
  <2>2. o.projects = IF project.ok THEN {seen} ELSE {}
    BY <1>3 DEF seen
  <2>3. CASE project.ok
    BY <2>1, <2>2, <2>3 DEF Confirmed
  <2>4. CASE ~project.ok
    BY <2>2, <2>4 DEF Confirmed
  <2> QED
    BY <2>3, <2>4
<1>8. GateCode(o) = IF ~project.ok /\ project.uncertain
                      THEN "outcome-unknown" ELSE "project-inaccessible"
  BY <1>2, <1>3 DEF GateCode
<1> HIDE DEF project, keys, in, sel, runtime
<1>9. CASE ~Confirmed(in, o)
  <2> DEFINE code == GateCode(o)
  <2>1. PlannedAlike = {Diag("ERROR", code)}
    BY <1>6, <1>9
  <2>2. code \in Holding \cup {"outcome-unknown"}
    BY <1>8 DEF Holding
  <2>3. ~project.ok \/ heard.named = in.address => ~project.ok
    BY <1>7, <1>9
  <2>4. ~project.ok => (code = "outcome-unknown" <=> project.uncertain)
    BY <1>8
  <2> QED
    BY <1>7, <1>9, <2>1, <2>2, <2>3, <2>4 DEF project, in
<1>10. CASE Confirmed(in, o)
  <2> DEFINE held == ~o.complete /\ ExhaustivenessDependent(sel)
  <2>1. project.ok /\ heard.named = in.address /\ (o.complete <=> ~keys.uncertain)
        /\ o.complete \in BOOLEAN
    BY <1>2, <1>3, <1>7, <1>10
  <2>2. PlannedAlike = runtime.diagnostics
    BY <1>6, <1>10
  <2>3. \/ /\ ~held /\ sel.outcome = "selected"
           /\ runtime = PlanSelected(in, target, sel)
        \/ held /\ runtime.diagnostics = {Diag("ERROR", "outcome-unknown")}
        \/ ~held /\ ReportsOnly(runtime, sel, "no-active", "no-active-client-key")
        \/ ~held /\ ReportsOnly(runtime, sel, "ambiguous", "ambiguous-client-key")
        \/ ~held /\ ReportsOnly(runtime, sel, "explicit-revoked",
                                "client-key-revoked")
        \/ ~held /\ ReportsOnly(runtime, sel, "explicit-missing",
                                "client-key-mismatch")
    BY <1>1, <2>1, RuntimePlan DEF runtime, sel
  <2>4. ~keys.ok => /\ sel.outcome \in {"no-active", "explicit-missing"}
                    /\ ExhaustivenessDependent(sel)
    BY <1>1, NothingFromNoKeys DEF sel
  <2>5. held => keys.uncertain
    BY <2>1
  <2>6. keys.uncertain => held
    BY <1>2, <2>1, <2>4
  <2>7. CASE keys.ok /\ sel.outcome = "selected"
    <3>1. ~held
      BY <1>2, <2>5, <2>7
    <3>2. runtime = PlanSelected(in, target, sel)
      BY <2>3, <2>7, <3>1 DEF ReportsOnly
    <3>3. \A d \in PlannedAlike : \/ d = Diag("ERROR", "schema-drift")
                                  \/ d = Diag("WARNING", "supplied-dsn-mismatch")
      BY <2>2, <3>2, SelectedDiagnostics
    <3> QED
      BY <2>1, <2>7, <3>3 DEF project, keys, in, sel
  <2>8. CASE ~(keys.ok /\ sel.outcome = "selected")
    <3>1. sel.outcome # "selected" \/ held
      BY <2>4, <2>8
    <3> HIDE DEF held
    <3>2. \E code \in Holding \cup {"outcome-unknown"} :
            /\ runtime.diagnostics = {Diag("ERROR", code)}
            /\ code = "outcome-unknown" <=> held
      BY <2>3, <3>1 DEF ReportsOnly, Holding
    <3> QED
      BY <2>1, <2>2, <2>5, <2>6, <2>8, <3>2 DEF project, keys, in, sel
  <2> QED
    BY <2>7, <2>8
<1> QED
  BY <1>9, <1>10

-------------------------------------------------------------------------------
(* What the checks promise.                                                  *)

\* Doctor and Plan agree: over the same answers, Doctor calls a binding healthy
\* exactly when Plan finds no error but for the key's missing DSN.
THEOREM DoctorAgreesWithPlan == Spec => []HealthyIffPlannable
<1>1. DoctorHears => HealthyIffPlannable
  <2> SUFFICES ASSUME DoctorHears, Reported
               PROVE  report.healthy <=>
                        \A d \in PlannedAlike :
                          d.severity = "ERROR" => d.code = "schema-drift"
    BY DEF HealthyIffPlannable
  <2> DEFINE project == ReadOutcome(heard.project)
             keys    == ReadOutcome(heard.keys)
             sel     == SelectClientKey(heard.page, heard.in.clientKeyID)
             fine    == /\ project.ok /\ heard.named = heard.in.address
                        /\ keys.ok /\ sel.outcome = "selected"
  <2>1. /\ fine => \A d \in PlannedAlike :
                     \/ d = Diag("ERROR", "schema-drift")
                     \/ d = Diag("WARNING", "supplied-dsn-mismatch")
        /\ ~fine => \E code \in Holding \cup {"outcome-unknown"} :
                      PlannedAlike = {Diag("ERROR", code)}
    BY PlanOfHeard
  <2>2. report.healthy <=> fine
    <3>1. IF project.ok
            THEN report.healthy <=> /\ heard.named = heard.in.address
                                    /\ KeysFound = {}
            ELSE ~report.healthy
      BY DEF DoctorHears, CallReported
    <3>2. KeysFound = {} <=> keys.ok /\ sel.outcome = "selected"
      BY KeyDiagnosticExactly DEF KeysFound
    <3> HIDE DEF project, keys, sel
    <3> QED
      BY <3>1, <3>2
  <2> HIDE DEF fine
  <2>3. CASE fine
    <3>1. \A d \in PlannedAlike : d.severity = "ERROR" => d.code = "schema-drift"
      BY <2>1, <2>3 DEF Diag
    <3> QED
      BY <2>2, <2>3, <3>1
  <2>4. CASE ~fine
    <3>1. PICK code \in Holding \cup {"outcome-unknown"} :
            PlannedAlike = {Diag("ERROR", code)}
      BY <2>1, <2>4
    <3>2. code # "schema-drift"
      BY DEF Holding
    <3>3. Diag("ERROR", code).severity = "ERROR" /\ Diag("ERROR", code).code = code
      BY DEF Diag
    <3> QED
      BY <2>2, <2>4, <3>1, <3>2, <3>3
  <2> QED
    BY <2>3, <2>4
<1> QED
  BY <1>1, ChecksKept, PTL DEF BindingChecked

\* The severity Doctor gives a failed read is a warning exactly when Observe
\* takes the read for an uncertain one, refusals and redirects aside.
LEMMA WarningIsUncertain ==
    ASSUME NEW answer, Decoded(answer), ~ReadOutcome(answer).ok,
           ~Unhelpful(answer)
    PROVE  ReadDiagnostic(ReadOutcome(answer)).severity = "WARNING"
             <=> ReadOutcome(answer).uncertain
<1> DEFINE outcome == ReadOutcome(answer)
           code == answer.code
<1>1. /\ outcome.statusCode = code /\ code \in Nat /\ code \notin 300..399
      /\ outcome.uncertain <=> UncertainStatus(code)
  BY OutcomeCases DEF Unhelpful, Decoded
<1> HIDE DEF outcome, code
<1>2. ReadDiagnostic(outcome).severity = DoctorSeverity(code)
  BY <1>1 DEF ReadDiagnostic, Diag
<1>3. DoctorSeverity(code) = "WARNING" <=> code = 429 \/ code >= 500
  BY DEF DoctorSeverity
<1>4. UncertainStatus(code) <=> code = 429 \/ code >= 500
  BY <1>1 DEF UncertainStatus
<1> QED
  BY <1>1, <1>2, <1>3, <1>4 DEF outcome

\* Doctor warns of what Plan calls an unknown outcome, and of nothing else,
\* whichever of the two reads brought it.
THEOREM WarningsAreUnknowns == Spec => []WarningMeansUnknown
<1>1. DoctorHears => WarningMeansUnknown
  <2> DEFINE project == ReadOutcome(heard.project)
             keys    == ReadOutcome(heard.keys)
             warned  == \E d \in report.diagnostics : d.severity = "WARNING"
             unknown == \E d \in PlannedAlike : d.code = "outcome-unknown"
             doubt   == IF project.ok THEN keys.uncertain ELSE project.uncertain
             sel     == SelectClientKey(heard.page, heard.in.clientKeyID)
             fine    == /\ project.ok /\ heard.named = heard.in.address
                        /\ keys.ok /\ sel.outcome = "selected"
  <2> SUFFICES ASSUME DoctorHears, Reported, ~Unhelpful(heard.project),
                      project.ok => /\ heard.named = heard.in.address
                                    /\ ~Unhelpful(heard.keys)
               PROVE  warned <=> unknown
    BY DEF WarningMeansUnknown
  <2>1. /\ Decoded(heard.project) /\ Decoded(heard.keys)
        /\ project.ok => report.diagnostics = ProjectFound \cup KeysFound
        /\ ~project.ok => report.diagnostics = {ReadDiagnostic(project)}
    BY DEF DoctorHears, CallReported
  <2>2. /\ project.ok \in BOOLEAN /\ keys.ok \in BOOLEAN
        /\ ~(project.ok /\ project.uncertain) /\ ~(keys.ok /\ keys.uncertain)
    BY <2>1, OutcomeOfHeard
  <2>3. /\ fine => \A d \in PlannedAlike :
                     \/ d = Diag("ERROR", "schema-drift")
                     \/ d = Diag("WARNING", "supplied-dsn-mismatch")
        /\ ~fine => \E code \in Holding \cup {"outcome-unknown"} :
             /\ PlannedAlike = {Diag("ERROR", code)}
             /\ ~project.ok \/ heard.named = heard.in.address =>
                  (code = "outcome-unknown" <=> doubt)
    BY PlanOfHeard
  <2>4. unknown <=> doubt
    <3>1. CASE fine
      <4>1. ~doubt
        BY <2>2, <3>1
      <4>2. ~unknown
        BY <2>3, <3>1 DEF Diag
      <4> QED
        BY <4>1, <4>2
    <3>2. CASE ~fine
      <4>1. PICK code \in Holding \cup {"outcome-unknown"} :
              /\ PlannedAlike = {Diag("ERROR", code)}
              /\ ~project.ok \/ heard.named = heard.in.address =>
                   (code = "outcome-unknown" <=> doubt)
        BY <2>3, <3>2
      <4>2. Diag("ERROR", code).code = code
        BY DEF Diag
      <4> HIDE DEF project, doubt, fine
      <4> QED
        BY <4>1, <4>2
    <3> QED
      BY <3>1, <3>2
  <2>5. CASE ~project.ok
    <3>1. warned <=> ReadDiagnostic(project).severity = "WARNING"
      BY <2>1, <2>5
    <3>2. ReadDiagnostic(project).severity = "WARNING" <=> project.uncertain
      BY <2>1, <2>5, WarningIsUncertain
    <3> QED
      BY <2>4, <2>5, <3>1, <3>2
  <2>6. CASE project.ok /\ ~keys.ok
    <3>1. ProjectFound = {} /\ KeysFound = {ReadDiagnostic(keys)}
      BY <2>6 DEF ProjectFound, KeysFound
    <3>2. warned <=> ReadDiagnostic(keys).severity = "WARNING"
      BY <2>1, <2>6, <3>1
    <3>3. ReadDiagnostic(keys).severity = "WARNING" <=> keys.uncertain
      BY <2>1, <2>6, WarningIsUncertain
    <3> QED
      BY <2>4, <2>6, <3>2, <3>3
  <2>7. CASE project.ok /\ keys.ok
    <3>1. ProjectFound = {}
      BY <2>7 DEF ProjectFound
    <3>2. \A d \in KeysFound : d.severity = "ERROR"
      BY <2>7, KeyDiagnosticExactly DEF KeysFound
    <3>3. ~warned
      BY <2>1, <2>7, <3>1, <3>2
    <3> QED
      BY <2>2, <2>4, <2>7, <3>3
  <2> QED
    BY <2>2, <2>5, <2>6, <2>7
<1> QED
  BY <1>1, ChecksKept, PTL DEF BindingChecked

\* Doctor's word is true: when nothing changed during a call that found the
\* binding healthy, the project is there, and the key Plan would project is
\* active on the first page of its list.
THEOREM HealthIsTrue == Spec => []HealthyIsTrue
<1>1. DoctorHears => HealthyIsTrue
  <2> DEFINE a == heard.in.address
             listed == PageOf(KeyListOf(a), "")
             id == heard.in.clientKeyID
  <2> SUFFICES ASSUME DoctorHears, Reported, report.healthy, Undisturbed
               PROVE  /\ leadsTo[a] # NoText
                      /\ \E i \in ActiveAt(listed) :
                           IF id = NoText THEN ActiveAt(listed) = {i}
                                          ELSE listed[i].id = id
    BY DEF HealthyIsTrue, Undisturbed
  <2>1. /\ leadsTo[a] # NoText /\ KeysFound = {}
        /\ ReadOutcome(heard.keys).ok => heard.page = listed
    BY DEF DoctorHears, CallReported
  <2>2. /\ ReadOutcome(heard.keys).ok
        /\ SelectClientKey(heard.page, id).outcome = "selected"
    BY <2>1, KeyDiagnosticExactly DEF KeysFound
  <2>3. listed \in Seq(ClientKey)
    BY <2>1, <2>2 DEF DoctorHears, CallTyped, Hearing
  <2> HIDE DEF listed, id
  <2>4. PICK i \in DOMAIN listed :
          /\ listed[i].active
          /\ IF id # NoText THEN listed[i].id = id ELSE ActiveAt(listed) = {i}
    BY <2>1, <2>2, <2>3, SelectedKey
  <2>5. i \in ActiveAt(listed)
    BY <2>4 DEF ActiveAt
  <2> QED
    BY <2>1, <2>4, <2>5
<1> QED
  BY <1>1, ChecksKept, PTL DEF BindingChecked

-------------------------------------------------------------------------------
(* Validation.                                                               *)

\* What a response says: it is valid exactly when no text looks secret and no
\* field is wrong, and its diagnostics are problems that the handlers know.
LEMMA ValidatedExactly ==
    ASSUME NEW input
    PROVE  /\ Validated(input).valid
                <=> input.secret = {} /\ ~Invalid(ParseInputs(input))
           /\ Validated(input) \in [valid : BOOLEAN, diagnostics : SUBSET InputProblems]
<1> DEFINE in == ParseInputs(input)
           error == {Diag("ERROR", "invalid-input")}
           warning == {Diag("WARNING", "self-hosted-admission")}
<1>1. in.ok = (input.secret = {})
  BY DEF ParseInputs
<1>2. /\ error \subseteq InputProblems /\ warning \subseteq InputProblems
      /\ \A d \in error : d.severity = "ERROR"
      /\ \A d \in warning : d.severity # "ERROR"
      /\ error # {}
  BY DEF InputProblems, Diag
<1> HIDE DEF in, error, warning
<1>3. ValidateInputs(in)
        = (IF Invalid(in) THEN error ELSE {})
            \cup (IF in.origin.region = "self-hosted" THEN warning ELSE {})
  BY DEF ValidateInputs, error, warning
<1>4. HasError(ValidateInputs(in)) <=> Invalid(in)
  BY <1>2, <1>3 DEF HasError
<1>5. ValidateInputs(in) \subseteq InputProblems
  BY <1>2, <1>3
<1>6. Validated(input) = IF ~in.ok THEN Response(error)
                                   ELSE Response(ValidateInputs(in))
  BY DEF Validated, in, error
<1>7. \A diagnostics : /\ Response(diagnostics).valid = ~HasError(diagnostics)
                       /\ Response(diagnostics).diagnostics = diagnostics
                       /\ Response(diagnostics)
                            = [valid |-> ~HasError(diagnostics),
                               diagnostics |-> diagnostics]
  BY DEF Response
<1>8. HasError(error)
  BY <1>2 DEF HasError
<1>9. Validated(input).valid <=> input.secret = {} /\ ~Invalid(in)
  BY <1>1, <1>4, <1>6, <1>7, <1>8
<1>10. \A diagnostics \in SUBSET InputProblems :
         Response(diagnostics)
           \in [valid : BOOLEAN, diagnostics : SUBSET InputProblems]
  BY <1>7 DEF HasError
<1>11. Validated(input) \in [valid : BOOLEAN, diagnostics : SUBSET InputProblems]
  BY <1>2, <1>5, <1>6, <1>10
<1> QED
  BY <1>9, <1>11 DEF in

\* Validate answers in its type, and Doctor keeps its own beside it.
THEOREM ChecksTypeCorrect == Spec => []TypeOK
<1>1. BindingChecked => TypeOK
  <2> SUFFICES ASSUME BindingChecked PROVE TypeOK
    OBVIOUS
  <2>1. raw \in RawInput
    BY RawInputAssumption DEF BindingChecked
  <2>2. NoResponse \in [valid : BOOLEAN, diagnostics : SUBSET InputProblems]
    BY DEF NoResponse
  <2>3. ValidateTypeOK
    BY <2>1, <2>2, ValidatedExactly DEF BindingChecked, ValidateTypeOK
  <2>4. DoctorTypeOK
    BY DEF BindingChecked, DoctorHears, CallTyped
  <2> QED
    BY <2>3, <2>4 DEF TypeOK
<1> QED
  BY <1>1, ChecksKept, PTL

\* Without the space, an origin is parsed like its plain spelling.
LEMMA OriginSpelling ==
    ASSUME NEW text \in OriginText
    PROVE  LET plain == [text EXCEPT !.padded = FALSE, !.host = InLowerCase(@.name),
                           !.slashes = IF text.host = NoHost THEN @ ELSE 0]
           IN  ParseOrigin(Trimmed(plain)) = ParseOrigin(Trimmed(text))
<1> DEFINE plain == [text EXCEPT !.padded = FALSE, !.host = InLowerCase(@.name),
                       !.slashes = IF text.host = NoHost THEN @ ELSE 0]
           bare == Trimmed(text)
           again == Trimmed(plain)
<1>1. text.host \in HostText /\ InLowerCase(text.host.name) \in HostText
  <2>1. text.host \in HostText
    BY DEF OriginText
  <2>2. \A name \in Hosts : InLowerCase(name) \in [name : Hosts, capitals : BOOLEAN]
    BY DEF InLowerCase
  <2>3. CASE text.host = NoHost
    BY <2>1, <2>3 DEF NoHost, InLowerCase
  <2>4. CASE text.host \in [name : Hosts, capitals : BOOLEAN]
    BY <2>1, <2>2, <2>4 DEF HostText
  <2> QED
    BY <2>1, <2>3, <2>4 DEF HostText
<1>2. /\ plain \in OriginText /\ plain.padded = FALSE
      /\ plain.parses = text.parses /\ plain.scheme = text.scheme
      /\ plain.host = InLowerCase(text.host.name) /\ plain.extras = text.extras
      /\ plain.slashes = IF text.host = NoHost THEN text.slashes ELSE 0
  <2> DEFINE slashes == IF text.host = NoHost THEN text.slashes ELSE 0
  <2>1. text.slashes \in 0..MaxSlashes /\ slashes \in 0..MaxSlashes
    BY RawInputAssumption DEF OriginText
  <2>2. plain = [text EXCEPT !.padded = FALSE, !.host = InLowerCase(text.host.name),
                             !.slashes = slashes]
    BY DEF OriginText
  <2> HIDE DEF slashes, plain
  <2>3. /\ plain \in OriginText /\ plain.padded = FALSE
        /\ plain.parses = text.parses /\ plain.scheme = text.scheme
        /\ plain.host = InLowerCase(text.host.name) /\ plain.extras = text.extras
        /\ plain.slashes = slashes
    BY <1>1, <2>1, <2>2 DEF OriginText
  <2> QED
    BY <2>3 DEF slashes
<1>3. \A t \in OriginText :
        /\ Trimmed(t) \in OriginText /\ Trimmed(t).padded = FALSE
        /\ Trimmed(t).parses = t.parses /\ Trimmed(t).scheme = t.scheme
        /\ Trimmed(t).host = t.host /\ Trimmed(t).extras = t.extras
        /\ Trimmed(t).slashes = t.slashes
  BY DEF OriginText, Trimmed
<1> HIDE DEF plain, bare, again
<1>4. /\ bare \in OriginText /\ again \in OriginText
      /\ bare.padded = again.padded /\ bare.parses = again.parses
      /\ bare.scheme = again.scheme /\ bare.extras = again.extras
      /\ bare.host = text.host /\ again.host = InLowerCase(text.host.name)
      /\ bare.slashes = text.slashes
      /\ again.slashes = IF text.host = NoHost THEN text.slashes ELSE 0
  BY <1>2, <1>3 DEF bare, again
<1>5. CASE text.host = NoHost
  <2>1. InLowerCase(text.host.name) = NoHost
    BY <1>5 DEF NoHost, InLowerCase
  <2>2. bare.host = again.host /\ bare.slashes = again.slashes
    BY <1>4, <1>5, <2>1
  <2>3. again = bare
    BY <1>4, <2>2 DEF OriginText
  <2> QED
    BY <2>3 DEF plain, bare, again
<1>6. CASE text.host # NoHost
  <2>1. text.host \in [name : Hosts, capitals : BOOLEAN]
    BY <1>1, <1>6 DEF HostText
  <2>2. text.host.name # NoText
    BY <2>1, RawInputAssumption
  <2>3. /\ InLowerCase(text.host.name) # NoHost
        /\ Lowered(InLowerCase(text.host.name)) = Lowered(text.host)
    <3>1. InLowerCase(text.host.name).name = text.host.name /\ NoHost.name = NoText
      BY DEF InLowerCase, NoHost
    <3>2. \A h \in [name : Hosts, capitals : BOOLEAN] :
            /\ Lowered(h) \in [name : Hosts, capitals : BOOLEAN]
            /\ Lowered(h).name = h.name /\ Lowered(h).capitals = FALSE
      BY DEF Lowered
    <3>3. InLowerCase(text.host.name) \in [name : Hosts, capitals : BOOLEAN]
      BY <2>1 DEF InLowerCase
    <3> QED
      BY <2>1, <2>2, <3>1, <3>2, <3>3
  <2>4. bare # NoOrigin /\ again # NoOrigin
    BY <1>4, <1>6, <2>3 DEF NoOrigin
  <2> DEFINE seen(t) == TrimRight(t)
             usable(t) == /\ t.parses /\ ~t.padded
                          /\ t.scheme = "https" /\ t.host # NoHost
                          /\ t.extras = {} /\ ~HasPath(t)
             result(t) == IF usable(t)
                            THEN Origin(Classify(Lowered(t.host)), Lowered(t.host))
                            ELSE Origin("invalid", NoHost)
  <2>5. \A t : t # NoOrigin => ParseOrigin(t) = result(seen(t))
    BY DEF ParseOrigin
  <2>6. /\ seen(again).parses = seen(bare).parses
        /\ seen(again).padded = seen(bare).padded
        /\ seen(again).scheme = seen(bare).scheme
        /\ seen(again).extras = seen(bare).extras
        /\ seen(again).slashes = seen(bare).slashes
        /\ seen(again).host = InLowerCase(text.host.name)
        /\ seen(bare).host = text.host
    BY <1>4, <1>6 DEF TrimRight, OriginText
  <2> HIDE DEF seen
  <2>7. usable(seen(again)) <=> usable(seen(bare))
    BY <1>6, <2>3, <2>6 DEF HasPath
  <2> HIDE DEF usable
  <2>8. result(seen(again)) = result(seen(bare))
    BY <2>3, <2>6, <2>7
  <2> HIDE DEF result
  <2> QED
    BY <2>4, <2>5, <2>8 DEF plain, bare, again
<1> QED
  BY <1>5, <1>6

\* However an input is spelled, it gets the response of its plain spelling.
THEOREM SpellingNeverMatters == Spec => []SpellingIsImmaterial
<1>1. BindingChecked => SpellingIsImmaterial
  <2> DEFINE Plain(text) ==
               [text EXCEPT !.padded = FALSE, !.host = InLowerCase(@.name),
                            !.slashes = IF text.host = NoHost THEN @ ELSE 0]
             Bare(text)  == [text EXCEPT !.padded = FALSE]
             Match(text) == IF text = "padded" THEN "matching"
                            ELSE IF text = "blank" THEN "unset" ELSE text
             plain == [api_origin        |-> Plain(raw.api_origin),
                       organization_slug |-> Match(raw.organization_slug),
                       project_slug      |-> Match(raw.project_slug),
                       client_key_id     |-> Match(raw.client_key_id),
                       expected_dsn      |-> Bare(raw.expected_dsn),
                       secret            |-> raw.secret]
  <2> SUFFICES ASSUME BindingChecked, Judged PROVE response = Validated(plain)
    BY DEF SpellingIsImmaterial
  <2>1. raw \in RawInput /\ response = Validated(raw)
    BY RawInputAssumption DEF BindingChecked, Judged
  <2>2. raw.api_origin \in OriginText /\ raw.expected_dsn \in DsnText
    BY <2>1 DEF RawInput
  <2>3. ParseOrigin(Trimmed(Plain(raw.api_origin)))
          = ParseOrigin(Trimmed(raw.api_origin))
    BY <2>2, OriginSpelling
  <2>4. \A x : ParsePattern(Match(x)) = ParsePattern(x)
    BY DEF ParsePattern
  <2>5. Trimmed(Bare(raw.expected_dsn)) = Trimmed(raw.expected_dsn)
    BY <2>2 DEF Trimmed, DsnText
  <2>6. /\ plain.secret = raw.secret
        /\ plain.api_origin = Plain(raw.api_origin)
        /\ plain.organization_slug = Match(raw.organization_slug)
        /\ plain.project_slug = Match(raw.project_slug)
        /\ plain.client_key_id = Match(raw.client_key_id)
        /\ plain.expected_dsn = Bare(raw.expected_dsn)
    OBVIOUS
  <2> HIDE DEF Plain, Bare, Match, plain
  <2>7. ParseInputs(plain) = ParseInputs(raw)
    BY <2>3, <2>4, <2>5, <2>6 DEF ParseInputs
  <2>8. Validated(plain) = Validated(raw)
    BY <2>7 DEF Validated
  <2> QED
    BY <2>1, <2>8 DEF plain, Plain, Bare, Match
<1> QED
  BY <1>1, ChecksKept, PTL

\* What each field of an input has to be, by itself.
OriginFine(text) == ParseOrigin(Trimmed(text)).region # "invalid"
SlugFine(text)   == ParsePattern(text) = "matching"
KeyIDFine(text)  == ParsePattern(text) \in {"unset", "matching"}
DsnFine(text)    == Trimmed(text) = NoDsn \/ ValidPublicDSN(Trimmed(text))

\* An input is valid when each of its fields is fine.
LEMMA ValidFieldwise ==
    ASSUME NEW input \in RawInput
    PROVE  Validated(input).valid <=>
             /\ input.secret = {} /\ OriginFine(input.api_origin)
             /\ SlugFine(input.organization_slug) /\ SlugFine(input.project_slug)
             /\ KeyIDFine(input.client_key_id) /\ DsnFine(input.expected_dsn)
<1> DEFINE in == ParseInputs(input)
           dsn == input.expected_dsn
<1>1. /\ in.origin = ParseOrigin(Trimmed(input.api_origin))
      /\ in.organization = ParsePattern(input.organization_slug)
      /\ in.project = ParsePattern(input.project_slug)
      /\ in.clientKeyID = ParsePattern(input.client_key_id)
      /\ in.expectedDSN = Trimmed(dsn)
  BY DEF ParseInputs
<1>2. (in.expectedDSN # NoDsn /\ ~ValidPublicDSN(in.expectedDSN))
        <=> ~DsnFine(dsn)
  BY <1>1 DEF DsnFine
<1> HIDE DEF in
<1>3. Invalid(in) <=> ~(/\ OriginFine(input.api_origin)
                        /\ SlugFine(input.organization_slug)
                        /\ SlugFine(input.project_slug)
                        /\ KeyIDFine(input.client_key_id) /\ DsnFine(dsn))
  BY <1>1, <1>2 DEF Invalid, OriginFine, SlugFine, KeyIDFine
<1> QED
  BY <1>3, ValidatedExactly DEF in

\* Each field of the sound input is fine.
LEMMA SoundFine ==
    /\ Sound \in RawInput
    /\ Sound.secret = {} /\ OriginFine(Sound.api_origin)
    /\ SlugFine(Sound.organization_slug) /\ SlugFine(Sound.project_slug)
    /\ KeyIDFine(Sound.client_key_id) /\ DsnFine(Sound.expected_dsn)
<1>1. NoText \notin Hosts /\ SaaSHosts \subseteq Hosts /\ MaxSlashes \in Nat
  BY RawInputAssumption
<1>2. NoHost \in HostText
  BY DEF HostText
<1>3. NoOrigin \in OriginText
  BY <1>1, <1>2 DEF NoOrigin, OriginText, Schemes
<1>4. NoDsn \in DsnText
  BY <1>1 DEF NoDsn, DsnText, Schemes, Userinfo
<1>5. Sound \in RawInput
  BY <1>3, <1>4 DEF Sound, RawInput, PatternText
<1>6. Trimmed(NoOrigin) = NoOrigin /\ Trimmed(NoDsn) = NoDsn
  <2>1. NoOrigin.padded = FALSE /\ NoDsn.padded = FALSE
    BY DEF NoOrigin, NoDsn
  <2>2. Trimmed(NoOrigin) = NoOrigin
    BY <1>3, <2>1 DEF Trimmed, OriginText
  <2>3. Trimmed(NoDsn) = NoDsn
    BY <1>4, <2>1 DEF Trimmed, DsnText
  <2> QED
    BY <2>2, <2>3
<1>7. ParseOrigin(NoOrigin).region # "invalid"
  <2> DEFINE text == TrimRight(DefaultOrigin)
             host == Lowered(text.host)
  <2>1. /\ text.parses /\ ~text.padded /\ text.scheme = "https"
        /\ text.host = InLowerCase("sentry.io")
        /\ text.extras = {} /\ text.slashes = 0
    BY DEF DefaultOrigin, NoOrigin, TrimRight
  <2>2. ParseOrigin(NoOrigin)
          = IF /\ text.parses /\ ~text.padded
               /\ text.scheme = "https" /\ text.host # NoHost
               /\ text.extras = {} /\ ~HasPath(text)
              THEN Origin(Classify(host), host) ELSE Origin("invalid", NoHost)
    BY DEF ParseOrigin
  <2>3. host = InLowerCase("sentry.io")
    <3>1. /\ InLowerCase("sentry.io") \in HostText
          /\ InLowerCase("sentry.io").capitals = FALSE
      BY <1>1 DEF InLowerCase, HostText, SaaSHosts
    <3>2. \A h \in HostText : h.capitals = FALSE => Lowered(h) = h
      BY DEF Lowered, HostText, NoHost, InLowerCase
    <3> HIDE DEF text
    <3> QED
      BY <2>1, <3>1, <3>2
  <2> HIDE DEF text, host
  <2>4. "sentry.io" # NoText
    BY <1>1 DEF SaaSHosts
  <2>5. ~HasPath(text) /\ text.host # NoHost
    BY <2>1, <2>4 DEF HasPath, NoHost, InLowerCase
  <2>6. Classify(host) = "sentry.io"
    BY <2>3 DEF Classify, SaaSRegions, SaaSHosts, InLowerCase
  <2> QED
    BY <2>1, <2>2, <2>5, <2>6 DEF Origin
<1> QED
  BY <1>5, <1>6, <1>7 DEF Sound, OriginFine, SlugFine, KeyIDFine, DsnFine,
                           ParsePattern

\* Put into the sound input, a field makes it valid exactly when it is fine.
LEMMA FieldAlone ==
    ASSUME NEW input \in RawInput
    PROVE  /\ Validated([Sound EXCEPT !["secret"] = input.secret]).valid
                <=> input.secret = {}
           /\ Validated([Sound EXCEPT !["api_origin"] = input.api_origin]).valid
                <=> OriginFine(input.api_origin)
           /\ Validated([Sound EXCEPT !["organization_slug"]
                           = input.organization_slug]).valid
                <=> SlugFine(input.organization_slug)
           /\ Validated([Sound EXCEPT !["project_slug"] = input.project_slug]).valid
                <=> SlugFine(input.project_slug)
           /\ Validated([Sound EXCEPT !["client_key_id"] = input.client_key_id]).valid
                <=> KeyIDFine(input.client_key_id)
           /\ Validated([Sound EXCEPT !["expected_dsn"] = input.expected_dsn]).valid
                <=> DsnFine(input.expected_dsn)
<1> DEFINE Put(field) == [Sound EXCEPT ![field] = input[field]]
           fields == {"secret", "api_origin", "organization_slug", "project_slug",
                      "client_key_id", "expected_dsn"}
<1>1. ASSUME NEW field \in fields
      PROVE  /\ Put(field) \in RawInput
             /\ \A other \in fields :
                  Put(field)[other] = IF other = field THEN input[field]
                                                       ELSE Sound[other]
  BY SoundFine DEF RawInput
<1> HIDE DEF Put
<1>2. ASSUME NEW field \in fields
      PROVE  Validated(Put(field)).valid <=>
               /\ Put(field).secret = {} /\ OriginFine(Put(field).api_origin)
               /\ SlugFine(Put(field).organization_slug)
               /\ SlugFine(Put(field).project_slug)
               /\ KeyIDFine(Put(field).client_key_id)
               /\ DsnFine(Put(field).expected_dsn)
  BY <1>1, ValidFieldwise
<1>3. Validated(Put("secret")).valid <=> input.secret = {}
  BY <1>1, <1>2, SoundFine
<1>4. Validated(Put("api_origin")).valid <=> OriginFine(input.api_origin)
  BY <1>1, <1>2, SoundFine
<1>5. Validated(Put("organization_slug")).valid <=> SlugFine(input.organization_slug)
  BY <1>1, <1>2, SoundFine
<1>6. Validated(Put("project_slug")).valid <=> SlugFine(input.project_slug)
  BY <1>1, <1>2, SoundFine
<1>7. Validated(Put("client_key_id")).valid <=> KeyIDFine(input.client_key_id)
  BY <1>1, <1>2, SoundFine
<1>8. Validated(Put("expected_dsn")).valid <=> DsnFine(input.expected_dsn)
  BY <1>1, <1>2, SoundFine
<1> QED
  BY <1>3, <1>4, <1>5, <1>6, <1>7, <1>8 DEF Put

\* No field excuses or spoils another, whatever the other fields are; a warning
\* of a self-hosted origin lets no fault pass.
THEOREM NoFieldExcusesAnother == Spec => []FieldsAreJudgedApart
<1>1. BindingChecked => FieldsAreJudgedApart
  <2> SUFFICES ASSUME BindingChecked, Judged
               PROVE  response.valid <=>
                        \A field \in DOMAIN raw :
                          Validated([Sound EXCEPT ![field] = raw[field]]).valid
    BY DEF FieldsAreJudgedApart
  <2>1. raw \in RawInput /\ response = Validated(raw)
    BY RawInputAssumption DEF BindingChecked, Judged
  <2>2. DOMAIN raw = {"secret", "api_origin", "organization_slug", "project_slug",
                      "client_key_id", "expected_dsn"}
    BY <2>1 DEF RawInput
  <2> DEFINE Alone(field) == Validated([Sound EXCEPT ![field] = raw[field]]).valid
  <2>3. /\ Alone("secret") <=> raw.secret = {}
        /\ Alone("api_origin") <=> OriginFine(raw.api_origin)
        /\ Alone("organization_slug") <=> SlugFine(raw.organization_slug)
        /\ Alone("project_slug") <=> SlugFine(raw.project_slug)
        /\ Alone("client_key_id") <=> KeyIDFine(raw.client_key_id)
        /\ Alone("expected_dsn") <=> DsnFine(raw.expected_dsn)
    BY <2>1, FieldAlone
  <2>4. response.valid <=>
          /\ raw.secret = {} /\ OriginFine(raw.api_origin)
          /\ SlugFine(raw.organization_slug) /\ SlugFine(raw.project_slug)
          /\ KeyIDFine(raw.client_key_id) /\ DsnFine(raw.expected_dsn)
    BY <2>1, ValidFieldwise
  <2> HIDE DEF Alone
  <2>5. response.valid <=> \A field \in DOMAIN raw : Alone(field)
    BY <2>2, <2>3, <2>4
  <2> QED
    BY <2>5 DEF Alone
<1> QED
  BY <1>1, ChecksKept, PTL

===============================================================================
