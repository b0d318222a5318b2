---------------------------- MODULE InputValidation ---------------------------
(***************************************************************************)
(* From the raw desired input to the problems every handler branches on    *)
(* (internal/provider/inputs.go, origin.go, validate.go).  A text is what  *)
(* the code tells apart of it: an origin is its URL's components, the      *)
(* slashes at its end and the space around it, a DSN likewise, a slug or a *)
(* key id whether it matches its pattern.  The empty text, which is also   *)
(* what an absent value or one that is no string reads as, has no          *)
(* component; a blank one is an empty one with space around it.            *)
(***************************************************************************)
EXTENDS ErrorTrackingPlan

CONSTANTS Hosts,        \* the names of the hosts that origins name
          MaxSlashes,   \* bound: slashes at the end of a text
          RawInputs     \* the raw inputs that are checked

SaaSHosts == {"sentry.io", "us.sentry.io", "de.sentry.io"}

\* What may stand in an origin beside scheme, host and port; the port decides
\* nothing.
Extras == {"user", "path", "query", "fragment"}

\* A host as it is written: its name, and whether letters of it are capitals.
InLowerCase(name) == [name |-> name, capitals |-> FALSE]

NoHost == InLowerCase(NoText)

HostText == [name : Hosts, capitals : BOOLEAN] \cup {NoHost}

Schemes == {"https", "http", "none"}

\* Without the slashes.
OriginText == [padded : BOOLEAN, parses : BOOLEAN, scheme : Schemes,
               host : HostText, extras : SUBSET Extras, slashes : 0..MaxSlashes]

NoOrigin == [padded |-> FALSE, parses |-> TRUE, scheme |-> "none",
             host |-> NoHost, extras |-> {}, slashes |-> 0]

Userinfo == {"none", "empty", "key", "key-password", "password"}

\* "path" is what follows the first slash: a number, nothing, or anything else.
DsnText == [padded : BOOLEAN, parses : BOOLEAN, scheme : Schemes,
            user : Userinfo, path : {"number", "none", "else"},
            slashes : 0..MaxSlashes]

NoDsn == [padded |-> FALSE, parses |-> TRUE, scheme |-> "none", user |-> "none",
          path |-> "none", slashes |-> 0]

\* Empty, of space only, or a text that its pattern accepts, accepts without
\* the space around it, or rejects.
PatternText == {"unset", "blank", "matching", "padded", "rejected"}

\* "secret" is the set of keys, declared or not, whose text looks like a secret.
RawInput == [api_origin : OriginText, organization_slug : PatternText,
             project_slug : PatternText, client_key_id : PatternText,
             expected_dsn : DsnText,
             secret : SUBSET {"environment", "undeclared"}]

ASSUME RawInputAssumption ==
    /\ MaxSlashes \in Nat /\ RawInputs \subseteq RawInput
    /\ SaaSHosts \subseteq Hosts /\ NoText \notin Hosts

-------------------------------------------------------------------------------
(* Origins. *)

DefaultOrigin == [NoOrigin EXCEPT !.scheme = "https",
                                  !.host = InLowerCase("sentry.io")]

\* All the slashes at the end, whichever component they would belong to.
TrimRight(text) == [text EXCEPT !.slashes = 0]

\* The space around a text; a blank one becomes the empty one.
Trimmed(text) == [text EXCEPT !.padded = FALSE]

\* What url.Parse finds a path in: one of its own, or slashes after the host.
HasPath(text) == "path" \in text.extras \/ text.slashes > 0

Origin(region, host) == [region |-> region, host |-> host]

\* Mutant: the host is taken as it is written.
AsWritten(host) == host

Lowered(host) == [host EXCEPT !.capitals = FALSE]

SaaSRegions == {InLowerCase(name) : name \in SaaSHosts}

\* The table of SaaS hosts is in lower case and is looked up literally.
Classify(host) == IF host \in SaaSRegions THEN host.name ELSE "self-hosted"

\* url.Parse takes no space before a scheme nor in a host, and what else trails
\* an origin is a path.
ParseOrigin(raw) ==
    LET text == TrimRight(IF raw = NoOrigin THEN DefaultOrigin ELSE raw)
        host == Lowered(text.host)
        usable == /\ text.parses /\ ~text.padded
                  /\ text.scheme = "https" /\ text.host # NoHost
                  /\ text.extras = {} /\ ~HasPath(text)
    IN  IF usable THEN Origin(Classify(host), host) ELSE Origin("invalid", NoHost)

-------------------------------------------------------------------------------
(* The other inputs. *)

ParsePattern(raw) == IF raw = "padded" THEN "matching"
                     ELSE IF raw = "blank" THEN "unset" ELSE raw

\* The slash before the project id is cut, others remain part of it, and so does
\* space.
ValidPublicDSN(raw) ==
    /\ raw.parses /\ ~raw.padded /\ raw.scheme = "https"
    /\ raw.user = "key"
    /\ raw.path = "number" /\ raw.slashes = 0

\* The inputs, trimmed and classified; ok is FALSE if a text looks secret.
ParseInputs(raw) ==
    [ok           |-> raw.secret = {},
     origin       |-> ParseOrigin(Trimmed(raw.api_origin)),
     organization |-> ParsePattern(raw.organization_slug),
     project      |-> ParsePattern(raw.project_slug),
     clientKeyID  |-> ParsePattern(raw.client_key_id),
     expectedDSN  |-> Trimmed(raw.expected_dsn)]

Invalid(in) ==
    \/ in.organization # "matching"
    \/ in.project # "matching"
    \/ in.origin.region = "invalid"
    \/ in.clientKeyID \notin {"unset", "matching"}
    \/ in.expectedDSN # NoDsn /\ ~ValidPublicDSN(in.expectedDSN)

\* Mutant: the self-hosted warning ends the checks that follow it.
WarnAndReturn(in) ==
    LET slugs == in.organization = "matching" /\ in.project = "matching" IN
    IF in.origin.region = "self-hosted" /\ slugs
      THEN {Diag("WARNING", "self-hosted-admission")}
    ELSE IF Invalid(in) THEN {Diag("ERROR", "invalid-input")} ELSE {}

\* Every field that is wrong adds an error; a self-hosted origin, a warning.
ValidateInputs(in) ==
    (IF Invalid(in) THEN {Diag("ERROR", "invalid-input")} ELSE {})
      \cup (IF in.origin.region = "self-hosted"
              THEN {Diag("WARNING", "self-hosted-admission")} ELSE {})

Response(diagnostics) ==
    [valid |-> ~HasError(diagnostics), diagnostics |-> diagnostics]

\* The Validate handler's response.
Validated(raw) ==
    LET in == ParseInputs(raw) IN
    IF ~in.ok THEN Response({Diag("ERROR", "invalid-input")})
              ELSE Response(ValidateInputs(in))

-------------------------------------------------------------------------------

VARIABLES raw, response

inputVars == <<raw, response>>

NoResponse == [valid |-> FALSE, diagnostics |-> {}]

RawInit == raw \in RawInputs /\ response = NoResponse

Validate == /\ response = NoResponse
            /\ response' = Validated(raw)
            /\ UNCHANGED raw

-------------------------------------------------------------------------------

\* The problems are those that the models of the handlers branch on.
ValidateTypeOK ==
    /\ raw \in RawInput
    /\ response \in [valid : BOOLEAN, diagnostics : SUBSET InputProblems]

Judged == response # NoResponse

\* The spelling of an input is immaterial: neither the space around a value, nor
\* the slashes after an origin's host, nor the case of that host changes the
\* outcome, and a blank value is an absent one (origin.go:42-55,
\* inputs.go:35-41).  Each conversion has to come before the check that would
\* trip over what it takes away.
SpellingIsImmaterial ==
    LET Plain(text) ==
          [text EXCEPT !.padded = FALSE, !.host = InLowerCase(@.name),
                       !.slashes = IF text.host = NoHost THEN @ ELSE 0]
        Bare(text)  == [text EXCEPT !.padded = FALSE]
        Match(text) == IF text = "padded" THEN "matching"
                       ELSE IF text = "blank" THEN "unset" ELSE text
        plain == [api_origin        |-> Plain(raw.api_origin),
                  organization_slug |-> Match(raw.organization_slug),
                  project_slug      |-> Match(raw.project_slug),
                  client_key_id     |-> Match(raw.client_key_id),
                  expected_dsn      |-> Bare(raw.expected_dsn),
                  secret            |-> raw.secret]
    IN  Judged => response = Validated(plain)

\* An input with nothing wrong.
Sound == [api_origin |-> NoOrigin, organization_slug |-> "matching",
          project_slug |-> "matching", client_key_id |-> "unset",
          expected_dsn |-> NoDsn, secret |-> {}]

\* No field excuses or spoils another: an input is valid exactly when each of its
\* fields is, put into an input with nothing else wrong; in particular a
\* self-hosted origin, which is only warned of, lets no fault pass
\* (validate.go:41-72).
FieldsAreJudgedApart ==
    Judged =>
      (response.valid <=>
         \A field \in DOMAIN raw : Validated([Sound EXCEPT ![field] = raw[field]]).valid)

===============================================================================
