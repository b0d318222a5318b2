------------------------------ MODULE SentryRead ------------------------------
(***************************************************************************)
(* How the provider classifies the answer to one admitted read             *)
(* (internal/provider/observe.go, read; internal/provider/errors.go).      *)
(*                                                                         *)
(* A read is one ExecuteRequest callback to the host.  The host either     *)
(* refuses it (the callback returns an error), or delivers a response with *)
(* an HTTP status and, on a 2xx, the fields its response policy forwarded. *)
(* A 2xx response whose fields do not decode fails the whole call.         *)
(***************************************************************************)
EXTENDS Naturals

Severities == {"INFO", "WARNING", "ERROR"}

\* The diagnostic codes of the runtime catalog, without their namespace.
DiagnosticCodes ==
    { "invalid-input", "authentication", "permission", "not-found",
      "project-inaccessible", "no-active-client-key", "ambiguous-client-key",
      "client-key-mismatch", "client-key-revoked", "supplied-dsn-mismatch",
      "self-hosted-admission", "wrong-region", "rate-limit",
      "scope-unverified", "schema-drift", "permanent-validation",
      "timeout-before-send", "outcome-unknown" }

Diagnostic == [severity : Severities, code : DiagnosticCodes]

Diag(sev, code) == [severity |-> sev, code |-> code]

HasError(diagnostics) == \E d \in diagnostics : d.severity = "ERROR"

-------------------------------------------------------------------------------

Succeeded(code) == code \in 200..299

\* Mutant: a redirect gets a code of its own that the catalog lacks.
ClassifyRedirect(e) ==
    IF e.statusCode = 429 THEN "rate-limit"
    ELSE IF e.statusCode \in 300..399 THEN "redirect"
    ELSE "permanent-validation"

\* The priority of ClassifySentryError's switch: an earlier case wins.  The
\* error's detail is the set of phrases the switch searches its text for.
ClassifySentryError(e) ==
    IF e.retryAfter \/ e.statusCode = 429 \/ "rate limit" \in e.detail
      THEN "rate-limit"
    ELSE IF e.statusCode = 401 \/ "authentication" \in e.detail
      THEN "authentication"
    ELSE IF e.statusCode = 403 \/ e.detail \cap {"permission", "scope"} # {}
      THEN "permission"
    ELSE IF e.statusCode = 404 \/ "not found" \in e.detail
      THEN "not-found"
    ELSE IF e.statusCode >= 500
      THEN "outcome-unknown"
    ELSE "permanent-validation"

\* The error read and Doctor build from a status: no detail ever reaches them.
StatusError(code) ==
    [statusCode |-> code, detail |-> {}, retryAfter |-> code = 429]

\* The statuses read does not trust as an answer about the remote state.
UncertainStatus(code) == code = 429 \/ code >= 500 \/ code \in 300..399

-------------------------------------------------------------------------------

Answered(code) == [kind |-> "answered", code |-> code]
Refused        == [kind |-> "refused", code |-> 0]
Undecodable    == [kind |-> "undecodable", code |-> 200]

\* A 2xx yields fields, a definitive status a diagnostic, and a refusal or an
\* uncertain status marks the read uncertain.
ReadOutcome(answer) ==
    LET code == answer.code IN
    IF answer.kind = "refused"
      THEN [ok |-> FALSE, uncertain |-> TRUE, retryAfter |-> FALSE,
            statusCode |-> 0,
            diagnostics |-> {Diag("WARNING", "outcome-unknown")}]
    ELSE IF Succeeded(code)
      THEN [ok |-> TRUE, uncertain |-> FALSE, retryAfter |-> FALSE,
            statusCode |-> code, diagnostics |-> {}]
    ELSE [ok |-> FALSE, uncertain |-> UncertainStatus(code),
          retryAfter |-> code = 429, statusCode |-> code,
          diagnostics |->
            {Diag("WARNING", ClassifySentryError(StatusError(code)))}]

Answer == [kind : {"answered", "refused", "undecodable"}, code : Nat]

===============================================================================
