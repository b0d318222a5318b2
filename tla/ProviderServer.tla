----------------------------- MODULE ProviderServer ---------------------------
(***************************************************************************)
(* What the broker-driven handlers of internal/provider share: whether the *)
(* server was built WithHost, whether the contexts it is handed carry what *)
(* buildExecuteRequest looks for, and the ways a handler returns.  Neither *)
(* changes while a server runs; the handlers hold nothing else in common.  *)
(***************************************************************************)

VARIABLES hosted,    \* whether the server was built WithHost
          admitted   \* whether contexts carry an api origin and a handle

setupVars == <<hosted, admitted>>

\* "HostError" stands for an error of the host that a handler returns as it is,
\* "DeadlineExceeded" for a call that its caller gave up.
Codes == {"OK", "Unavailable", "InvalidArgument", "FailedPrecondition",
          "Internal", "HostError", "DeadlineExceeded"}

SetupTypeOK == hosted \in BOOLEAN /\ admitted \in BOOLEAN

===============================================================================
