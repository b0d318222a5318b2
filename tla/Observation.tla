------------------------------ MODULE Observation -----------------------------
(***************************************************************************)
(* The provider-owned projection an observation carries from Observe to    *)
(* Plan (internal/provider/observe.go: observedProject, observedClientKey, *)
(* the canonical fields).  An organization/project slug pair is one        *)
(* address.                                                                *)
(***************************************************************************)
EXTENDS ClientKeySelection

CONSTANTS Addresses,  \* the organization/project slug pairs
          Projects    \* the remote ids of projects

ASSUME ProjectTextAssumption == NoText \notin Addresses /\ NoText \notin Projects

\* Sentry's own cursor for what follows the first page.
SecondPage == "page2"

\* observeRestartCursor.
Restart == "restart"

Cursors == {"", SecondPage, Restart}

Optional(S) == S \cup {NoText}

ObservedProject == [remoteID : Optional(Projects),
                    address : Optional(Addresses), accessible : BOOLEAN]

\* At most one project resource, and the client-key resources in their order.
Material == [complete : BOOLEAN, nextCursor : Cursors,
             projects : SUBSET ObservedProject, keys : Seq(ClientKey)]

\* What the getters of a nil observation return.
NoObservation == [complete |-> FALSE, nextCursor |-> "",
                  projects |-> {}, keys |-> << >>]

===============================================================================
