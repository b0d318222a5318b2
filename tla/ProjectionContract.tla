--------------------------- MODULE ProjectionContract -------------------------
(***************************************************************************)
(* What the provider promises of the outputs a host commits, apart from how*)
(* they come about.  A runtime output is made of one input that was desired*)
(* at some time and of one key that was active, at some time, at the very  *)
(* address that input names; it is the configured key if there is one, and *)
(* has a public DSN.  A build output names an address that led to a project*)
(* and carries the build reference of the same input.  Generations grow.   *)
(***************************************************************************)
EXTENDS ErrorTrackingPlan

VARIABLES wanted,   \* the inputs ever desired
          seen,     \* what was ever true at Sentry
          outputs   \* the latest output of each contract

\* A key that is active at an address; NoKey says that a project is there.
Fact == [address : Addresses, key : ClientKey]

Nothing == [generation |-> 0, values |-> {}]

Init == /\ wanted \subseteq Inputs /\ seen \subseteq Fact
        /\ outputs = [c \in Contracts |-> Nothing]

\* People edit the input and change the remote.
Learn == /\ wanted \subseteq wanted' /\ wanted' \subseteq Inputs
         /\ seen \subseteq seen' /\ seen' \subseteq Fact
         /\ UNCHANGED outputs

Project(c, values) ==
    /\ outputs'[c].generation > outputs[c].generation
    /\ outputs'[c].values = values
    /\ \A d \in Contracts \ {c} : outputs'[d] = outputs[d]
    /\ UNCHANGED <<wanted, seen>>

ProjectRuntime ==
    \E in \in wanted, fact \in seen :
      /\ fact.address = in.address
      /\ fact.key.active /\ fact.key.dsn # NoText
      /\ in.clientKeyID \in {NoText, fact.key.id}
      /\ Project("error-tracking", RuntimeValues(in, fact.key))

ProjectBuild ==
    \E in \in wanted, fact \in seen :
      /\ fact.address = in.address
      /\ in.build # NoText
      /\ Project("error-tracking-build", BuildValues(in))

Next == Learn \/ ProjectRuntime \/ ProjectBuild

Spec == Init /\ [][Next]_<<wanted, seen, outputs>>

===============================================================================
