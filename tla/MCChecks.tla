-------------------------------- MODULE MCChecks -------------------------------
(* Validation: every origin and every DSN up to two slashes at its end, in an   *)
(* input that is sound otherwise, and every combination of the pattern inputs   *)
(* with an origin and a DSN of each sort.  Doctor: the remote of MCReconcile,   *)
(* and inputs with and without an explicit key, the key without a DSN, a        *)
(* self-hosted origin, an input that looks secret and one that is invalid.      *)
EXTENDS BindingChecks

CONSTANTS a1, a2, p1, p2, k1, k2, k3, k4, d1, d2

MCHosts == SaaSHosts \cup {"sentry.internal.example"}

\* At most one component too many.
MCOrigins == [padded : BOOLEAN, parses : BOOLEAN, scheme : Schemes,
              host : HostText, extras : {{}} \cup {{e} : e \in Extras},
              slashes : 0..MaxSlashes]

SelfHosted == [DefaultOrigin EXCEPT !.host = InLowerCase("sentry.internal.example")]

PublicDsn == [NoDsn EXCEPT !.scheme = "https", !.user = "key", !.path = "number"]

Keyed    == [Sound EXCEPT !.client_key_id = "matching"]
KeyedToo == [Sound EXCEPT !.client_key_id = "padded"]
OnHost   == [Sound EXCEPT !.api_origin = SelfHosted]
Misnamed == [Sound EXCEPT !.project_slug = "rejected"]
Leaking  == [Sound EXCEPT !.secret = {"undeclared"}]

MCRawInputs ==
    {Keyed, KeyedToo, OnHost, Misnamed, Leaking}
    \cup {[Sound EXCEPT !.api_origin = o] : o \in MCOrigins}
    \cup {[Sound EXCEPT !.expected_dsn = d] : d \in DsnText}
    \cup [api_origin : {NoOrigin, SelfHosted, [DefaultOrigin EXCEPT !.scheme = "http"]},
          organization_slug : PatternText, project_slug : PatternText,
          client_key_id : PatternText,
          expected_dsn : {NoDsn, PublicDsn, [PublicDsn EXCEPT !.user = "key-password"]},
          secret : SUBSET {"environment", "undeclared"}]

Binding(address, key) ==
    [parsed |-> TRUE, problems |-> {}, address |-> address,
     clientKeyID |-> key, expectedDSN |-> NoText, environment |-> NoText,
     release |-> NoText, build |-> NoText]

MCMeaning == [input \in {Sound, Keyed, KeyedToo, OnHost, Misnamed, Leaking} |->
                CASE input = Keyed    -> Binding(a1, k2)
                  [] input = KeyedToo -> Binding(a2, k3)
                  [] OTHER            -> Binding(a1, NoText)]

MCDoctorInputs == {Parsed(input) : input \in DOMAIN MCMeaning}

MCAddresses == {a1, a2}
MCProjects  == {p1, p2}
MCKeyIds    == {k1, k2, k3, k4}
MCDsns      == {d1, d2}
MCNewKeys   == {[id |-> k4, active |-> TRUE, dsn |-> d2]}

MCInitialKeys ==
    [p \in MCProjects |->
       IF p = p1 THEN <<[id |-> k1, active |-> TRUE, dsn |-> d1],
                        [id |-> k2, active |-> FALSE, dsn |-> d2]>>
                 ELSE <<[id |-> k3, active |-> TRUE, dsn |-> NoText]>>]

MCAccepts(target, values) == TRUE

MCFaultCodes == {302, 401, 429, 500}

\* One remote and one server will do for the inputs that Doctor never sees.
OneRemote == leadsTo = [a \in Addresses |-> NoText] /\ hosted /\ admitted

MCInit == Init /\ (raw \in DOMAIN Meaning \/ OneRemote)

MCSpec == MCInit /\ [][Next]_vars

===============================================================================
