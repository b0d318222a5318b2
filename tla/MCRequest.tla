------------------------------- MODULE MCRequest ------------------------------
(* Contexts with the api origin and the management handle first, last or       *)
(* missing, with and without an attempt id; a manifest that lacks a response   *)
(* schema.                                                                     *)
EXTENDS RequestIdentity

CONSTANTS a1, a2

MCAttemptIds == <<"att1", "att2">>

MCAddresses == {a1, a2}

Api      == [rule |-> "api", digest |-> 1]
OtherOne == [rule |-> "other", digest |-> 2]
Manage   == [purpose |-> "management", handle |-> 1]
Build    == [purpose |-> "build", handle |-> 2]

Admitting(named, origins, credentials) ==
    [named |-> named, origins |-> origins, credentials |-> credentials]

MCContexts == { Admitting(TRUE, <<Api>>, <<Manage>>),
                Admitting(TRUE, <<OtherOne, Api>>, <<Build, Manage>>),
                Admitting(FALSE, <<Api>>, <<Manage>>),
                Admitting(TRUE, <<OtherOne>>, <<Manage>>),
                Admitting(TRUE, <<Api>>, <<Build>>) }

Packaged == [requests |-> Descriptors, schemas |-> Descriptors]

MCManifests == {Packaged, [Packaged EXCEPT !.schemas = {"project.retrieve"}]}

===============================================================================
