------------------------------ MODULE SentryRemote ----------------------------
(***************************************************************************)
(* Sentry and the host broker, as far as the provider's two reads can tell *)
(* them apart.  Neither is part of the repository: what they answer is     *)
(* taken from the packaged manifest and from the tests' fake broker.       *)
(*                                                                         *)
(* Projects hold client keys and are reached through the address (the      *)
(* organization and project slugs) that currently leads to them; people    *)
(* create, revoke and re-activate keys and move addresses while the        *)
(* provider reads.  Any callback may fail, a bounded number of times.      *)
(***************************************************************************)
EXTENDS Observation, KeyListResponse, SentryRead

CONSTANTS NewKeys,      \* keys that people may still create
          InitialKeys,  \* [Projects -> Seq(ClientKey)]
          PageSize,     \* keys per page of the list
          FaultCodes,   \* statuses a callback may fail with
          MaxChanges,   \* bound: remote changes and edits of the input
          MaxFaults     \* bound: callbacks that fail

ASSUME RemoteAssumption ==
    /\ NewKeys \subseteq ClientKey
    /\ InitialKeys \in [Projects -> Seq(ClientKey)]
    /\ PageSize \in Nat \ {0}
    /\ FaultCodes \subseteq 300..599
    /\ MaxChanges \in Nat /\ MaxFaults \in Nat

VARIABLES leadsTo,  \* the project an address leads to, or NoText
          keyring,  \* the client keys of each project, in list order
          changes,  \* remote changes and edits so far
          faults    \* failed callbacks so far

remoteVars == <<leadsTo, keyring, changes, faults>>

RemoteTypeOK ==
    /\ leadsTo \in [Addresses -> Projects \cup {NoText}]
    /\ keyring \in [Projects -> Seq(ClientKey)]
    /\ changes \in 0..MaxChanges
    /\ faults \in 0..MaxFaults

RemoteInit ==
    /\ leadsTo \in [Addresses -> Projects \cup {NoText}]
    /\ \A a, b \in Addresses :
         leadsTo[a] = leadsTo[b] /\ leadsTo[a] # NoText => a = b
    /\ keyring = InitialKeys
    /\ changes = 0
    /\ faults = 0

-------------------------------------------------------------------------------
(* What people do to the remote, behind the provider's back. *)

Changed == changes < MaxChanges /\ changes' = changes + 1

CreateKey(p) ==
    /\ Changed
    /\ \E key \in NewKeys :
         /\ \A q \in Projects : \A i \in DOMAIN keyring[q] :
              keyring[q][i].id # key.id
         /\ keyring' = [keyring EXCEPT ![p] = Append(@, key)]
    /\ UNCHANGED <<leadsTo, faults>>

ToggleKey(p) ==
    /\ Changed
    /\ \E i \in DOMAIN keyring[p] :
         keyring' = [keyring EXCEPT ![p][i].active = ~@]
    /\ UNCHANGED <<leadsTo, faults>>

MoveAddress(a) ==
    /\ Changed
    /\ \E p \in Projects \ {leadsTo[a]} :
         leadsTo' = [b \in Addresses |->
                       IF b = a THEN p
                       ELSE IF leadsTo[b] = p THEN NoText ELSE leadsTo[b]]
    /\ UNCHANGED <<keyring, faults>>

RemoteChange == \/ \E p \in Projects : CreateKey(p) \/ ToggleKey(p)
                \/ \E a \in Addresses : MoveAddress(a)

-------------------------------------------------------------------------------
(* What the callbacks answer. *)

FaultAnswers == {Refused, Undecodable} \cup {Answered(c) : c \in FaultCodes}

\* The answer is the remote's own, or a failure, which the bound counts.
Answers(genuine, answer) ==
    \/ answer \in genuine /\ UNCHANGED faults
    \/ /\ answer \in FaultAnswers
       /\ faults < MaxFaults
       /\ faults' = faults + 1

ProjectAnswers(a) ==
    IF leadsTo[a] = NoText THEN {Answered(404)} ELSE {Answered(200)}

KeyListOf(a) == IF leadsTo[a] = NoText THEN << >> ELSE keyring[leadsTo[a]]

\* The cursors Sentry knows; it rejects another one or lists from the start.
SentryCursors == {"", SecondPage}

KeyListAnswers(a, cursor) ==
    IF leadsTo[a] = NoText THEN {Answered(404)}
    ELSE IF cursor \in SentryCursors THEN {Answered(200)}
    ELSE {Answered(200), Answered(400)}

\* The page of the list that a cursor names.
PageOf(list, cursor) ==
    LET first == IF Len(list) < PageSize THEN Len(list) ELSE PageSize
    IN  IF cursor = SecondPage THEN SubSeq(list, first + 1, Len(list))
                               ELSE SubSeq(list, 1, first)

\* The JSON element of a key.  A key without a public DSN has no such attribute.
Element(key) ==
    [a \in {".id", ".isActive"}
             \cup (IF key.dsn = NoText THEN {} ELSE {".dsn.public"}) |->
       CASE a = ".id"         -> key.id
         [] a = ".isActive"   -> key.active
         [] a = ".dsn.public" -> key.dsn]

KeyListBody(page) == [i \in DOMAIN page |-> Element(page[i])]

===============================================================================
