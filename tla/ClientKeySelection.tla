-------------------------- MODULE ClientKeySelection --------------------------
(***************************************************************************)
(* The deterministic client-key selection of internal/provider/observe.go  *)
(* (selectClientKey, exhaustivenessDependent).  Plan and Doctor share it.  *)
(***************************************************************************)
EXTENDS Naturals, Sequences

CONSTANTS KeyIds,  \* the client-key ids Sentry issues
          Dsns     \* the public DSNs of those keys

\* Go's zero string: no explicit client_key_id, or a field never forwarded.
NoText == ""

ASSUME TextAssumption == NoText \notin KeyIds /\ NoText \notin Dsns

ClientKey == [id : KeyIds \cup {NoText}, active : BOOLEAN,
              dsn : Dsns \cup {NoText}]

\* Go's zero observedClientKey, the Key of a selection that chose none.
NoKey == [id |-> NoText, active |-> FALSE, dsn |-> NoText]

Outcomes == {"selected", "no-active", "ambiguous", "explicit-missing",
             "explicit-revoked"}

Selection == [outcome : Outcomes, key : ClientKey, explicit : BOOLEAN,
              activeIDs : SUBSET (KeyIds \cup {NoText})]

-------------------------------------------------------------------------------

ActiveAt(keys) == {i \in DOMAIN keys : keys[i].active}

MatchesAt(keys, id) == {i \in DOMAIN keys : keys[i].id = id}

\* Mutant: the loop runs on, so the last match wins.
LastOf(indices) == CHOOSE i \in indices : \A j \in indices : i >= j

\* The loop over the list returns at its first match.
FirstOf(indices) == CHOOSE i \in indices : \A j \in indices : i <= j

Chosen(key, explicit) ==
    [outcome |-> IF key.active THEN "selected" ELSE "explicit-revoked",
     key |-> key, explicit |-> explicit, activeIDs |-> {}]

Unchosen(outcome, ids) ==
    [outcome |-> outcome, key |-> NoKey, explicit |-> FALSE, activeIDs |-> ids]

\* Mutant: several active keys, and the first one is taken.
SelectFirstActive(keys, explicitID) ==
    LET candidates == IF explicitID = NoText THEN ActiveAt(keys)
                                             ELSE MatchesAt(keys, explicitID)
    IN  IF candidates = {} THEN Unchosen("no-active", {})
                           ELSE Chosen(keys[FirstOf(candidates)], FALSE)

\* An explicit id decides alone; without one, only a sole active key is chosen.
SelectClientKey(keys, explicitID) ==
    LET active  == ActiveAt(keys)
        matches == MatchesAt(keys, explicitID)
    IN  CASE explicitID # NoText /\ matches # {} ->
               Chosen(keys[FirstOf(matches)], TRUE)
          [] explicitID # NoText /\ matches = {} ->
               Unchosen("explicit-missing", {})
          [] explicitID = NoText /\ active = {} ->
               Unchosen("no-active", {})
          [] explicitID = NoText /\ \E i \in active : active = {i} ->
               Chosen(keys[FirstOf(active)], FALSE)
          [] OTHER ->
               Unchosen("ambiguous", {keys[i].id : i \in active})

\* Mutant: an ambiguous list is held back as well.
AnyUnchosen(sel) ==
    sel.outcome \in {"no-active", "explicit-missing", "ambiguous"}

\* The outcomes an unread page of the list could overturn.
ExhaustivenessDependent(sel) ==
    \/ sel.outcome \in {"no-active", "explicit-missing"}
    \/ sel.outcome = "selected" /\ ~sel.explicit

===============================================================================
