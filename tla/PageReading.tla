------------------------------ MODULE PageReading -----------------------------
(***************************************************************************)
(* The client-key list of a project arrives page by page, and the provider *)
(* selects from whatever prefix of it an observation holds                 *)
(* (internal/provider/observe.go: observedClientKeys, selectClientKey,     *)
(* exhaustivenessDependent).  Here the observed prefix grows by one key at *)
(* a time, so a step may be read as any number of further pages.           *)
(***************************************************************************)
EXTENDS ClientKeySelection

CONSTANT MaxKeys  \* bound: the length of the list

ASSUME MaxKeysAssumption == MaxKeys \in Nat

VARIABLES observed,   \* the keys read so far, in list order
          explicitID  \* the configured client_key_id, or NoText

vars == <<observed, explicitID>>

TypeOK == /\ observed \in Seq(ClientKey)
          /\ explicitID \in KeyIds \cup {NoText}
          /\ SelectClientKey(observed, explicitID) \in Selection

-------------------------------------------------------------------------------

Init == /\ observed = <<>>
        /\ explicitID \in KeyIds \cup {NoText}

\* Mutant: the projection swaps the id and the DSN.
ReadSwappedKey ==
    /\ Len(observed) < MaxKeys
    /\ \E key \in ClientKey :
         observed' = Append(observed,
                            [key EXCEPT !.id = key.dsn, !.dsn = key.id])
    /\ UNCHANGED explicitID

\* A further key of the list is projected; a field the response policy did not
\* forward reads as Go's zero value.
ReadKey == /\ Len(observed) < MaxKeys
           /\ \E key \in ClientKey : observed' = Append(observed, key)
           /\ UNCHANGED explicitID

Next == ReadKey

Spec == Init /\ [][Next]_vars

-------------------------------------------------------------------------------

Selected == SelectClientKey(observed, explicitID)

\* A verdict that exhaustivenessDependent lets Plan draw from an incomplete list
\* survives every key that an unread page may add (plan.go:118-124): the outcome
\* and the chosen key stay, and an ambiguity only gains candidates.
VerdictStable ==
    [][~ExhaustivenessDependent(Selected)
         => /\ Selected'.outcome = Selected.outcome
            /\ Selected'.key = Selected.key
            /\ Selected.activeIDs \subseteq Selected'.activeIDs]_vars

\* Plan holds back no verdict without need: each one that is blocked over an
\* incomplete list can indeed be overturned by one unread key
\* (observe.go:340-346: "an unread page could overturn each").
HeldBackVerdictsOverturnable ==
    ExhaustivenessDependent(Selected) =>
      \E key \in ClientKey :
        SelectClientKey(Append(observed, key), explicitID).outcome
          # Selected.outcome

DistinctIDs(keys) ==
    \A i, j \in DOMAIN keys : keys[i].id = keys[j].id => i = j

Reorderings(keys) ==
    {[i \in DOMAIN keys |-> keys[p[i]]] :
       p \in {q \in [DOMAIN keys -> DOMAIN keys] :
                \A i, j \in DOMAIN keys : q[i] = q[j] => i = j}}

\* The selection never picks array[0] (README.md:48, observe.go:301-304): over a
\* list of distinct keys it does not depend on the order Sentry lists them in.
OrderIrrelevant ==
    DistinctIDs(observed) =>
      \A keys \in Reorderings(observed) :
        SelectClientKey(keys, explicitID) = Selected

===============================================================================
