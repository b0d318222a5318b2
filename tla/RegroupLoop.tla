------------------------------ MODULE RegroupLoop -----------------------------
(***************************************************************************)
(* The loop of clientKeysFromResponse (internal/provider/request.go:       *)
(* 164-183), which ranges over the forwarded fields in an order Go leaves  *)
(* open, and the sort and append after it (184-194).                       *)
(***************************************************************************)
EXTENDS KeyListResponse

CONSTANT Bodies  \* the key lists Sentry may answer with

Carries(element) ==
    /\ DOMAIN element \subseteq ForwardSafe \cup SuppressReportPresence
    /\ ".id" \in DOMAIN element         => element[".id"] \in KeyIds
    /\ ".isActive" \in DOMAIN element   => element[".isActive"] \in BOOLEAN
    /\ ".dsn.public" \in DOMAIN element => element[".dsn.public"] \in Dsns
    /\ ".label" \in DOMAIN element      => element[".label"] \in Labels

ASSUME BodiesAssumption ==
    \A b \in Bodies : /\ Len(b) \in Nat
                      /\ DOMAIN b = 1..Len(b)
                      /\ \A i \in DOMAIN b : Carries(b[i])

VARIABLES body,     \* the answer of Sentry
          fields,   \* what the host forwarded of it
          visited,  \* the selectors the loop has taken
          byIndex,  \* the entries it has made so far
          keys,     \* the keys returned
          pc        \* "range" until the function returns, then "returned"

vars == <<body, fields, visited, byIndex, keys, pc>>

-------------------------------------------------------------------------------

Init == /\ body \in Bodies
        /\ fields = FilterKeyList(body)
        /\ visited = {}
        /\ byIndex = << >>
        /\ keys = << >>
        /\ pc = "range"

\* Mutant: the entry starts again from zero at each of its selectors.
VisitAfresh(s) ==
    byIndex' = [i \in DOMAIN byIndex \cup {s[1]} |->
                  IF i = s[1] THEN Assign(ZeroEntry, s[2], fields[s])
                              ELSE byIndex[i]]

\* Find or make the entry of the index, then assign the attribute.
Visit(s) ==
    byIndex' = [i \in DOMAIN byIndex \cup {s[1]} |->
                  IF i # s[1] THEN byIndex[i]
                  ELSE Assign(IF i \in DOMAIN byIndex THEN byIndex[i]
                                                      ELSE ZeroEntry,
                              s[2], fields[s])]

Turn == /\ pc = "range"
        /\ \E s \in DOMAIN fields \ visited :
             /\ Visit(s)
             /\ visited' = visited \cup {s}
        /\ UNCHANGED <<body, fields, keys, pc>>

Return == /\ pc = "range"
          /\ visited = DOMAIN fields
          /\ keys' = SortedEntries(byIndex)
          /\ pc' = "returned"
          /\ UNCHANGED <<body, fields, visited, byIndex>>

Next == Turn \/ Return

Spec == Init /\ [][Next]_vars

-------------------------------------------------------------------------------

TypeOK == /\ body \in Bodies
          /\ visited \subseteq DOMAIN fields
          /\ \A i \in DOMAIN byIndex : i \in Nat /\ byIndex[i] \in ClientKey
          /\ \A k \in DOMAIN keys : keys[k] \in ClientKey
          /\ pc \in {"range", "returned"}

\* Half-way through the map, the entries are exactly those of the selectors
\* taken so far, in whatever order they came.
EntriesOfVisited == byIndex = Entries([s \in visited |-> fields[s]])

\* The keys returned do not depend on the order of Go's map iteration
\* (observe.go:303-304: "Repeated observation of the same keys yields the same
\* outcome"): they are a function of the fields.
OrderIndependent ==
    pc = "returned" => keys = ClientKeysFromResponse(fields)

HasForwarded(element) == DOMAIN element \cap ForwardSafe # {}

KeyOf(element) ==
    [id     |-> IF ".id" \in DOMAIN element THEN element[".id"] ELSE NoText,
     active |-> ".isActive" \in DOMAIN element /\ element[".isActive"],
     dsn    |-> IF ".dsn.public" \in DOMAIN element
                  THEN element[".dsn.public"] ELSE NoText]

\* Flattening and regrouping lose nothing: the provider's list is Sentry's list
\* in its order, less the elements the policy forwards nothing of.
KeysMirrorBody ==
    pc = "returned" =>
      \E at \in [DOMAIN keys -> DOMAIN body] :
        /\ \A j, k \in DOMAIN keys : j < k => at[j] < at[k]
        /\ {at[k] : k \in DOMAIN keys}
             = {i \in DOMAIN body : HasForwarded(body[i])}
        /\ \A k \in DOMAIN keys : keys[k] = KeyOf(body[at[k]])

===============================================================================
