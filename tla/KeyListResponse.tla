---------------------------- MODULE KeyListResponse ---------------------------
(***************************************************************************)
(* How the client-key list reaches the provider: the host forwards the     *)
(* selectors the packaged response schema allows                           *)
(* (provider.codefly.yaml, client_key_list) as one flat map, and           *)
(* clientKeysFromResponse (internal/provider/request.go) regroups that map *)
(* into keys in list order.  Go ranges over a map in no fixed order, so    *)
(* the regrouping is a loop that may take the selectors in any order.      *)
(***************************************************************************)
EXTENDS ClientKeySelection, FiniteSets

CONSTANT Labels  \* the values of forwarded attributes nobody reads

\* The attributes of one element of the list, as the schema's selectors name
\* them after "$[*]": "label" stands for name, public and rateLimit.*.
\* Elements are functions from the attributes they carry to values.
ForwardSafe == {".id", ".isActive", ".dsn.public", ".label"}

SuppressReportPresence == {".secret", ".dsn.secret"}

\* The element indices of a JSON array start at zero.
IndicesOf(body) == 0 .. (Len(body) - 1)

ForwardedSelectors(body, attributes) ==
    {s \in IndicesOf(body) \X attributes : s[2] \in DOMAIN body[s[1] + 1]}

\* The host's filter: the response policy forwards the safe selectors only.
FilterKeyList(body) ==
    [s \in ForwardedSelectors(body, ForwardSafe) |-> body[s[1] + 1][s[2]]]

-------------------------------------------------------------------------------

\* Go's zero raw entry.
ZeroEntry == [id |-> NoText, active |-> FALSE, dsn |-> NoText]

\* Mutant: an unnamed attribute falls into the first case.
AssignByDefault(entry, attribute, value) ==
    CASE attribute = ".isActive"   -> [entry EXCEPT !.active = value]
      [] attribute = ".dsn.public" -> [entry EXCEPT !.dsn = value]
      [] OTHER                     -> [entry EXCEPT !.id = value]

\* The switch over the suffix: an attribute it does not name changes nothing,
\* but its selector has already made the entry.
Assign(entry, attribute, value) ==
    CASE attribute = ".id"         -> [entry EXCEPT !.id = value]
      [] attribute = ".isActive"   -> [entry EXCEPT !.active = value]
      [] attribute = ".dsn.public" -> [entry EXCEPT !.dsn = value]
      [] OTHER                     -> entry

\* sort.Ints orders the indices by value.
NthSmallest(indices, k) ==
    CHOOSE i \in indices :
      Cardinality({j \in indices : j < i}) = k - 1

\* Mutant: the entries keep some order of the map's own.
EntriesFromLast(byIndex) ==
    LET n == Cardinality(DOMAIN byIndex)
    IN  [k \in 1..n |-> byIndex[NthSmallest(DOMAIN byIndex, n + 1 - k)]]

SortedEntries(byIndex) ==
    [k \in 1..Cardinality(DOMAIN byIndex) |->
       byIndex[NthSmallest(DOMAIN byIndex, k)]]

Forwarded(fields, index, attribute, zero) ==
    IF <<index, attribute>> \in DOMAIN fields
      THEN fields[<<index, attribute>>] ELSE zero

\* What the loop computes, without the loop: every index that some selector
\* mentions, with Go's zero value for each attribute that was not forwarded.
Entries(fields) ==
    [i \in {s[1] : s \in DOMAIN fields} |->
       [id     |-> Forwarded(fields, i, ".id", NoText),
        active |-> Forwarded(fields, i, ".isActive", FALSE),
        dsn    |-> Forwarded(fields, i, ".dsn.public", NoText)]]

ClientKeysFromResponse(fields) == SortedEntries(Entries(fields))

===============================================================================
