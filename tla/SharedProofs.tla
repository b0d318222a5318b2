----------------------------- MODULE SharedProofs -----------------------------
(***************************************************************************)
(* Lemmas that the proofs about several components rest on: what the       *)
(* selection returns, that a page of keys survives the response filter,    *)
(* what the remote and the answers of the host can be, and what a plan     *)
(* can say; each for every value of the constants.                         *)
(***************************************************************************)
EXTENDS SentryRemote, ErrorTrackingPlan, SequenceTheorems, FiniteSetTheorems,
        TLAPS

-------------------------------------------------------------------------------
(* The selection of a client key. *)

\* Every non-empty set of naturals has a least element, so FirstOf picks one.
LEMMA FirstOfIsLeast ==
    ASSUME NEW S, S \subseteq Nat, S # {}
    PROVE  FirstOf(S) \in S /\ \A j \in S : FirstOf(S) <= j
<1> DEFINE Below(i) == 0..(i - 1)
           T == {Below(i) : i \in S}
<1>1. T \subseteq FiniteSubsetsOf(Nat) /\ T # {}
  <2>1. ASSUME NEW i \in S PROVE Below(i) \in FiniteSubsetsOf(Nat)
    <3>1. i \in Nat /\ 0 \in Int /\ i - 1 \in Int
      OBVIOUS
    <3>2. IsFiniteSet(Below(i)) /\ Below(i) \subseteq Nat
      BY <3>1, FS_Interval
    <3> QED
      BY <3>2 DEF FiniteSubsetsOf
  <2> QED
    BY <2>1
<1>2. PICK x \in T : \A y \in T : <<y, x>> \notin StrictSubsetOrdering(Nat)
  BY <1>1, FS_StrictSubsetOrderingWellFounded, WFMin
<1>3. PICK m \in S : x = Below(m)
  OBVIOUS
<1>4. ASSUME NEW j \in S PROVE m <= j
  <2>1. SUFFICES ASSUME j < m PROVE FALSE
    OBVIOUS
  <2>2. Below(j) \in T /\ Below(j) \subseteq Nat /\ Below(m) \subseteq Nat
    OBVIOUS
  <2>3. Below(j) \subseteq Below(m) /\ j \in Below(m) /\ j \notin Below(j)
    BY <2>1
  <2>4. <<Below(j), Below(m)>> \in StrictSubsetOrdering(Nat)
    BY <2>2, <2>3 DEF StrictSubsetOrdering
  <2> QED
    BY <1>2, <1>3, <2>2, <2>4
<1> QED
  BY <1>4 DEF FirstOf

\* FirstOf has only one possible value.
LEMMA FirstOfUnique ==
    ASSUME NEW S, S \subseteq Nat, NEW m \in S, \A j \in S : m <= j
    PROVE  FirstOf(S) = m
<1>1. FirstOf(S) \in S /\ \A j \in S : FirstOf(S) <= j
  BY FirstOfIsLeast
<1>2. FirstOf(S) <= m /\ m <= FirstOf(S)
  BY <1>1
<1>3. FirstOf(S) \in Nat /\ m \in Nat
  BY <1>1
<1> QED
  BY <1>2, <1>3

\* Appending a key leaves the earlier keys, and so their activity and ids,
\* where they are.
LEMMA AppendKeepsKeys ==
    ASSUME NEW keys \in Seq(ClientKey), NEW key \in ClientKey
    PROVE  /\ Append(keys, key) \in Seq(ClientKey)
           /\ DOMAIN keys = 1..Len(keys)
           /\ DOMAIN Append(keys, key) = 1..(Len(keys) + 1)
           /\ \A i \in 1..Len(keys) : Append(keys, key)[i] = keys[i]
           /\ Append(keys, key)[Len(keys) + 1] = key
  BY AppendProperties, LenProperties

-------------------------------------------------------------------------------

\* So a further key only adds its own position to those that are active or
\* that carry a given id.
LEMMA PositionsGrow ==
    ASSUME NEW keys \in Seq(ClientKey), NEW key \in ClientKey, NEW id
    PROVE  /\ ActiveAt(keys) \subseteq 1..Len(keys)
           /\ ActiveAt(keys) \subseteq ActiveAt(Append(keys, key))
           /\ MatchesAt(keys, id) \subseteq 1..Len(keys)
           /\ MatchesAt(keys, id) \subseteq MatchesAt(Append(keys, key), id)
           /\ MatchesAt(Append(keys, key), id)
                \subseteq MatchesAt(keys, id) \cup {Len(keys) + 1}
  BY AppendKeepsKeys DEF ActiveAt, MatchesAt

\* The first match stays the first match.
LEMMA FirstMatchStays ==
    ASSUME NEW keys \in Seq(ClientKey), NEW key \in ClientKey, NEW id,
           MatchesAt(keys, id) # {}
    PROVE  /\ FirstOf(MatchesAt(keys, id)) \in 1..Len(keys)
           /\ FirstOf(MatchesAt(Append(keys, key), id))
                = FirstOf(MatchesAt(keys, id))
<1> DEFINE old == MatchesAt(keys, id)
           new == MatchesAt(Append(keys, key), id)
<1>1. /\ old \subseteq 1..Len(keys)
      /\ old \subseteq new
      /\ new \subseteq old \cup {Len(keys) + 1}
  BY PositionsGrow
<1>2. Len(keys) \in Nat
  BY LenProperties
<1>3. old \subseteq Nat /\ new \subseteq Nat
  BY <1>1, <1>2
<1>4. FirstOf(old) \in old /\ \A j \in old : FirstOf(old) <= j
  BY <1>3, FirstOfIsLeast
<1>5. \A j \in new : FirstOf(old) <= j
  BY <1>1, <1>2, <1>4
<1>6. FirstOf(old) \in new
  BY <1>1, <1>4
<1>7. FirstOf(new) = FirstOf(old)
  <2> HIDE DEF old, new
  <2> QED
    BY <1>3, <1>5, <1>6, FirstOfUnique
<1> QED
  BY <1>1, <1>4, <1>7

-------------------------------------------------------------------------------

\* There is exactly one active key.
Sole(keys) == \E i \in ActiveAt(keys) : ActiveAt(keys) = {i}

\* selectClientKey, one return statement at a time.
LEMMA SelectionCases ==
    ASSUME NEW keys, NEW id
    PROVE  /\ id # NoText /\ MatchesAt(keys, id) # {}
                => SelectClientKey(keys, id)
                     = Chosen(keys[FirstOf(MatchesAt(keys, id))], TRUE)
           /\ id # NoText /\ MatchesAt(keys, id) = {}
                => SelectClientKey(keys, id) = Unchosen("explicit-missing", {})
           /\ id = NoText /\ ActiveAt(keys) = {}
                => SelectClientKey(keys, id) = Unchosen("no-active", {})
           /\ id = NoText /\ Sole(keys)
                => SelectClientKey(keys, id)
                     = Chosen(keys[FirstOf(ActiveAt(keys))], FALSE)
           /\ id = NoText /\ ActiveAt(keys) # {} /\ ~Sole(keys)
                => SelectClientKey(keys, id)
                     = Unchosen("ambiguous",
                                {keys[i].id : i \in ActiveAt(keys)})
<1>1. CASE id # NoText
  BY <1>1 DEF SelectClientKey
<1>2. CASE id = NoText /\ ActiveAt(keys) = {}
  BY <1>2 DEF SelectClientKey, Sole
<1>3. CASE id = NoText /\ Sole(keys)
  <2>1. ActiveAt(keys) # {}
    BY <1>3 DEF Sole
  <2> QED
    BY <1>3, <2>1 DEF SelectClientKey, Sole
<1>4. CASE id = NoText /\ ActiveAt(keys) # {} /\ ~Sole(keys)
  BY <1>4 DEF SelectClientKey, Sole
<1> QED
  BY <1>1, <1>2, <1>3, <1>4

-------------------------------------------------------------------------------
(* What the selection means for the list it was made from. *)

\* A selected key is on the list and active; it bears the explicit id, or is
\* the only active one.
LEMMA SelectedKey ==
    ASSUME NEW keys \in Seq(ClientKey), NEW id,
           SelectClientKey(keys, id).outcome = "selected"
    PROVE  \E i \in DOMAIN keys :
             /\ keys[i].active
             /\ SelectClientKey(keys, id).key = keys[i]
             /\ IF id # NoText THEN keys[i].id = id ELSE ActiveAt(keys) = {i}
<1> DEFINE matches == MatchesAt(keys, id)
           m == FirstOf(matches)
           a == FirstOf(ActiveAt(keys))
<1>1. DOMAIN keys = 1..Len(keys) /\ Len(keys) \in Nat
  BY LenProperties
<1>2. matches \subseteq Nat /\ ActiveAt(keys) \subseteq Nat
  BY <1>1 DEF MatchesAt, ActiveAt
<1>3. CASE id # NoText /\ matches # {}
  <2>1. SelectClientKey(keys, id) = Chosen(keys[m], TRUE)
    BY <1>3, SelectionCases
  <2>2. m \in matches
    BY <1>2, <1>3, FirstOfIsLeast
  <2>3. keys[m].active /\ SelectClientKey(keys, id).key = keys[m]
    BY <2>1 DEF Chosen
  <2> QED
    BY <1>3, <2>2, <2>3 DEF MatchesAt
<1>4. CASE id # NoText /\ matches = {}
  <2>1. SelectClientKey(keys, id)
          = Unchosen("explicit-missing", {})
    BY <1>4, SelectionCases
  <2> QED
    BY <2>1 DEF Unchosen
<1>5. CASE id = NoText /\ ActiveAt(keys) = {}
  <2>1. SelectClientKey(keys, id)
          = Unchosen("no-active", {})
    BY <1>5, SelectionCases
  <2> QED
    BY <2>1 DEF Unchosen
<1>6. CASE id = NoText /\ Sole(keys)
  <2>1. SelectClientKey(keys, id) = Chosen(keys[a], FALSE)
    BY <1>6, SelectionCases
  <2>2. a \in ActiveAt(keys)
    BY <1>2, <1>6, FirstOfIsLeast DEF Sole
  <2>3. ActiveAt(keys) = {a}
    BY <1>6, <2>2 DEF Sole
  <2>4. SelectClientKey(keys, id).key = keys[a]
    BY <2>1 DEF Chosen
  <2> QED
    BY <1>6, <2>2, <2>3, <2>4 DEF ActiveAt
<1>7. CASE id = NoText /\ ActiveAt(keys) # {} /\ ~Sole(keys)
  <2>1. SelectClientKey(keys, id)
          = Unchosen("ambiguous", {keys[i].id : i \in ActiveAt(keys)})
    BY <1>7, SelectionCases
  <2> QED
    BY <2>1 DEF Unchosen
<1> QED
  BY <1>3, <1>4, <1>5, <1>6, <1>7

\* An outcome other than a selection is true of the list.
LEMMA UnselectedKeys ==
    ASSUME NEW keys \in Seq(ClientKey), NEW id
    PROVE  LET outcome == SelectClientKey(keys, id).outcome IN
           /\ outcome \in Outcomes
           /\ outcome = "no-active" => ActiveAt(keys) = {}
           /\ outcome = "explicit-missing" => MatchesAt(keys, id) = {}
           /\ outcome = "explicit-revoked" =>
                \E i \in MatchesAt(keys, id) : ~keys[i].active
           /\ outcome = "ambiguous" =>
                id = NoText /\ ActiveAt(keys) # {} /\ ~Sole(keys)
<1> DEFINE matches == MatchesAt(keys, id)
           m == FirstOf(matches)
           a == FirstOf(ActiveAt(keys))
           sel == SelectClientKey(keys, id)
<1>1. DOMAIN keys = 1..Len(keys) /\ Len(keys) \in Nat
  BY LenProperties
<1>2. matches \subseteq Nat /\ ActiveAt(keys) \subseteq Nat
  BY <1>1 DEF MatchesAt, ActiveAt
<1>3. CASE id # NoText /\ matches # {}
  <2>1. sel = Chosen(keys[m], TRUE)
    BY <1>3, SelectionCases
  <2>2. sel.outcome = IF keys[m].active THEN "selected" ELSE "explicit-revoked"
    BY <2>1 DEF Chosen
  <2>3. m \in matches
    BY <1>2, <1>3, FirstOfIsLeast
  <2> QED
    BY <2>2, <2>3 DEF Outcomes
<1>4. CASE id # NoText /\ matches = {}
  <2>1. sel = Unchosen("explicit-missing", {})
    BY <1>4, SelectionCases
  <2>2. sel.outcome = "explicit-missing"
    BY <2>1 DEF Unchosen
  <2> QED
    BY <1>4, <2>2 DEF Outcomes
<1>5. CASE id = NoText /\ ActiveAt(keys) = {}
  <2>1. sel = Unchosen("no-active", {})
    BY <1>5, SelectionCases
  <2>2. sel.outcome = "no-active"
    BY <2>1 DEF Unchosen
  <2> QED
    BY <1>5, <2>2 DEF Outcomes
<1>6. CASE id = NoText /\ Sole(keys)
  <2>1. sel = Chosen(keys[a], FALSE)
    BY <1>6, SelectionCases
  <2>2. a \in ActiveAt(keys)
    BY <1>2, <1>6, FirstOfIsLeast DEF Sole
  <2>3. sel.outcome = "selected"
    BY <2>1, <2>2 DEF ActiveAt, Chosen
  <2> QED
    BY <2>3 DEF Outcomes
<1>7. CASE id = NoText /\ ActiveAt(keys) # {} /\ ~Sole(keys)
  <2>1. sel = Unchosen("ambiguous", {keys[i].id : i \in ActiveAt(keys)})
    BY <1>7, SelectionCases
  <2>2. sel.outcome = "ambiguous"
    BY <2>1 DEF Unchosen
  <2> QED
    BY <1>7, <2>2 DEF Outcomes
<1> QED
  BY <1>3, <1>4, <1>5, <1>6, <1>7

\* selectClientKey returns a well-formed selection.
LEMMA SelectionType ==
    ASSUME NEW keys \in Seq(ClientKey), NEW id
    PROVE  SelectClientKey(keys, id) \in Selection
<1>1. NoKey \in ClientKey
  BY DEF NoKey, ClientKey
<1>2. ASSUME NEW S, S \subseteq 1..Len(keys), S # {}, NEW explicit \in BOOLEAN
      PROVE  Chosen(keys[FirstOf(S)], explicit) \in Selection
  <2>1. Len(keys) \in Nat /\ S \subseteq Nat
    BY <1>2, LenProperties
  <2>2. FirstOf(S) \in 1..Len(keys)
    BY <1>2, <2>1, FirstOfIsLeast
  <2>3. keys[FirstOf(S)] \in ClientKey
    BY <2>2, ElementOfSeq
  <2> QED
    BY <2>3 DEF Chosen, Selection, Outcomes
<1>3. ASSUME NEW o \in Outcomes, NEW ids \in SUBSET (KeyIds \cup {NoText})
      PROVE  Unchosen(o, ids) \in Selection
  BY <1>1 DEF Unchosen, Selection
<1>4. /\ ActiveAt(keys) \subseteq 1..Len(keys)
      /\ MatchesAt(keys, id) \subseteq 1..Len(keys)
  BY LenProperties DEF ActiveAt, MatchesAt
<1>5. {keys[i].id : i \in ActiveAt(keys)} \in SUBSET (KeyIds \cup {NoText})
  <2> SUFFICES ASSUME NEW i \in ActiveAt(keys)
               PROVE  keys[i].id \in KeyIds \cup {NoText}
    OBVIOUS
  <2>1. keys[i] \in ClientKey
    BY <1>4, ElementOfSeq
  <2> QED
    BY <2>1 DEF ClientKey
<1>6. Sole(keys) => ActiveAt(keys) # {}
  BY DEF Sole
<1>7. {"no-active", "ambiguous", "explicit-missing"} \subseteq Outcomes
  BY DEF Outcomes
<1>8. CASE id # NoText
  BY <1>2, <1>3, <1>4, <1>7, <1>8, SelectionCases
<1>9. CASE id = NoText
  BY <1>2, <1>3, <1>4, <1>5, <1>6, <1>7, <1>9, SelectionCases
<1> QED
  BY <1>8, <1>9

\* Active keys that are neither none nor one are several.
LEMMA SeveralActive ==
    ASSUME NEW keys \in Seq(ClientKey), ActiveAt(keys) # {}, ~Sole(keys)
    PROVE  Cardinality(ActiveAt(keys)) > 1
<1>1. DOMAIN keys = 1..Len(keys) /\ Len(keys) \in Nat
  BY LenProperties
<1>2. IsFiniteSet(1..Len(keys))
  BY <1>1, FS_Interval
<1>3. IsFiniteSet(ActiveAt(keys))
  BY <1>1, <1>2, FS_Subset DEF ActiveAt
<1>4. Cardinality(ActiveAt(keys)) \in Nat
  BY <1>3, FS_CardinalityType
<1>5. Cardinality(ActiveAt(keys)) # 0
  BY <1>3, FS_EmptySet
<1>6. Cardinality(ActiveAt(keys)) # 1
  BY <1>3, FS_Singleton DEF Sole
<1> QED
  BY <1>4, <1>5, <1>6

\* From no keys at all, only a conclusion that an unread page could overturn.
LEMMA NothingFromNoKeys ==
    ASSUME NEW id
    PROVE  /\ ExhaustivenessDependent(SelectClientKey(<< >>, id))
           /\ SelectClientKey(<< >>, id).outcome
                \in {"no-active", "explicit-missing"}
<1>1. ActiveAt(<< >>) = {} /\ MatchesAt(<< >>, id) = {}
  BY DEF ActiveAt, MatchesAt
<1>2. \/ SelectClientKey(<< >>, id) = Unchosen("explicit-missing", {})
      \/ SelectClientKey(<< >>, id) = Unchosen("no-active", {})
  BY <1>1, SelectionCases
<1> QED
  BY <1>2 DEF Unchosen, ExhaustivenessDependent

-------------------------------------------------------------------------------
(* A page of keys on its way from Sentry to the provider. *)

\* Of the indices below n, the k-th smallest is k - 1.
LEMMA NthOfInterval ==
    ASSUME NEW n \in Nat, NEW k \in 1..n
    PROVE  NthSmallest(0..(n - 1), k) = k - 1
<1>1. ASSUME NEW i \in 0..(n - 1)
      PROVE  Cardinality({j \in 0..(n - 1) : j < i}) = i
  <2>1. {j \in 0..(n - 1) : j < i} = 0..(i - 1)
    OBVIOUS
  <2>2. Cardinality(0..(i - 1)) = i
    BY FS_Interval
  <2> QED
    BY <2>1, <2>2
<1>2. k - 1 \in 0..(n - 1)
  OBVIOUS
<1>3. \A i \in 0..(n - 1) :
        Cardinality({j \in 0..(n - 1) : j < i}) = k - 1 <=> i = k - 1
  BY <1>1
<1> QED
  BY <1>2, <1>3 DEF NthSmallest

\* A body has as many elements as its page has keys.
LEMMA BodyOfPage ==
    ASSUME NEW page \in Seq(ClientKey)
    PROVE  /\ Len(page) \in Nat
           /\ Len(KeyListBody(page)) = Len(page)
           /\ \A i \in 1..Len(page) : KeyListBody(page)[i] = Element(page[i])
<1> DEFINE n == Len(page)
           S == {Element(page[i]) : i \in 1..n}
<1>1. n \in Nat /\ DOMAIN page = 1..n
  BY LenProperties
<1>2. KeyListBody(page) = [i \in 1..n |-> Element(page[i])]
  BY <1>1 DEF KeyListBody
<1>3. KeyListBody(page) \in Seq(S)
  <2>1. KeyListBody(page) \in [1..n -> S]
    BY <1>2
  <2> QED
    BY <1>1, <2>1, SeqDef
<1>4. Len(KeyListBody(page)) \in Nat /\ 1..Len(KeyListBody(page)) = 1..n
  <2>1. DOMAIN KeyListBody(page) = 1..n
    BY <1>2
  <2> QED
    BY <1>3, <2>1, LenProperties
<1>5. Len(KeyListBody(page)) = n
  <2> HIDE DEF n
  <2> QED
    BY <1>1, <1>4
<1> QED
  BY <1>1, <1>2, <1>5

\* The attributes of an element that matter are those of its key.
LEMMA ElementOfKey ==
    ASSUME NEW key \in ClientKey
    PROVE  /\ DOMAIN Element(key) \subseteq ForwardSafe
           /\ ".id" \in DOMAIN Element(key) /\ Element(key)[".id"] = key.id
           /\ ".isActive" \in DOMAIN Element(key)
           /\ Element(key)[".isActive"] = key.active
           /\ IF key.dsn = NoText THEN ".dsn.public" \notin DOMAIN Element(key)
              ELSE /\ ".dsn.public" \in DOMAIN Element(key)
                   /\ Element(key)[".dsn.public"] = key.dsn
  BY DEF Element, ForwardSafe

\* Filtering, flattening and regrouping give the page back, key by key.
THEOREM RoundTrip ==
    ASSUME NEW page \in Seq(ClientKey)
    PROVE  ClientKeysFromResponse(FilterKeyList(KeyListBody(page))) = page
<1> DEFINE n == Len(page)
           body == KeyListBody(page)
           fields == FilterKeyList(body)
           entries == Entries(fields)
<1>1. /\ n \in Nat
      /\ Len(body) = n
      /\ \A i \in 1..n : page[i] \in ClientKey /\ body[i] = Element(page[i])
      /\ page = [i \in 1..n |-> page[i]]
  BY BodyOfPage, LenProperties, ElementOfSeq
<1>2. DOMAIN fields = {s \in (0..(n - 1)) \X ForwardSafe :
                         s[2] \in DOMAIN body[s[1] + 1]}
  BY <1>1 DEF FilterKeyList, ForwardedSelectors, IndicesOf
<1>3. \A s \in DOMAIN fields : fields[s] = body[s[1] + 1][s[2]]
  BY DEF FilterKeyList
<1>4. ASSUME NEW i \in 0..(n - 1), NEW attribute \in ForwardSafe
      PROVE  /\ <<i, attribute>> \in DOMAIN fields
                  <=> attribute \in DOMAIN Element(page[i + 1])
             /\ <<i, attribute>> \in DOMAIN fields
                  => fields[<<i, attribute>>] = Element(page[i + 1])[attribute]
  <2>1. i + 1 \in 1..n
    BY <1>1
  <2> HIDE DEF fields, body
  <2> QED
    BY <1>1, <1>2, <1>3, <2>1
<1>5. {s[1] : s \in DOMAIN fields} = 0..(n - 1)
  <2>1. \A i \in 0..(n - 1) : <<i, ".id">> \in DOMAIN fields
    <3> TAKE i \in 0..(n - 1)
    <3>1. page[i + 1] \in ClientKey
      BY <1>1
    <3>2. ".id" \in ForwardSafe
      BY DEF ForwardSafe
    <3> QED
      BY <1>4, <3>1, <3>2, ElementOfKey
  <2>2. \A s \in DOMAIN fields : s[1] \in 0..(n - 1)
    BY <1>2
  <2> HIDE DEF fields, n
  <2>3. \A i \in 0..(n - 1) : i \in {s[1] : s \in DOMAIN fields}
    <3> TAKE i \in 0..(n - 1)
    <3>1. <<i, ".id">>[1] = i
      OBVIOUS
    <3> QED
      BY <2>1, <3>1
  <2> QED
    BY <2>2, <2>3
<1>6. ASSUME NEW i \in 0..(n - 1)
      PROVE  entries[i] = page[i + 1]
  <2> DEFINE key == page[i + 1]
  <2>1. key \in ClientKey
    BY <1>1
  <2>2. {".id", ".isActive", ".dsn.public"} \subseteq ForwardSafe
    BY DEF ForwardSafe
  <2> HIDE DEF fields, key
  <2>3. Forwarded(fields, i, ".id", NoText) = key.id
    BY <1>4, <2>1, <2>2, ElementOfKey DEF Forwarded, key
  <2>4. Forwarded(fields, i, ".isActive", FALSE) = key.active
    BY <1>4, <2>1, <2>2, ElementOfKey DEF Forwarded, key
  <2>5. Forwarded(fields, i, ".dsn.public", NoText) = key.dsn
    BY <1>4, <2>1, <2>2, ElementOfKey DEF Forwarded, key
  <2>6. entries[i] = [id |-> key.id, active |-> key.active, dsn |-> key.dsn]
    BY <1>5, <2>3, <2>4, <2>5 DEF Entries
  <2> QED
    BY <2>1, <2>6 DEF ClientKey, key
<1>7. DOMAIN entries = 0..(n - 1) /\ Cardinality(DOMAIN entries) = n
  <2>1. DOMAIN entries = 0..(n - 1)
    BY <1>5 DEF Entries
  <2>2. Cardinality(0..(n - 1)) = n
    <3> HIDE DEF n
    <3>1. 0 \in Int /\ n - 1 \in Int
      BY <1>1
    <3>2. Cardinality(0..(n - 1)) = IF 0 > n - 1 THEN 0 ELSE (n - 1) - 0 + 1
      BY <3>1, FS_Interval
    <3> QED
      BY <1>1, <3>2
  <2> QED
    BY <2>1, <2>2
<1>8. SortedEntries(entries) = [k \in 1..n |-> page[k]]
  <2> HIDE DEF entries, n
  <2>1. SortedEntries(entries)
          = [k \in 1..n |-> entries[NthSmallest(0..(n - 1), k)]]
    BY <1>7 DEF SortedEntries
  <2>2. \A k \in 1..n : entries[NthSmallest(0..(n - 1), k)] = page[k]
    <3> TAKE k \in 1..n
    <3>1. NthSmallest(0..(n - 1), k) = k - 1
      BY <1>1, NthOfInterval
    <3>2. k - 1 \in 0..(n - 1) /\ (k - 1) + 1 = k
      BY <1>1
    <3> QED
      BY <1>6, <3>1, <3>2
  <2> QED
    BY <2>1, <2>2
<1> QED
  BY <1>1, <1>8 DEF ClientKeysFromResponse

-------------------------------------------------------------------------------
(* The remote. *)

\* People keep the remote well-typed.
LEMMA RemoteTypeKept ==
    ASSUME RemoteTypeOK, RemoteChange
    PROVE  RemoteTypeOK'
<1>1. MaxChanges \in Nat /\ MaxFaults \in Nat /\ NewKeys \subseteq ClientKey
  BY RemoteAssumption
<1>2. ASSUME NEW p \in Projects, CreateKey(p)
      PROVE  RemoteTypeOK'
  <2>1. PICK key \in NewKeys : keyring' = [keyring EXCEPT ![p] = Append(@, key)]
    BY <1>2 DEF CreateKey
  <2>2. Append(keyring[p], key) \in Seq(ClientKey)
    BY <1>1, AppendProperties DEF RemoteTypeOK
  <2>3. keyring' \in [Projects -> Seq(ClientKey)]
    BY <2>1, <2>2 DEF RemoteTypeOK
  <2> QED
    BY <1>1, <1>2, <2>3 DEF RemoteTypeOK, CreateKey, Changed
<1>3. ASSUME NEW p \in Projects, ToggleKey(p)
      PROVE  RemoteTypeOK'
  <2>1. PICK i \in DOMAIN keyring[p] :
               keyring' = [keyring EXCEPT ![p][i].active = ~@]
    BY <1>3 DEF ToggleKey
  <2> DEFINE toggled == [keyring[p][i] EXCEPT !.active = ~@]
  <2>2. keyring[p] \in Seq(ClientKey)
    BY DEF RemoteTypeOK
  <2>3. i \in 1..Len(keyring[p]) /\ keyring[p][i] \in ClientKey
    BY <2>2, LenProperties, ElementOfSeq
  <2>4. toggled \in ClientKey
    BY <2>3 DEF ClientKey
  <2>5. [keyring[p] EXCEPT ![i] = toggled] \in Seq(ClientKey)
    BY <2>2, <2>3, <2>4, ExceptSeq
  <2>6. keyring' = [keyring EXCEPT ![p] = [keyring[p] EXCEPT ![i] = toggled]]
    BY <2>1
  <2>7. keyring' \in [Projects -> Seq(ClientKey)]
    BY <2>5, <2>6 DEF RemoteTypeOK
  <2> QED
    BY <1>1, <1>3, <2>7 DEF RemoteTypeOK, ToggleKey, Changed
<1>4. ASSUME NEW a \in Addresses, MoveAddress(a)
      PROVE  RemoteTypeOK'
  BY <1>1, <1>4 DEF RemoteTypeOK, MoveAddress, Changed
<1> QED
  BY <1>2, <1>3, <1>4 DEF RemoteChange

\* A failed answer counts against the bound, a genuine one does not.
LEMMA FaultsBounded ==
    ASSUME RemoteTypeOK, NEW genuine, NEW answer, Answers(genuine, answer)
    PROVE  faults' \in 0..MaxFaults
  BY RemoteAssumption DEF RemoteTypeOK, Answers

\* What a page shows of a well-typed list is a list of keys.
LEMMA PageIsKeys ==
    ASSUME RemoteTypeOK, NEW a \in Addresses, NEW cursor
    PROVE  /\ KeyListOf(a) \in Seq(ClientKey)
           /\ PageOf(KeyListOf(a), cursor) \in Seq(ClientKey)
<1> DEFINE list == KeyListOf(a)
           first == IF Len(list) < PageSize THEN Len(list) ELSE PageSize
<1>1. list \in Seq(ClientKey)
  BY EmptySeq DEF KeyListOf, RemoteTypeOK
<1>2. /\ Len(list) \in Nat /\ first \in Nat /\ first <= Len(list)
      /\ \A i \in 1..Len(list) : list[i] \in ClientKey
  BY <1>1, LenProperties, ElementOfSeq, RemoteAssumption
<1> HIDE DEF list, first
<1>3. SubSeq(list, first + 1, Len(list)) \in Seq(ClientKey)
  <2>1. \A i \in (first + 1)..Len(list) : list[i] \in ClientKey
    BY <1>2
  <2>2. first + 1 \in Int /\ Len(list) \in Int
    BY <1>2
  <2> QED
    BY <2>1, <2>2, SubSeqProperties
<1>4. SubSeq(list, 1, first) \in Seq(ClientKey)
  <2>1. \A i \in 1..first : list[i] \in ClientKey
    BY <1>2
  <2>2. 1 \in Int /\ first \in Int
    BY <1>2
  <2> QED
    BY <2>1, <2>2, SubSeqProperties
<1> QED
  BY <1>1, <1>3, <1>4 DEF PageOf, list, first

\* Every answer to a callback is one, and only Undecodable does not decode.
LEMMA AnswersTyped ==
    ASSUME NEW a, NEW cursor,
           NEW answer \in ProjectAnswers(a) \cup KeyListAnswers(a, cursor)
                            \cup FaultAnswers,
           answer # Undecodable
    PROVE  answer \in Answer /\ answer.kind # "undecodable"
  BY RemoteAssumption
     DEF ProjectAnswers, KeyListAnswers, FaultAnswers, Answer, Answered,
         Refused, Undecodable

\* A status with no further detail is a rate limit only when it is a 429.
LEMMA ClassOfStatus ==
    ASSUME NEW code \in Nat
    PROVE  LET class == ClassifySentryError(StatusError(code))
           IN  /\ class \in DiagnosticCodes
               /\ class = "rate-limit" <=> code = 429
<1> DEFINE e == StatusError(code)
           class == ClassifySentryError(e)
<1>1. e.statusCode = code /\ e.detail = {} /\ (e.retryAfter <=> code = 429)
  BY DEF StatusError
<1> HIDE DEF e
<1>2. CASE code = 429
  <2>1. class = "rate-limit"
    BY <1>1, <1>2 DEF ClassifySentryError
  <2> QED
    BY <1>2, <2>1 DEF DiagnosticCodes, e
<1>3. CASE code # 429
  <2>1. class \in {"authentication", "permission", "not-found",
                   "outcome-unknown", "permanent-validation"}
    BY <1>1, <1>3 DEF ClassifySentryError
  <2> QED
    BY <1>3, <2>1 DEF DiagnosticCodes, e
<1> QED
  BY <1>2, <1>3

\* No outcome is both known and uncertain, and it orders to back off exactly
\* when its diagnostic is the rate limit.
LEMMA OutcomeOfAnswer ==
    ASSUME NEW answer \in Answer, answer.kind # "undecodable"
    PROVE  LET outcome == ReadOutcome(answer) IN
           /\ outcome.ok \in BOOLEAN /\ outcome.uncertain \in BOOLEAN
           /\ outcome.retryAfter \in BOOLEAN
           /\ outcome.diagnostics \subseteq Diagnostic
           /\ ~(outcome.ok /\ outcome.uncertain)
           /\ outcome.retryAfter
                <=> \E d \in outcome.diagnostics : d.code = "rate-limit"
<1> DEFINE outcome == ReadOutcome(answer)
           code == answer.code
           class == ClassifySentryError(StatusError(code))
<1>1. code \in Nat
  BY DEF Answer
<1>2. CASE answer.kind = "refused"
  <2>1. outcome = [ok |-> FALSE, uncertain |-> TRUE, retryAfter |-> FALSE,
                   statusCode |-> 0,
                   diagnostics |-> {Diag("WARNING", "outcome-unknown")}]
    BY <1>2 DEF ReadOutcome
  <2> HIDE DEF outcome
  <2> QED
    BY <2>1 DEF Diag, Diagnostic, Severities, DiagnosticCodes, outcome
<1>3. CASE answer.kind # "refused" /\ Succeeded(code)
  <2>1. outcome = [ok |-> TRUE, uncertain |-> FALSE, retryAfter |-> FALSE,
                   statusCode |-> code, diagnostics |-> {}]
    BY <1>3 DEF ReadOutcome
  <2> HIDE DEF outcome
  <2> QED
    BY <2>1 DEF outcome
<1>4. CASE answer.kind # "refused" /\ ~Succeeded(code)
  <2>1. outcome = [ok |-> FALSE, uncertain |-> UncertainStatus(code),
                   retryAfter |-> code = 429, statusCode |-> code,
                   diagnostics |-> {Diag("WARNING", class)}]
    BY <1>4 DEF ReadOutcome
  <2>2. class \in DiagnosticCodes /\ (class = "rate-limit" <=> code = 429)
    BY <1>1, ClassOfStatus
  <2>3. UncertainStatus(code) \in BOOLEAN /\ (code = 429) \in BOOLEAN
    BY DEF UncertainStatus
  <2> HIDE DEF outcome, class
  <2>4. Diag("WARNING", class) \in Diagnostic
    BY <2>2 DEF Diag, Diagnostic, Severities
  <2>5. /\ outcome.ok = FALSE /\ outcome.uncertain \in BOOLEAN
        /\ outcome.retryAfter \in BOOLEAN
        /\ outcome.diagnostics \subseteq Diagnostic
    BY <2>1, <2>3, <2>4
  <2>6. outcome.retryAfter <=> code = 429
    BY <2>1
  <2>7. (\E d \in outcome.diagnostics : d.code = "rate-limit")
          <=> class = "rate-limit"
    <3>1. outcome.diagnostics = {Diag("WARNING", class)}
      BY <2>1
    <3>2. Diag("WARNING", class).code = class
      BY DEF Diag
    <3> QED
      BY <3>1, <3>2
  <2> QED
    BY <2>2, <2>5, <2>6, <2>7 DEF outcome
<1> QED
  BY <1>2, <1>3, <1>4

-------------------------------------------------------------------------------
(* What a plan can contain, one function of the planner at a time. *)

\* The positions of the projections among the actions.
Projecting(actions) == {j \in DOMAIN actions : actions[j].type = "PROJECT_OUTPUT"}

\* A verdict on one action other than a projection projects nothing.
LEMMA VerdictProjectsNothing ==
    ASSUME NEW type \in ActionTypes \ {"PROJECT_OUTPUT"}, NEW id, NEW remoteID,
           NEW diagnostics
    PROVE  LET v == Verdict(Action(type, id, remoteID), diagnostics)
           IN  Projecting(v.actions) = {} /\ v.diagnostics = diagnostics
  BY DEF Verdict, Action, Projecting

\* Adding no action, or one more, to a plan of one action.
LEMMA TwoActions ==
    ASSUME NEW x, NEW y
    PROVE  <<x>> \o << >> = <<x>> /\ <<x>> \o <<y>> = <<x, y>>
<1> DEFINE S == {x, y}
<1>1. /\ <<x>> \in Seq(S) /\ Len(<<x>>) = 1 /\ <<x>>[1] = x
      /\ <<y>> \in Seq(S) /\ Len(<<y>>) = 1 /\ <<y>>[1] = y
      /\ <<x, y>> \in Seq(S) /\ Len(<<x, y>>) = 2
      /\ <<x, y>>[1] = x /\ <<x, y>>[2] = y
  OBVIOUS
<1>2. <<x>> \o << >> = <<x>>
  BY <1>1, ConcatEmptySeq
<1>3. <<x>> \o <<y>> = <<x, y>>
  <2> DEFINE xs == <<x>>
             ys == <<y>>
             both == <<x, y>>
  <2>1. /\ xs \in Seq(S) /\ Len(xs) = 1 /\ xs[1] = x
        /\ ys \in Seq(S) /\ Len(ys) = 1 /\ ys[1] = y
        /\ both \in Seq(S) /\ Len(both) = 2 /\ both[1] = x /\ both[2] = y
    BY <1>1
  <2> HIDE DEF xs, ys, both, S
  <2>2. /\ xs \o ys \in Seq(S)
        /\ Len(xs \o ys) = 2
        /\ (xs \o ys)[1] = x
        /\ (xs \o ys)[2] = y
    <3>1. /\ xs \o ys \in Seq(S)
          /\ Len(xs \o ys) = Len(xs) + Len(ys)
          /\ \A i \in 1..(Len(xs) + Len(ys)) :
               (xs \o ys)[i] = IF i <= Len(xs) THEN xs[i] ELSE ys[i - Len(xs)]
      BY <2>1, ConcatProperties
    <3> QED
      BY <2>1, <3>1
  <2>3. \A i \in 1..Len(both) : (xs \o ys)[i] = both[i]
    BY <2>1, <2>2
  <2>4. xs \o ys = both
    BY <2>1, <2>2, <2>3, SeqEqual
  <2> QED
    BY <2>4 DEF xs, ys, both
<1> QED
  BY <1>2, <1>3

\* The runtime contract projects the key's DSN when there is one, or nothing.
LEMMA RuntimeTargetPlan ==
    ASSUME NEW in, NEW target, NEW key
    PROVE  LET r == PlanErrorTracking(in, target, key) IN
           /\ \A d \in r.diagnostics : d.code = "schema-drift"
           /\ \/ r.actions = << >>
              \/ /\ key.dsn # NoText
                 /\ r.actions = <<ProjectionAction("error-tracking-project",
                                    target, RuntimeValues(in, key))>>
  BY DEF PlanErrorTracking, NoProjection, Verdict, Diag

\* The only projection of a selection carries the selected key's values.
LEMMA SelectedPlan ==
    ASSUME NEW in, NEW target, NEW sel
    PROVE  LET r == PlanSelected(in, target, sel) IN
           /\ \A d \in r.diagnostics :
                d.code \in {"schema-drift", "supplied-dsn-mismatch"}
           /\ \A j \in Projecting(r.actions) :
                /\ r.actions[j].values = RuntimeValues(in, sel.key)
                /\ sel.key.dsn # NoText
<1> DEFINE r == PlanSelected(in, target, sel)
           output == PlanErrorTracking(in, target, sel.key)
           noOp == Action("NO_OP", "client-key-selected", sel.key.id)
           projection == ProjectionAction("error-tracking-project", target,
                                          RuntimeValues(in, sel.key))
<1>1. /\ \A d \in output.diagnostics : d.code = "schema-drift"
      /\ \/ output.actions = << >>
         \/ sel.key.dsn # NoText /\ output.actions = <<projection>>
  BY RuntimeTargetPlan
<1>2. /\ noOp.type = "NO_OP"
      /\ projection.values = RuntimeValues(in, sel.key)
  BY DEF Action, ProjectionAction
<1> HIDE DEF output, noOp, projection
<1>3. /\ r.actions = <<noOp>> \o output.actions
      /\ \A d \in r.diagnostics : \/ d \in output.diagnostics
                                   \/ d.code = "supplied-dsn-mismatch"
  BY DEF PlanSelected, output, noOp, Diag
<1> HIDE DEF r
<1>4. \A d \in r.diagnostics :
        d.code \in {"schema-drift", "supplied-dsn-mismatch"}
  BY <1>1, <1>3
<1>5. ASSUME NEW j \in Projecting(r.actions)
      PROVE  /\ r.actions[j].values = RuntimeValues(in, sel.key)
             /\ sel.key.dsn # NoText
  <2>1. CASE output.actions = << >>
    <3>1. r.actions = <<noOp>>
      BY <1>3, <2>1, TwoActions
    <3> QED
      BY <1>2, <3>1 DEF Projecting
  <2>2. CASE sel.key.dsn # NoText /\ output.actions = <<projection>>
    <3>1. r.actions = <<noOp, projection>>
      BY <1>3, <2>2, TwoActions
    <3> QED
      BY <1>2, <2>2, <3>1 DEF Projecting
  <2> QED
    BY <1>1, <2>1, <2>2
<1> QED
  BY <1>4, <1>5 DEF r

\* The DSN a projection carries is that of the key it projects.
LEMMA ProjectedDSN ==
    ASSUME NEW in, NEW key, NEW v \in RuntimeValues(in, key),
           v.name = "SENTRY_DSN"
    PROVE  v.value = key.dsn
  BY DEF RuntimeValues, PublicOutput

\* The verdict r reports code, and only that, of a selection with that outcome.
ReportsOnly(r, sel, outcome, code) ==
    sel.outcome = outcome /\ r.diagnostics = {Diag("ERROR", code)}

\* Over the keys Plan either acts on a selection, or reports one verdict and
\* projects nothing.
LEMMA RuntimePlan ==
    ASSUME NEW in, NEW target, NEW keys \in Seq(ClientKey),
           NEW complete \in BOOLEAN
    PROVE  LET r    == PlanRuntime(in, target, keys, complete)
               sel  == SelectClientKey(keys, in.clientKeyID)
               held == ~complete /\ ExhaustivenessDependent(sel)
           IN
           \/ /\ ~held /\ sel.outcome = "selected"
              /\ r = PlanSelected(in, target, sel)
           \/ /\ Projecting(r.actions) = {}
              /\ \/ held /\ r.diagnostics = {Diag("ERROR", "outcome-unknown")}
                 \/ ~held /\ ReportsOnly(r, sel, "no-active", "no-active-client-key")
                 \/ ~held /\ ReportsOnly(r, sel, "ambiguous", "ambiguous-client-key")
                 \/ ~held /\ ReportsOnly(r, sel, "explicit-revoked",
                                      "client-key-revoked")
                 \/ ~held /\ ReportsOnly(r, sel, "explicit-missing",
                                      "client-key-mismatch")
<1> DEFINE sel == SelectClientKey(keys, in.clientKeyID)
           held == ~complete /\ ExhaustivenessDependent(sel)
           Blocked(id, remoteID, code) ==
             Verdict(Action("BLOCKED", id, remoteID), {Diag("ERROR", code)})
           NoneActive == Verdict(Action("MANUAL", "client-key-none", NoText),
                                 {Diag("ERROR", "no-active-client-key")})
           r == PlanRuntime(in, target, keys, complete)
<1>1. sel.outcome \in Outcomes
  BY UnselectedKeys
<1>2. /\ held => r = Blocked("client-key-incomplete", NoText, "outcome-unknown")
      /\ ~held /\ sel.outcome = "selected" => r = PlanSelected(in, target, sel)
      /\ ~held /\ sel.outcome = "no-active" => r = NoneActive
      /\ ~held /\ sel.outcome = "ambiguous" =>
           r = Blocked("client-key-ambiguous", NoText, "ambiguous-client-key")
      /\ ~held /\ sel.outcome = "explicit-revoked" =>
           r = Blocked("client-key-revoked", sel.key.id, "client-key-revoked")
      /\ ~held /\ sel.outcome = "explicit-missing" =>
           r = Blocked("client-key-missing", NoText, "client-key-mismatch")
  BY DEF PlanRuntime
<1>3. ASSUME NEW id, NEW remoteID, NEW code
      PROVE  /\ Projecting(Blocked(id, remoteID, code).actions) = {}
             /\ Blocked(id, remoteID, code).diagnostics = {Diag("ERROR", code)}
  BY DEF Verdict, Action, Projecting
<1>4. /\ Projecting(NoneActive.actions) = {}
      /\ NoneActive.diagnostics = {Diag("ERROR", "no-active-client-key")}
  BY VerdictProjectsNothing DEF ActionTypes
<1> HIDE DEF sel, held, Blocked, NoneActive, r
<1>5. CASE held
  <2>1. Projecting(r.actions) = {}
    BY <1>2, <1>3, <1>5
  <2>2. r.diagnostics = {Diag("ERROR", "outcome-unknown")}
    BY <1>2, <1>3, <1>5
  <2> QED
    BY <1>5, <2>1, <2>2 DEF sel, held, r
<1>6. CASE ~held /\ sel.outcome = "selected"
  BY <1>2, <1>6 DEF sel, held, r
<1>7. CASE ~held /\ sel.outcome = "no-active"
  <2>1. /\ Projecting(r.actions) = {}
        /\ ReportsOnly(r, sel, "no-active", "no-active-client-key")
    BY <1>2, <1>4, <1>7 DEF ReportsOnly
  <2> QED
    BY <1>7, <2>1 DEF sel, held, r
<1>8. CASE ~held /\ sel.outcome = "ambiguous"
  <2>1. /\ Projecting(r.actions) = {}
        /\ ReportsOnly(r, sel, "ambiguous", "ambiguous-client-key")
    BY <1>2, <1>3, <1>8 DEF ReportsOnly
  <2> QED
    BY <1>8, <2>1 DEF sel, held, r
<1>9. CASE ~held /\ sel.outcome = "explicit-revoked"
  <2>1. /\ Projecting(r.actions) = {}
        /\ ReportsOnly(r, sel, "explicit-revoked", "client-key-revoked")
    <3> DEFINE id == sel.key.id
    <3>1. r = Blocked("client-key-revoked", id, "client-key-revoked")
      BY <1>2, <1>9
    <3> HIDE DEF id
    <3> QED
      BY <1>3, <1>9, <3>1 DEF ReportsOnly
  <2> QED
    BY <1>9, <2>1 DEF sel, held, r
<1>10. CASE ~held /\ sel.outcome = "explicit-missing"
  <2>1. /\ Projecting(r.actions) = {}
        /\ ReportsOnly(r, sel, "explicit-missing", "client-key-mismatch")
    BY <1>2, <1>3, <1>10 DEF ReportsOnly
  <2> QED
    BY <1>10, <2>1 DEF sel, held, r
<1> QED
  BY <1>1, <1>5, <1>6, <1>7, <1>8, <1>9, <1>10 DEF Outcomes

-------------------------------------------------------------------------------
(* What a plan can say as a whole. *)

\* A plan is refused with the input's own problems, stops at the project gate,
\* or is that of the contract the target asks for.
LEMMA PlanShape ==
    ASSUME NEW in \in Inputs, NEW o, NEW target
    PROVE  LET r       == Plan(in, o, target)
               runtime == PlanRuntime(in, target, o.keys, o.complete)
           IN
           \/ r.actions = << >> /\ r.diagnostics \subseteq InputProblems
           \/ /\ ~Confirmed(in, o) /\ Projecting(r.actions) = {}
              /\ r.diagnostics = {Diag("ERROR", GateCode(o))}
           \/ /\ Confirmed(in, o) /\ target.contract = "error-tracking-build"
              /\ \A d \in r.diagnostics : d.code = "scope-unverified"
           \/ /\ Confirmed(in, o) /\ target.contract # "error-tracking-build"
              /\ r.actions = runtime.actions
              /\ r.diagnostics = runtime.diagnostics
<1> DEFINE r == Plan(in, o, target)
           gate == BlockedProject(o)
           build == PlanBuild(in, target)
           runtime == PlanRuntime(in, target, o.keys, o.complete)
<1>1. in.problems \subseteq InputProblems
  BY DEF Inputs
<1>2. \/ r = Unplanned({Diag("ERROR", "invalid-input")})
      \/ r = Unplanned(in.problems)
      \/ ~Confirmed(in, o) /\ r = Planned(gate)
      \/ /\ Confirmed(in, o) /\ target.contract = "error-tracking-build"
         /\ r = Planned(build)
      \/ /\ Confirmed(in, o) /\ target.contract # "error-tracking-build"
         /\ r = Planned(runtime)
  BY DEF Plan
<1>3. /\ Projecting(gate.actions) = {}
      /\ gate.diagnostics = {Diag("ERROR", GateCode(o))}
  BY DEF BlockedProject, Verdict, Action, Projecting
<1>4. \A d \in build.diagnostics : d.code = "scope-unverified"
  BY DEF PlanBuild, NoProjection, Verdict, Diag
<1> HIDE DEF r, gate, build, runtime
<1>5. CASE \/ r = Unplanned({Diag("ERROR", "invalid-input")})
           \/ r = Unplanned(in.problems)
  <2>1. r.actions = << >> /\ r.diagnostics \subseteq InputProblems
    BY <1>1, <1>5 DEF Unplanned, InputProblems
  <2> QED
    BY <2>1 DEF r
<1>6. CASE ~Confirmed(in, o) /\ r = Planned(gate)
  <2>1. r.actions = gate.actions /\ r.diagnostics = gate.diagnostics
    BY <1>6 DEF Planned
  <2> QED
    BY <1>3, <1>6, <2>1 DEF r
<1>7. CASE /\ Confirmed(in, o) /\ target.contract = "error-tracking-build"
           /\ r = Planned(build)
  <2>1. r.diagnostics = build.diagnostics
    BY <1>7 DEF Planned
  <2> QED
    BY <1>4, <1>7, <2>1 DEF r
<1>8. CASE /\ Confirmed(in, o) /\ target.contract # "error-tracking-build"
           /\ r = Planned(runtime)
  <2>1. r.actions = runtime.actions /\ r.diagnostics = runtime.diagnostics
    BY <1>8 DEF Planned
  <2> QED
    BY <1>8, <2>1 DEF r, runtime
<1> QED
  BY <1>2, <1>5, <1>6, <1>7, <1>8

-------------------------------------------------------------------------------
(* What a plan contains exactly: the types, what it projects, and why it does  *)
(* not.                                                                        *)

WellFormed(r) == r.actions \in Seq(PlannedAction)
                   /\ r.diagnostics \in SUBSET Diagnostic

\* Nothing is projected for an error, for want of an order, or for a refusal; what
\* is projected was asked for and comes without an error.
Explained(r, asked, refused) ==
    IF Projecting(r.actions) = {}
      THEN HasError(r.diagnostics) \/ ~asked \/ refused
      ELSE ~HasError(r.diagnostics) /\ asked

\* A verdict names a key whose projection the SDK refuses.
KeyRefused(r, in, key, target) ==
    /\ \E i \in DOMAIN r.actions :
         r.actions[i] = Action("NO_OP", "client-key-selected", key.id)
    /\ ~ProposalAccepted(target, RuntimeValues(in, key))

\* An action without a proposal is well formed.
LEMMA ActionTyped ==
    ASSUME NEW type \in ActionTypes, NEW id \in ActionIds,
           NEW remoteID \in Optional(KeyIds \cup Projects)
    PROVE  Action(type, id, remoteID) \in PlannedAction
<1>1. "other" \in Contracts
  BY DEF Contracts
<1> QED
  BY <1>1 DEF Action, PlannedAction

\* So is a projection of well-formed values.
LEMMA ProjectionTyped ==
    ASSUME NEW id \in ActionIds, NEW target \in OutputTarget,
           NEW values \in SUBSET OutputValue
    PROVE  ProjectionAction(id, target, values) \in PlannedAction
<1>1. target.contract \in Contracts /\ target.generation \in Nat
  BY DEF OutputTarget
<1>2. "PROJECT_OUTPUT" \in ActionTypes /\ NoText \in Optional(KeyIds \cup Projects)
  BY DEF ActionTypes, Optional
<1> QED
  BY <1>1, <1>2 DEF ProjectionAction, PlannedAction

\* A verdict on one action is well formed, and one that is no projection but an
\* error explains itself.
LEMMA VerdictTyped ==
    ASSUME NEW action \in PlannedAction, NEW diagnostics \in SUBSET Diagnostic
    PROVE  WellFormed(Verdict(action, diagnostics))
  BY DEF WellFormed, Verdict

\* An action with an error beside it is a well-formed verdict that projects
\* nothing and explains itself.
LEMMA ErrorVerdict ==
    ASSUME NEW type \in ActionTypes \ {"PROJECT_OUTPUT"}, NEW id \in ActionIds,
           NEW remoteID \in Optional(KeyIds \cup Projects),
           NEW code \in DiagnosticCodes, NEW asked, NEW refused
    PROVE  LET r == Verdict(Action(type, id, remoteID), {Diag("ERROR", code)})
           IN  /\ WellFormed(r) /\ Explained(r, asked, refused)
               /\ Projecting(r.actions) = {}
<1> DEFINE action == Action(type, id, remoteID)
           r == Verdict(action, {Diag("ERROR", code)})
<1>1. action \in PlannedAction
  BY ActionTyped
<1>2. {Diag("ERROR", code)} \in SUBSET Diagnostic
  BY DEF Diag, Diagnostic, Severities
<1>3. Projecting(r.actions) = {} /\ r.diagnostics = {Diag("ERROR", code)}
  BY VerdictProjectsNothing
<1>4. WellFormed(r)
  BY <1>1, <1>2, VerdictTyped
<1>5. HasError({Diag("ERROR", code)})
  BY DEF HasError, Diag
<1> HIDE DEF r
<1>6. Explained(r, asked, refused)
  BY <1>3, <1>5 DEF Explained
<1> QED
  BY <1>3, <1>4, <1>6 DEF r

\* The values of the runtime contract are well formed.
LEMMA RuntimeValuesTyped ==
    ASSUME NEW in \in Inputs, NEW key \in ClientKey, key.dsn # NoText
    PROVE  RuntimeValues(in, key) \in SUBSET OutputValue
<1>1. /\ key.dsn \in Dsns
      /\ in.environment # NoText => in.environment \in Texts
      /\ in.release # NoText => in.release \in Texts
  BY DEF ClientKey, Inputs, Optional
<1>2. ASSUME NEW name \in OutputNames, NEW value \in Dsns \cup Texts \cup Addresses
      PROVE  PublicOutput(name, value) \in OutputValue
  BY DEF PublicOutput, OutputValue
<1>3. {"SENTRY_DSN", "SENTRY_ENVIRONMENT", "SENTRY_RELEASE"} \subseteq OutputNames
  BY DEF OutputNames
<1> SUFFICES ASSUME NEW v \in RuntimeValues(in, key) PROVE v \in OutputValue
  OBVIOUS
<1>4. \/ v = PublicOutput("SENTRY_DSN", key.dsn)
      \/ in.environment # NoText
           /\ v = PublicOutput("SENTRY_ENVIRONMENT", in.environment)
      \/ in.release # NoText /\ v = PublicOutput("SENTRY_RELEASE", in.release)
  BY DEF RuntimeValues
<1> QED
  BY <1>1, <1>2, <1>3, <1>4

\* A selection projects the values of its key for the runtime target, reports
\* the key's missing DSN, was not asked for that target, or names the key whose
\* projection the SDK refused.
LEMMA SelectedExactly ==
    ASSUME NEW in \in Inputs, NEW target \in OutputTarget, NEW sel,
           sel.key \in ClientKey
    PROVE  LET r == PlanSelected(in, target, sel) IN
           /\ WellFormed(r)
           /\ Explained(r, RuntimeTarget(target),
                        KeyRefused(r, in, sel.key, target))
           /\ \A j \in Projecting(r.actions) :
                /\ RuntimeTarget(target) /\ sel.key.dsn # NoText
                /\ r.actions[j] = ProjectionAction("error-tracking-project",
                                    target, RuntimeValues(in, sel.key))
<1> DEFINE r == PlanSelected(in, target, sel)
           output == PlanErrorTracking(in, target, sel.key)
           noOp == Action("NO_OP", "client-key-selected", sel.key.id)
           projection == ProjectionAction("error-tracking-project", target,
                                          RuntimeValues(in, sel.key))
           drift == Diag("ERROR", "schema-drift")
           warning == Diag("WARNING", "supplied-dsn-mismatch")
           accepted == ProposalAccepted(target, RuntimeValues(in, sel.key))
<1>1. \/ ~RuntimeTarget(target) /\ output.actions = << >> /\ output.diagnostics = {}
      \/ /\ RuntimeTarget(target) /\ sel.key.dsn = NoText
         /\ output.actions = << >> /\ output.diagnostics = {drift}
      \/ /\ RuntimeTarget(target) /\ sel.key.dsn # NoText
         /\ output.actions = <<projection>> /\ output.diagnostics = {}
      \/ ~accepted /\ output.actions = << >> /\ output.diagnostics = {}
  <2> HIDE DEF accepted
  <2> QED
    BY DEF PlanErrorTracking, NoProjection, Verdict, projection, accepted
<1>2. noOp \in PlannedAction
  <2>1. sel.key.id \in Optional(KeyIds \cup Projects)
    BY DEF ClientKey, Optional
  <2> QED
    BY <2>1, ActionTyped DEF ActionTypes, ActionIds
<1>3. sel.key.dsn # NoText => projection \in PlannedAction
  BY RuntimeValuesTyped, ProjectionTyped DEF ActionIds
<1>4. drift \in Diagnostic /\ warning \in Diagnostic
      /\ drift.severity = "ERROR" /\ warning.severity = "WARNING"
  BY DEF Diag, Diagnostic, Severities, DiagnosticCodes
<1>5. noOp.type = "NO_OP" /\ projection.type = "PROJECT_OUTPUT"
  BY DEF Action, ProjectionAction
<1> HIDE DEF output, noOp, projection, drift, warning, accepted
<1>6. /\ r.actions = <<noOp>> \o output.actions
      /\ output.diagnostics \subseteq r.diagnostics
      /\ r.diagnostics \subseteq output.diagnostics \cup {warning}
  BY DEF PlanSelected, output, noOp, warning
<1> HIDE DEF r
<1>7. r.diagnostics \in SUBSET Diagnostic
  BY <1>1, <1>4, <1>6
<1>8. HasError(r.diagnostics) <=> drift \in output.diagnostics
  BY <1>1, <1>4, <1>6 DEF HasError
<1>9. CASE output.actions = << >>
  <2>1. r.actions = <<noOp>>
    BY <1>6, <1>9, TwoActions
  <2>2. Projecting(r.actions) = {} /\ r.actions \in Seq(PlannedAction)
    BY <1>2, <1>5, <2>1 DEF Projecting
  <2>3. <<projection>> # << >>
    OBVIOUS
  <2>4. r.actions[1] = noOp /\ 1 \in DOMAIN r.actions
    BY <2>1
  <2>5. HasError(r.diagnostics) \/ ~RuntimeTarget(target)
          \/ KeyRefused(r, in, sel.key, target)
    BY <1>1, <1>8, <1>9, <2>3, <2>4 DEF KeyRefused, noOp, accepted
  <2> QED
    BY <1>7, <2>2, <2>5 DEF WellFormed, Explained, r
<1>10. CASE /\ RuntimeTarget(target) /\ sel.key.dsn # NoText
            /\ output.actions = <<projection>> /\ output.diagnostics = {}
  <2>1. r.actions = <<noOp, projection>>
    BY <1>6, <1>10, TwoActions
  <2>2. r.actions \in Seq(PlannedAction)
    BY <1>2, <1>3, <1>10, <2>1
  <2>3. Projecting(r.actions) = {2}
    BY <1>5, <2>1 DEF Projecting
  <2>4. r.actions[2] = projection
    BY <2>1
  <2>5. Explained(r, RuntimeTarget(target), KeyRefused(r, in, sel.key, target))
    BY <1>4, <1>8, <1>10, <2>3 DEF Explained
  <2> QED
    BY <1>7, <1>10, <2>2, <2>3, <2>4, <2>5 DEF WellFormed, r, projection
<1> QED
  BY <1>1, <1>9, <1>10

\* A key of the list is named and its projection refused.
ListedRefused(r, in, keys, target) ==
    \E k \in DOMAIN keys : KeyRefused(r, in, keys[k], target)

\* The runtime contract projects a selection's key, or explains why not.
LEMMA RuntimeExactly ==
    ASSUME NEW in \in Inputs, NEW target \in OutputTarget,
           NEW keys \in Seq(ClientKey), NEW complete \in BOOLEAN
    PROVE  LET r   == PlanRuntime(in, target, keys, complete)
               sel == SelectClientKey(keys, in.clientKeyID)
           IN
           /\ WellFormed(r)
           /\ Explained(r, RuntimeTarget(target), ListedRefused(r, in, keys, target))
           /\ \A j \in Projecting(r.actions) :
                /\ sel.outcome = "selected"
                /\ RuntimeTarget(target) /\ sel.key.dsn # NoText
                /\ r.actions[j] = ProjectionAction("error-tracking-project",
                                    target, RuntimeValues(in, sel.key))
<1> DEFINE sel == SelectClientKey(keys, in.clientKeyID)
           held == ~complete /\ ExhaustivenessDependent(sel)
           Stopped(type, id, remoteID, code) ==
             Verdict(Action(type, id, remoteID), {Diag("ERROR", code)})
           r == PlanRuntime(in, target, keys, complete)
<1>1. sel.outcome \in Outcomes /\ sel.key \in ClientKey
  BY SelectionType DEF Selection
<1>2. sel.key.id \in Optional(KeyIds \cup Projects)
      /\ NoText \in Optional(KeyIds \cup Projects)
  BY <1>1 DEF ClientKey, Optional
<1>3. \/ sel.outcome = "selected" /\ r = PlanSelected(in, target, sel)
      \/ r = Stopped("BLOCKED", "client-key-incomplete", NoText, "outcome-unknown")
      \/ r = Stopped("MANUAL", "client-key-none", NoText, "no-active-client-key")
      \/ r = Stopped("BLOCKED", "client-key-ambiguous", NoText,
                     "ambiguous-client-key")
      \/ r = Stopped("BLOCKED", "client-key-revoked", sel.key.id,
                     "client-key-revoked")
      \/ r = Stopped("BLOCKED", "client-key-missing", NoText,
                     "client-key-mismatch")
  BY DEF PlanRuntime
<1>4. CASE sel.outcome = "selected" /\ r = PlanSelected(in, target, sel)
  <2>1. PICK k \in DOMAIN keys : sel.key = keys[k]
    BY <1>4, SelectedKey
  <2> HIDE DEF sel, r
  <2>2. /\ WellFormed(r)
        /\ Explained(r, RuntimeTarget(target), KeyRefused(r, in, sel.key, target))
        /\ \A j \in Projecting(r.actions) :
             /\ RuntimeTarget(target) /\ sel.key.dsn # NoText
             /\ r.actions[j] = ProjectionAction("error-tracking-project",
                                 target, RuntimeValues(in, sel.key))
    BY <1>1, <1>4, SelectedExactly
  <2>3. Explained(r, RuntimeTarget(target), ListedRefused(r, in, keys, target))
    BY <2>1, <2>2 DEF Explained, ListedRefused
  <2> QED
    BY <1>4, <2>2, <2>3 DEF sel, r
<1>5. ASSUME NEW type \in {"BLOCKED", "MANUAL"}, NEW id \in ActionIds,
             NEW remoteID \in Optional(KeyIds \cup Projects),
             NEW code \in DiagnosticCodes, r = Stopped(type, id, remoteID, code)
      PROVE  /\ WellFormed(r) /\ Projecting(r.actions) = {}
             /\ Explained(r, RuntimeTarget(target),
                          ListedRefused(r, in, keys, target))
  <2>1. type \in ActionTypes \ {"PROJECT_OUTPUT"}
    BY DEF ActionTypes
  <2> HIDE DEF r
  <2> QED
    BY <1>5, <2>1, ErrorVerdict
<1>6. /\ {"client-key-incomplete", "client-key-none", "client-key-ambiguous",
          "client-key-revoked", "client-key-missing"} \subseteq ActionIds
      /\ {"outcome-unknown", "no-active-client-key", "ambiguous-client-key",
          "client-key-revoked", "client-key-mismatch"} \subseteq DiagnosticCodes
  BY DEF ActionIds, DiagnosticCodes
<1> HIDE DEF sel, Stopped, r
<1>7. CASE ~(sel.outcome = "selected" /\ r = PlanSelected(in, target, sel))
  <2>1. /\ WellFormed(r) /\ Projecting(r.actions) = {}
        /\ Explained(r, RuntimeTarget(target), ListedRefused(r, in, keys, target))
    BY <1>2, <1>3, <1>5, <1>6, <1>7
  <2> QED
    BY <2>1 DEF r
<1> QED
  BY <1>4, <1>7

\* The build contract projects the opaque reference when the input has one and
\* the SDK takes it, and otherwise nothing.
LEMMA BuildExactly ==
    ASSUME NEW in \in Inputs, NEW target \in OutputTarget
    PROVE  LET r == PlanBuild(in, target) IN
           /\ WellFormed(r)
           /\ Explained(r, in.build # NoText,
                        ~ProposalAccepted(target, BuildValues(in)))
           /\ \A j \in Projecting(r.actions) :
                /\ in.build # NoText
                /\ r.actions[j] = ProjectionAction("error-tracking-build-project",
                                                   target, BuildValues(in))
<1> DEFINE r == PlanBuild(in, target)
           unverified == {Diag("INFO", "scope-unverified")}
           noOp == Action("NO_OP", "build-credential-absent", NoText)
           projection == ProjectionAction("error-tracking-build-project", target,
                                          BuildValues(in))
           accepted == ProposalAccepted(target, BuildValues(in))
<1>1. \/ in.build = NoText /\ r = Verdict(noOp, unverified)
      \/ in.build # NoText /\ accepted /\ r = Verdict(projection, unverified)
      \/ in.build # NoText /\ ~accepted /\ r = NoProjection({})
  BY DEF PlanBuild
<1>2. noOp \in PlannedAction
  BY ActionTyped DEF ActionTypes, ActionIds, Optional
<1>3. in.build # NoText => projection \in PlannedAction
  <2> SUFFICES ASSUME in.build # NoText PROVE projection \in PlannedAction
    OBVIOUS
  <2>1. in.build \in Texts /\ in.address \in Addresses
    BY DEF Inputs, Optional
  <2>2. BuildValues(in) \in SUBSET OutputValue
    BY <2>1 DEF BuildValues, ReferenceOutput, PublicOutput, OutputValue, OutputNames
  <2> QED
    BY <2>2, ProjectionTyped DEF ActionIds
<1>4. unverified \in SUBSET Diagnostic /\ ~HasError(unverified)
      /\ {} \in SUBSET Diagnostic /\ ~HasError({})
  BY DEF Diag, Diagnostic, Severities, DiagnosticCodes, HasError
<1>5. noOp.type = "NO_OP" /\ projection.type = "PROJECT_OUTPUT"
  BY DEF Action, ProjectionAction
<1> HIDE DEF r, unverified, noOp, projection, accepted
<1>6. CASE in.build = NoText /\ r = Verdict(noOp, unverified)
  <2>1. r.actions = <<noOp>> /\ r.diagnostics = unverified
    BY <1>6 DEF Verdict
  <2>2. Projecting(r.actions) = {}
    BY <1>5, <2>1 DEF Projecting
  <2> QED
    BY <1>2, <1>4, <1>6, <2>1, <2>2 DEF WellFormed, Explained, r, accepted
<1>7. CASE in.build # NoText /\ accepted /\ r = Verdict(projection, unverified)
  <2>1. r.actions = <<projection>> /\ r.diagnostics = unverified
    BY <1>7 DEF Verdict
  <2>2. Projecting(r.actions) = {1} /\ r.actions[1] = projection
    BY <1>5, <2>1 DEF Projecting
  <2>3. Explained(r, in.build # NoText, ~accepted)
    BY <1>4, <1>7, <2>1, <2>2 DEF Explained
  <2>4. WellFormed(r)
    BY <1>3, <1>4, <1>7, <2>1 DEF WellFormed
  <2> QED
    BY <1>7, <2>2, <2>3, <2>4 DEF r, projection, accepted
<1>8. CASE in.build # NoText /\ ~accepted /\ r = NoProjection({})
  <2>1. r.actions = << >> /\ r.diagnostics = {}
    BY <1>8 DEF NoProjection
  <2>2. Projecting(r.actions) = {} /\ r.actions \in Seq(PlannedAction)
    BY <2>1 DEF Projecting
  <2> QED
    BY <1>4, <1>8, <2>1, <2>2 DEF WellFormed, Explained, r, accepted
<1> QED
  BY <1>1, <1>6, <1>7, <1>8

\* What a plan is asked for: a runtime target of some generation, or a build
\* contract with a build credential.
Asked(in, target) ==
    IF target.contract = "error-tracking-build" THEN in.build # NoText
    ELSE RuntimeTarget(target)

\* The SDK refused what the plan proposed.
ProposalRefused(r, in, o, target) ==
    IF target.contract = "error-tracking-build"
      THEN ~ProposalAccepted(target, BuildValues(in))
      ELSE ListedRefused(r, in, o.keys, target)

\* A plan projects, or explains itself.
SelfExplained(r, in, o, target) ==
    Explained(r, Asked(in, target), ProposalRefused(r, in, o, target))

\* The projection of a key, or of the build reference, that Plan makes of a
\* confirmed project.
ProjectionMade(action, in, o, target) ==
    LET sel == SelectClientKey(o.keys, in.clientKeyID) IN
    /\ Confirmed(in, o)
    /\ \/ /\ target.contract = "error-tracking-build" /\ in.build # NoText
          /\ action = ProjectionAction("error-tracking-build-project", target,
                                       BuildValues(in))
       \/ /\ target.contract = "error-tracking"
          /\ sel.outcome = "selected" /\ sel.key.dsn # NoText
          /\ action = ProjectionAction("error-tracking-project", target,
                                       RuntimeValues(in, sel.key))

\* The whole of Plan, for every input, observation and target.
LEMMA PlanExactly ==
    ASSUME NEW in \in Inputs, NEW o \in Material, NEW target \in OutputTarget
    PROVE  LET r == Plan(in, o, target) IN
           /\ r.planned \in BOOLEAN
           /\ WellFormed(r) /\ SelfExplained(r, in, o, target)
           /\ \A j \in Projecting(r.actions) :
                ProjectionMade(r.actions[j], in, o, target)
<1> DEFINE r == Plan(in, o, target)
           gate == BlockedProject(o)
           build == PlanBuild(in, target)
           runtime == PlanRuntime(in, target, o.keys, o.complete)
           problem == {Diag("ERROR", "invalid-input")}
<1>1. /\ o.keys \in Seq(ClientKey) /\ o.complete \in BOOLEAN
      /\ o.projects \in SUBSET ObservedProject
      /\ target.contract \in Contracts /\ target.generation \in Nat
  BY DEF Material, OutputTarget
<1>2. \/ r = Unplanned(problem)
      \/ HasError(in.problems) /\ r = Unplanned(in.problems)
      \/ r = Planned(gate)
      \/ /\ Confirmed(in, o) /\ target.contract = "error-tracking-build"
         /\ r = Planned(build)
      \/ /\ Confirmed(in, o) /\ target.contract # "error-tracking-build"
         /\ r = Planned(runtime)
  BY DEF Plan
<1>3. /\ problem \in SUBSET Diagnostic /\ HasError(problem)
      /\ in.problems \in SUBSET Diagnostic
  BY DEF Inputs, InputProblems, Diag, Diagnostic, Severities, DiagnosticCodes,
         HasError
<1>4. /\ WellFormed(gate) /\ SelfExplained(gate, in, o, target)
      /\ Projecting(gate.actions) = {}
  <2> DEFINE remoteID == IF o.projects = {} THEN NoText
                         ELSE (CHOOSE p \in o.projects : TRUE).remoteID
  <2>1. remoteID \in Optional(KeyIds \cup Projects)
    BY <1>1 DEF ObservedProject, Optional
  <2>2. gate = Verdict(Action("BLOCKED", "project-inaccessible", remoteID),
                       {Diag("ERROR", GateCode(o))})
    BY DEF BlockedProject
  <2>3. GateCode(o) \in DiagnosticCodes
    BY DEF GateCode, DiagnosticCodes
  <2>4. "BLOCKED" \in ActionTypes \ {"PROJECT_OUTPUT"}
        /\ "project-inaccessible" \in ActionIds
    BY DEF ActionTypes, ActionIds
  <2> HIDE DEF remoteID, gate
  <2> QED
    BY <2>1, <2>2, <2>3, <2>4, ErrorVerdict DEF SelfExplained
<1> HIDE DEF r, gate, build, runtime, problem
<1>5. ASSUME NEW v, r = Planned(v), WellFormed(v), SelfExplained(v, in, o, target)
      PROVE  /\ r.planned \in BOOLEAN /\ r.actions = v.actions
             /\ WellFormed(r) /\ SelfExplained(r, in, o, target)
  <2>1. r.planned = TRUE /\ r.actions = v.actions /\ r.diagnostics = v.diagnostics
    BY <1>5 DEF Planned
  <2>2. ProposalRefused(r, in, o, target) <=> ProposalRefused(v, in, o, target)
    BY <2>1 DEF ProposalRefused, ListedRefused, KeyRefused
  <2> QED
    BY <1>5, <2>1, <2>2 DEF WellFormed, SelfExplained, Explained
<1>6. ASSUME NEW problems \in SUBSET Diagnostic, HasError(problems),
             r = Unplanned(problems)
      PROVE  /\ r.planned \in BOOLEAN /\ Projecting(r.actions) = {}
             /\ WellFormed(r) /\ SelfExplained(r, in, o, target)
  <2>1. r.planned = FALSE /\ r.actions = << >> /\ r.diagnostics = problems
    BY <1>6 DEF Unplanned
  <2>2. Projecting(r.actions) = {} /\ r.actions \in Seq(PlannedAction)
    BY <2>1 DEF Projecting
  <2> QED
    BY <1>6, <2>1, <2>2 DEF WellFormed, SelfExplained, Explained
<1>7. CASE \/ r = Unplanned(problem)
           \/ HasError(in.problems) /\ r = Unplanned(in.problems)
  <2>1. /\ r.planned \in BOOLEAN /\ Projecting(r.actions) = {}
        /\ WellFormed(r) /\ SelfExplained(r, in, o, target)
    BY <1>3, <1>6, <1>7
  <2> QED
    BY <2>1 DEF r
<1>8. CASE r = Planned(gate)
  <2>1. /\ r.planned \in BOOLEAN /\ Projecting(r.actions) = {}
        /\ WellFormed(r) /\ SelfExplained(r, in, o, target)
    BY <1>4, <1>5, <1>8
  <2> QED
    BY <2>1 DEF r
<1>9. CASE /\ Confirmed(in, o) /\ target.contract = "error-tracking-build"
           /\ r = Planned(build)
  <2>1. /\ WellFormed(build)
        /\ Explained(build, in.build # NoText,
                     ~ProposalAccepted(target, BuildValues(in)))
        /\ \A j \in Projecting(build.actions) :
             /\ in.build # NoText
             /\ build.actions[j] = ProjectionAction("error-tracking-build-project",
                                                    target, BuildValues(in))
    BY BuildExactly DEF build
  <2>2. SelfExplained(build, in, o, target)
    BY <1>9, <2>1 DEF SelfExplained, Asked, ProposalRefused
  <2>3. /\ r.planned \in BOOLEAN /\ r.actions = build.actions
        /\ WellFormed(r) /\ SelfExplained(r, in, o, target)
    BY <1>5, <1>9, <2>1, <2>2
  <2>4. \A j \in Projecting(r.actions) : ProjectionMade(r.actions[j], in, o, target)
    BY <1>9, <2>1, <2>3 DEF ProjectionMade
  <2> QED
    BY <2>3, <2>4 DEF r
<1>10. CASE /\ Confirmed(in, o) /\ target.contract # "error-tracking-build"
            /\ r = Planned(runtime)
  <2> DEFINE sel == SelectClientKey(o.keys, in.clientKeyID)
  <2>1. /\ WellFormed(runtime)
        /\ Explained(runtime, RuntimeTarget(target),
                     ListedRefused(runtime, in, o.keys, target))
        /\ \A j \in Projecting(runtime.actions) :
             /\ sel.outcome = "selected"
             /\ RuntimeTarget(target) /\ sel.key.dsn # NoText
             /\ runtime.actions[j] = ProjectionAction("error-tracking-project",
                                       target, RuntimeValues(in, sel.key))
    BY <1>1, RuntimeExactly DEF runtime
  <2>2. SelfExplained(runtime, in, o, target)
    BY <1>10, <2>1 DEF SelfExplained, Asked, ProposalRefused
  <2>3. /\ r.planned \in BOOLEAN /\ r.actions = runtime.actions
        /\ WellFormed(r) /\ SelfExplained(r, in, o, target)
    BY <1>5, <1>10, <2>1, <2>2
  <2>4. \A j \in Projecting(r.actions) : ProjectionMade(r.actions[j], in, o, target)
    BY <1>10, <2>1, <2>3 DEF ProjectionMade, RuntimeTarget
  <2> QED
    BY <2>3, <2>4 DEF r
<1> QED
  BY <1>2, <1>7, <1>8, <1>9, <1>10

===============================================================================
