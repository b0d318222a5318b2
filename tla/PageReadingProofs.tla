--------------------------- MODULE PageReadingProofs --------------------------
(***************************************************************************)
(* Proofs about client-key selection over a growing list, for every set of *)
(* ids and DSNs and every length of the list.                              *)
(***************************************************************************)
EXTENDS PageReading, SharedProofs

\* The verdicts that need no exhaustive list: a positive find of the explicit
\* key, and an ambiguity.
LEMMA IndependentVerdicts ==
    ASSUME NEW keys \in Seq(ClientKey), NEW id,
           ~ExhaustivenessDependent(SelectClientKey(keys, id))
    PROVE  \/ id # NoText /\ MatchesAt(keys, id) # {}
           \/ id = NoText /\ ActiveAt(keys) # {} /\ ~Sole(keys)
<1>1. ASSUME id # NoText, MatchesAt(keys, id) = {} PROVE FALSE
  <2>1. SelectClientKey(keys, id) = Unchosen("explicit-missing", {})
    BY <1>1, SelectionCases
  <2> QED
    BY <2>1 DEF Unchosen, ExhaustivenessDependent
<1>2. ASSUME id = NoText, ActiveAt(keys) = {} PROVE FALSE
  <2>1. SelectClientKey(keys, id) = Unchosen("no-active", {})
    BY <1>2, SelectionCases
  <2> QED
    BY <2>1 DEF Unchosen, ExhaustivenessDependent
<1>3. ASSUME id = NoText, Sole(keys) PROVE FALSE
  <2> DEFINE i == FirstOf(ActiveAt(keys))
  <2>1. SelectClientKey(keys, id) = Chosen(keys[i], FALSE)
    BY <1>3, SelectionCases
  <2>2. ActiveAt(keys) \subseteq Nat /\ ActiveAt(keys) # {}
    BY <1>3, LenProperties DEF Sole, ActiveAt
  <2>3. i \in ActiveAt(keys)
    BY <2>2, FirstOfIsLeast
  <2>4. keys[i].active
    BY <2>3 DEF ActiveAt
  <2> QED
    BY <2>1, <2>4 DEF Chosen, ExhaustivenessDependent
<1> QED
  BY <1>1, <1>2, <1>3

\* The heart of VerdictStable: one further key overturns none of them.
LEMMA IndependentVerdictSurvives ==
    ASSUME NEW keys \in Seq(ClientKey), NEW key \in ClientKey, NEW id,
           ~ExhaustivenessDependent(SelectClientKey(keys, id))
    PROVE  LET old == SelectClientKey(keys, id)
               new == SelectClientKey(Append(keys, key), id)
           IN  /\ new.outcome = old.outcome
               /\ new.key = old.key
               /\ old.activeIDs \subseteq new.activeIDs
<1> DEFINE more == Append(keys, key)
<1>1. CASE id # NoText /\ MatchesAt(keys, id) # {}
  <2>1. MatchesAt(more, id) # {}
    BY <1>1, PositionsGrow
  <2>2. /\ FirstOf(MatchesAt(keys, id)) \in 1..Len(keys)
        /\ FirstOf(MatchesAt(more, id)) = FirstOf(MatchesAt(keys, id))
    BY <1>1, FirstMatchStays
  <2>3. more[FirstOf(MatchesAt(more, id))] = keys[FirstOf(MatchesAt(keys, id))]
    BY <2>2, AppendKeepsKeys
  <2>4. SelectClientKey(more, id) = SelectClientKey(keys, id)
    BY <1>1, <2>1, <2>3, SelectionCases
  <2> QED
    BY <2>4
<1>2. CASE id = NoText /\ ActiveAt(keys) # {} /\ ~Sole(keys)
  <2>1. /\ ActiveAt(keys) \subseteq 1..Len(keys)
        /\ ActiveAt(keys) \subseteq ActiveAt(more)
    BY PositionsGrow
  <2>2. ActiveAt(more) # {} /\ ~Sole(more)
    BY <1>2, <2>1 DEF Sole
  <2>3. \A i \in ActiveAt(keys) : more[i] = keys[i]
    BY <2>1, AppendKeepsKeys
  <2> DEFINE before == {keys[i].id : i \in ActiveAt(keys)}
             after  == {more[i].id : i \in ActiveAt(more)}
  <2>4. before \subseteq after
    BY <2>1, <2>3
  <2>5. /\ SelectClientKey(keys, id) = Unchosen("ambiguous", before)
        /\ SelectClientKey(more, id) = Unchosen("ambiguous", after)
    BY <1>2, <2>2, SelectionCases
  <2> HIDE DEF before, after
  <2> QED
    BY <2>4, <2>5 DEF Unchosen
<1> QED
  BY <1>1, <1>2, IndependentVerdicts

-------------------------------------------------------------------------------

\* Every reachable list and selection is well formed.
THEOREM TypeCorrect == Spec => []TypeOK
<1>1. Init => TypeOK
  <2> SUFFICES ASSUME Init PROVE TypeOK
    OBVIOUS
  <2>1. observed \in Seq(ClientKey)
    BY EmptySeq DEF Init
  <2> QED
    BY <2>1, SelectionType DEF Init, TypeOK
<1>2. TypeOK /\ [Next]_vars => TypeOK'
  <2> SUFFICES ASSUME TypeOK, [Next]_vars PROVE TypeOK'
    OBVIOUS
  <2>1. CASE ReadKey
    <3>1. observed' \in Seq(ClientKey)
      BY <2>1, AppendKeepsKeys DEF ReadKey, TypeOK
    <3>2. SelectClientKey(observed', explicitID') \in Selection
      BY <3>1, SelectionType
    <3> QED
      BY <2>1, <3>1, <3>2 DEF ReadKey, TypeOK
  <2>2. CASE UNCHANGED vars
    BY <2>2 DEF TypeOK, vars
  <2> QED
    BY <2>1, <2>2 DEF Next
<1> QED
  BY <1>1, <1>2, PTL DEF Spec

\* Plan may act on such a verdict over an incomplete list, whatever the pages
\* it has not seen hold.
THEOREM VerdictsAreStable == Spec => VerdictStable
<1> DEFINE Step == ~ExhaustivenessDependent(Selected)
                     => /\ Selected'.outcome = Selected.outcome
                        /\ Selected'.key = Selected.key
                        /\ Selected.activeIDs \subseteq Selected'.activeIDs
<1>1. TypeOK /\ [Next]_vars => [Step]_vars
  <2> SUFFICES ASSUME TypeOK, Next PROVE Step
    OBVIOUS
  <2>1. PICK key \in ClientKey : observed' = Append(observed, key)
    BY DEF Next, ReadKey
  <2>2. explicitID' = explicitID
    BY DEF Next, ReadKey
  <2>3. Selected' = SelectClientKey(Append(observed, key), explicitID)
    BY <2>1, <2>2 DEF Selected
  <2>4. observed \in Seq(ClientKey)
    BY DEF TypeOK
  <2> QED
    BY <2>3, <2>4, IndependentVerdictSurvives DEF Selected
<1> QED
  BY <1>1, TypeCorrect, PTL DEF Spec, VerdictStable

\* Conversely, a held-back verdict could be wrong: some unread key turns it.
THEOREM HeldBackWithReason == Spec => []HeldBackVerdictsOverturnable
<1>1. TypeOK => HeldBackVerdictsOverturnable
  <2> SUFFICES ASSUME TypeOK, ExhaustivenessDependent(Selected)
               PROVE  \E key \in ClientKey :
                        SelectClientKey(Append(observed, key), explicitID).outcome
                          # Selected.outcome
    BY DEF HeldBackVerdictsOverturnable
  <2> DEFINE key == [id |-> explicitID, active |-> TRUE, dsn |-> NoText]
             more == Append(observed, key)
             last == Len(observed) + 1
  <2>1. observed \in Seq(ClientKey) /\ key \in ClientKey
    BY DEF TypeOK, ClientKey
  <2>2. /\ DOMAIN more = 1..last
        /\ more[last] = key
        /\ last \in DOMAIN more
    BY <2>1, AppendKeepsKeys, LenProperties
  <2>3. last \in ActiveAt(more) /\ last \in MatchesAt(more, explicitID)
    BY <2>2 DEF ActiveAt, MatchesAt
  <2>4. /\ ActiveAt(observed) \subseteq 1..Len(observed)
        /\ ActiveAt(observed) \subseteq ActiveAt(more)
    BY <2>1, PositionsGrow
  <2>5. last \notin ActiveAt(observed)
    BY <2>1, <2>4, LenProperties
  <2>6. CASE explicitID # NoText /\ MatchesAt(observed, explicitID) = {}
    <3>1. Selected = Unchosen("explicit-missing", {})
      BY <2>6, SelectionCases DEF Selected
    <3>2. SelectClientKey(more, explicitID)
            = Chosen(more[FirstOf(MatchesAt(more, explicitID))], TRUE)
      BY <2>3, <2>6, SelectionCases
    <3>3. SelectClientKey(more, explicitID).outcome # Selected.outcome
      BY <3>1, <3>2 DEF Chosen, Unchosen
    <3> QED
      BY <2>1, <3>3
  <2>7. CASE explicitID = NoText /\ ActiveAt(observed) = {}
    <3>1. Selected = Unchosen("no-active", {})
      BY <2>7, SelectionCases DEF Selected
    <3>2. ActiveAt(more) = {last}
      BY <2>1, <2>3, <2>7, AppendKeepsKeys DEF ActiveAt
    <3>3. SelectClientKey(more, explicitID)
            = Chosen(more[FirstOf(ActiveAt(more))], FALSE)
      BY <2>7, <3>2, SelectionCases DEF Sole
    <3>4. SelectClientKey(more, explicitID).outcome # Selected.outcome
      BY <3>1, <3>3 DEF Chosen, Unchosen
    <3> QED
      BY <2>1, <3>4
  <2>8. CASE explicitID = NoText /\ ActiveAt(observed) # {}
    <3>1. ~Sole(more)
      BY <2>3, <2>4, <2>5, <2>8 DEF Sole
    <3>2. SelectClientKey(more, explicitID)
            = Unchosen("ambiguous", {more[i].id : i \in ActiveAt(more)})
      BY <2>3, <2>8, <3>1, SelectionCases
    <3>3. SelectClientKey(more, explicitID).outcome = "ambiguous"
      BY <3>2 DEF Unchosen
    <3>4. Selected.outcome # "ambiguous"
      BY DEF ExhaustivenessDependent
    <3> QED
      BY <2>1, <3>3, <3>4
  <2>9. CASE explicitID # NoText /\ MatchesAt(observed, explicitID) # {}
    <3>1. Selected = Chosen(observed[FirstOf(MatchesAt(observed, explicitID))],
                            TRUE)
      BY <2>9, SelectionCases DEF Selected
    <3>2. FALSE
      BY <3>1 DEF Chosen, ExhaustivenessDependent
    <3> QED
      BY <3>2
  <2> QED
    BY <2>6, <2>7, <2>8, <2>9
<1> QED
  BY <1>1, TypeCorrect, PTL

-------------------------------------------------------------------------------
(* The order of the list.                                                    *)

\* A permutation of the positions of a list.
Permutes(p, keys) ==
    /\ p \in [DOMAIN keys -> DOMAIN keys]
    /\ \A i, j \in DOMAIN keys : p[i] = p[j] => i = j

Reordered(keys, p) == [i \in DOMAIN keys |-> keys[p[i]]]

\* It reaches every position.
LEMMA PermutationCovers ==
    ASSUME NEW keys \in Seq(ClientKey), NEW p, Permutes(p, keys)
    PROVE  \A j \in DOMAIN keys : \E i \in DOMAIN keys : p[i] = j
<1>1. IsFiniteSet(DOMAIN keys)
  <2>1. DOMAIN keys = 1..Len(keys) /\ Len(keys) \in Int /\ 1 \in Int
    BY LenProperties
  <2> QED
    BY <2>1, FS_Interval
<1>2. p \in Injection(DOMAIN keys, DOMAIN keys)
  BY DEF Permutes, Injection, IsInjective
<1>3. p \in Surjection(DOMAIN keys, DOMAIN keys)
  BY <1>1, <1>2, FS_Injection
<1> QED
  BY <1>3 DEF Surjection

\* The active keys, and those of an id, are found where they went.
LEMMA ReorderedPositions ==
    ASSUME NEW keys, NEW p, Permutes(p, keys), NEW id
    PROVE  LET moved == Reordered(keys, p)
           IN  /\ ActiveAt(moved) = {i \in DOMAIN keys : p[i] \in ActiveAt(keys)}
               /\ MatchesAt(moved, id)
                    = {i \in DOMAIN keys : p[i] \in MatchesAt(keys, id)}
               /\ \A i \in DOMAIN keys : moved[i] = keys[p[i]]
  BY DEF Permutes, Reordered, ActiveAt, MatchesAt

\* Of keys with distinct ids, at most one bears an explicit id, and wherever it
\* stands it is the one selected.
LEMMA ExplicitOrderIrrelevant ==
    ASSUME NEW keys \in Seq(ClientKey), DistinctIDs(keys), NEW p,
           Permutes(p, keys), NEW id, id # NoText
    PROVE  SelectClientKey(Reordered(keys, p), id) = SelectClientKey(keys, id)
<1> DEFINE moved == Reordered(keys, p)
           M == MatchesAt(keys, id)
           N == MatchesAt(moved, id)
<1>1. DOMAIN keys \subseteq Nat
  BY LenProperties
<1>2. N = {i \in DOMAIN keys : p[i] \in M} /\ \A i \in DOMAIN keys : moved[i] = keys[p[i]]
  BY ReorderedPositions
<1>3. M \subseteq DOMAIN keys /\ \A i, j \in M : i = j
  BY DEF MatchesAt, DistinctIDs
<1>4. M = {} <=> N = {}
  BY <1>2, <1>3, PermutationCovers
<1>5. CASE M = {}
  BY <1>4, <1>5, SelectionCases
<1>6. CASE M # {}
  <2> HIDE DEF M, N, moved
  <2>1. FirstOf(M) \in M
    BY <1>1, <1>3, <1>6, FirstOfIsLeast
  <2>2. FirstOf(N) \in N
    <3>1. N \subseteq Nat /\ N # {}
      BY <1>1, <1>2, <1>4, <1>6
    <3> QED
      BY <3>1, FirstOfIsLeast
  <2>3. p[FirstOf(N)] = FirstOf(M)
    BY <1>2, <1>3, <2>1, <2>2
  <2>4. moved[FirstOf(N)] = keys[FirstOf(M)]
    BY <1>2, <2>2, <2>3
  <2>5. /\ SelectClientKey(keys, id) = Chosen(keys[FirstOf(M)], TRUE)
        /\ SelectClientKey(moved, id) = Chosen(moved[FirstOf(N)], TRUE)
    BY <1>4, <1>6, SelectionCases DEF M, N
  <2> QED
    BY <2>4, <2>5 DEF moved
<1> QED
  BY <1>5, <1>6

\* Without an explicit id, as many keys are active in any order, and they bear
\* the same ids.
LEMMA SoleOrderIrrelevant ==
    ASSUME NEW keys \in Seq(ClientKey), NEW p, Permutes(p, keys)
    PROVE  SelectClientKey(Reordered(keys, p), NoText)
             = SelectClientKey(keys, NoText)
<1> DEFINE moved == Reordered(keys, p)
           A == ActiveAt(keys)
           B == ActiveAt(moved)
<1>1. DOMAIN keys \subseteq Nat
  BY LenProperties
<1>2. B = {i \in DOMAIN keys : p[i] \in A} /\ \A i \in DOMAIN keys : moved[i] = keys[p[i]]
  BY ReorderedPositions
<1>3. A \subseteq DOMAIN keys
  BY DEF ActiveAt
<1>4. \A a \in A : \E b \in B : p[b] = a
  BY <1>2, <1>3, PermutationCovers
<1>5. \A b \in B : b \in DOMAIN keys /\ p[b] \in A /\ moved[b] = keys[p[b]]
  BY <1>2
<1>6. \A b, c \in B : p[b] = p[c] => b = c
  BY <1>5 DEF Permutes
<1>7. A = {} <=> B = {}
  BY <1>4, <1>5
<1>8. Sole(keys) <=> Sole(moved)
  <2> HIDE DEF A, B, moved
  <2>1. (\E i \in A : A = {i}) <=> (\E i \in B : B = {i})
    <3>1. ASSUME NEW i \in A, A = {i} PROVE \E b \in B : B = {b}
      <4>1. PICK b \in B : p[b] = i
        BY <1>4
      <4>2. \A c \in B : p[c] = i
        BY <1>5, <3>1
      <4> QED
        BY <1>6, <4>1, <4>2
    <3>2. ASSUME NEW b \in B, B = {b} PROVE \E a \in A : A = {a}
      <4>1. p[b] \in A
        BY <1>5
      <4>2. \A a \in A : a = p[b]
        BY <1>4, <3>2
      <4> QED
        BY <4>1, <4>2
    <3> QED
      BY <3>1, <3>2
  <2> QED
    BY <2>1 DEF Sole, A, B
<1>9. CASE A = {}
  BY <1>7, <1>9, SelectionCases
<1>10. CASE Sole(keys)
  <2>1. PICK a \in A : A = {a}
    BY <1>10 DEF Sole
  <2> HIDE DEF A, B, moved
  <2>2. FirstOf(A) \in A
    BY <1>1, <1>3, <2>1, FirstOfIsLeast
  <2>3. FirstOf(B) \in B
    <3>1. B \subseteq Nat /\ B # {}
      BY <1>1, <1>5, <1>7, <2>1
    <3> QED
      BY <3>1, FirstOfIsLeast
  <2>4. moved[FirstOf(B)] = keys[FirstOf(A)]
    BY <1>5, <2>1, <2>2, <2>3
  <2>5. /\ SelectClientKey(keys, NoText) = Chosen(keys[FirstOf(A)], FALSE)
        /\ SelectClientKey(moved, NoText) = Chosen(moved[FirstOf(B)], FALSE)
    BY <1>8, <1>10, SelectionCases DEF A, B
  <2> QED
    BY <2>4, <2>5 DEF moved
<1>11. CASE A # {} /\ ~Sole(keys)
  <2>1. /\ SelectClientKey(keys, NoText)
             = Unchosen("ambiguous", {keys[i].id : i \in A})
        /\ SelectClientKey(moved, NoText)
             = Unchosen("ambiguous", {moved[i].id : i \in B})
    BY <1>7, <1>8, <1>11, SelectionCases
  <2> HIDE DEF A, B, moved
  <2>2. {keys[i].id : i \in A} = {moved[i].id : i \in B}
    BY <1>4, <1>5
  <2> QED
    BY <2>1, <2>2 DEF moved
<1> QED
  BY <1>9, <1>10, <1>11

\* No list order decides which key is selected: over keys with distinct ids,
\* of any number, every order gives the same selection; without an explicit id,
\* repeated ids make no difference either.
THEOREM OrderNeverDecides == Spec => []OrderIrrelevant
<1>1. TypeOK => OrderIrrelevant
  <2> SUFFICES ASSUME TypeOK, DistinctIDs(observed),
                      NEW keys \in Reorderings(observed)
               PROVE  SelectClientKey(keys, explicitID) = Selected
    BY DEF OrderIrrelevant
  <2>1. PICK p : Permutes(p, observed) /\ keys = Reordered(observed, p)
    BY DEF Reorderings, Permutes, Reordered
  <2>2. observed \in Seq(ClientKey)
    BY DEF TypeOK
  <2>3. CASE explicitID = NoText
    BY <2>1, <2>2, <2>3, SoleOrderIrrelevant DEF Selected
  <2>4. CASE explicitID # NoText
    BY <2>1, <2>2, <2>4, ExplicitOrderIrrelevant DEF Selected
  <2> QED
    BY <2>3, <2>4
<1> QED
  BY <1>1, TypeCorrect, PTL

===============================================================================
