--------------------------- MODULE RegroupLoopProofs --------------------------
(***************************************************************************)
(* Proofs about the regrouping of the forwarded selectors, for every list  *)
(* Sentry may answer with and every order of Go's map iteration.           *)
(***************************************************************************)
EXTENDS RegroupLoop, SharedProofs

-------------------------------------------------------------------------------
(* What sort.Ints does to the indices: the k-th smallest exists, the k-th    *)
(* smallest grow with k, and each index is the k-th smallest for some k.     *)

\* The elements of a set of indices below a bound.
Below(S, n) == {j \in S : j < n}

\* Indices are naturals below the bound.
LEMMA IndicesAreNaturals ==
    ASSUME NEW bound \in Nat, NEW S \in SUBSET (0..(bound - 1)), NEW i \in S
    PROVE  i \in Nat /\ i < bound
<1>1. i \in 0..(bound - 1)
  OBVIOUS
<1> QED
  BY <1>1

\* A bounded set of indices, and each part of it, is finite.
LEMMA BelowCounts ==
    ASSUME NEW bound \in Nat, NEW S \in SUBSET (0..(bound - 1)), NEW n
    PROVE  /\ IsFiniteSet(S) /\ Cardinality(S) \in Nat
           /\ IsFiniteSet(Below(S, n)) /\ Cardinality(Below(S, n)) \in Nat
<1>1. IsFiniteSet(0..(bound - 1))
  BY FS_Interval
<1>2. IsFiniteSet(S)
  BY <1>1, FS_Subset
<1>3. Below(S, n) \in SUBSET S
  BY DEF Below
<1> QED
  BY <1>2, <1>3, FS_Subset, FS_CardinalityType

\* An index below another has fewer indices below it, and itself counts.
LEMMA BelowGrows ==
    ASSUME NEW bound \in Nat, NEW S \in SUBSET (0..(bound - 1)),
           NEW i \in S, NEW n \in Nat, i < n
    PROVE  Cardinality(Below(S, i)) + 1 <= Cardinality(Below(S, n))
<1> DEFINE low == Below(S, i) \cup {i}
<1>1. IsFiniteSet(Below(S, i)) /\ IsFiniteSet(Below(S, n))
  BY BelowCounts
<1>2. Cardinality(low) = Cardinality(Below(S, i)) + 1
  <2>1. i \notin Below(S, i)
    BY DEF Below
  <2> QED
    BY <1>1, <2>1, FS_AddElement
<1>3. low \in SUBSET Below(S, n)
  <2>1. i \in Nat /\ \A j \in S : j \in Nat
    BY IndicesAreNaturals
  <2>2. \A j \in S : j < i => j < n
    BY <2>1
  <2> QED
    BY <2>2 DEF Below
<1>4. Cardinality(low) <= Cardinality(Below(S, n))
  BY <1>1, <1>3, FS_Subset
<1> QED
  BY <1>2, <1>4

\* Below a bound of the set lies all of it.
LEMMA BelowBound ==
    ASSUME NEW bound \in Nat, NEW S \in SUBSET (0..(bound - 1))
    PROVE  Below(S, bound) = S
  BY IndicesAreNaturals DEF Below

\* Some index has exactly k - 1 indices below it: the last one below the first
\* bound that has k of them below it.
LEMMA NthExists ==
    ASSUME NEW bound \in Nat, NEW S \in SUBSET (0..(bound - 1)),
           NEW k \in 1..Cardinality(S)
    PROVE  \E i \in S : Cardinality(Below(S, i)) = k - 1
<1> DEFINE enough == {n \in Nat : Cardinality(Below(S, n)) >= k}
<1>1. /\ \A n \in Nat : Cardinality(Below(S, n)) \in Nat
      /\ \A n \in Nat : IsFiniteSet(Below(S, n))
      /\ Cardinality(S) \in Nat
  BY BelowCounts
<1>2. bound \in enough
  BY <1>1, BelowBound
<1>3. enough # {} /\ enough \subseteq Nat
  BY <1>2
<1>4. PICK n \in enough : \A m \in enough : n <= m
  <2> HIDE DEF enough
  <2> QED
    BY <1>3, FirstOfIsLeast
<1>5. n \in Nat /\ Cardinality(Below(S, n)) >= k
  BY <1>4
<1>6. n # 0
  <2>1. Below(S, 0) = {}
    <3>1. \A j \in S : ~(j < 0)
      BY IndicesAreNaturals
    <3> QED
      BY <3>1 DEF Below
  <2>2. Cardinality(Below(S, 0)) = 0
    BY <2>1, FS_EmptySet
  <2> QED
    BY <1>5, <2>2
<1>7. n - 1 \in Nat /\ n - 1 < n
  BY <1>5, <1>6
<1>8. Cardinality(Below(S, n - 1)) < k
  BY <1>1, <1>4, <1>5, <1>7
<1>9. Below(S, n) = IF n - 1 \in S THEN Below(S, n - 1) \cup {n - 1}
                                   ELSE Below(S, n - 1)
  <2>1. \A j \in S : j < n <=> j < n - 1 \/ j = n - 1
    BY <1>5, IndicesAreNaturals
  <2> QED
    BY <2>1, <1>7 DEF Below
<1>10. n - 1 \in S
  BY <1>1, <1>5, <1>7, <1>8, <1>9
<1>11. n - 1 \notin Below(S, n - 1)
  BY <1>7 DEF Below
<1>12. Cardinality(Below(S, n)) = Cardinality(Below(S, n - 1)) + 1
  BY <1>1, <1>7, <1>9, <1>10, <1>11, FS_AddElement
<1>13. Cardinality(Below(S, n - 1)) = k - 1
  BY <1>1, <1>5, <1>7, <1>8, <1>12
<1> QED
  BY <1>10, <1>13

\* So NthSmallest picks it.
LEMMA NthIsNth ==
    ASSUME NEW bound \in Nat, NEW S \in SUBSET (0..(bound - 1)),
           NEW k \in 1..Cardinality(S)
    PROVE  /\ NthSmallest(S, k) \in S
           /\ Cardinality(Below(S, NthSmallest(S, k))) = k - 1
  BY NthExists DEF NthSmallest, Below

\* The sort is strict: a later position holds a larger index.
LEMMA NthGrows ==
    ASSUME NEW bound \in Nat, NEW S \in SUBSET (0..(bound - 1)),
           NEW j \in 1..Cardinality(S), NEW k \in 1..Cardinality(S), j < k
    PROVE  NthSmallest(S, j) < NthSmallest(S, k)
<1> DEFINE a == NthSmallest(S, j)
           b == NthSmallest(S, k)
<1>1. /\ a \in S /\ Cardinality(Below(S, a)) = j - 1
      /\ b \in S /\ Cardinality(Below(S, b)) = k - 1
  BY NthIsNth
<1>2. a \in Nat /\ b \in Nat
  BY <1>1, IndicesAreNaturals
<1>3. j \in Nat /\ k \in Nat
  OBVIOUS
<1> HIDE DEF a, b
<1>4. ASSUME b < a PROVE FALSE
  <2>1. Cardinality(Below(S, b)) + 1 <= Cardinality(Below(S, a))
    BY <1>1, <1>2, <1>4, BelowGrows
  <2> QED
    BY <1>1, <1>3, <2>1
<1>5. a # b
  BY <1>1, <1>3
<1>6. a < b
  BY <1>2, <1>4, <1>5
<1> QED
  BY <1>6 DEF a, b

\* The sort loses no index.
LEMMA NthCovers ==
    ASSUME NEW bound \in Nat, NEW S \in SUBSET (0..(bound - 1)), NEW i \in S
    PROVE  \E k \in 1..Cardinality(S) : NthSmallest(S, k) = i
<1> DEFINE k == Cardinality(Below(S, i)) + 1
           found == NthSmallest(S, k)
<1>1. Cardinality(Below(S, i)) \in Nat /\ Cardinality(S) \in Nat
  BY BelowCounts
<1>2. k <= Cardinality(S)
  BY IndicesAreNaturals, BelowGrows, BelowBound
<1>3. k \in 1..Cardinality(S)
  BY <1>1, <1>2
<1>4. found \in S /\ Cardinality(Below(S, found)) = k - 1
  <2> HIDE DEF k
  <2> QED
    BY <1>3, NthIsNth
<1>5. Cardinality(Below(S, found)) = Cardinality(Below(S, i))
  BY <1>1, <1>4
<1> HIDE DEF found, k
<1>6. found \in Nat /\ i \in Nat
  BY <1>4, IndicesAreNaturals
<1>7. ~(found < i)
  <2>1. SUFFICES ASSUME found < i PROVE FALSE
    OBVIOUS
  <2>2. Cardinality(Below(S, found)) + 1 <= Cardinality(Below(S, i))
    BY <1>4, <1>6, <2>1, BelowGrows
  <2> QED
    BY <1>1, <1>5, <2>2
<1>8. ~(i < found)
  <2>1. SUFFICES ASSUME i < found PROVE FALSE
    OBVIOUS
  <2>2. Cardinality(Below(S, i)) + 1 <= Cardinality(Below(S, found))
    BY <1>4, <1>6, <2>1, BelowGrows
  <2> QED
    BY <1>1, <1>5, <2>2
<1>9. found = i
  BY <1>6, <1>7, <1>8
<1> QED
  BY <1>3, <1>9 DEF found

-------------------------------------------------------------------------------
(* The loop.                                                                 *)

\* The selectors are pairs of an index and an attribute.
Selectors == Nat \X (ForwardSafe \cup SuppressReportPresence)

\* The loop's inductive invariant.
Loop == /\ body \in Bodies
        /\ fields = FilterKeyList(body)
        /\ visited \subseteq DOMAIN fields
        /\ EntriesOfVisited
        /\ OrderIndependent
        /\ pc \in {"range", "returned"}
        /\ pc = "range" => keys = << >>

\* The host forwards selectors of safe attributes only.
LEMMA FilteredSelectors ==
    ASSUME NEW b \in Bodies
    PROVE  DOMAIN FilterKeyList(b) \subseteq Nat \X ForwardSafe
<1>1. Len(b) \in Nat
  BY BodiesAssumption
<1>2. IndicesOf(b) \subseteq Nat
  BY <1>1 DEF IndicesOf
<1> QED
  BY <1>2 DEF FilterKeyList, ForwardedSelectors

\* The switch over the suffix writes one field of the entry, or none.
LEMMA AssignWritesOneField ==
    ASSUME NEW x, NEW y, NEW z, NEW a, NEW v
    PROVE  Assign([id |-> x, active |-> y, dsn |-> z], a, v)
             = [id     |-> IF a = ".id" THEN v ELSE x,
                active |-> IF a = ".isActive" THEN v ELSE y,
                dsn    |-> IF a = ".dsn.public" THEN v ELSE z]
<1>1. CASE a = ".id"
  BY <1>1 DEF Assign
<1>2. CASE a = ".isActive"
  BY <1>2 DEF Assign
<1>3. CASE a = ".dsn.public"
  BY <1>3 DEF Assign
<1>4. CASE a \notin {".id", ".isActive", ".dsn.public"}
  BY <1>4 DEF Assign
<1> QED
  BY <1>1, <1>2, <1>3, <1>4

\* One turn of the loop: the entries of one more selector are those of the
\* selectors before it, with that selector's attribute assigned.
LEMMA EntriesGrow ==
    ASSUME NEW f, NEW V \in SUBSET Selectors, NEW s \in Selectors \ V
    PROVE  LET old == Entries([t \in V |-> f[t]])
           IN  Entries([t \in V \cup {s} |-> f[t]])
                 = [i \in DOMAIN old \cup {s[1]} |->
                      IF i # s[1] THEN old[i]
                      ELSE Assign(IF i \in DOMAIN old THEN old[i]
                                                      ELSE ZeroEntry,
                                  s[2], f[s])]
<1> DEFINE before == [t \in V |-> f[t]]
           after  == [t \in V \cup {s} |-> f[t]]
           old    == Entries(before)
           new    == Entries(after)
           step   == [i \in DOMAIN old \cup {s[1]} |->
                        IF i # s[1] THEN old[i]
                        ELSE Assign(IF i \in DOMAIN old THEN old[i]
                                                        ELSE ZeroEntry,
                                    s[2], f[s])]
<1>1. DOMAIN new = DOMAIN old \cup {s[1]}
  BY DEF Entries
<1>2. ASSUME NEW i \in DOMAIN new PROVE new[i] = step[i]
  <2>1. \A a, z : Forwarded(after, i, a, z)
                    = IF <<i, a>> = s THEN f[s] ELSE Forwarded(before, i, a, z)
    BY DEF Forwarded
  <2>2. s = <<s[1], s[2]>>
    BY DEF Selectors
  <2>3. new[i] = [id     |-> Forwarded(after, i, ".id", NoText),
                  active |-> Forwarded(after, i, ".isActive", FALSE),
                  dsn    |-> Forwarded(after, i, ".dsn.public", NoText)]
    BY <1>2 DEF Entries
  <2> DEFINE prior == [id     |-> Forwarded(before, i, ".id", NoText),
                       active |-> Forwarded(before, i, ".isActive", FALSE),
                       dsn    |-> Forwarded(before, i, ".dsn.public", NoText)]
  <2>4. i \in DOMAIN old => old[i] = prior
    BY DEF Entries
  <2>5. i \notin DOMAIN old => prior = ZeroEntry
    <3>1. SUFFICES ASSUME i \notin DOMAIN old PROVE prior = ZeroEntry
      OBVIOUS
    <3>2. \A t \in V : t[1] # i
      BY <3>1 DEF Entries
    <3>3. \A a : <<i, a>> \notin DOMAIN before
      BY <3>2
    <3>4. \A a, z : Forwarded(before, i, a, z) = z
      BY <3>3 DEF Forwarded
    <3> QED
      BY <3>4 DEF ZeroEntry
  <2>6. CASE i # s[1]
    <3>1. \A a : <<i, a>> # s
      BY <2>2, <2>6
    <3>2. new[i] = prior
      BY <2>1, <2>3, <3>1
    <3>3. i \in DOMAIN old
      BY <1>1, <1>2, <2>6
    <3> QED
      BY <1>1, <2>4, <2>6, <3>2, <3>3
  <2>7. CASE i = s[1]
    <3>1. \A a : <<i, a>> = s <=> a = s[2]
      BY <2>2, <2>7
    <3>2. step[i] = Assign(prior, s[2], f[s])
      BY <2>4, <2>5, <2>7
    <3>3. new[i] = Assign(prior, s[2], f[s])
      <4> DEFINE pid     == Forwarded(before, i, ".id", NoText)
                 pactive == Forwarded(before, i, ".isActive", FALSE)
                 pdsn    == Forwarded(before, i, ".dsn.public", NoText)
      <4>1. new[i] = [id     |-> IF s[2] = ".id" THEN f[s] ELSE pid,
                      active |-> IF s[2] = ".isActive" THEN f[s] ELSE pactive,
                      dsn    |-> IF s[2] = ".dsn.public" THEN f[s] ELSE pdsn]
        BY <2>1, <2>3, <3>1
      <4> HIDE DEF pid, pactive, pdsn, new
      <4>2. Assign([id |-> pid, active |-> pactive, dsn |-> pdsn], s[2], f[s])
              = new[i]
        BY <4>1, AssignWritesOneField
      <4> QED
        BY <4>2 DEF pid, pactive, pdsn
    <3> QED
      BY <3>2, <3>3
  <2> QED
    BY <2>6, <2>7
<1>3. new = step
  BY <1>1, <1>2 DEF Entries
<1> QED
  BY <1>3

\* What a forwarded selector holds: the attribute of one element, of a kind
\* that the attribute's name tells.
LEMMA ForwardedValues ==
    ASSUME NEW b \in Bodies, NEW s \in DOMAIN FilterKeyList(b)
    PROVE  LET f == FilterKeyList(b)
           IN  /\ s[1] \in IndicesOf(b) /\ s[1] + 1 \in DOMAIN b
               /\ s[2] \in ForwardSafe \cap DOMAIN b[s[1] + 1]
               /\ s = <<s[1], s[2]>>
               /\ f[s] = b[s[1] + 1][s[2]]
               /\ s[2] = ".id" => f[s] \in KeyIds
               /\ s[2] = ".isActive" => f[s] \in BOOLEAN
               /\ s[2] = ".dsn.public" => f[s] \in Dsns
               /\ s[2] = ".label" => f[s] \in Labels
<1>1. Len(b) \in Nat /\ DOMAIN b = 1..Len(b)
  BY BodiesAssumption
<1>2. s \in ForwardedSelectors(b, ForwardSafe)
  BY DEF FilterKeyList
<1>3. /\ s[1] \in IndicesOf(b) /\ s[2] \in ForwardSafe
      /\ s = <<s[1], s[2]>> /\ s[2] \in DOMAIN b[s[1] + 1]
  BY <1>2 DEF ForwardedSelectors
<1>4. s[1] + 1 \in DOMAIN b
  BY <1>1, <1>3 DEF IndicesOf
<1>5. Carries(b[s[1] + 1])
  BY <1>4, BodiesAssumption
<1>6. FilterKeyList(b)[s] = b[s[1] + 1][s[2]]
  BY <1>2 DEF FilterKeyList
<1> QED
  BY <1>3, <1>4, <1>5, <1>6 DEF Carries

\* The entries made of any of the forwarded selectors are keys, at indices of
\* the list.
LEMMA EntriesTyped ==
    ASSUME NEW b \in Bodies, NEW V \in SUBSET DOMAIN FilterKeyList(b)
    PROVE  LET made == Entries([s \in V |-> FilterKeyList(b)[s]])
           IN  \A i \in DOMAIN made : i \in IndicesOf(b) /\ made[i] \in ClientKey
<1> DEFINE f == FilterKeyList(b)
           part == [s \in V |-> f[s]]
<1> SUFFICES ASSUME NEW i \in DOMAIN Entries(part)
             PROVE  i \in IndicesOf(b) /\ Entries(part)[i] \in ClientKey
  OBVIOUS
<1>1. i \in IndicesOf(b)
  BY ForwardedValues DEF Entries
<1>2. \A a, z : Forwarded(part, i, a, z)
                  = IF <<i, a>> \in V THEN f[<<i, a>>] ELSE z
  BY DEF Forwarded
<1>3. <<i, ".id">> \in V => f[<<i, ".id">>] \in KeyIds
  BY ForwardedValues
<1>4. <<i, ".isActive">> \in V => f[<<i, ".isActive">>] \in BOOLEAN
  BY ForwardedValues
<1>5. <<i, ".dsn.public">> \in V => f[<<i, ".dsn.public">>] \in Dsns
  BY ForwardedValues
<1> HIDE DEF f
<1>6. Entries(part)[i] = [id     |-> Forwarded(part, i, ".id", NoText),
                          active |-> Forwarded(part, i, ".isActive", FALSE),
                          dsn    |-> Forwarded(part, i, ".dsn.public", NoText)]
  BY DEF Entries
<1> HIDE DEF part
<1>7. /\ Forwarded(part, i, ".id", NoText) \in KeyIds \cup {NoText}
      /\ Forwarded(part, i, ".isActive", FALSE) \in BOOLEAN
      /\ Forwarded(part, i, ".dsn.public", NoText) \in Dsns \cup {NoText}
  BY <1>2, <1>3, <1>4, <1>5
<1>8. \A x \in KeyIds \cup {NoText}, y \in BOOLEAN, z \in Dsns \cup {NoText} :
        [id |-> x, active |-> y, dsn |-> z] \in ClientKey
  BY DEF ClientKey
<1> QED
  BY <1>1, <1>6, <1>7, <1>8, Zenon

\* With every selector taken, there is an entry for each element the policy
\* forwards something of, and it is that element's key.
LEMMA EntriesMirrorBody ==
    ASSUME NEW b \in Bodies
    PROVE  LET made == Entries(FilterKeyList(b))
           IN  /\ DOMAIN made = {i \in IndicesOf(b) : HasForwarded(b[i + 1])}
               /\ \A i \in DOMAIN made : made[i] = KeyOf(b[i + 1])
<1> DEFINE f == FilterKeyList(b)
           made == Entries(f)
<1>1. \A i, a : <<i, a>> \in DOMAIN f
                  <=> /\ i \in IndicesOf(b)
                      /\ a \in ForwardSafe \cap DOMAIN b[i + 1]
  BY DEF FilterKeyList, ForwardedSelectors
<1>2. \A s \in DOMAIN f : s = <<s[1], s[2]>>
  BY ForwardedValues
<1>3. DOMAIN made = {s[1] : s \in DOMAIN f}
  BY DEF Entries
<1>4. ASSUME NEW i
      PROVE  i \in DOMAIN made
               <=> i \in IndicesOf(b) /\ HasForwarded(b[i + 1])
  <2>1. ASSUME i \in DOMAIN made
        PROVE  i \in IndicesOf(b) /\ HasForwarded(b[i + 1])
    BY <1>3, <2>1, ForwardedValues DEF HasForwarded
  <2>2. ASSUME i \in IndicesOf(b), HasForwarded(b[i + 1])
        PROVE  i \in DOMAIN made
    <3>1. PICK a : a \in ForwardSafe \cap DOMAIN b[i + 1]
      BY <2>2 DEF HasForwarded
    <3>2. <<i, a>> \in DOMAIN f
      BY <1>1, <2>2, <3>1
    <3> QED
      BY <1>3, <3>2
  <2> QED
    BY <2>1, <2>2
<1>5. ASSUME NEW i \in DOMAIN made PROVE made[i] = KeyOf(b[i + 1])
  <2>1. i \in IndicesOf(b)
    BY <1>4
  <2>2. made[i] = [id     |-> Forwarded(f, i, ".id", NoText),
                   active |-> Forwarded(f, i, ".isActive", FALSE),
                   dsn    |-> Forwarded(f, i, ".dsn.public", NoText)]
    BY DEF Entries
  <2>3. \A a, z : a \in ForwardSafe =>
          Forwarded(f, i, a, z)
            = IF a \in DOMAIN b[i + 1] THEN b[i + 1][a] ELSE z
    <3>1. \A a : <<i, a>> \in DOMAIN f => f[<<i, a>>] = b[i + 1][a]
      BY DEF FilterKeyList
    <3> HIDE DEF f
    <3> QED
      BY <1>1, <2>1, <3>1 DEF Forwarded
  <2>4. ".isActive" \in DOMAIN b[i + 1] => b[i + 1][".isActive"] \in BOOLEAN
    <3>1. ".isActive" \in ForwardSafe
      BY DEF ForwardSafe
    <3>2. ".isActive" \in DOMAIN b[i + 1] => <<i, ".isActive">> \in DOMAIN f
      BY <1>1, <2>1, <3>1
    <3> QED
      BY <3>2, ForwardedValues
  <2> HIDE DEF f, made
  <2>5. /\ Forwarded(f, i, ".id", NoText) = KeyOf(b[i + 1]).id
        /\ Forwarded(f, i, ".dsn.public", NoText) = KeyOf(b[i + 1]).dsn
    BY <2>3 DEF KeyOf, ForwardSafe
  <2>6. Forwarded(f, i, ".isActive", FALSE) = KeyOf(b[i + 1]).active
    <3> DEFINE e == b[i + 1]
    <3>3. KeyOf(e).active = (".isActive" \in DOMAIN e /\ e[".isActive"])
      BY DEF KeyOf
    <3>4. ".isActive" \in ForwardSafe
      BY DEF ForwardSafe
    <3> HIDE DEF e
    <3>1. CASE ".isActive" \in DOMAIN e
      BY <2>3, <2>4, <3>1, <3>3, <3>4, Zenon DEF e
    <3>2. CASE ".isActive" \notin DOMAIN e
      BY <2>3, <3>2, <3>3, <3>4, Zenon DEF e
    <3> QED
      BY <3>1, <3>2
  <2> QED
    BY <2>2, <2>5, <2>6 DEF KeyOf
<1> HIDE DEF made
<1>6. DOMAIN made = {i \in IndicesOf(b) : HasForwarded(b[i + 1])}
  BY <1>4
<1> QED
  BY <1>5, <1>6 DEF made

\* Every turn, whichever selector it takes, keeps the loop's invariant.
LEMMA LoopKept == Spec => []Loop
<1>1. Init => Loop
  <2> SUFFICES ASSUME Init PROVE Loop
    OBVIOUS
  <2>1. EntriesOfVisited
    BY DEF Init, EntriesOfVisited, Entries
  <2> QED
    BY <2>1 DEF Init, Loop, OrderIndependent
<1>2. Loop /\ [Next]_vars => Loop'
  <2> SUFFICES ASSUME Loop, [Next]_vars PROVE Loop'
    OBVIOUS
  <2>1. CASE Turn
    <3>1. PICK s \in DOMAIN fields \ visited :
            Visit(s) /\ visited' = visited \cup {s}
      BY <2>1 DEF Turn
    <3>2. /\ body' = body /\ fields' = fields /\ keys' = keys
          /\ pc' = pc /\ pc = "range"
      BY <2>1 DEF Turn
    <3>3. visited \in SUBSET Selectors /\ s \in Selectors \ visited
      BY <3>1, FilteredSelectors DEF Loop, Selectors
    <3>4. byIndex' = Entries([t \in visited \cup {s} |-> fields[t]])
      <4> DEFINE old == Entries([t \in visited |-> fields[t]])
      <4>1. byIndex = old
        BY DEF Loop, EntriesOfVisited
      <4>2. byIndex' = [i \in DOMAIN byIndex \cup {s[1]} |->
                          IF i # s[1] THEN byIndex[i]
                          ELSE Assign(IF i \in DOMAIN byIndex THEN byIndex[i]
                                                              ELSE ZeroEntry,
                                      s[2], fields[s])]
        BY <3>1 DEF Visit
      <4>3. Entries([t \in visited \cup {s} |-> fields[t]])
              = [i \in DOMAIN old \cup {s[1]} |->
                   IF i # s[1] THEN old[i]
                   ELSE Assign(IF i \in DOMAIN old THEN old[i] ELSE ZeroEntry,
                               s[2], fields[s])]
        BY <3>3, EntriesGrow
      <4> HIDE DEF old
      <4> QED
        BY <4>1, <4>2, <4>3
    <3>5. EntriesOfVisited'
      BY <3>1, <3>2, <3>4 DEF EntriesOfVisited
    <3> QED
      BY <3>1, <3>2, <3>5 DEF Loop, OrderIndependent
  <2>2. CASE Return
    <3>1. UNCHANGED <<body, fields, visited, byIndex>>
      BY <2>2 DEF Return
    <3>2. fields = [t \in DOMAIN fields |-> fields[t]]
      BY DEF Loop, FilterKeyList
    <3> QED
      BY <2>2, <3>1, <3>2 DEF Return, Loop, EntriesOfVisited,
                              OrderIndependent, ClientKeysFromResponse
  <2>3. CASE UNCHANGED vars
    BY <2>3 DEF vars, Loop, EntriesOfVisited, OrderIndependent
  <2> QED
    BY <2>1, <2>2, <2>3 DEF Next
<1> QED
  BY <1>1, <1>2, PTL DEF Spec

\* Half-way through the map, the entries are those of the selectors taken so
\* far, in whatever order they came.
THEOREM EntriesFollowVisits == Spec => []EntriesOfVisited
<1>1. Loop => EntriesOfVisited
  BY DEF Loop
<1> QED
  BY <1>1, LoopKept, PTL

\* Every order of the map iteration returns the same keys.
THEOREM RegroupingIsOrderIndependent == Spec => []OrderIndependent
<1>1. Loop => OrderIndependent
  BY DEF Loop
<1> QED
  BY <1>1, LoopKept, PTL

-------------------------------------------------------------------------------
(* What the loop returns.                                                    *)

\* The position in Sentry's list of the k-th key returned.
Position(indices) ==
    [k \in 1..Cardinality(indices) |-> NthSmallest(indices, k) + 1]

\* The indices that have an entry lie within the list.
LEMMA EntryIndices ==
    ASSUME NEW b \in Bodies
    PROVE  LET S == DOMAIN Entries(FilterKeyList(b))
           IN  /\ Len(b) \in Nat /\ DOMAIN b = 1..Len(b)
               /\ S \in SUBSET (0..(Len(b) - 1))
               /\ Cardinality(S) \in Nat
<1>1. Len(b) \in Nat /\ DOMAIN b = 1..Len(b)
  BY BodiesAssumption
<1>2. DOMAIN Entries(FilterKeyList(b)) \in SUBSET (0..(Len(b) - 1))
  BY EntriesMirrorBody DEF IndicesOf
<1> QED
  BY <1>1, <1>2, BelowCounts

\* The keys returned for a list mirror it: there is a strictly growing choice
\* of positions, of exactly the elements that something was forwarded of, such
\* that each key returned is the key of its element.
LEMMA KeysMirror ==
    ASSUME NEW b \in Bodies
    PROVE  LET sorted == ClientKeysFromResponse(FilterKeyList(b))
           IN  \E at \in [DOMAIN sorted -> DOMAIN b] :
                 /\ \A j, k \in DOMAIN sorted : j < k => at[j] < at[k]
                 /\ {at[k] : k \in DOMAIN sorted}
                      = {i \in DOMAIN b : HasForwarded(b[i])}
                 /\ \A k \in DOMAIN sorted : sorted[k] = KeyOf(b[at[k]])
<1> DEFINE made   == Entries(FilterKeyList(b))
           S      == DOMAIN made
           sorted == ClientKeysFromResponse(FilterKeyList(b))
           at     == Position(S)
           n      == Cardinality(S)
<1>1. /\ Len(b) \in Nat /\ DOMAIN b = 1..Len(b)
      /\ S \in SUBSET (0..(Len(b) - 1)) /\ n \in Nat
  BY EntryIndices
<1>2. /\ S = {i \in IndicesOf(b) : HasForwarded(b[i + 1])}
      /\ \A i \in S : made[i] = KeyOf(b[i + 1])
  BY EntriesMirrorBody
<1>3. sorted = [k \in 1..n |-> made[NthSmallest(S, k)]]
  BY DEF ClientKeysFromResponse, SortedEntries
<1>4. at = [k \in 1..n |-> NthSmallest(S, k) + 1]
  BY DEF Position
<1> HIDE DEF made, sorted, at, S, n
<1>5. \A k \in 1..n : NthSmallest(S, k) \in S
  BY <1>1, NthIsNth DEF n
<1>6. \A i \in S : i \in Nat /\ i < Len(b) /\ i + 1 \in DOMAIN b
  BY <1>1, IndicesAreNaturals
<1>7. DOMAIN sorted = 1..n /\ DOMAIN at = 1..n
  BY <1>3, <1>4
<1>8. at \in [DOMAIN sorted -> DOMAIN b]
  BY <1>4, <1>5, <1>6, <1>7
<1>9. ASSUME NEW j \in 1..n, NEW k \in 1..n, j < k PROVE at[j] < at[k]
  <2>1. NthSmallest(S, j) < NthSmallest(S, k)
    BY <1>1, <1>9, NthGrows DEF n
  <2>2. NthSmallest(S, j) \in Nat /\ NthSmallest(S, k) \in Nat
    BY <1>5, <1>6
  <2>3. /\ at[j] = NthSmallest(S, j) + 1
        /\ at[k] = NthSmallest(S, k) + 1
    BY <1>4
  <2> QED
    BY <2>1, <2>2, <2>3
<1>10. {at[k] : k \in 1..n} = {i \in DOMAIN b : HasForwarded(b[i])}
  <2>1. ASSUME NEW k \in 1..n
        PROVE  at[k] \in DOMAIN b /\ HasForwarded(b[at[k]])
    <3>1. NthSmallest(S, k) \in S /\ at[k] = NthSmallest(S, k) + 1
      BY <1>4, <1>5
    <3> QED
      BY <1>2, <1>6, <3>1
  <2>2. ASSUME NEW i \in DOMAIN b, HasForwarded(b[i])
        PROVE  \E k \in 1..n : at[k] = i
    <3>1. i \in Nat /\ i - 1 \in IndicesOf(b) /\ (i - 1) + 1 = i
      BY <1>1 DEF IndicesOf
    <3>2. i - 1 \in S
      BY <1>2, <2>2, <3>1
    <3>3. PICK k \in 1..n : NthSmallest(S, k) = i - 1
      BY <1>1, <3>2, NthCovers DEF n
    <3> QED
      BY <1>4, <3>1, <3>3
  <2> QED
    BY <2>1, <2>2
<1>11. ASSUME NEW k \in 1..n PROVE sorted[k] = KeyOf(b[at[k]])
  <2>1. NthSmallest(S, k) \in S
    BY <1>5
  <2>2. at[k] = NthSmallest(S, k) + 1 /\ sorted[k] = made[NthSmallest(S, k)]
    BY <1>3, <1>4
  <2> QED
    BY <1>2, <2>1, <2>2
<1>12. /\ \A j, k \in DOMAIN sorted : j < k => at[j] < at[k]
       /\ {at[k] : k \in DOMAIN sorted} = {i \in DOMAIN b : HasForwarded(b[i])}
       /\ \A k \in DOMAIN sorted : sorted[k] = KeyOf(b[at[k]])
  BY <1>7, <1>9, <1>10, <1>11
<1> QED
  BY <1>8, <1>12 DEF sorted

\* Flattening and regrouping lose nothing and invent nothing: for every list
\* Sentry answers with, whatever its elements lack and in whatever order Go
\* ranges over the map, the keys returned are those of the elements the policy
\* forwards something of, in the list's order.
THEOREM RegroupingMirrorsTheList == Spec => []KeysMirrorBody
<1>1. Loop => KeysMirrorBody
  <2> SUFFICES ASSUME Loop, pc = "returned" PROVE KeysMirrorBody
    BY DEF KeysMirrorBody
  <2>1. body \in Bodies /\ keys = ClientKeysFromResponse(FilterKeyList(body))
    BY DEF Loop, OrderIndependent
  <2> QED
    BY <2>1, KeysMirror DEF KeysMirrorBody
<1> QED
  BY <1>1, LoopKept, PTL

\* The loop keeps its types: whatever the elements carry, each entry, and each
\* key returned, is a client key.
THEOREM RegroupTypeCorrect == Spec => []TypeOK
<1>1. Loop => TypeOK
  <2> SUFFICES ASSUME Loop PROVE TypeOK
    OBVIOUS
  <2>1. /\ body \in Bodies /\ fields = FilterKeyList(body)
        /\ visited \subseteq DOMAIN fields /\ pc \in {"range", "returned"}
    BY DEF Loop
  <2>2. \A i \in DOMAIN byIndex : i \in Nat /\ byIndex[i] \in ClientKey
    <3>1. byIndex = Entries([s \in visited |-> FilterKeyList(body)[s]])
      BY <2>1 DEF Loop, EntriesOfVisited
    <3>2. \A i \in DOMAIN byIndex :
            i \in IndicesOf(body) /\ byIndex[i] \in ClientKey
      BY <2>1, <3>1, EntriesTyped
    <3>3. Len(body) \in Nat
      BY <2>1, BodiesAssumption
    <3> QED
      BY <3>2, <3>3 DEF IndicesOf
  <2>3. \A k \in DOMAIN keys : keys[k] \in ClientKey
    <3>1. CASE pc = "range"
      <4>1. keys = << >>
        BY <3>1 DEF Loop
      <4> QED
        BY <4>1
    <3>2. CASE pc = "returned"
      <4> DEFINE f    == FilterKeyList(body)
                 made == Entries(f)
      <4>1. f = [s \in DOMAIN f |-> f[s]]
        BY DEF FilterKeyList
      <4>2. \A i \in DOMAIN made : made[i] \in ClientKey
        <5>1. \A i \in DOMAIN Entries([s \in DOMAIN f |-> f[s]]) :
                Entries([s \in DOMAIN f |-> f[s]])[i] \in ClientKey
          BY <2>1, EntriesTyped
        <5> QED
          BY <4>1, <5>1
      <4>3. keys = SortedEntries(made)
        BY <2>1, <3>2 DEF Loop, OrderIndependent, ClientKeysFromResponse
      <4>4. /\ DOMAIN made \in SUBSET (0..(Len(body) - 1))
            /\ Len(body) \in Nat
        BY <2>1, EntryIndices
      <4> HIDE DEF made
      <4>5. ASSUME NEW k \in 1..Cardinality(DOMAIN made)
            PROVE  NthSmallest(DOMAIN made, k) \in DOMAIN made
        BY <4>4, NthIsNth
      <4> QED
        BY <4>2, <4>3, <4>5 DEF SortedEntries
    <3> QED
      BY <2>1, <3>1, <3>2
  <2> QED
    BY <2>1, <2>2, <2>3 DEF TypeOK
<1> QED
  BY <1>1, LoopKept, PTL

===============================================================================
