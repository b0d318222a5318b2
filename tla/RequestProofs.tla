----------------------------- MODULE RequestProofs ----------------------------
(***************************************************************************)
(* What the id of a request guarantees, for any contexts, manifests and    *)
(* attempts: an answer belongs to the read that waits for it, a read is    *)
(* executed once in an attempt, and only with what the attempt admitted.   *)
(***************************************************************************)
EXTENDS RequestIdentity, SequenceTheorems, FiniteSetTheorems, TLAPS

-------------------------------------------------------------------------------
(* The inductive invariant.  A call is in an attempt the host opened; an     *)
(* answer delivered to it is that of an executed read or of its own.  The    *)
(* ledger keeps one entry for an id, and the id of an entry is the one its   *)
(* attempt and its read determine.                                           *)

Delivered == [answer : Answer, read : Addresses \X Descriptors \X Cursors,
              attempt : Nat \ {0}]

Call == [pc : {"idle", "project", "keys"}, attempt : DOMAIN AttemptIds,
         cursor : Cursors, complete : BOOLEAN,
         delivered : Delivered \cup {NoDelivery}]

Sent == [id : Ids, attempt : DOMAIN AttemptIds,
         read : Addresses \X Descriptors \X Cursors,
         origin : Origin, handle : Credential]

Typed ==
    /\ manifest \in Manifests
    /\ attempts \in Seq([address : Addresses, context : Contexts])
    /\ Len(attempts) <= Len(AttemptIds)
    /\ calls \in [Handlers -> Call]
    /\ progress \in [state : {"open", "complete", "failed"}, cursor : Cursors]
    /\ ledger \subseteq [request : Sent, answer : Answer]
    /\ faults \in 0..MaxFaults /\ losses \in 0..MaxLosses

\* A call under way is in an attempt the host opened; an idle one waits for
\* nothing.
CallsOpened ==
    \A h \in Handlers :
      IF calls[h].pc = "idle" THEN calls[h].delivered = NoDelivery
                              ELSE calls[h].attempt \in DOMAIN attempts

\* An entry was requested in an attempt the host opened, at its address, under
\* the id that its attempt and its read determine, which no other entry has.
LedgerSound ==
    /\ \A e \in ledger :
         LET request == e.request IN
         /\ request.attempt \in DOMAIN attempts
         /\ request.read[1] = attempts[request.attempt].address
         /\ request.id = CallbackID(AttemptID(request.attempt),
                                    request.read[2], request.read[3])
         /\ request.read[3] # "" => request.read[2] = "client-key.list"
    /\ \A e, f \in ledger : e.request.id = f.request.id => e = f

IInv == Typed /\ CallsOpened /\ LedgerSound /\ AnswerIsOwn /\ WithinAdmission

-------------------------------------------------------------------------------
(* What a request is built from. *)

\* Min returns a member of every non-empty set of naturals: the first match of a
\* search exists wherever there is a match.
LEMMA MinIsMember ==
    ASSUME NEW S, S \subseteq Nat, S # {}
    PROVE  Min(S) \in S
<1> DEFINE Below(i) == 0..(i - 1)
           T == {Below(i) : i \in S}
<1>1. T \subseteq FiniteSubsetsOf(Nat) /\ T # {}
  <2>1. ASSUME NEW i \in S PROVE Below(i) \in FiniteSubsetsOf(Nat)
    <3>1. i \in Nat /\ 0 \in Int /\ i - 1 \in Int
      OBVIOUS
    <3>2. IsFiniteSet(Below(i)) /\ Below(i) \subseteq Nat
      BY <3>1, FS_Interval
    <3> QED
      BY <3>2 DEF FiniteSubsetsOf
  <2> QED
    BY <2>1
<1>2. PICK x \in T : \A y \in T : <<y, x>> \notin StrictSubsetOrdering(Nat)
  BY <1>1, FS_StrictSubsetOrderingWellFounded, WFMin
<1>3. PICK m \in S : x = Below(m)
  OBVIOUS
<1>4. ASSUME NEW j \in S PROVE m =< j
  <2>1. SUFFICES ASSUME j < m PROVE FALSE
    OBVIOUS
  <2>2. Below(j) \in T /\ Below(j) \subseteq Nat /\ Below(m) \subseteq Nat
    OBVIOUS
  <2>3. Below(j) \subseteq Below(m) /\ j \in Below(m) /\ j \notin Below(j)
    BY <2>1
  <2>4. <<Below(j), Below(m)>> \in StrictSubsetOrdering(Nat)
    BY <2>2, <2>3 DEF StrictSubsetOrdering
  <2> QED
    BY <1>2, <1>3, <2>2, <2>4
<1> QED
  BY <1>4 DEF Min

\* The origin a request goes out through is one of those admitted, and admitted
\* for the rule "api".
LEMMA OriginAdmitted ==
    ASSUME NEW origins \in Seq(Origin), ApiOrigin(origins) # 0
    PROVE  /\ ApiOrigin(origins) \in DOMAIN origins
           /\ origins[ApiOrigin(origins)] \in Origin
           /\ origins[ApiOrigin(origins)].rule = "api"
<1> DEFINE I == {i \in 1..Len(origins) : origins[i].rule = "api"}
<1>1. ApiOrigin(origins) = IF I # {} THEN Min(I) ELSE 0
  BY DEF ApiOrigin, SelectInSeq
<1>2. I # {} => Min(I) \in I
  <2>1. I \subseteq Nat
    OBVIOUS
  <2> HIDE DEF I
  <2> QED
    BY <2>1, MinIsMember
<1>3. ApiOrigin(origins) \in I
  BY <1>1, <1>2
<1>4. DOMAIN origins = 1..Len(origins)
  BY LenProperties
<1>5. ApiOrigin(origins) \in 1..Len(origins)
  BY <1>3
<1>6. origins[ApiOrigin(origins)] \in Origin
  BY <1>5, ElementOfSeq
<1> QED
  BY <1>3, <1>4, <1>5, <1>6

\* And the handle it uses is one of those admitted, for management.
LEMMA HandleAdmitted ==
    ASSUME NEW credentials \in Seq(Credential), ManagementHandle(credentials) # 0
    PROVE  /\ ManagementHandle(credentials) \in DOMAIN credentials
           /\ credentials[ManagementHandle(credentials)] \in Credential
           /\ credentials[ManagementHandle(credentials)].purpose = "management"
<1> DEFINE I == {i \in 1..Len(credentials) : credentials[i].purpose = "management"}
<1>1. ManagementHandle(credentials) = IF I # {} THEN Min(I) ELSE 0
  BY DEF ManagementHandle, SelectInSeq
<1>2. I # {} => Min(I) \in I
  <2>1. I \subseteq Nat
    OBVIOUS
  <2> HIDE DEF I
  <2> QED
    BY <2>1, MinIsMember
<1>3. ManagementHandle(credentials) \in I
  BY <1>1, <1>2
<1>4. DOMAIN credentials = 1..Len(credentials)
  BY LenProperties
<1>5. ManagementHandle(credentials) \in 1..Len(credentials)
  BY <1>3
<1>6. credentials[ManagementHandle(credentials)] \in Credential
  BY <1>5, ElementOfSeq
<1> QED
  BY <1>3, <1>4, <1>5, <1>6

-------------------------------------------------------------------------------
(* The id. *)

\* Two and three segments joined.
LEMMA Joined ==
    ASSUME NEW S, NEW a \in S, NEW b \in S, NEW c \in S
    PROVE  /\ <<a>> \o <<b>> = <<a, b>> /\ <<a, b>> \o <<c>> = <<a, b, c>>
           /\ <<a>> \o <<b, c>> = <<a, b, c>>
<1>1. /\ <<a>> \in Seq(S) /\ Len(<<a>>) = 1
      /\ <<b>> \in Seq(S) /\ Len(<<b>>) = 1
      /\ <<c>> \in Seq(S) /\ Len(<<c>>) = 1
      /\ <<a, b>> \in Seq(S) /\ Len(<<a, b>>) = 2
      /\ <<b, c>> \in Seq(S) /\ Len(<<b, c>>) = 2
      /\ <<a, b, c>> \in Seq(S) /\ Len(<<a, b, c>>) = 3
  OBVIOUS
<1>2. <<a>> \o <<b>> = <<a, b>>
  <2>1. /\ <<a>> \o <<b>> \in Seq(S) /\ Len(<<a>> \o <<b>>) = 2
        /\ \A i \in 1..2 : (<<a>> \o <<b>>)[i]
                             = IF i <= 1 THEN <<a>>[i] ELSE <<b>>[i - 1]
    BY <1>1, ConcatProperties
  <2>2. \A i \in 1..2 : (<<a>> \o <<b>>)[i] = <<a, b>>[i]
    BY <2>1
  <2> QED
    BY <1>1, <2>1, <2>2, SeqEqual
<1>3. <<a, b>> \o <<c>> = <<a, b, c>>
  <2>1. /\ <<a, b>> \o <<c>> \in Seq(S) /\ Len(<<a, b>> \o <<c>>) = 3
        /\ \A i \in 1..3 : (<<a, b>> \o <<c>>)[i]
                             = IF i <= 2 THEN <<a, b>>[i] ELSE <<c>>[i - 2]
    BY <1>1, ConcatProperties
  <2>2. \A i \in 1..3 : (<<a, b>> \o <<c>>)[i] = <<a, b, c>>[i]
    BY <2>1
  <2> QED
    BY <1>1, <2>1, <2>2, SeqEqual
<1>4. <<a>> \o <<b, c>> = <<a, b, c>>
  <2>1. /\ <<a>> \o <<b, c>> \in Seq(S) /\ Len(<<a>> \o <<b, c>>) = 3
        /\ \A i \in 1..3 : (<<a>> \o <<b, c>>)[i]
                             = IF i <= 1 THEN <<a>>[i] ELSE <<b, c>>[i - 1]
    BY <1>1, ConcatProperties
  <2>2. \A i \in 1..3 : (<<a>> \o <<b, c>>)[i] = <<a, b, c>>[i]
    BY <2>1
  <2> QED
    BY <1>1, <2>1, <2>2, SeqEqual
<1> QED
  BY <1>2, <1>3, <1>4

\* The segments of an id, written out for each case of an absent attempt id and
\* an absent cursor.
LEMMA CallbackIDSegments ==
    ASSUME NEW S, NEW attempt \in S, NEW descriptor \in S, NEW cursor \in S
    PROVE  CallbackID(attempt, descriptor, cursor) =
             IF attempt = NoText
               THEN IF cursor = "" THEN <<descriptor>> ELSE <<descriptor, cursor>>
               ELSE IF cursor = "" THEN <<attempt, descriptor>>
                                   ELSE <<attempt, descriptor, cursor>>
<1> DEFINE before == IF attempt = NoText THEN << >> ELSE <<attempt>>
           after  == IF cursor = "" THEN << >> ELSE <<cursor>>
           both   == IF attempt = NoText THEN <<descriptor>>
                                         ELSE <<attempt, descriptor>>
<1>1. /\ << >> \in Seq(S) /\ <<descriptor>> \in Seq(S) /\ <<attempt>> \in Seq(S)
      /\ <<cursor>> \in Seq(S) /\ <<attempt, descriptor>> \in Seq(S)
  OBVIOUS
<1>2. before \o <<descriptor>> = both
  <2>1. << >> \o <<descriptor>> = <<descriptor>>
    BY <1>1, ConcatEmptySeq
  <2>2. <<attempt>> \o <<descriptor>> = <<attempt, descriptor>>
    BY Joined
  <2> QED
    BY <2>1, <2>2
<1>3. both \in Seq(S) /\ before \in Seq(S) /\ after \in Seq(S)
  BY <1>1
<1>4. CallbackID(attempt, descriptor, cursor) = both \o after
  BY <1>2 DEF CallbackID
<1>5. CASE cursor = ""
  <2>1. both \o << >> = both
    BY <1>3, ConcatEmptySeq
  <2> QED
    BY <1>4, <1>5, <2>1
<1>6. CASE cursor # ""
  <2>1. <<descriptor>> \o <<cursor>> = <<descriptor, cursor>>
    BY Joined
  <2>2. <<attempt, descriptor>> \o <<cursor>> = <<attempt, descriptor, cursor>>
    BY Joined
  <2> QED
    BY <1>4, <1>6, <2>1, <2>2
<1> QED
  BY <1>5, <1>6

\* The id of an attempt that has one is nobody else's: it tells the attempt, the
\* descriptor and the cursor apart from those of every other request, requests
\* of attempts without an id included, although the code joins the segments
\* without saying which of them are there.
THEOREM CallbackIDInjective ==
    ASSUME NEW x, NEW y, x # NoText,
           NEW d \in Descriptors, NEW e \in Descriptors,
           NEW c \in Cursors, NEW b \in Cursors,
           CallbackID(x, d, c) = CallbackID(y, e, b)
    PROVE  x = y /\ d = e /\ c = b
<1> DEFINE S == {x, y, d, e, c, b}
<1>1. d \notin Cursors /\ e \notin Cursors
  BY DEF Descriptors, Cursors, SecondPage, Restart
<1>2. x \in S /\ y \in S /\ d \in S /\ e \in S /\ c \in S /\ b \in S
  OBVIOUS
<1> HIDE DEF S
<1>3. CallbackID(x, d, c) = IF c = "" THEN <<x, d>> ELSE <<x, d, c>>
  BY <1>2, CallbackIDSegments
<1>4. CallbackID(y, e, b) =
        IF y = NoText THEN IF b = "" THEN <<e>> ELSE <<e, b>>
                      ELSE IF b = "" THEN <<y, e>> ELSE <<y, e, b>>
  BY <1>2, CallbackIDSegments
<1>5. /\ <<x, d>> # <<e>> /\ <<x, d>> # <<y, e, b>>
      /\ <<x, d, c>> # <<e>> /\ <<x, d, c>> # <<e, b>> /\ <<x, d, c>> # <<y, e>>
  <2>1. /\ Len(<<e>>) = 1 /\ Len(<<x, d>>) = 2 /\ Len(<<e, b>>) = 2
        /\ Len(<<y, e>>) = 2 /\ Len(<<x, d, c>>) = 3 /\ Len(<<y, e, b>>) = 3
    OBVIOUS
  <2> QED
    BY <2>1
<1>6. /\ <<x, d>> = <<e, b>> => d = b
      /\ <<x, d>> = <<y, e>> => x = y /\ d = e
      /\ <<x, d, c>> = <<y, e, b>> => x = y /\ d = e /\ c = b
  OBVIOUS
<1> QED
  BY <1>1, <1>3, <1>4, <1>5, <1>6

\* Only the list of keys is read with a cursor, so the ids that occur are Ids.
LEMMA CallbackIDTyped ==
    ASSUME NEW n \in DOMAIN AttemptIds, NEW named \in BOOLEAN,
           NEW d \in Descriptors, NEW c \in Cursors,
           c # "" => d = "client-key.list"
    PROVE  CallbackID(IF named THEN AttemptIds[n] ELSE NoText, d, c) \in Ids
<1> DEFINE Reads == {<<"project.retrieve">>, <<"client-key.list">>}
                      \cup {<<"client-key.list", k>> : k \in Cursors \ {""}}
           read == IF c = "" THEN <<d>> ELSE <<d, c>>
           x == IF named THEN AttemptIds[n] ELSE NoText
           S == {x, d, c}
<1>1. x \in S /\ d \in S /\ c \in S
  OBVIOUS
<1>2. read \in Reads
  BY DEF Descriptors
<1>3. CallbackID(x, d, c) =
        IF x = NoText THEN read ELSE IF c = "" THEN <<x, d>> ELSE <<x, d, c>>
  <2> HIDE DEF S, x
  <2> QED
    BY <1>1, CallbackIDSegments
<1>4. CASE named
  <2>1. x = AttemptIds[n] /\ x # NoText
    BY <1>4, RequestAssumption
  <2>2. CallbackID(x, d, c) = <<AttemptIds[n]>> \o read
    <3>1. <<x>> \o <<d>> = <<x, d>> /\ <<x>> \o <<d, c>> = <<x, d, c>>
      BY <1>1, Joined
    <3> HIDE DEF x
    <3> QED
      BY <1>3, <2>1, <3>1
  <2> DEFINE Scoped == UNION {{<<AttemptIds[k]>> \o s : s \in Reads} :
                                k \in DOMAIN AttemptIds}
  <2>3. CallbackID(x, d, c) \in Scoped
    <3> HIDE DEF read, Reads, x
    <3>1. <<AttemptIds[n]>> \o read \in {<<AttemptIds[n]>> \o s : s \in Reads}
      BY <1>2
    <3> QED
      BY <2>2, <3>1
  <2>4. Ids = Reads \cup Scoped
    BY DEF Ids
  <2> HIDE DEF Reads, Scoped
  <2> QED
    BY <2>3, <2>4
<1>5. CASE ~named
  <2>1. CallbackID(x, d, c) = read
    BY <1>3, <1>5
  <2> HIDE DEF read, x
  <2> QED
    BY <1>2, <2>1, Zenon DEF Ids, x
<1> QED
  BY <1>4, <1>5

-------------------------------------------------------------------------------
(* The steps. *)

\* What an attempt the host opened holds.
LEMMA Opened ==
    ASSUME Typed, NEW n \in DOMAIN attempts
    PROVE  /\ n \in DOMAIN AttemptIds /\ n \in Nat \ {0}
           /\ attempts[n].address \in Addresses
           /\ attempts[n].context \in Context
           /\ AttemptID(n) = IF attempts[n].context.named THEN AttemptIds[n]
                                                          ELSE NoText
<1>1. DOMAIN attempts = 1..Len(attempts) /\ DOMAIN AttemptIds = 1..Len(AttemptIds)
  BY RequestAssumption, LenProperties DEF Typed
<1>2. attempts[n] \in [address : Addresses, context : Contexts]
  BY <1>1, ElementOfSeq DEF Typed
<1>3. Len(attempts) \in Nat /\ Len(AttemptIds) \in Nat /\ Len(attempts) <= Len(AttemptIds)
  BY RequestAssumption, LenProperties DEF Typed
<1>4. n \in DOMAIN AttemptIds /\ n \in Nat \ {0}
  BY <1>1, <1>3
<1>5. attempts[n].address \in Addresses /\ attempts[n].context \in Context
  BY <1>2, RequestAssumption
<1> QED
  BY <1>4, <1>5 DEF AttemptID

\* A read, put together.
LEMMA ReadTyped ==
    ASSUME NEW a \in Addresses, NEW d \in Descriptors, NEW c \in Cursors
    PROVE  /\ <<a, d, c>> \in Addresses \X Descriptors \X Cursors
           /\ <<a, d, c>>[1] = a
           /\ <<a, d, c>>[2] = d /\ <<a, d, c>>[3] = c
  OBVIOUS

\* The request a call builds is typed, has the id its attempt and read
\* determine, and only uses what the attempt admitted and the manifest packages.
LEMMA RequestBuilt ==
    ASSUME Typed, CallsOpened, NEW h \in Handlers,
           calls[h].pc \in {"project", "keys"},
           Buildable(Descriptor(calls[h]), attempts[calls[h].attempt].context)
    PROVE  LET request == Request(h)
               context == attempts[calls[h].attempt].context
           IN  /\ request \in Sent /\ request.read = ReadOf(h)
               /\ request.attempt = calls[h].attempt
               /\ request.attempt \in DOMAIN attempts
               /\ request.read[1] = attempts[request.attempt].address
               /\ request.id = RequestID(h)
               /\ request.id = CallbackID(AttemptID(request.attempt),
                                          request.read[2], request.read[3])
               /\ request.read[3] # "" => request.read[2] = "client-key.list"
               /\ \E i \in DOMAIN context.origins : request.origin = context.origins[i]
               /\ \E i \in DOMAIN context.credentials :
                    request.handle = context.credentials[i]
               /\ request.origin.rule = "api" /\ request.handle.purpose = "management"
               /\ request.read[2] \in manifest.requests \cap manifest.schemas
<1> DEFINE call == calls[h]
           n == call.attempt
           context == attempts[n].context
           d == Descriptor(call)
           c == Cursor(call)
           o == ApiOrigin(context.origins)
           k == ManagementHandle(context.credentials)
           request == Request(h)
<1>1. call \in Call /\ n \in DOMAIN attempts
  BY DEF Typed, CallsOpened
<1>2. /\ n \in DOMAIN AttemptIds /\ attempts[n].address \in Addresses
      /\ context \in Context
      /\ AttemptID(n) = IF context.named THEN AttemptIds[n] ELSE NoText
  BY <1>1, Opened
<1>3. d \in Descriptors /\ c \in Cursors /\ (c # "" => d = "client-key.list")
  BY <1>1 DEF Descriptor, Cursor, Descriptors, Call, Cursors
<1>4. /\ o \in DOMAIN context.origins /\ context.origins[o] \in Origin
      /\ context.origins[o].rule = "api"
  <2>1. context.origins \in Seq(Origin) /\ o # 0
    BY <1>2 DEF Context, Buildable
  <2> QED
    BY <2>1, OriginAdmitted
<1>5. /\ k \in DOMAIN context.credentials /\ context.credentials[k] \in Credential
      /\ context.credentials[k].purpose = "management"
  <2>1. context.credentials \in Seq(Credential) /\ k # 0
    BY <1>2 DEF Context, Buildable
  <2> QED
    BY <2>1, HandleAdmitted
<1>6. d \in manifest.requests \cap manifest.schemas
  BY DEF Buildable
<1>7. request = [id |-> RequestID(h), attempt |-> n, read |-> ReadOf(h),
                 origin |-> context.origins[o], handle |-> context.credentials[k]]
  BY DEF Request
<1>8. RequestID(h) = CallbackID(AttemptID(n), d, c)
  BY DEF RequestID
<1>9. RequestID(h) \in Ids
  <2>1. context.named \in BOOLEAN
    BY <1>2 DEF Context
  <2> HIDE DEF context, n, d, c
  <2> QED
    BY <1>2, <1>3, <1>8, <2>1, CallbackIDTyped
<1>10. ReadOf(h) = <<attempts[n].address, d, c>>
  BY DEF ReadOf
<1> HIDE DEF request, call, n, context, d, c, o, k
<1>11. /\ ReadOf(h) \in Addresses \X Descriptors \X Cursors
       /\ ReadOf(h)[1] = attempts[n].address
       /\ ReadOf(h)[2] = d /\ ReadOf(h)[3] = c
  <2> DEFINE a == attempts[n].address
  <2>1. a \in Addresses /\ ReadOf(h) = <<a, d, c>>
    BY <1>2, <1>10
  <2> HIDE DEF a
  <2>2. /\ <<a, d, c>> \in Addresses \X Descriptors \X Cursors
        /\ <<a, d, c>>[1] = a
        /\ <<a, d, c>>[2] = d /\ <<a, d, c>>[3] = c
    BY <1>3, <2>1, ReadTyped
  <2> QED
    BY <2>1, <2>2, Zenon DEF a
<1>12. request \in Sent
  BY <1>2, <1>4, <1>5, <1>7, <1>9, <1>11 DEF Sent
<1>13. /\ request.read = ReadOf(h) /\ request.attempt = n
       /\ request.id = RequestID(h) /\ request.origin = context.origins[o]
       /\ request.handle = context.credentials[k]
  BY <1>7
<1> USE DEF request, call, n, context
<1> QED
  BY <1>1, <1>3, <1>4, <1>5, <1>6, <1>8, <1>11, <1>12, <1>13

\* A step that puts a call where it waits for nothing, in an attempt the host
\* opened, and that only adds attempts, keeps the rest of the invariant.
LEMMA CallSet ==
    ASSUME IInv, UNCHANGED <<manifest, ledger>>,
           \A n \in DOMAIN attempts :
             n \in DOMAIN attempts' /\ attempts'[n] = attempts[n],
           NEW h \in Handlers, NEW call \in Call,
           calls' = [calls EXCEPT ![h] = call],
           call.delivered = NoDelivery,
           call.pc # "idle" => call.attempt \in DOMAIN attempts'
    PROVE  /\ calls' \in [Handlers -> Call]
           /\ (CallsOpened /\ LedgerSound /\ AnswerIsOwn /\ WithinAdmission)'
<1> USE DEF IInv
<1>1. calls' \in [Handlers -> Call]
  BY DEF Typed
<1>2. \A g \in Handlers : calls'[g] = IF g = h THEN call ELSE calls[g]
  BY DEF Typed
<1>3. CallsOpened'
  BY <1>2 DEF CallsOpened
<1>4. \A n \in DOMAIN attempts : AttemptID(n)' = AttemptID(n)
  BY DEF AttemptID
<1>5. LedgerSound'
  BY <1>4 DEF LedgerSound
<1>6. AnswerIsOwn'
  <2> SUFFICES ASSUME NEW g \in Handlers, calls'[g].delivered # NoDelivery,
                      NamedAttempt(calls[g].attempt)'
               PROVE  /\ calls'[g].delivered.read = ReadOf(g)'
                      /\ calls'[g].delivered.attempt = calls'[g].attempt
    BY DEF AnswerIsOwn
  <2>1. g # h /\ calls'[g] = calls[g]
    BY <1>2
  <2>2. calls[g].attempt \in DOMAIN attempts
    BY <2>1 DEF CallsOpened
  <2>3. attempts'[calls[g].attempt] = attempts[calls[g].attempt]
    BY <2>2
  <2>4. NamedAttempt(calls[g].attempt)
    BY <2>1, <2>3 DEF NamedAttempt
  <2>5. ReadOf(g)' = ReadOf(g)
    BY <2>1, <2>3 DEF ReadOf, Descriptor, Cursor
  <2> QED
    BY <2>1, <2>4, <2>5 DEF AnswerIsOwn
<1>7. WithinAdmission'
  <2> SUFFICES ASSUME NEW e \in ledger
               PROVE  attempts'[e.request.attempt] = attempts[e.request.attempt]
    BY DEF WithinAdmission
  <2> QED
    BY DEF LedgerSound
<1> QED
  BY <1>1, <1>3, <1>5, <1>6, <1>7

\* An answer delivered to a call, and perhaps recorded, keeps the invariant, if it
\* is that of an entry with the id of the call's request.
LEMMA AnswerDelivered ==
    ASSUME IInv, UNCHANGED <<manifest, attempts, progress, losses>>,
           NEW h \in Handlers, calls[h].pc \in {"project", "keys"},
           NEW e \in [request : Sent, answer : Answer],
           e.request.id = RequestID(h),
           e.request.attempt \in DOMAIN attempts,
           e.request.id = CallbackID(AttemptID(e.request.attempt),
                                     e.request.read[2], e.request.read[3]),
           NamedAttempt(calls[h].attempt) =>
             e.request.read = ReadOf(h) /\ e.request.attempt = calls[h].attempt,
           Deliver(h, e.answer, e.request.read, e.request.attempt)
    PROVE  /\ calls' \in [Handlers -> Call]
           /\ CallsOpened' /\ AnswerIsOwn'
<1> USE DEF IInv
<1> DEFINE given == [answer |-> e.answer, read |-> e.request.read,
                     attempt |-> e.request.attempt]
<1>1. given \in Delivered
  <2>1. e.request.attempt \in Nat \ {0}
    BY Opened
  <2>2. e.request.read \in Addresses \X Descriptors \X Cursors /\ e.answer \in Answer
    BY DEF Sent
  <2> QED
    BY <2>1, <2>2 DEF Delivered
<1>2. calls' = [calls EXCEPT ![h] = [calls[h] EXCEPT !.delivered = given]]
  BY DEF Deliver
<1> HIDE DEF given
<1>3. [calls[h] EXCEPT !.delivered = given] \in Call
  BY <1>1 DEF Typed, Call
<1>4. calls' \in [Handlers -> Call]
  BY <1>2, <1>3 DEF Typed
<1>5. /\ \A g \in Handlers \ {h} : calls'[g] = calls[g]
      /\ calls'[h].pc = calls[h].pc /\ calls'[h].attempt = calls[h].attempt
      /\ calls'[h].cursor = calls[h].cursor /\ calls'[h].delivered = given
  BY <1>2 DEF Typed, Call
<1>6. CallsOpened'
  BY <1>5 DEF CallsOpened
<1>7. \A g \in Handlers : ReadOf(g)' = ReadOf(g)
  BY <1>5 DEF ReadOf, Descriptor, Cursor
<1>8. AnswerIsOwn'
  <2> SUFFICES ASSUME NEW g \in Handlers, calls'[g].delivered # NoDelivery,
                      NamedAttempt(calls[g].attempt)
               PROVE  /\ calls'[g].delivered.read = ReadOf(g)
                      /\ calls'[g].delivered.attempt = calls[g].attempt
    BY <1>5, <1>7 DEF AnswerIsOwn, NamedAttempt
  <2>1. CASE g = h
    BY <1>5, <2>1 DEF given
  <2>2. CASE g # h
    BY <1>5, <2>2 DEF AnswerIsOwn
  <2> QED
    BY <2>1, <2>2
<1> QED
  BY <1>4, <1>6, <1>8

\* Init, and each action, keep the invariant.
LEMMA InitKept == Init => IInv
<1> SUFFICES ASSUME Init PROVE IInv
  OBVIOUS
<1>1. NoCall \in Call /\ NoCall.pc = "idle" /\ NoCall.delivered = NoDelivery
  <2>1. 1 \in DOMAIN AttemptIds
    BY RequestAssumption, LenProperties
  <2> QED
    BY <2>1 DEF NoCall, Call, Cursors
<1>2. Typed
  <2>1. Len(<< >>) = 0 /\ << >> \in Seq([address : Addresses, context : Contexts])
    OBVIOUS
  <2>2. Len(AttemptIds) \in Nat
    BY RequestAssumption, LenProperties
  <2>3. calls \in [Handlers -> Call]
    BY <1>1 DEF Init
  <2>4. progress \in [state : {"open", "complete", "failed"}, cursor : Cursors]
    BY DEF Init, Cursors
  <2>5. attempts = << >> /\ ledger = {} /\ manifest \in Manifests
        /\ faults = 0 /\ losses = 0
    BY DEF Init
  <2>6. attempts \in Seq([address : Addresses, context : Contexts])
        /\ Len(attempts) <= Len(AttemptIds)
    BY <2>1, <2>2, <2>5
  <2>7. faults \in 0..MaxFaults /\ losses \in 0..MaxLosses
    BY <2>5, RequestAssumption
  <2> QED
    BY <2>3, <2>4, <2>5, <2>6, <2>7 DEF Typed
<1>3. \A h \in Handlers : calls[h].pc = "idle" /\ calls[h].delivered = NoDelivery
  BY <1>1 DEF Init
<1>4. ledger = {}
  BY DEF Init
<1> QED
  BY <1>2, <1>3, <1>4 DEF IInv, CallsOpened, LedgerSound, AnswerIsOwn, WithinAdmission

\* The call the handlers return to is typed, and waits for nothing.
LEMMA Returned ==
    /\ NoCall \in Call /\ NoCall.pc = "idle" /\ NoCall.delivered = NoDelivery
    /\ \A n \in DOMAIN AttemptIds, c \in Cursors :
         LET call == [NoCall EXCEPT !.pc = "project", !.attempt = n, !.cursor = c] IN
         call \in Call /\ call.delivered = NoDelivery /\ call.attempt = n
    /\ \A n \in DOMAIN AttemptIds :
         LET call == [NoCall EXCEPT !.pc = "project", !.attempt = n] IN
         call \in Call /\ call.delivered = NoDelivery /\ call.attempt = n
<1>1. 1 \in DOMAIN AttemptIds
  BY RequestAssumption, LenProperties
<1> QED
  BY <1>1 DEF NoCall, Call, Cursors

\* A new attempt takes the next id and the cursor of the last observation.
LEMMA OpenAttemptKept == IInv /\ OpenAttempt => IInv'
<1> SUFFICES ASSUME IInv, OpenAttempt PROVE IInv'
  OBVIOUS
<1> USE DEF IInv
<1>1. PICK a \in Addresses, context \in Contexts :
        attempts' = Append(attempts, [address |-> a, context |-> context])
  BY DEF OpenAttempt
<1> DEFINE n == Len(attempts) + 1
           call == [NoCall EXCEPT !.pc = "project", !.attempt = n,
                                  !.cursor = progress.cursor]
<1>2. /\ attempts' \in Seq([address : Addresses, context : Contexts])
      /\ Len(attempts') = n /\ DOMAIN attempts' = 1..n
      /\ DOMAIN attempts = 1..Len(attempts) /\ Len(attempts) \in Nat
      /\ \A i \in 1..Len(attempts) : attempts'[i] = attempts[i]
  <2>1. [address |-> a, context |-> context] \in [address : Addresses, context : Contexts]
    OBVIOUS
  <2> QED
    BY <1>1, <2>1, AppendProperties, LenProperties DEF Typed
<1>3. n \in DOMAIN AttemptIds /\ n <= Len(AttemptIds)
  <2>1. DOMAIN AttemptIds = 1..Len(AttemptIds) /\ Len(AttemptIds) \in Nat
    BY RequestAssumption, LenProperties
  <2> QED
    BY <1>2, <2>1 DEF OpenAttempt
<1>4. call \in Call /\ call.delivered = NoDelivery /\ call.attempt = n
  BY <1>3, Returned DEF Typed
<1>5. /\ \A i \in DOMAIN attempts : i \in DOMAIN attempts' /\ attempts'[i] = attempts[i]
      /\ call.attempt \in DOMAIN attempts'
  BY <1>2, <1>4
<1>6. calls' = [calls EXCEPT !["observe"] = call] /\ UNCHANGED <<manifest, ledger>>
  BY DEF OpenAttempt
<1>7. /\ calls' \in [Handlers -> Call]
      /\ (CallsOpened /\ LedgerSound /\ AnswerIsOwn /\ WithinAdmission)'
  <2> HIDE DEF call
  <2> QED
    BY <1>4, <1>5, <1>6, CallSet DEF Handlers
<1>8. Typed'
  BY <1>2, <1>3, <1>7 DEF Typed, OpenAttempt
<1> QED
  BY <1>7, <1>8

\* A step of a call under way that leaves it waiting for nothing.
LEMMA CallMoved ==
    ASSUME IInv, NEW h \in Handlers, NEW call \in Call,
           UNCHANGED <<manifest, attempts, ledger, faults>>,
           calls' = [calls EXCEPT ![h] = call],
           call.delivered = NoDelivery,
           call.pc # "idle" => call.attempt \in DOMAIN attempts,
           progress' \in [state : {"open", "complete", "failed"}, cursor : Cursors],
           losses' \in 0..MaxLosses
    PROVE  IInv'
<1>1. /\ calls' \in [Handlers -> Call]
      /\ (CallsOpened /\ LedgerSound /\ AnswerIsOwn /\ WithinAdmission)'
  BY CallSet
<1> QED
  BY <1>1 DEF IInv, Typed

\* Doctor begins its reads, with no cursor.
LEMMA CallDoctorKept == IInv /\ CallDoctor => IInv'
<1> SUFFICES ASSUME IInv, CallDoctor PROVE IInv'
  OBVIOUS
<1>1. PICK n \in DOMAIN attempts :
        calls' = [calls EXCEPT !["doctor"] =
                    [NoCall EXCEPT !.pc = "project", !.attempt = n]]
  BY DEF CallDoctor
<1> DEFINE call == [NoCall EXCEPT !.pc = "project", !.attempt = n]
<1>2. call \in Call /\ call.delivered = NoDelivery /\ call.attempt = n
  BY Opened, Returned DEF IInv
<1>3. calls' = [calls EXCEPT !["doctor"] = call]
  BY <1>1
<1> HIDE DEF call
<1> QED
  BY <1>2, <1>3, CallMoved DEF CallDoctor, IInv, Typed, Handlers

\* A request that cannot be built ends the call unsent.
LEMMA RejectUnbuildableKept ==
    ASSUME NEW h \in Handlers PROVE IInv /\ RejectUnbuildable(h) => IInv'
<1> SUFFICES ASSUME IInv, RejectUnbuildable(h) PROVE IInv'
  OBVIOUS
<1>1. calls' = [calls EXCEPT ![h] = NoCall]
  BY DEF RejectUnbuildable, Return
<1>2. progress' \in [state : {"open", "complete", "failed"}, cursor : Cursors]
  BY DEF RejectUnbuildable, IInv, Typed
<1> QED
  BY <1>1, <1>2, Returned, CallMoved DEF RejectUnbuildable, IInv, Typed

\* A lost call starts over; what was executed for it stays in the ledger.
LEMMA LoseCallKept == ASSUME NEW h \in Handlers PROVE IInv /\ LoseCall(h) => IInv'
<1> SUFFICES ASSUME IInv, LoseCall(h) PROVE IInv'
  OBVIOUS
<1> DEFINE call == [NoCall EXCEPT !.pc = "project", !.attempt = calls[h].attempt,
                                  !.cursor = calls[h].cursor]
<1>1. calls[h] \in Call /\ calls[h].attempt \in DOMAIN attempts
  BY DEF IInv, Typed, CallsOpened, LoseCall
<1>2. call \in Call /\ call.delivered = NoDelivery /\ call.attempt = calls[h].attempt
  BY <1>1, Returned DEF Call
<1>3. calls' = [calls EXCEPT ![h] = call]
  BY DEF LoseCall
<1>4. losses' \in 0..MaxLosses
  BY RequestAssumption DEF LoseCall, IInv, Typed
<1> HIDE DEF call
<1> QED
  BY <1>1, <1>2, <1>3, <1>4, CallMoved DEF LoseCall, IInv, Typed

\* Observe and Doctor take an answer, and go on or return.
LEMMA TakeAnswerKept ==
    ASSUME NEW h \in Handlers PROVE IInv /\ TakeAnswer(h) => IInv'
<1> SUFFICES ASSUME IInv, TakeAnswer(h) PROVE IInv'
  OBVIOUS
<1> DEFINE on == [calls[h] EXCEPT !.pc = "keys", !.delivered = NoDelivery]
<1>1. calls[h] \in Call /\ calls[h].pc # "idle" /\ calls[h].attempt \in DOMAIN attempts
  BY DEF IInv, Typed, CallsOpened, TakeAnswer
<1>2. /\ on \in Call /\ on.delivered = NoDelivery /\ on.attempt = calls[h].attempt
      /\ \A complete \in BOOLEAN :
           LET call == [calls[h] EXCEPT !.pc = "keys", !.complete = complete,
                                        !.delivered = NoDelivery]
           IN  call \in Call /\ call.delivered = NoDelivery
               /\ call.attempt = calls[h].attempt
  BY <1>1 DEF Call
<1>3. CASE h = "observe"
  <2> DEFINE complete == /\ calls[h].complete
                         /\ ~ReadOutcome(calls[h].delivered.answer).uncertain
             call == [calls[h] EXCEPT !.pc = "keys", !.complete = complete,
                                      !.delivered = NoDelivery]
  <2>1. complete \in BOOLEAN
    BY <1>1 DEF Call
  <2>2. CASE calls[h].pc = "project"
    <3>1. calls' = [calls EXCEPT ![h] = call] /\ progress' = progress
      BY <1>3, <2>2 DEF TakeAnswer, ObserveTakes
    <3>2. call \in Call /\ call.delivered = NoDelivery
          /\ call.attempt = calls[h].attempt
      BY <1>2, <2>1
    <3> HIDE DEF call
    <3> QED
      BY <1>1, <3>1, <3>2, CallMoved DEF TakeAnswer, IInv, Typed
  <2>3. CASE calls[h].pc # "project"
    <3>1. calls' = [calls EXCEPT ![h] = NoCall]
      BY <1>3, <2>3 DEF TakeAnswer, ObserveTakes, Return
    <3>2. progress' \in [state : {"open", "complete", "failed"}, cursor : Cursors]
      <4>1. \/ progress' = [state |-> "complete", cursor |-> ""]
            \/ progress' = [state |-> "open",
                            cursor |-> IF calls[h].cursor = "" THEN Restart
                                       ELSE calls[h].cursor]
        BY <1>3, <2>3 DEF TakeAnswer, ObserveTakes
      <4>2. calls[h].cursor \in Cursors /\ Restart \in Cursors /\ "" \in Cursors
        BY <1>1 DEF Call, Cursors
      <4>3. PICK s \in {"open", "complete", "failed"}, c \in Cursors :
              progress' = [state |-> s, cursor |-> c]
        BY <4>1, <4>2
      <4> QED
        BY <4>3
    <3> QED
      BY <3>1, <3>2, Returned, CallMoved DEF TakeAnswer, IInv, Typed
  <2> QED
    BY <2>2, <2>3
<1>4. CASE h # "observe"
  <2>1. h = "doctor" /\ progress' = progress
    BY <1>4 DEF Handlers, TakeAnswer, DoctorTakes
  <2>2. calls' = [calls EXCEPT ![h] = on] \/ calls' = [calls EXCEPT ![h] = NoCall]
    BY <2>1 DEF TakeAnswer, DoctorTakes, Return
  <2>3. /\ UNCHANGED <<manifest, attempts, ledger, faults>>
        /\ progress' \in [state : {"open", "complete", "failed"}, cursor : Cursors]
        /\ losses' \in 0..MaxLosses
    BY <2>1 DEF TakeAnswer, IInv, Typed
  <2> HIDE DEF on
  <2>4. CASE calls' = [calls EXCEPT ![h] = on]
    BY <1>1, <1>2, <2>3, <2>4, CallMoved
  <2>5. CASE calls' = [calls EXCEPT ![h] = NoCall]
    BY <2>3, <2>5, Returned, CallMoved
  <2> QED
    BY <2>2, <2>4, <2>5
<1> QED
  BY <1>3, <1>4

\* A request executed or refused by the host: the id is new to the ledger.
LEMMA ExecuteKept ==
    ASSUME NEW h \in Handlers, IInv, IssueRead(h), Execute(h) PROVE IInv'
<1> USE DEF IInv
<1> DEFINE request == Request(h)
           context == attempts[calls[h].attempt].context
<1>1. calls[h].pc \in {"project", "keys"} /\ Buildable(Descriptor(calls[h]), context)
  BY DEF IssueRead
<1>2. /\ request \in Sent /\ request.read = ReadOf(h)
      /\ request.attempt = calls[h].attempt
      /\ request.attempt \in DOMAIN attempts
      /\ request.read[1] = attempts[request.attempt].address
      /\ request.id = RequestID(h)
      /\ request.id = CallbackID(AttemptID(request.attempt),
                                 request.read[2], request.read[3])
      /\ request.read[3] # "" => request.read[2] = "client-key.list"
      /\ \E i \in DOMAIN context.origins : request.origin = context.origins[i]
      /\ \E i \in DOMAIN context.credentials :
           request.handle = context.credentials[i]
      /\ request.origin.rule = "api" /\ request.handle.purpose = "management"
      /\ request.read[2] \in manifest.requests \cap manifest.schemas
  BY <1>1, RequestBuilt
<1>3. PICK answer \in Answer :
        /\ Deliver(h, answer, request.read, request.attempt)
        /\ \/ ledger' = ledger \cup {[request |-> request, answer |-> answer]}
           \/ ledger' = ledger
  <2>1. Answered(200) \in Answer /\ Answered(429) \in Answer /\ Refused \in Answer
    BY DEF Answered, Refused, Answer
  <2> HIDE DEF request
  <2> QED
    BY <2>1 DEF Execute, request
<1>4. faults' \in 0..MaxFaults
  BY RequestAssumption DEF Execute, Fault, Typed
<1>5. \A e \in ledger : e.request.id # request.id
  BY DEF Execute
<1> HIDE DEF request
<1>6. UNCHANGED <<manifest, attempts, progress, losses>>
  BY DEF IssueRead
<1> DEFINE entry == [request |-> request, answer |-> answer]
<1>7. /\ entry \in [request : Sent, answer : Answer]
      /\ entry.request = request /\ entry.answer = answer
  BY <1>2
<1> HIDE DEF entry
<1>8. /\ calls' \in [Handlers -> Call] /\ CallsOpened' /\ AnswerIsOwn'
  <2>1. /\ entry.request.id = RequestID(h)
        /\ entry.request.attempt \in DOMAIN attempts
        /\ entry.request.id = CallbackID(AttemptID(entry.request.attempt),
                                         entry.request.read[2], entry.request.read[3])
        /\ entry.request.read = ReadOf(h) /\ entry.request.attempt = calls[h].attempt
        /\ Deliver(h, entry.answer, entry.request.read, entry.request.attempt)
    BY <1>2, <1>3, <1>7
  <2> QED
    BY <1>1, <1>6, <1>7, <2>1, AnswerDelivered
<1>9. ledger' = ledger \cup {entry} \/ ledger' = ledger
  BY <1>3 DEF entry
<1>10. \A n : AttemptID(n)' = AttemptID(n)
  BY <1>6 DEF AttemptID
<1>11. LedgerSound'
  <2>1. \A e \in ledger' :
          /\ e.request.attempt \in DOMAIN attempts
          /\ e.request.read[1] = attempts[e.request.attempt].address
          /\ e.request.id = CallbackID(AttemptID(e.request.attempt),
                                       e.request.read[2], e.request.read[3])
          /\ e.request.read[3] # "" => e.request.read[2] = "client-key.list"
    BY <1>2, <1>7, <1>9 DEF LedgerSound
  <2>2. \A e, f \in ledger' : e.request.id = f.request.id => e = f
    BY <1>5, <1>7, <1>9 DEF LedgerSound
  <2> QED
    BY <1>6, <1>10, <2>1, <2>2 DEF LedgerSound
<1>12. WithinAdmission'
  <2>1. \A e \in ledger' : e \in ledger \/ e.request = request
    BY <1>7, <1>9
  <2>2. /\ \E i \in DOMAIN attempts[request.attempt].context.origins :
             request.origin = attempts[request.attempt].context.origins[i]
        /\ \E i \in DOMAIN attempts[request.attempt].context.credentials :
             request.handle = attempts[request.attempt].context.credentials[i]
    BY <1>2
  <2> QED
    BY <1>2, <1>6, <2>1, <2>2 DEF WithinAdmission
<1>13. Typed'
  BY <1>4, <1>6, <1>7, <1>8, <1>9 DEF Typed
<1> QED
  BY <1>8, <1>11, <1>12, <1>13

\* A known id: the entry that has it is the one for this read, in this attempt.
LEMMA ReplayKept ==
    ASSUME NEW h \in Handlers, IInv, IssueRead(h), Replay(h) PROVE IInv'
<1> USE DEF IInv
<1> DEFINE n == calls[h].attempt
<1>1. /\ calls[h].pc \in {"project", "keys"}
      /\ Buildable(Descriptor(calls[h]), attempts[n].context)
  BY DEF IssueRead
<1>2. PICK e \in ledger :
        /\ e.request.id = RequestID(h)
        /\ Deliver(h, e.answer, e.request.read, e.request.attempt)
  BY DEF Replay
<1>3. /\ e \in [request : Sent, answer : Answer]
      /\ e.request.attempt \in DOMAIN attempts
      /\ e.request.id = CallbackID(AttemptID(e.request.attempt),
                                   e.request.read[2], e.request.read[3])
  BY DEF Typed, LedgerSound
<1>4. ASSUME NamedAttempt(n)
      PROVE  e.request.read = ReadOf(h) /\ e.request.attempt = n
  <2> DEFINE read == ReadOf(h)
             other == e.request.read
             m == e.request.attempt
  <2>1. /\ n \in DOMAIN attempts
        /\ e.request.id = CallbackID(AttemptID(n), read[2], read[3])
        /\ read \in Addresses \X Descriptors \X Cursors
        /\ read[1] = attempts[n].address
    <3>1. /\ Request(h).id = RequestID(h) /\ Request(h) \in Sent
          /\ Request(h).attempt \in DOMAIN attempts /\ Request(h).attempt = n
          /\ Request(h).read = ReadOf(h)
          /\ Request(h).id = CallbackID(AttemptID(Request(h).attempt),
                                        Request(h).read[2], Request(h).read[3])
      BY <1>1, RequestBuilt
    <3>2. ReadOf(h)[1] = attempts[n].address
      BY DEF ReadOf
    <3> QED
      BY <1>2, <3>1, <3>2 DEF Sent
  <2>2. /\ m \in DOMAIN attempts
        /\ e.request.id = CallbackID(AttemptID(m), other[2], other[3])
        /\ other \in Addresses \X Descriptors \X Cursors
        /\ other[1] = attempts[m].address
    BY <1>3 DEF LedgerSound, Sent
  <2>3. /\ AttemptID(n) = AttemptIds[n] /\ AttemptID(n) # NoText
        /\ AttemptID(m) = AttemptIds[m] \/ AttemptID(m) = NoText
        /\ n \in DOMAIN AttemptIds /\ m \in DOMAIN AttemptIds
    BY <1>4, <2>1, <2>2, Opened, RequestAssumption DEF NamedAttempt
  <2> HIDE DEF n, m, read, other
  <2>4. read[2] \in Descriptors /\ read[3] \in Cursors
        /\ other[2] \in Descriptors /\ other[3] \in Cursors
    BY <2>1, <2>2
  <2>5. AttemptID(n) = AttemptID(m) /\ read[2] = other[2] /\ read[3] = other[3]
    <3> DEFINE x == AttemptID(n)
               y == AttemptID(m)
    <3>1. x # NoText /\ CallbackID(x, read[2], read[3])
                           = CallbackID(y, other[2], other[3])
      BY <2>1, <2>2, <2>3
    <3> HIDE DEF x, y
    <3>2. x = y /\ read[2] = other[2] /\ read[3] = other[3]
      BY <2>4, <3>1, CallbackIDInjective
    <3> QED
      BY <3>2 DEF x, y
  <2>6. n = m
    BY <2>3, <2>5, RequestAssumption
  <2>7. read = other
    BY <2>1, <2>2, <2>5, <2>6
  <2> QED
    BY <2>6, <2>7 DEF n, m, read, other
<1>5. UNCHANGED <<manifest, attempts, progress, losses, ledger, faults>>
  BY DEF IssueRead, Replay
<1>6. calls' \in [Handlers -> Call] /\ CallsOpened' /\ AnswerIsOwn'
  BY <1>1, <1>2, <1>3, <1>4, <1>5, AnswerDelivered
<1>7. \A k : AttemptID(k)' = AttemptID(k)
  BY <1>5 DEF AttemptID
<1>8. LedgerSound' /\ WithinAdmission'
  BY <1>5, <1>7 DEF LedgerSound, WithinAdmission
<1>9. Typed'
  BY <1>5, <1>6 DEF Typed
<1> QED
  BY <1>6, <1>8, <1>9

-------------------------------------------------------------------------------
(* The theorems. *)

\* The invariant holds in every state of every behaviour.
LEMMA Kept == Spec => []IInv
<1>1. Init => IInv
  BY InitKept
<1>2. IInv /\ [Next]_vars => IInv'
  <2> SUFFICES ASSUME IInv, [Next]_vars PROVE IInv'
    OBVIOUS
  <2>1. CASE OpenAttempt
    BY <2>1, OpenAttemptKept
  <2>2. CASE CallDoctor
    BY <2>2, CallDoctorKept
  <2>3. CASE \E h \in Handlers : RejectUnbuildable(h)
    BY <2>3, RejectUnbuildableKept
  <2>4. CASE \E h \in Handlers : IssueRead(h)
    <3>1. PICK h \in Handlers : IssueRead(h)
      BY <2>4
    <3>2. CASE Execute(h)
      BY <3>1, <3>2, ExecuteKept
    <3>3. CASE Replay(h)
      BY <3>1, <3>3, ReplayKept
    <3> QED
      BY <3>1, <3>2, <3>3 DEF IssueRead
  <2>5. CASE \E h \in Handlers : TakeAnswer(h)
    BY <2>5, TakeAnswerKept
  <2>6. CASE \E h \in Handlers : LoseCall(h)
    BY <2>6, LoseCallKept
  <2>7. CASE UNCHANGED vars
    <3>1. \A n : AttemptID(n)' = AttemptID(n)
      BY <2>7 DEF vars, AttemptID
    <3>2. \A h : ReadOf(h)' = ReadOf(h)
      BY <2>7 DEF vars, ReadOf
    <3>3. Typed' /\ CallsOpened' /\ LedgerSound'
      BY <2>7, <3>1 DEF IInv, vars, Typed, CallsOpened, LedgerSound
    <3>4. AnswerIsOwn' /\ WithinAdmission'
      BY <2>7, <3>2 DEF IInv, vars, AnswerIsOwn, NamedAttempt, WithinAdmission
    <3> QED
      BY <3>3, <3>4 DEF IInv
  <2> QED
    BY <2>1, <2>2, <2>3, <2>4, <2>5, <2>6, <2>7 DEF Next
<1> QED
  BY <1>1, <1>2, PTL DEF Spec

\* Every state variable keeps to its values: in particular no request carries an
\* id outside the forms that attempt, descriptor and cursor make.
THEOREM RequestTypeCorrect == Spec => []TypeOK
<1>1. IInv => TypeOK
  <2> SUFFICES ASSUME IInv PROVE TypeOK
    OBVIOUS
  <2>1. \A h \in Handlers : calls[h] \in Call
    BY DEF IInv, Typed
  <2>2. \A e \in ledger : e.request.id \in Ids /\ e.answer \in Answer
    BY DEF IInv, Typed, Sent
  <2> QED
    BY <2>1, <2>2 DEF IInv, Typed, TypeOK, Call
<1> QED
  BY <1>1, Kept, PTL

\* A call in an attempt with an id gets an answer produced for the read it waits
\* for, in its own attempt, whether the host executed the request or knew its id.
THEOREM AnswersAreOwn == Spec => []AnswerIsOwn
<1>1. IInv => AnswerIsOwn
  BY DEF IInv
<1> QED
  BY <1>1, Kept, PTL

\* A read is executed once in an attempt, its attempt having an id or not: a
\* repeated read has the id of the first, and an id has one entry.
THEOREM ReadsAreExecutedOnce == Spec => []ReadOnce
<1>1. IInv => ReadOnce
  <2> SUFFICES ASSUME IInv, NEW e \in ledger, NEW f \in ledger,
                      e.request.attempt = f.request.attempt,
                      e.request.read = f.request.read
               PROVE  e = f
    BY DEF ReadOnce
  <2>1. e.request.id = f.request.id
    BY DEF IInv, LedgerSound
  <2> QED
    BY <2>1 DEF IInv, LedgerSound
<1> QED
  BY <1>1, Kept, PTL

\* What the host executes stays within what the attempt admitted and what the
\* manifest packages, whatever else is admitted before or beside it.
THEOREM RequestsWithinAdmission == Spec => []WithinAdmission
<1>1. IInv => WithinAdmission
  BY DEF IInv
<1> QED
  BY <1>1, Kept, PTL

===============================================================================
