-------------------------- MODULE QuoteFilters_proofs --------------------------
(***************************************************************************)
(* Proofs about QuoteFilters, for every set of filters, of papers and      *)
(* finite set of subscriptions.                                            *)
(*                                                                         *)
(* The two invariants need little besides the types: that a subscription   *)
(* somebody uses, and one the loop has still to visit, is in the list.     *)
(* What remains is arithmetic of sets: that a subscription comes into the  *)
(* list once and leaves it once, and that the filter of a key changes only *)
(* when one of its counts becomes 1 or 0.                                  *)
(***************************************************************************)
EXTENDS QuoteFilters, FiniteSetTheorems, TLAPS

-----------------------------------------------------------------------------
(* The types.                                                              *)

LEMMA CountsTyped ==
    ASSUME TypeOK, NEW s \in Subs
    PROVE  /\ Nobody \in [Keys -> [Papers -> Nat]]
           /\ Counted(s) \in [Keys -> [Papers -> Nat]]
           /\ Uncounted(s) \in [Keys -> [Papers -> Nat]]
<1>1. \A k \in Keys, p \in Papers : count[k][p] \in Nat
    BY DEF TypeOK
<1>2. Nobody \in [Keys -> [Papers -> Nat]]
    BY DEF Nobody
<1>3. Counted(s) \in [Keys -> [Papers -> Nat]]
    <2>1. \A k \in Keys, p \in Papers :
            (IF <<k, p>> \in Want[s] THEN count[k][p] + 1 ELSE count[k][p]) \in Nat
        BY <1>1
    <2>. QED  BY <2>1 DEF Counted
<1>4. Uncounted(s) \in [Keys -> [Papers -> Nat]]
    <2>1. \A k \in Keys, p \in Papers :
            (IF <<k, p>> \in Want[s] /\ count[k][p] > 0
             THEN count[k][p] - 1 ELSE count[k][p]) \in Nat
        BY <1>1
    <2>. QED  BY <2>1 DEF Uncounted
<1>. QED  BY <1>2, <1>3, <1>4

LEMMA SendTyped ==
    ASSUME TypeOK, NEW keys \in SUBSET Keys, NEW counts, SendADFilters(keys, counts)
    PROVE  /\ [keys |-> keys, filter |-> FilterOf(counts)] \in Message
           /\ outbox' \in Seq(Message)
<1>1. FilterOf(counts) \in [Keys -> SUBSET Papers]
    BY DEF FilterOf
<1>2. [keys |-> keys, filter |-> FilterOf(counts)] \in Message
    BY <1>1 DEF Message
<1>3. outbox \in Seq(Message)
    BY DEF TypeOK
<1>. QED  BY <1>2, <1>3 DEF SendADFilters

LEMMA InitTypeOK ==
    ASSUME Init PROVE TypeOK
<1>1. count \in [Keys -> [Papers -> Nat]]
    BY DEF Init, Nobody
<1>2. server \in [Keys -> SUBSET Papers]
    BY DEF Init, Unset
<1>3. outbox \in Seq(Message)
    BY DEF Init
<1>. QED  BY <1>1, <1>2, <1>3 DEF Init, TypeOK

LEMMA NextTypeOK ==
    ASSUME TypeOK, [Next]_vars
    PROVE  TypeOK'
<1>. USE DEF subscriptions, wire
<1>1. ASSUME NEW s \in Subs, SubscribeToQuotes(s) PROVE TypeOK'
    <2>1. count' \in [Keys -> [Papers -> Nat]]
        BY <1>1, CountsTyped DEF SubscribeToQuotes
    <2>2. outbox' \in Seq(Message)
        <3>1. RaisedBy(s) \in SUBSET Keys
            BY DEF RaisedBy
        <3>. QED  BY <1>1, <3>1, SendTyped DEF SubscribeToQuotes
    <2>. QED  BY <1>1, <2>1, <2>2 DEF SubscribeToQuotes, TypeOK
<1>2. ASSUME NEW s \in Subs, Release(s) PROVE TypeOK'
    BY <1>2 DEF Release, TypeOK
<1>3. ASSUME NEW s \in Subs, Visit(s) PROVE TypeOK'
    <2>1. CASE s \in used
        BY <1>3, <2>1 DEF Visit, TypeOK
    <2>2. CASE s \notin used
        <3>1. count' \in [Keys -> [Papers -> Nat]]
            BY <1>3, <2>2, CountsTyped DEF Visit
        <3>2. outbox' \in Seq(Message)
            <4>1. ClearedBy(s) \in SUBSET Keys
                BY DEF ClearedBy
            <4>. QED  BY <1>3, <2>2, <4>1, SendTyped DEF Visit
        <3>. QED  BY <1>3, <2>2, <3>1, <3>2 DEF Visit, TypeOK
    <2>. QED  BY <2>1, <2>2
<1>4. ASSUME Connect PROVE TypeOK'
    BY <1>4 DEF Connect, TypeOK
<1>5. ASSUME Login PROVE TypeOK'
    <2>1. outbox' \in Seq(Message)
        BY <1>5, SendTyped DEF Login
    <2>2. count' \in [Keys -> [Papers -> Nat]]
        BY <1>5 DEF Login, Nobody
    <2>3. inherited' \in BOOLEAN
        BY <1>5 DEF Login
    <2>. QED  BY <1>5, <2>1, <2>2, <2>3 DEF Login, TypeOK
<1>6. ASSUME Quit PROVE TypeOK'
    BY <1>6 DEF Quit, TypeOK, Unset
<1>7. ASSUME SendPing PROVE TypeOK'
    <2>1. outbox' \in Seq(Message)
        BY <1>7, SendTyped DEF SendPing
    <2>. QED  BY <1>7, <2>1 DEF SendPing, TypeOK
<1>8. ASSUME Write PROVE TypeOK'
    <2>1. Head(outbox) \in Message /\ Tail(outbox) \in Seq(Message)
        BY <1>8 DEF Write, TypeOK
    <2>2. server' \in [Keys -> SUBSET Papers] /\ dirty' \subseteq Keys
        <3>1. CASE phase = "online"
            <4>1. Head(outbox).filter \in [Keys -> SUBSET Papers]
                BY <2>1 DEF Message
            <4>. QED  BY <1>8, <3>1, <4>1 DEF Write, TypeOK
        <3>. QED  BY <1>8, <3>1 DEF Write, TypeOK
    <2>. QED  BY <1>8, <2>1, <2>2 DEF Write, TypeOK
<1>9. ASSUME WriteFails PROVE TypeOK'
    <2>1. Head(outbox) \in Message /\ Tail(outbox) \in Seq(Message)
        BY <1>9 DEF WriteFails, TypeOK
    <2>2. dirty' \subseteq Keys
        BY <1>9, <2>1 DEF WriteFails, TypeOK, Message
    <2>. QED  BY <1>9, <2>1, <2>2 DEF WriteFails, TypeOK
<1>10. ASSUME Line PROVE TypeOK'
    BY <1>10 DEF Line, TypeOK
<1>11. ASSUME UNCHANGED vars PROVE TypeOK'
    BY <1>11 DEF vars, TypeOK
<1>. QED
    BY <1>1, <1>2, <1>3, <1>4, <1>5, <1>6, <1>7, <1>8, <1>9, <1>10, <1>11 DEF Next

-----------------------------------------------------------------------------
(* The counts.                                                             *)

LEMMA WantingIsFinite ==
    ASSUME TypeOK, NEW k, NEW p
    PROVE  /\ IsFiniteSet(Wanting(k, p))
           /\ Cardinality(Wanting(k, p)) \in Nat
<1>1. Wanting(k, p) \subseteq Subs
    BY DEF Wanting, TypeOK
<1>2. IsFiniteSet(Wanting(k, p))
    BY <1>1, FiltersAssumption, FS_Subset
<1>. QED  BY <1>2, FS_CardinalityType

LEMMA InitCounts ==
    ASSUME Init PROVE CountsAreSubscribers
<1>1. ASSUME NEW k \in Keys, NEW p \in Papers
      PROVE  count[k][p] = Cardinality(Wanting(k, p))
    <2>1. Wanting(k, p) = {} /\ count[k][p] = 0
        BY DEF Init, Wanting, Nobody
    <2>. QED  BY <2>1, FS_EmptySet
<1>. QED  BY <1>1 DEF CountsAreSubscribers

\* A subscription that comes is counted once for everything it wants.
LEMMA CountsOnSubscribe ==
    ASSUME TypeOK, CountsAreSubscribers, NEW s \in Subs, SubscribeToQuotes(s)
    PROVE  CountsAreSubscribers'
<1>. SUFFICES ASSUME ~inherited', NEW k \in Keys, NEW p \in Papers
              PROVE  count'[k][p] = Cardinality(Wanting(k, p)')
    BY DEF CountsAreSubscribers
<1>1. count[k][p] = Cardinality(Wanting(k, p))
    BY DEF SubscribeToQuotes, CountsAreSubscribers
<1>2. count'[k][p] = IF <<k, p>> \in Want[s] THEN count[k][p] + 1 ELSE count[k][p]
    BY DEF SubscribeToQuotes, Counted
<1>3. s \notin Wanting(k, p)
    BY DEF SubscribeToQuotes, Wanting
<1>4. CASE <<k, p>> \in Want[s]
    <2>1. Wanting(k, p)' = Wanting(k, p) \cup {s}
        BY <1>4 DEF SubscribeToQuotes, Wanting
    <2>. QED  BY <1>1, <1>2, <1>3, <1>4, <2>1, WantingIsFinite, FS_AddElement
<1>5. CASE <<k, p>> \notin Want[s]
    <2>1. Wanting(k, p)' = Wanting(k, p)
        BY <1>5 DEF SubscribeToQuotes, Wanting
    <2>. QED  BY <1>1, <1>2, <1>5, <2>1
<1>. QED  BY <1>4, <1>5

\* One that goes was counted, so that no count it takes back is 0.
LEMMA CountsOnVisit ==
    ASSUME TypeOK, CountsAreSubscribers, NEW s \in Subs, Visit(s)
    PROVE  CountsAreSubscribers'
<1>. SUFFICES ASSUME ~inherited', NEW k \in Keys, NEW p \in Papers
              PROVE  count'[k][p] = Cardinality(Wanting(k, p)')
    BY DEF CountsAreSubscribers
<1>1. count[k][p] = Cardinality(Wanting(k, p))
    BY DEF Visit, CountsAreSubscribers
<1>2. CASE s \in used
    <2>1. Wanting(k, p)' = Wanting(k, p) /\ count' = count
        BY <1>2 DEF Visit, Wanting
    <2>. QED  BY <1>1, <2>1
<1>3. CASE s \notin used
    <2>1. count'[k][p] = IF <<k, p>> \in Want[s] /\ count[k][p] > 0
                         THEN count[k][p] - 1 ELSE count[k][p]
        BY <1>3 DEF Visit, Uncounted
    <2>2. s \in listed
        BY DEF Visit, TypeOK
    <2>3. CASE <<k, p>> \in Want[s]
        <3>1. s \in Wanting(k, p) /\ Wanting(k, p)' = Wanting(k, p) \ {s}
            BY <1>3, <2>2, <2>3 DEF Visit, Wanting
        <3>2. IsFiniteSet(Wanting(k, p)) /\ Cardinality(Wanting(k, p)) \in Nat
            BY WantingIsFinite
        <3>3. /\ Cardinality(Wanting(k, p)') = Cardinality(Wanting(k, p)) - 1
              /\ IsFiniteSet(Wanting(k, p)')
            BY <3>1, <3>2, FS_RemoveElement
        <3>4. Cardinality(Wanting(k, p)') \in Nat
            BY <3>3, FS_CardinalityType
        <3>. QED  BY <1>1, <2>1, <2>3, <3>2, <3>3, <3>4
    <2>4. CASE <<k, p>> \notin Want[s]
        <3>1. Wanting(k, p)' = Wanting(k, p)
            BY <1>3, <2>4 DEF Visit, Wanting
        <3>. QED  BY <1>1, <2>1, <2>4, <3>1
    <2>. QED  BY <2>3, <2>4
<1>. QED  BY <1>2, <1>3

\* A login starts from nothing: that is right when the list is empty.
LEMMA CountsOnLogin ==
    ASSUME TypeOK, Login
    PROVE  CountsAreSubscribers'
<1>. SUFFICES ASSUME ~inherited', NEW k \in Keys, NEW p \in Papers
              PROVE  count'[k][p] = Cardinality(Wanting(k, p)')
    BY DEF CountsAreSubscribers
<1>1. listed' = {}
    BY DEF Login, subscriptions
<1>2. Wanting(k, p)' = {} /\ count'[k][p] = 0
    BY <1>1 DEF Wanting, Login, Nobody
<1>. QED  BY <1>2, FS_EmptySet

LEMMA NextCounts ==
    ASSUME TypeOK, CountsAreSubscribers, [Next]_vars
    PROVE  CountsAreSubscribers'
<1>1. ASSUME UNCHANGED <<count, listed, inherited>> PROVE CountsAreSubscribers'
    BY <1>1 DEF CountsAreSubscribers, Wanting
<1>2. ASSUME NEW s \in Subs, Release(s) PROVE CountsAreSubscribers'
    BY <1>1, <1>2 DEF Release
<1>3. ASSUME Connect \/ Quit \/ SendPing \/ Write \/ WriteFails \/ Line
      PROVE  CountsAreSubscribers'
    BY <1>1, <1>3 DEF Connect, Quit, SendPing, Write, WriteFails, Line, subscriptions
<1>4. ASSUME UNCHANGED vars PROVE CountsAreSubscribers'
    BY <1>1, <1>4 DEF vars, subscriptions
<1>. QED
    BY <1>2, <1>3, <1>4, CountsOnSubscribe, CountsOnVisit, CountsOnLogin DEF Next

-----------------------------------------------------------------------------
(* The last word on a filter.                                              *)

\* The last of the queued writes that name k carries f.
LastSays(queue, k, f) ==
    \A i \in DOMAIN queue :
        k \in queue[i].keys /\ (\A j \in DOMAIN queue : j > i => k \notin queue[j].keys)
            => queue[i].filter[k] = f

Silent(queue, k) == \A i \in DOMAIN queue : k \notin queue[i].keys

\* ServerFollows for one filter.
Follows(k) ==
    /\ LastSays(outbox, k, FilterOf(count)[k])
    /\ k \notin dirty /\ Silent(outbox, k) => server[k] = FilterOf(count)[k]

LEMMA FollowsIsServerFollows ==
    /\ ServerFollows <=> (phase = "online" => \A k \in Keys : Follows(k))
    /\ ServerFollows' <=> (phase' = "online" => \A k \in Keys : Follows(k)')
BY DEF ServerFollows, Follows, LastSays, Silent

LEMMA AppendSays ==
    ASSUME NEW queue \in Seq(Message), NEW m \in Message, NEW k
    PROVE  /\ k \in m.keys =>
                /\ LastSays(Append(queue, m), k, m.filter[k])
                /\ ~Silent(Append(queue, m), k)
           /\ k \notin m.keys =>
                /\ \A f : LastSays(queue, k, f) => LastSays(Append(queue, m), k, f)
                /\ Silent(Append(queue, m), k) => Silent(queue, k)
<1>. DEFINE n == Len(queue)
            both == Append(queue, m)
<1>1. /\ n \in Nat
      /\ DOMAIN queue = 1 .. n /\ DOMAIN both = 1 .. (n + 1)
      /\ \A i \in 1 .. n : both[i] = queue[i]
      /\ both[n + 1] = m
    OBVIOUS
<1>. HIDE DEF n, both
<1>2. ASSUME k \in m.keys
      PROVE  LastSays(both, k, m.filter[k]) /\ ~Silent(both, k)
    <2>1. n + 1 \in DOMAIN both /\ \A i \in DOMAIN both : i = n + 1 \/ n + 1 > i
        BY <1>1
    <2>2. ~Silent(both, k)
        BY <1>1, <1>2, <2>1 DEF Silent
    <2>3. LastSays(both, k, m.filter[k])
        BY <1>1, <1>2, <2>1 DEF LastSays
    <2>. QED  BY <2>2, <2>3
<1>3. ASSUME k \notin m.keys, NEW f, LastSays(queue, k, f)
      PROVE  LastSays(both, k, f)
    <2>. SUFFICES ASSUME NEW i \in DOMAIN both, k \in both[i].keys,
                         \A j \in DOMAIN both : j > i => k \notin both[j].keys
                  PROVE  both[i].filter[k] = f
        BY DEF LastSays
    <2>1. i \in 1 .. n
        BY <1>1, <1>3
    <2>2. \A j \in DOMAIN queue : j > i => k \notin queue[j].keys
        BY <1>1
    <2>. QED  BY <1>1, <1>3, <2>1, <2>2 DEF LastSays
<1>4. ASSUME k \notin m.keys, Silent(both, k)
      PROVE  Silent(queue, k)
    BY <1>1, <1>4 DEF Silent
<1>. QED  BY <1>2, <1>3, <1>4 DEF both

LEMMA TailSays ==
    ASSUME NEW queue \in Seq(Message), queue # <<>>, NEW k, NEW f, LastSays(queue, k, f)
    PROVE  /\ LastSays(Tail(queue), k, f)
           /\ Silent(Tail(queue), k) =>
                IF k \in Head(queue).keys THEN Head(queue).filter[k] = f
                                          ELSE Silent(queue, k)
<1>. DEFINE n == Len(queue)
            rest == Tail(queue)
<1>1. /\ n \in Nat /\ n > 0
      /\ DOMAIN queue = 1 .. n /\ DOMAIN rest = 1 .. (n - 1)
      /\ \A i \in 1 .. (n - 1) : rest[i] = queue[i + 1]
      /\ Head(queue) = queue[1]
    OBVIOUS
<1>. HIDE DEF n, rest
<1>2. \A j \in DOMAIN queue : j > 1 => j - 1 \in DOMAIN rest /\ queue[j] = rest[j - 1]
    BY <1>1
<1>3. LastSays(rest, k, f)
    <2>. SUFFICES ASSUME NEW i \in DOMAIN rest, k \in rest[i].keys,
                         \A j \in DOMAIN rest : j > i => k \notin rest[j].keys
                  PROVE  rest[i].filter[k] = f
        BY DEF LastSays
    <2>1. i + 1 \in DOMAIN queue /\ queue[i + 1] = rest[i]
        BY <1>1
    <2>2. ASSUME NEW j \in DOMAIN queue, j > i + 1 PROVE k \notin queue[j].keys
        <3>1. j - 1 \in DOMAIN rest /\ queue[j] = rest[j - 1] /\ j - 1 > i
            BY <1>1, <1>2, <2>2
        <3>. QED  BY <3>1
    <2>. QED  BY <2>1, <2>2 DEF LastSays
<1>4. ASSUME Silent(rest, k)
      PROVE  IF k \in Head(queue).keys THEN Head(queue).filter[k] = f
                                       ELSE Silent(queue, k)
    <2>1. \A j \in DOMAIN queue : j > 1 => k \notin queue[j].keys
        BY <1>2, <1>4 DEF Silent
    <2>2. 1 \in DOMAIN queue /\ \A j \in DOMAIN queue : j = 1 \/ j > 1
        BY <1>1
    <2>3. CASE k \in Head(queue).keys
        BY <1>1, <2>1, <2>2, <2>3 DEF LastSays
    <2>4. CASE k \notin Head(queue).keys
        BY <1>1, <2>1, <2>2, <2>4 DEF Silent
    <2>. QED  BY <2>3, <2>4
<1>. QED  BY <1>3, <1>4 DEF rest

\* A write of the new filters of some keys, the filters of the others staying.
LEMMA FollowsOnSend ==
    ASSUME TypeOK, NEW keys \in SUBSET Keys, phase # "off",
           SendADFilters(keys, count'), UNCHANGED <<server, dirty>>,
           NEW k \in Keys,
           k \notin keys => Follows(k) /\ FilterOf(count')[k] = FilterOf(count)[k]
    PROVE  Follows(k)'
<1>. DEFINE m == [keys |-> keys, filter |-> FilterOf(count')]
<1>1. m \in Message /\ outbox \in Seq(Message)
    BY SendTyped DEF TypeOK
<1>2. m.keys = keys /\ m.filter = FilterOf(count')
    OBVIOUS
<1>3. outbox' = IF keys = {} THEN outbox ELSE Append(outbox, m)
    BY DEF SendADFilters
<1>4. FilterOf(count)' = FilterOf(count')
    BY DEF FilterOf
<1>. HIDE DEF m
<1>5. CASE k \in keys
    <2>1. outbox' = Append(outbox, m)
        BY <1>3, <1>5
    <2>2. LastSays(outbox', k, FilterOf(count')[k]) /\ ~Silent(outbox', k)
        BY <1>1, <1>2, <1>5, <2>1, AppendSays
    <2>. QED  BY <1>4, <2>2 DEF Follows, Silent, LastSays
<1>6. CASE k \notin keys
    <2>1. LastSays(outbox, k, FilterOf(count')[k])
        BY <1>6 DEF Follows
    <2>2. /\ LastSays(outbox', k, FilterOf(count')[k])
          /\ Silent(outbox', k) => Silent(outbox, k)
        <3>1. CASE keys = {}
            BY <1>3, <2>1, <3>1
        <3>2. CASE keys # {}
            BY <1>1, <1>2, <1>3, <1>6, <2>1, <3>2, AppendSays
        <3>. QED  BY <3>1, <3>2
    <2>3. k \notin dirty' /\ Silent(outbox', k) => server'[k] = FilterOf(count')[k]
        BY <1>6, <2>2 DEF Follows
    <2>. QED  BY <1>4, <2>2, <2>3 DEF Follows, Silent, LastSays
<1>. QED  BY <1>5, <1>6

\* Filters that are not told do not change.
LEMMA UntoldStay ==
    ASSUME TypeOK, NEW s \in Subs, NEW k \in Keys
    PROVE  /\ k \notin RaisedBy(s) => FilterOf(Counted(s))[k] = FilterOf(count)[k]
           /\ k \notin ClearedBy(s) => FilterOf(Uncounted(s))[k] = FilterOf(count)[k]
<1>1. \A p \in Papers : count[k][p] \in Nat
    BY DEF TypeOK
<1>2. ASSUME k \notin RaisedBy(s)
      PROVE  FilterOf(Counted(s))[k] = FilterOf(count)[k]
    <2>1. \A p \in Papers : Counted(s)[k][p] > 0 <=> count[k][p] > 0
        BY <1>1, <1>2 DEF RaisedBy, Counted
    <2>. QED  BY <2>1 DEF FilterOf
<1>3. ASSUME k \notin ClearedBy(s)
      PROVE  FilterOf(Uncounted(s))[k] = FilterOf(count)[k]
    <2>1. \A p \in Papers : Uncounted(s)[k][p] > 0 <=> count[k][p] > 0
        BY <1>1, <1>3 DEF ClearedBy, Uncounted
    <2>. QED  BY <2>1 DEF FilterOf
<1>. QED  BY <1>2, <1>3

LEMMA InitFollows ==
    ASSUME Init PROVE ServerFollows
BY DEF Init, ServerFollows

LEMMA NextFollows ==
    ASSUME TypeOK, ServerFollows, [Next]_vars
    PROVE  ServerFollows'
<1>. SUFFICES ASSUME phase' = "online", NEW k \in Keys PROVE Follows(k)'
    BY FollowsIsServerFollows
<1>. USE DEF subscriptions, wire
<1>0. phase = "online" => Follows(k)
    BY FollowsIsServerFollows
<1>1. ASSUME phase = "online", UNCHANGED <<count, wire>> PROVE Follows(k)'
    BY <1>0, <1>1 DEF Follows, FilterOf, LastSays, Silent
<1>2. ASSUME NEW s \in Subs, SubscribeToQuotes(s) PROVE Follows(k)'
    <2>1. phase = "online" /\ RaisedBy(s) \in SUBSET Keys
        BY <1>2 DEF SubscribeToQuotes, RaisedBy
    <2>2. count' = Counted(s) /\ SendADFilters(RaisedBy(s), count')
        BY <1>2 DEF SubscribeToQuotes
    <2>3. UNCHANGED <<server, dirty>>
        BY <1>2 DEF SubscribeToQuotes
    <2>4. k \notin RaisedBy(s) => FilterOf(count')[k] = FilterOf(count)[k]
        BY <2>2, UntoldStay
    <2>. QED  BY <1>0, <2>1, <2>2, <2>3, <2>4, FollowsOnSend
<1>3. ASSUME NEW s \in Subs, Release(s) PROVE Follows(k)'
    BY <1>1, <1>3 DEF Release
<1>4. ASSUME NEW s \in Subs, Visit(s) PROVE Follows(k)'
    <2>1. phase = "online" /\ UNCHANGED <<server, dirty>>
        BY <1>4 DEF Visit
    <2>2. CASE s \in used
        BY <1>1, <1>4, <2>1, <2>2 DEF Visit
    <2>3. CASE s \notin used
        <3>1. count' = Uncounted(s) /\ SendADFilters(ClearedBy(s), count')
            BY <1>4, <2>3 DEF Visit
        <3>2. k \notin ClearedBy(s) => FilterOf(count')[k] = FilterOf(count)[k]
            BY <3>1, UntoldStay
        <3>3. ClearedBy(s) \in SUBSET Keys
            BY DEF ClearedBy
        <3>. QED  BY <1>0, <2>1, <3>1, <3>2, <3>3, FollowsOnSend
    <2>. QED  BY <2>2, <2>3
<1>5. ASSUME Connect \/ Quit PROVE Follows(k)'
    BY <1>5 DEF Connect, Quit
<1>6. ASSUME Login PROVE Follows(k)'
    <2>1. phase # "off" /\ count' = Nobody /\ UNCHANGED <<server, dirty>>
        BY <1>6 DEF Login
    <2>2. SendADFilters(Keys, count')
        BY <1>6 DEF Login
    <2>. QED  BY <2>1, <2>2, FollowsOnSend
<1>7. ASSUME SendPing PROVE Follows(k)'
    <2>1. phase # "off" /\ count' = count /\ UNCHANGED <<server, dirty>>
        BY <1>7 DEF SendPing
    <2>2. SendADFilters(Keys, count')
        BY <1>7, <2>1 DEF SendPing
    <2>. QED  BY <2>1, <2>2, FollowsOnSend
<1>8. ASSUME Write \/ WriteFails PROVE Follows(k)'
    <2>. DEFINE f == FilterOf(count)[k]
    <2>1. /\ phase = "online" /\ outbox # <<>> /\ count' = count
          /\ outbox' = Tail(outbox)
        BY <1>8 DEF Write, WriteFails
    <2>2. outbox \in Seq(Message) /\ Head(outbox) \in Message
        BY <2>1 DEF TypeOK
    <2>3. FilterOf(count)'[k] = f
        BY <2>1 DEF FilterOf
    <2>4. LastSays(outbox, k, f) /\ (k \notin dirty /\ Silent(outbox, k) => server[k] = f)
        BY <1>0, <2>1 DEF Follows
    <2>. HIDE DEF f
    <2>5. /\ LastSays(Tail(outbox), k, f)
          /\ Silent(Tail(outbox), k) =>
                IF k \in Head(outbox).keys THEN Head(outbox).filter[k] = f
                                           ELSE Silent(outbox, k)
        BY <2>1, <2>2, <2>4, TailSays
    <2>6. ASSUME k \notin dirty', Silent(Tail(outbox), k) PROVE server'[k] = f
        <3>1. CASE Write
            <4>1. /\ server' = [j \in Keys |-> IF j \in Head(outbox).keys
                                               THEN Head(outbox).filter[j] ELSE server[j]]
                  /\ dirty' = dirty \ Head(outbox).keys
                BY <2>1, <3>1 DEF Write
            <4>. QED  BY <2>4, <2>5, <2>6, <4>1
        <3>2. CASE WriteFails
            <4>1. server' = server /\ dirty' = dirty \cup Head(outbox).keys
                BY <2>1, <3>2 DEF WriteFails
            <4>. QED  BY <2>4, <2>5, <2>6, <4>1
        <3>. QED  BY <1>8, <3>1, <3>2
    <2>. QED  BY <2>1, <2>3, <2>5, <2>6 DEF Follows, LastSays, Silent
<1>9. ASSUME Line PROVE Follows(k)'
    BY <1>1, <1>9 DEF Line
<1>10. ASSUME UNCHANGED vars PROVE Follows(k)'
    BY <1>1, <1>10 DEF vars
<1>. QED
    BY <1>2, <1>3, <1>4, <1>5, <1>6, <1>7, <1>8, <1>9, <1>10 DEF Next

-----------------------------------------------------------------------------
\* Types are right; with them, a subscription that is used or still to be
\* visited is in m_subscriptions.
THEOREM TypeCorrect == Spec => []TypeOK
<1>1. TypeOK /\ [Next]_vars => TypeOK'
    BY NextTypeOK
<1>. QED  BY InitTypeOK, <1>1, PTL DEF Spec

\* m_complexFilter counts exactly the subscriptions of the list, whatever
\* threads subscribe, drop their handles and receive lines in between, from a
\* login that found none in the list to the next that finds some.
THEOREM CountsRight == Spec => []CountsAreSubscribers
<1>1. TypeOK /\ CountsAreSubscribers /\ [Next]_vars => (TypeOK /\ CountsAreSubscribers)'
    BY NextTypeOK, NextCounts
<1>. QED  BY InitTypeOK, InitCounts, <1>1, PTL DEF Spec

\* Although sendADFilters is called only when a count becomes 1 or 0, the last
\* write of each filter, queued or done, always carries the present papers.
THEOREM FiltersFollow == Spec => []ServerFollows
<1>1. TypeOK /\ ServerFollows /\ [Next]_vars => (TypeOK /\ ServerFollows)'
    BY NextTypeOK, NextFollows
<1>. QED  BY InitTypeOK, InitFollows, <1>1, PTL DEF Spec

=============================================================================
