----------------------------- MODULE Replica_proofs -----------------------------
(***************************************************************************)
(* Proofs about Replica, for any accounts and papers and any number of     *)
(* changes, blocks and connections.                                        *)
(*                                                                         *)
(* What is lost is decided by one number, the greatest of the table, so    *)
(* that NothingElseLost speaks of all rows at once, and of what the server *)
(* would send at a login.  Within a session it holds for another reason:   *)
(* what is newer than that number is on its way, and nothing on its way    *)
(* overtakes it.  Sent says both.                                          *)
(***************************************************************************)
EXTENDS Replica, FiniteSetTheorems, SequenceTheorems, WellFoundedInduction, TLAPS

-----------------------------------------------------------------------------
(* The invariant.                                                          *)

Skipped(k) == [key |-> k, number |-> server[k]] \in skipped

\* Nobody is ahead of the server.
Behind ==
    \A k \in Keys : /\ rows[k] <= server[k] /\ saved[k] <= server[k]
                    /\ positions[k] <= server[k]

\* Outside a session nothing is under way.  In one, the filter is that of the
\* login, and users see no less than what is stored.
InSession ==
    /\ phase # "online" => wire = <<>> /\ ~serving
    /\ phase = "online" => filter <= Greatest(rows) /\ \A k \in Keys : rows[k] <= positions[k]

\* Blocks about one key come in the order of their numbers, and none is older
\* than what users see.
InOrder ==
    \A i \in DOMAIN wire : LET k == wire[i].key IN k \in Keys =>
        /\ serving
        /\ positions[k] <= wire[i].number /\ wire[i].number <= server[k]
        /\ \A j \in DOMAIN wire :
            i < j /\ wire[j].key = k => wire[i].number <= wire[j].number

\* The last change of k is on its way; what comes before it is older.
Coming(k) ==
    \E i \in DOMAIN wire :
        /\ wire[i] = [key |-> k, number |-> server[k]]
        /\ \A j \in DOMAIN wire :
            j < i /\ wire[j].key # Unknown => wire[j].number < server[k]

\* A row that is not that of the server was skipped, or is on its way, or will
\* be when the server takes the filter.
Sent ==
    \A k \in Keys :
        rows[k] # server[k] /\ ~Skipped(k) =>
            server[k] > Greatest(rows) /\ (serving => Coming(k))

SafeInv == Behind /\ InSession /\ InOrder /\ Sent /\ WouldBeSent(saved)

-----------------------------------------------------------------------------
(* Smallest and greatest numbers.                                          *)

LEMMA SmallestExists ==
    ASSUME NEW S \in SUBSET Nat, S # {}
    PROVE  \E x \in S : \A y \in S : x <= y
<1>. DEFINE Less == {ss \in Nat \X Nat : ss[1] < ss[2]}
<1>1. IsWellFoundedOn(Less, Nat)
    BY NatLessThanWellFounded DEF OpToRel
<1>2. \A x, y \in Nat : y < x => <<y, x>> \in Less
    OBVIOUS
<1>. HIDE DEF Less
<1>3. PICK x \in S : \A y \in S : ~(<<y, x>> \in Less)
    BY <1>1, WFMin
<1>4. ASSUME NEW y \in S PROVE x <= y
    <2>1. x \in Nat /\ y \in Nat /\ ~(y < x)
        BY <1>2, <1>3
    <2>. QED  BY <2>1
<1>. QED BY <1>4

LEMMA MinOf ==
    ASSUME NEW S \in SUBSET Nat, S # {}
    PROVE  Min(S) \in S /\ \A y \in S : Min(S) <= y
BY SmallestExists DEF Min

LEMMA MaxOf ==
    ASSUME NEW N \in Nat, NEW S \in SUBSET (0 .. N), S # {}
    PROVE  Max(S) \in S /\ \A y \in S : y <= Max(S)
<1>. DEFINE T == {N - x : x \in S}
<1>1. T \in SUBSET Nat /\ T # {}
    <2>1. \A x \in S : x \in 0 .. N /\ N - x \in Nat
        OBVIOUS
    <2>2. PICK x : x \in S
        OBVIOUS
    <2>3. N - x \in T
        BY <2>2
    <2>4. \A y \in T : y \in Nat
        BY <2>1
    <2>. QED  BY <2>3, <2>4
<1>2. PICK t \in T : \A y \in T : t <= y
    BY <1>1, SmallestExists
<1>3. PICK x \in S : t = N - x
    BY <1>2
<1>4. ASSUME NEW y \in S PROVE x >= y
    <2>1. N - y \in T /\ x \in Int /\ y \in Int /\ N \in Int
        BY <1>4
    <2>2. N - x <= N - y
        BY <1>2, <1>3, <2>1
    <2>. QED  BY <2>1, <2>2
<1>5. \E z \in S : \A y \in S : z >= y
    BY <1>4
<1>6. Max(S) \in S /\ \A y \in S : Max(S) >= y
    BY <1>5 DEF Max
<1>7. \A y \in S : y \in Int
    OBVIOUS
<1>. QED  BY <1>6, <1>7

LEMMA GreatestOf ==
    ASSUME NEW table \in Table
    PROVE  /\ Greatest(table) \in 0 .. MaxChanges
           /\ \A k \in Keys : table[k] <= Greatest(table)
           /\ \E k \in Keys : table[k] = Greatest(table)
<1>. DEFINE S == {table[k] : k \in Keys}
<1>1. S \in SUBSET (0 .. MaxChanges) /\ S # {}
    BY ReplicaAssumption DEF Table
<1>2. Max(S) \in S /\ \A y \in S : y <= Max(S)
    <2>. HIDE DEF S
    <2>. QED  BY <1>1, ReplicaAssumption, MaxOf
<1>. QED  BY <1>1, <1>2 DEF Greatest

\* A table below another has no greater greatest number.
LEMMA GreatestGrows ==
    ASSUME NEW a \in Table, NEW b \in Table, \A k \in Keys : a[k] <= b[k]
    PROVE  Greatest(a) <= Greatest(b)
<1>1. PICK k \in Keys : a[k] = Greatest(a)
    BY GreatestOf
<1>2. a[k] <= b[k] /\ b[k] <= Greatest(b)
    BY GreatestOf
<1>3. a[k] \in Int /\ b[k] \in Int /\ Greatest(b) \in Int
    BY GreatestOf DEF Table
<1>. QED  BY <1>1, <1>2, <1>3

-----------------------------------------------------------------------------
(* What the server sends at a filter.                                      *)

LEMMA BacklogIs ==
    ASSUME TypeOK, NEW from \in Nat, NEW s \in Backlogs(from)
    PROVE  /\ s \in Seq(Block)
           /\ \A i \in DOMAIN s : /\ s[i].key \in Keys
                                  /\ s[i].number = server[s[i].key]
           /\ \A k \in Keys : server[k] > from =>
                \E i \in DOMAIN s : s[i] = [key |-> k, number |-> server[k]]
           /\ \A i, j \in DOMAIN s : i < j => s[i].number < s[j].number
<1>. DEFINE some == {j \in Keys : server[j] > from}
            newer == {[key |-> k, number |-> server[k]] : k \in some}
<1>1. /\ s \in [1 .. Cardinality(newer) -> newer] /\ Range(s) = newer
      /\ \A i, j \in DOMAIN s : i < j => s[i].number < s[j].number
    BY DEF Backlogs
<1>2. IsFiniteSet(newer)
    <2>1. IsFiniteSet(some)
        BY ReplicaAssumption, FS_Subset
    <2>. DEFINE f == [k \in some |-> [key |-> k, number |-> server[k]]]
    <2>2. f \in Surjection(some, newer)
        BY DEF Surjection
    <2>. HIDE DEF f, some, newer
    <2>. QED  BY <2>1, <2>2, FS_Surjection
<1>3. Cardinality(newer) \in Nat
    BY <1>2, FS_CardinalityType
<1>4. newer \subseteq Block
    BY DEF TypeOK, Table, Block
<1>5. s \in Seq(Block)
    <2>. HIDE DEF newer
    <2>1. s \in [1 .. Cardinality(newer) -> Block]
        BY <1>1, <1>4
    <2>. QED  BY <1>3, <2>1
<1>6. \A b \in newer : b.key \in Keys /\ b.number = server[b.key]
    OBVIOUS
<1>7. \A k \in Keys : server[k] > from => [key |-> k, number |-> server[k]] \in newer
    OBVIOUS
<1>. HIDE DEF newer
<1>8. \A i \in DOMAIN s : s[i] \in newer
    BY <1>1
<1>9. \A b \in newer : \E i \in DOMAIN s : s[i] = b
    BY <1>1 DEF Range
<1>. QED  BY <1>1, <1>5, <1>6, <1>7, <1>8, <1>9

-----------------------------------------------------------------------------
(* What the blocks of a list leave in a table.                             *)

LEMMA WrittenIs ==
    ASSUME NEW table \in Table, NEW recv \in Seq(Block), NEW I \in SUBSET DOMAIN recv,
           NEW k \in Keys
    PROVE  LET new == Written(table, recv, I)
           IN  \/ (\A i \in I : recv[i].key # k) /\ new[k] = table[k]
               \/ \E m \in I : /\ recv[m].key = k /\ new[k] = recv[m].number
                               /\ \A i \in I : recv[i].key = k => i <= m
<1>. DEFINE own == {i \in I : recv[i].key = k}
<1>1. Written(table, recv, I)[k] = IF own = {} THEN table[k] ELSE recv[Max(own)].number
    BY DEF Written
<1>2. CASE own = {}
    BY <1>1, <1>2
<1>3. CASE own # {}
    <2>1. Len(recv) \in Nat /\ DOMAIN recv = 1 .. Len(recv)
        BY LenProperties
    <2>2. own \in SUBSET (0 .. Len(recv))
        BY <2>1
    <2>3. Max(own) \in own /\ \A i \in own : i <= Max(own)
        <3>. HIDE DEF own
        <3>. QED  BY <1>3, <2>1, <2>2, MaxOf
    <2>. QED  BY <1>1, <1>3, <2>3
<1>. QED  BY <1>2, <1>3

LEMMA WrittenTyped ==
    ASSUME NEW table \in Table, NEW recv \in Seq(Block), NEW I \in SUBSET DOMAIN recv
    PROVE  Written(table, recv, I) \in Table
<1>1. ASSUME NEW k \in Keys PROVE Written(table, recv, I)[k] \in 0 .. MaxChanges
    <2>1. \A m \in I : recv[m] \in Block
        OBVIOUS
    <2>2. \A m \in I : recv[m].number \in 0 .. MaxChanges
        BY <2>1 DEF Block
    <2>. QED  BY <2>2, WrittenIs DEF Table
<1>2. Written(table, recv, I) = [k \in Keys |-> Written(table, recv, I)[k]]
    BY DEF Written
<1>. QED  BY <1>1, <1>2 DEF Table

\* A read: the blocks of the store are some of those received; the others that
\* it knows are skipped; the rows are saved or not.
LEMMA ReceiveIs ==
    ASSUME TypeOK, NEW n \in 1 .. Len(wire), Receive(n)
    PROVE  LET recv == SubSeq(wire, 1, n)
           IN  /\ n \in 0 .. Len(wire) /\ Len(wire) \in Nat
               /\ recv \in Seq(Block) /\ DOMAIN recv = 1 .. n
               /\ \A i \in 1 .. n : recv[i] = wire[i]
               /\ wire' \in Seq(Block) /\ Len(wire') = Len(wire) - n
               /\ \A i \in 1 .. Len(wire) - n : wire'[i] = wire[n + i]
               /\ positions' = Written(positions, recv, 1 .. n)
               /\ \E I \in SUBSET (1 .. n) :
                    /\ rows' = Written(rows, recv, I)
                    /\ saved' \in {saved, rows'}
                    /\ skipped' = skipped \cup
                        {recv[i] : i \in {j \in (1 .. n) \ I : recv[j].key # Unknown}}
<1>. DEFINE recv == SubSeq(wire, 1, n)
            rest == SubSeq(wire, n + 1, Len(wire))
<1>1. wire \in Seq(Block) /\ Len(wire) \in Nat
    BY LenProperties DEF TypeOK
<1>2. n \in 0 .. Len(wire)
    BY <1>1
<1>3. recv \in Seq(Block) /\ Len(recv) = n /\ \A i \in 1 .. n : recv[i] = wire[i]
    <2>1. 1 \in 1 .. Len(wire) + 1 /\ n \in 0 .. Len(wire)
        BY <1>1, <1>2
    <2>. QED  BY <1>1, <2>1, SubSeqProperties
<1>4. /\ rest \in Seq(Block) /\ Len(rest) = Len(wire) - n
      /\ \A i \in 1 .. Len(wire) - n : rest[i] = wire[n + i]
    <2>1. n + 1 \in 1 .. Len(wire) + 1 /\ Len(wire) \in n .. Len(wire)
        BY <1>1, <1>2
    <2>. QED  BY <1>1, <2>1, SubSeqProperties
<1>5. wire' = rest /\ positions' = Written(positions, recv, 1 .. n)
    BY DEF Receive
<1>6. PICK failing \in SUBSET (1 .. n) : Store(recv, failing)
    BY DEF Receive
<1>. DEFINE at == UnknownAt(recv) \cup {Len(recv) + 1}
            I == (1 .. Min(at) - 1) \ failing
<1>7. /\ rows' = Written(rows, recv, I)
      /\ saved' = IF UnknownAt(recv) = {} THEN rows' ELSE saved
      /\ skipped' = skipped \cup
            {recv[i] : i \in {j \in DOMAIN recv \ I : recv[j].key # Unknown}}
    BY <1>6 DEF Store
<1>. HIDE DEF recv, rest
<1>8. DOMAIN recv = 1 .. n
    BY <1>3, LenProperties
<1>9. I \in SUBSET (1 .. n)
    <2>1. at \in SUBSET Nat /\ n + 1 \in at /\ n \in Nat
        BY <1>2, <1>3, <1>8 DEF UnknownAt
    <2>2. Min(at) \in Nat /\ Min(at) <= n + 1
        <3>. HIDE DEF at
        <3>. QED  BY <2>1, MinOf
    <2>. HIDE DEF at
    <2>. QED  BY <2>1, <2>2
<1>. HIDE DEF I
<1>10. \E J \in SUBSET (1 .. n) :
            /\ rows' = Written(rows, recv, J)
            /\ saved' \in {saved, rows'}
            /\ skipped' = skipped \cup
                {recv[i] : i \in {j \in (1 .. n) \ J : recv[j].key # Unknown}}
    BY <1>7, <1>8, <1>9
<1>. QED  BY <1>1, <1>2, <1>3, <1>4, <1>5, <1>8, <1>10 DEF recv, rest

-----------------------------------------------------------------------------
(* The types.                                                              *)

LEMMA EmptyTyped == Empty \in Table /\ \A k \in Keys : Empty[k] = 0
BY ReplicaAssumption DEF Empty, Table

LEMMA InitTypeOK ==
    ASSUME Init PROVE TypeOK
<1>1. serving \in BOOLEAN /\ resent \in BOOLEAN
    BY Zenon DEF Init
<1>2. filter \in 0 .. MaxChanges /\ connects \in 0 .. MaxConnects
    BY ReplicaAssumption DEF Init
<1>3. wire \in Seq(Block) /\ skipped \subseteq Block
    BY DEF Init
<1>. QED  BY <1>1, <1>2, <1>3, EmptyTyped DEF Init, TypeOK

LEMMA ResumedTyped ==
    ASSUME TypeOK PROVE Resumed \in Table
BY DEF Resumed, TypeOK, Table

LEMMA NextTypeOK ==
    ASSUME TypeOK, [Next]_vars PROVE TypeOK'
<1>. USE DEF client, store, stream
<1>1. ASSUME Connect PROVE TypeOK'
    BY <1>1, ReplicaAssumption DEF Connect, TypeOK
<1>2. ASSUME Login PROVE TypeOK'
    <2>1. LastUpdate \in 0 .. MaxChanges /\ LastUpdate \in Nat
        BY GreatestOf, ReplicaAssumption DEF LastUpdate, TypeOK
    <2>2. wire' \in Seq(Block) /\ serving' \in BOOLEAN
        <3>1. CASE serving' = TRUE /\ wire' \in Backlogs(LastUpdate)
            <4>1. wire' \in Seq(Block)
                BY <2>1, <3>1, BacklogIs
            <4>2. serving' \in BOOLEAN
                BY <3>1, Zenon
            <4>. QED  BY <4>1, <4>2
        <3>2. CASE UNCHANGED <<serving, wire>>
            BY <3>2 DEF TypeOK
        <3>. QED  BY <1>2, <3>1, <3>2 DEF Login
    <2>. QED  BY <1>2, <2>1, <2>2, ResumedTyped DEF Login, TypeOK
<1>3. ASSUME SendPing PROVE TypeOK'
    <2>1. filter \in Nat /\ wire \in Seq(Block)
        BY ReplicaAssumption DEF TypeOK
    <2>2. PICK backlog \in Backlogs(filter) : wire' = wire \o backlog
        BY <1>3 DEF SendPing
    <2>3. wire' \in Seq(Block)
        BY <2>1, <2>2, BacklogIs, ConcatProperties
    <2>4. resent' \in BOOLEAN /\ serving' \in BOOLEAN
        BY <1>3, Zenon DEF SendPing
    <2>. QED  BY <1>3, <2>3, <2>4 DEF SendPing, TypeOK
<1>4. ASSUME Quit PROVE TypeOK'
    <2>1. serving' \in BOOLEAN
        BY <1>4, Zenon DEF Quit
    <2>2. wire' \in Seq(Block)
        BY <1>4 DEF Quit
    <2>. QED  BY <1>4, <2>1, <2>2 DEF Quit, TypeOK
<1>5. ASSUME Restart PROVE TypeOK'
    <2>1. serving' \in BOOLEAN /\ resent' \in BOOLEAN
        BY <1>5, Zenon DEF Restart
    <2>2. wire' \in Seq(Block) /\ filter' \in 0 .. MaxChanges
        BY <1>5, ReplicaAssumption DEF Restart
    <2>. QED  BY <1>5, <2>1, <2>2, EmptyTyped DEF Restart, TypeOK
<1>6. ASSUME SendUnknown PROVE TypeOK'
    <2>1. [key |-> Unknown, number |-> 0] \in Block
        BY ReplicaAssumption DEF Block
    <2>2. wire' \in Seq(Block)
        BY <1>6, <2>1 DEF SendUnknown, TypeOK
    <2>. QED  BY <1>6, <2>2 DEF SendUnknown, TypeOK
<1>7. ASSUME NEW k \in Keys, Change(k) PROVE TypeOK'
    <2>. DEFINE number == Greatest(server) + 1
    <2>1. number \in 0 .. MaxChanges
        BY <1>7, GreatestOf, ReplicaAssumption DEF Change, TypeOK
    <2>2. /\ server' = [server EXCEPT ![k] = number]
          /\ wire' = IF serving THEN Append(wire, [key |-> k, number |-> number]) ELSE wire
        BY <1>7 DEF Change
    <2>. HIDE DEF number
    <2>3. server' \in Table
        BY <2>1, <2>2 DEF TypeOK, Table
    <2>4. [key |-> k, number |-> number] \in Block
        BY <2>1 DEF Block
    <2>5. wire' \in Seq(Block)
        BY <2>2, <2>4 DEF TypeOK
    <2>. QED  BY <1>7, <2>3, <2>5 DEF Change, TypeOK
<1>8. ASSUME NEW n \in 1 .. Len(wire), Receive(n) PROVE TypeOK'
    <2>. DEFINE recv == SubSeq(wire, 1, n)
    <2>1. /\ recv \in Seq(Block) /\ DOMAIN recv = 1 .. n
          /\ wire' \in Seq(Block)
          /\ positions' = Written(positions, recv, 1 .. n)
        BY <1>8, ReceiveIs
    <2>2. PICK I \in SUBSET (1 .. n) :
            /\ rows' = Written(rows, recv, I)
            /\ saved' \in {saved, rows'}
            /\ skipped' = skipped \cup
                {recv[i] : i \in {j \in (1 .. n) \ I : recv[j].key # Unknown}}
        BY <1>8, ReceiveIs
    <2>. HIDE DEF recv
    <2>3. positions' \in Table /\ rows' \in Table /\ saved' \in Table
        BY <2>1, <2>2, WrittenTyped DEF TypeOK
    <2>4. skipped' \subseteq Block
        BY <2>1, <2>2 DEF TypeOK
    <2>. QED  BY <1>8, <2>1, <2>3, <2>4 DEF Receive, TypeOK
<1>9. ASSUME UNCHANGED vars PROVE TypeOK'
    BY <1>9 DEF vars, TypeOK
<1>. QED  BY <1>1, <1>2, <1>3, <1>4, <1>5, <1>6, <1>7, <1>8, <1>9 DEF Next

-----------------------------------------------------------------------------
(* The invariant, step by step.                                            *)

LEMMA InitSafe ==
    ASSUME Init PROVE SafeInv
<1>1. \A k \in Keys : rows[k] = 0 /\ saved[k] = 0 /\ positions[k] = 0 /\ server[k] = 0
    BY EmptyTyped DEF Init
<1>2. DOMAIN wire = {}
    BY DEF Init
<1>3. Behind
    BY <1>1 DEF Behind
<1>4. InSession
    BY DEF Init, InSession
<1>5. InOrder
    BY <1>2 DEF InOrder
<1>6. Sent
    BY <1>1 DEF Sent
<1>7. WouldBeSent(saved)
    BY <1>1 DEF WouldBeSent
<1>. QED  BY <1>3, <1>4, <1>5, <1>6, <1>7 DEF SafeInv

\* The end of a session, or of the process, goes back to what is saved.
LEMMA SafeAtEnd ==
    ASSUME TypeOK, SafeInv, Quit \/ Restart PROVE SafeInv'
<1>1. /\ rows' = saved /\ saved' = saved /\ server' = server /\ skipped' = skipped
      /\ wire' = <<>> /\ serving' = FALSE /\ phase' = "off"
      /\ positions' = positions \/ positions' = Empty
    BY DEF Quit, Restart, client
<1>2. \A k \in Keys : positions'[k] <= server[k]
    BY <1>1, EmptyTyped DEF SafeInv, Behind, TypeOK, Table
<1>3. Behind'
    BY <1>1, <1>2 DEF SafeInv, Behind
<1>4. InSession'
    BY <1>1 DEF InSession
<1>5. InOrder'
    BY <1>1 DEF InOrder
<1>6. Sent'
    BY <1>1 DEF SafeInv, Sent, WouldBeSent, Skipped
<1>7. WouldBeSent(saved)'
    BY <1>1 DEF SafeInv, WouldBeSent
<1>. QED  BY <1>3, <1>4, <1>5, <1>6, <1>7 DEF SafeInv

LEMMA SafeAtStart ==
    ASSUME TypeOK, SafeInv, Connect \/ UNCHANGED vars PROVE SafeInv'
<1>1. /\ UNCHANGED <<server, wire, serving, positions, filter, rows, saved, skipped>>
      /\ phase' = "online" <=> phase = "online"
    BY DEF Connect, vars, client, store, stream
<1>2. Behind'
    BY <1>1 DEF SafeInv, Behind
<1>3. InSession'
    BY <1>1 DEF SafeInv, InSession
<1>4. InOrder'
    BY <1>1 DEF SafeInv, InOrder
<1>5. Sent'
    BY <1>1 DEF SafeInv, Sent, Skipped, Coming
<1>6. WouldBeSent(saved)'
    BY <1>1 DEF SafeInv, WouldBeSent
<1>. QED  BY <1>2, <1>3, <1>4, <1>5, <1>6 DEF SafeInv

\* At the login nothing is under way; what is newer than the rows is sent, if
\* the server takes the filter.
LEMMA SafeAtLogin ==
    ASSUME TypeOK, SafeInv, Login PROVE SafeInv'
<1>1. /\ phase = "connecting" /\ phase' = "online" /\ filter' = Greatest(rows)
      /\ positions' = Resumed
      /\ UNCHANGED <<rows, saved, skipped, server>>
      /\ \/ serving' = TRUE /\ wire' \in Backlogs(Greatest(rows))
         \/ UNCHANGED <<serving, wire>>
    BY DEF Login, LastUpdate, store
<1>2. wire = <<>> /\ ~serving
    BY <1>1 DEF SafeInv, InSession
<1>3. /\ Greatest(rows) \in Nat /\ \A k \in Keys : rows[k] <= Greatest(rows)
      /\ Greatest(rows) <= Greatest(rows)
    BY GreatestOf DEF TypeOK
<1>4. \A k \in Keys : /\ rows[k] <= positions'[k] /\ positions'[k] <= server[k]
                      /\ rows[k] <= server[k] /\ saved[k] <= server[k]
    BY <1>1 DEF SafeInv, Behind, Resumed, TypeOK, Table
<1>5. Behind'
    BY <1>1, <1>4 DEF Behind
<1>6. InSession'
    BY <1>1, <1>3, <1>4 DEF InSession
<1>7. WouldBeSent(saved)'
    BY <1>1 DEF SafeInv, WouldBeSent
<1>8. CASE UNCHANGED <<serving, wire>>
    <2>1. InOrder'
        BY <1>2, <1>8 DEF InOrder
    <2>2. Sent'
        BY <1>1, <1>2, <1>8 DEF SafeInv, Sent, Skipped
    <2>. QED  BY <1>5, <1>6, <1>7, <2>1, <2>2 DEF SafeInv
<1>9. CASE serving' = TRUE /\ wire' \in Backlogs(Greatest(rows))
    <2>1. /\ \A i \in DOMAIN wire' : /\ wire'[i].key \in Keys
                                     /\ wire'[i].number = server[wire'[i].key]
          /\ \A k \in Keys : server[k] > Greatest(rows) =>
                \E i \in DOMAIN wire' : wire'[i] = [key |-> k, number |-> server[k]]
          /\ \A i, j \in DOMAIN wire' : i < j => wire'[i].number < wire'[j].number
        BY <1>3, <1>9, BacklogIs
    <2>2. \A k \in Keys : server[k] \in Int
        BY DEF TypeOK, Table
    <2>3. InOrder'
        BY <1>1, <1>4, <1>9, <2>1, <2>2 DEF InOrder
    <2>4. ASSUME NEW k \in Keys, server[k] > Greatest(rows)
          PROVE  Coming(k)'
        BY <1>1, <2>1, <2>4 DEF Coming
    <2>5. Sent'
        BY <1>1, <2>4 DEF SafeInv, Sent, Skipped
    <2>. QED  BY <1>5, <1>6, <1>7, <2>3, <2>5 DEF SafeInv
<1>. QED  BY <1>1, <1>8, <1>9

LEMMA SafeAtUnknown ==
    ASSUME TypeOK, SafeInv, SendUnknown PROVE SafeInv'
<1>1. /\ UNCHANGED <<phase, filter, positions, rows, saved, skipped, server, serving>>
      /\ phase = "online"
      /\ wire' = Append(wire, [key |-> Unknown, number |-> 0])
    BY DEF SendUnknown, client, store
<1>. DEFINE n == Len(wire)
<1>2. /\ n \in Nat /\ DOMAIN wire = 1 .. n /\ DOMAIN wire' = 1 .. n + 1
      /\ \A i \in 1 .. n : wire'[i] = wire[i]
      /\ wire'[n + 1].key = Unknown
    BY <1>1 DEF TypeOK
<1>. HIDE DEF n
<1>3. Behind'
    BY <1>1 DEF SafeInv, Behind
<1>4. InSession'
    BY <1>1 DEF SafeInv, InSession
<1>5. WouldBeSent(saved)'
    BY <1>1 DEF SafeInv, WouldBeSent
<1>6. \A i \in DOMAIN wire' : wire'[i].key \in Keys => i \in DOMAIN wire /\ wire'[i] = wire[i]
    BY <1>2, ReplicaAssumption
<1>7. InOrder'
    BY <1>1, <1>6 DEF SafeInv, InOrder
<1>8. ASSUME NEW k \in Keys, Coming(k) PROVE Coming(k)'
    <2>1. PICK i \in DOMAIN wire :
            /\ wire[i] = [key |-> k, number |-> server[k]]
            /\ \A j \in DOMAIN wire :
                j < i /\ wire[j].key # Unknown => wire[j].number < server[k]
        BY <1>8 DEF Coming
    <2>2. /\ i \in DOMAIN wire' /\ wire'[i] = [key |-> k, number |-> server[k]]
          /\ \A j \in DOMAIN wire' :
                j < i /\ wire'[j].key # Unknown => wire'[j].number < server[k]
        BY <1>2, <2>1
    <2>. QED  BY <1>1, <2>2 DEF Coming
<1>9. Sent'
    BY <1>1, <1>8 DEF SafeInv, Sent, Skipped
<1>. QED  BY <1>3, <1>4, <1>5, <1>7, <1>9 DEF SafeInv

\* A change is newer than all there is.
LEMMA SafeAtChange ==
    ASSUME TypeOK, SafeInv, NEW c \in Keys, Change(c) PROVE SafeInv'
<1>. DEFINE number == Greatest(server) + 1
            n == Len(wire)
            block == [key |-> c, number |-> number]
<1>1. /\ UNCHANGED <<phase, filter, positions, rows, saved, skipped, serving>>
      /\ server' = [server EXCEPT ![c] = number]
      /\ wire' = IF serving THEN Append(wire, block) ELSE wire
    BY DEF Change, client, store
<1>2. /\ Greatest(server) \in Nat /\ number \in Nat
      /\ \A k \in Keys : server[k] \in Nat /\ server[k] < number
    <2>1. /\ Greatest(server) \in 0 .. MaxChanges
          /\ \A k \in Keys : server[k] <= Greatest(server)
        BY GreatestOf DEF TypeOK
    <2>. QED  BY <2>1, ReplicaAssumption DEF TypeOK, Table
<1>3. /\ \A k \in Keys : server'[k] = IF k = c THEN number ELSE server[k]
      /\ \A k \in Keys : server[k] <= server'[k]
    BY <1>1, <1>2 DEF TypeOK, Table
<1>4. Greatest(rows) < number /\ Greatest(saved) < number
    <2>1. Greatest(rows) <= Greatest(server) /\ Greatest(saved) <= Greatest(server)
        BY GreatestGrows DEF SafeInv, Behind, TypeOK
    <2>2. Greatest(rows) \in 0 .. MaxChanges /\ Greatest(saved) \in 0 .. MaxChanges
        BY GreatestOf DEF TypeOK
    <2>. QED  BY <1>2, <2>1, <2>2, ReplicaAssumption
<1>5. \A k \in Keys : rows[k] \in Nat /\ saved[k] \in Nat /\ positions[k] \in Nat
    BY ReplicaAssumption DEF TypeOK, Table
<1>6. Behind'
    <2>1. ASSUME NEW k \in Keys
          PROVE  rows[k] <= server'[k] /\ saved[k] <= server'[k] /\ positions[k] <= server'[k]
        <3>1. rows[k] <= server[k] /\ saved[k] <= server[k] /\ positions[k] <= server[k]
            BY DEF SafeInv, Behind
        <3>2. server'[k] \in Nat /\ server[k] <= server'[k]
            BY <1>2, <1>3
        <3>. QED  BY <1>2, <1>5, <3>1, <3>2
    <2>. QED  BY <1>1, <2>1 DEF Behind
<1>7. /\ n \in Nat /\ DOMAIN wire = 1 .. n
      /\ \A i \in DOMAIN wire : i \in DOMAIN wire' /\ wire'[i] = wire[i]
      /\ IF serving THEN DOMAIN wire' = 1 .. n + 1 /\ wire'[n + 1] = block
                    ELSE DOMAIN wire' = 1 .. n
    <2>1. n \in Nat /\ DOMAIN wire = 1 .. n
        BY DEF TypeOK
    <2>2. CASE serving
        <3>. HIDE DEF block
        <3>1. wire' = Append(wire, block)
            BY <1>1, <2>2
        <3>. QED  BY <2>1, <2>2, <3>1 DEF TypeOK
    <2>3. CASE ~serving
        BY <1>1, <2>1, <2>3
    <2>. QED  BY <2>2, <2>3
<1>8. InSession'
    <2>1. phase # "online" => wire' = <<>> /\ ~serving
        BY <1>1 DEF SafeInv, InSession
    <2>. QED  BY <1>1, <2>1 DEF SafeInv, InSession
<1>9. \A i \in DOMAIN wire : wire[i].key # Unknown =>
        /\ wire[i].key \in Keys /\ wire[i].number \in Nat /\ wire[i].number < number
    <2>. SUFFICES ASSUME NEW i \in DOMAIN wire, wire[i].key # Unknown
                  PROVE  /\ wire[i].key \in Keys
                         /\ wire[i].number \in Nat /\ wire[i].number < number
        OBVIOUS
    <2>1. wire[i] \in Block
        BY DEF TypeOK
    <2>2. wire[i].key \in Keys /\ wire[i].number \in Nat
        BY <2>1, ReplicaAssumption DEF Block
    <2>3. wire[i].number <= server[wire[i].key]
        BY <2>2 DEF SafeInv, InOrder
    <2>4. server[wire[i].key] \in Nat /\ server[wire[i].key] < number
        BY <1>2, <2>2
    <2>. QED  BY <1>2, <2>2, <2>3, <2>4
<1>. HIDE DEF number, n
<1>10. InOrder'
    <2>. SUFFICES ASSUME NEW i \in DOMAIN wire', NEW k \in Keys, k = wire'[i].key
                  PROVE  /\ serving
                         /\ positions[k] <= wire'[i].number /\ wire'[i].number <= server'[k]
                         /\ \A j \in DOMAIN wire' :
                                i < j /\ wire'[j].key = k => wire'[i].number <= wire'[j].number
        BY <1>1 DEF InOrder
    <2>1. CASE i \in DOMAIN wire
        <3>1. wire'[i] = wire[i] /\ wire[i].key # Unknown
            BY <1>7, <2>1, ReplicaAssumption
        <3>2. /\ serving
              /\ positions[k] <= wire[i].number /\ wire[i].number <= server[k]
              /\ \A j \in DOMAIN wire :
                    i < j /\ wire[j].key = k => wire[i].number <= wire[j].number
            BY <2>1, <3>1 DEF SafeInv, InOrder
        <3>3. wire[i].number \in Nat /\ wire[i].number < number
            BY <1>9, <2>1, <3>1
        <3>4. wire[i].number <= server'[k]
            BY <1>2, <1>3, <3>2, <3>3
        <3>5. ASSUME NEW j \in DOMAIN wire', i < j, wire'[j].key = k
              PROVE  wire[i].number <= wire'[j].number
            <4>1. CASE j \in DOMAIN wire
                BY <1>7, <3>2, <3>5, <4>1
            <4>2. CASE j \notin DOMAIN wire
                <5>1. wire'[j] = block
                    BY <1>7, <3>2, <4>2
                <5>. QED  BY <1>2, <3>3, <5>1
            <4>. QED  BY <4>1, <4>2
        <3>. QED  BY <3>1, <3>2, <3>4, <3>5
    <2>2. CASE i \notin DOMAIN wire
        <3>1. serving /\ i = n + 1 /\ wire'[i] = block
            BY <1>7, <2>2
        <3>2. k = c /\ wire'[i].number = number
            BY <3>1
        <3>3. positions[k] <= number /\ number <= server'[k]
            <4>1. positions[k] <= server[k] /\ server[k] < number
                BY <1>2 DEF SafeInv, Behind
            <4>. QED  BY <1>2, <1>3, <1>5, <3>2, <4>1
        <3>4. \A j \in DOMAIN wire' : ~(i < j)
            BY <1>7, <3>1
        <3>. QED  BY <3>1, <3>2, <3>3, <3>4
    <2>. QED  BY <2>1, <2>2
<1>11. ASSUME NEW k \in Keys, rows[k] # server'[k],
              [key |-> k, number |-> server'[k]] \notin skipped
       PROVE  server'[k] > Greatest(rows) /\ (serving => Coming(k)')
    <2>1. CASE k = c
        <3>1. server'[k] = number
            BY <1>3, <2>1
        <3>2. Greatest(rows) \in 0 .. MaxChanges
            BY GreatestOf DEF TypeOK
        <3>3. server'[k] > Greatest(rows)
            BY <1>2, <1>4, <3>1, <3>2, ReplicaAssumption
        <3>4. ASSUME serving PROVE Coming(k)'
            <4>1. n + 1 \in DOMAIN wire' /\ wire'[n + 1] = [key |-> k, number |-> server'[k]]
                BY <1>7, <2>1, <3>1, <3>4
            <4>2. ASSUME NEW j \in DOMAIN wire', j < n + 1, wire'[j].key # Unknown
                  PROVE  wire'[j].number < server'[k]
                <5>1. j \in DOMAIN wire /\ wire'[j] = wire[j]
                    BY <1>7, <3>4, <4>2
                <5>. QED  BY <1>9, <3>1, <4>2, <5>1
            <4>. QED  BY <4>1, <4>2 DEF Coming
        <3>. QED  BY <3>3, <3>4
    <2>2. CASE k # c
        <3>1. server'[k] = server[k]
            BY <1>3, <2>2
        <3>2. server[k] > Greatest(rows) /\ (serving => Coming(k))
            BY <1>11, <3>1 DEF SafeInv, Sent, Skipped
        <3>3. ASSUME serving PROVE Coming(k)'
            <4>1. PICK i \in DOMAIN wire :
                    /\ wire[i] = [key |-> k, number |-> server[k]]
                    /\ \A j \in DOMAIN wire :
                        j < i /\ wire[j].key # Unknown => wire[j].number < server[k]
                BY <3>2, <3>3 DEF Coming
            <4>2. i \in DOMAIN wire' /\ wire'[i] = [key |-> k, number |-> server'[k]]
                BY <1>7, <3>1, <4>1
            <4>3. ASSUME NEW j \in DOMAIN wire', j < i, wire'[j].key # Unknown
                  PROVE  wire'[j].number < server'[k]
                <5>1. j \in DOMAIN wire /\ wire'[j] = wire[j]
                    BY <1>7, <3>3, <4>3
                <5>. QED  BY <3>1, <4>1, <4>3, <5>1
            <4>. QED  BY <4>2, <4>3 DEF Coming
        <3>. QED  BY <3>1, <3>2, <3>3
    <2>. QED  BY <2>1, <2>2
<1>12. Sent'
    BY <1>1, <1>11 DEF Sent, Skipped
<1>13. WouldBeSent(saved)'
    <2>1. ASSUME NEW k \in Keys, saved[k] # server'[k],
                 [key |-> k, number |-> server'[k]] \notin skipped
          PROVE  server'[k] > Greatest(saved)
        <3>1. CASE k = c
            <4>1. Greatest(saved) \in 0 .. MaxChanges
                BY GreatestOf DEF TypeOK
            <4>. QED  BY <1>2, <1>3, <1>4, <3>1, <4>1, ReplicaAssumption
        <3>2. CASE k # c
            BY <1>3, <2>1, <3>2 DEF SafeInv, WouldBeSent
        <3>. QED  BY <3>1, <3>2
    <2>. QED  BY <1>1, <2>1 DEF WouldBeSent
<1>. QED  BY <1>6, <1>8, <1>10, <1>12, <1>13 DEF SafeInv

\* The first ping sends again what the login asked for: all that the rows lack,
\* since they have only grown since then.
LEMMA SafeAtPing ==
    ASSUME TypeOK, SafeInv, SendPing PROVE SafeInv'
<1>1. /\ phase = "online" /\ serving' = TRUE
      /\ UNCHANGED <<phase, filter, positions, rows, saved, skipped, server>>
    BY DEF SendPing, store
<1>2. PICK backlog \in Backlogs(filter) : wire' = wire \o backlog
    BY DEF SendPing
<1>. DEFINE n == Len(wire)
            l == Len(backlog)
<1>3. filter \in Nat /\ wire \in Seq(Block) /\ n \in Nat /\ DOMAIN wire = 1 .. n
    BY ReplicaAssumption, LenProperties DEF TypeOK
<1>4. /\ backlog \in Seq(Block)
      /\ \A i \in DOMAIN backlog : /\ backlog[i].key \in Keys
                                   /\ backlog[i].number = server[backlog[i].key]
      /\ \A k \in Keys : server[k] > filter =>
            \E i \in DOMAIN backlog : backlog[i] = [key |-> k, number |-> server[k]]
      /\ \A i, j \in DOMAIN backlog : i < j => backlog[i].number < backlog[j].number
    BY <1>3, BacklogIs
<1>5. l \in Nat /\ DOMAIN backlog = 1 .. l
    BY <1>4, LenProperties
<1>6. /\ DOMAIN wire' = 1 .. n + l
      /\ \A i \in 1 .. n : wire'[i] = wire[i]
      /\ \A i \in 1 .. n + l : i > n => i - n \in 1 .. l /\ wire'[i] = backlog[i - n]
    <2>1. /\ wire' \in Seq(Block) /\ Len(wire') = n + l
          /\ \A i \in 1 .. n + l : wire'[i] = IF i <= n THEN wire[i] ELSE backlog[i - n]
        BY <1>2, <1>3, <1>4, ConcatProperties
    <2>. HIDE DEF n, l
    <2>2. DOMAIN wire' = 1 .. n + l
        BY <2>1, LenProperties
    <2>. QED  BY <1>3, <1>5, <2>1, <2>2
<1>. HIDE DEF n, l
<1>7. Behind'
    BY <1>1 DEF SafeInv, Behind
<1>8. InSession'
    BY <1>1 DEF SafeInv, InSession
<1>9. WouldBeSent(saved)'
    BY <1>1 DEF SafeInv, WouldBeSent
<1>10. \A k \in Keys : server[k] \in Nat /\ positions[k] <= server[k]
    BY ReplicaAssumption DEF SafeInv, Behind, TypeOK, Table
<1>11. InOrder'
    <2>. SUFFICES ASSUME NEW i \in DOMAIN wire', NEW k \in Keys, k = wire'[i].key
                  PROVE  /\ positions[k] <= wire'[i].number /\ wire'[i].number <= server[k]
                         /\ \A j \in DOMAIN wire' :
                                i < j /\ wire'[j].key = k => wire'[i].number <= wire'[j].number
        BY <1>1 DEF InOrder
    <2>1. \A j \in DOMAIN wire' : j > n /\ wire'[j].key = k => wire'[j].number = server[k]
        BY <1>4, <1>5, <1>6
    <2>2. CASE i \in 1 .. n
        <3>1. /\ positions[k] <= wire[i].number /\ wire[i].number <= server[k]
              /\ \A j \in DOMAIN wire :
                    i < j /\ wire[j].key = k => wire[i].number <= wire[j].number
              /\ wire'[i] = wire[i]
            BY <1>3, <1>6, <2>2 DEF SafeInv, InOrder
        <3>2. ASSUME NEW j \in DOMAIN wire', i < j, wire'[j].key = k
              PROVE  wire[i].number <= wire'[j].number
            <4>1. CASE j \in 1 .. n
                BY <1>3, <1>6, <3>1, <3>2, <4>1
            <4>2. CASE j > n
                BY <2>1, <3>1, <3>2, <4>2
            <4>. QED  BY <1>3, <1>5, <1>6, <4>1, <4>2
        <3>. QED  BY <3>1, <3>2
    <2>3. CASE i > n
        <3>1. wire'[i].number = server[k]
            BY <2>1, <2>3
        <3>2. \A j \in DOMAIN wire' : i < j => j > n
            BY <1>3, <1>5, <1>6, <2>3
        <3>3. server[k] <= server[k]
            BY <1>10
        <3>. QED  BY <1>10, <2>1, <3>1, <3>2, <3>3
    <2>. QED  BY <1>3, <1>5, <1>6, <2>2, <2>3
<1>12. ASSUME NEW k \in Keys, rows[k] # server[k], ~Skipped(k)
       PROVE  server[k] > Greatest(rows) /\ Coming(k)'
    <2>1. server[k] > Greatest(rows) /\ (serving => Coming(k))
        BY <1>12 DEF SafeInv, Sent
    <2>2. CASE serving
        <3>1. PICK i \in DOMAIN wire :
                /\ wire[i] = [key |-> k, number |-> server[k]]
                /\ \A j \in DOMAIN wire :
                    j < i /\ wire[j].key # Unknown => wire[j].number < server[k]
            BY <2>1, <2>2 DEF Coming
        <3>2. i \in DOMAIN wire' /\ wire'[i] = wire[i]
            BY <1>3, <1>5, <1>6, <3>1
        <3>3. \A j \in DOMAIN wire' : j < i => j \in DOMAIN wire /\ wire'[j] = wire[j]
            BY <1>3, <1>5, <1>6, <3>1
        <3>. QED  BY <1>1, <2>1, <3>1, <3>2, <3>3 DEF Coming
    <2>3. CASE ~serving
        <3>1. ASSUME NEW j \in DOMAIN wire PROVE wire[j].key = Unknown
            <4>1. wire[j] \in Block
                BY <1>3
            <4>2. wire[j].key \notin Keys
                BY <2>3 DEF SafeInv, InOrder
            <4>. QED  BY <4>1, <4>2 DEF Block
        <3>2. server[k] > filter
            <4>1. filter <= Greatest(rows)
                BY <1>1 DEF SafeInv, InSession
            <4>2. Greatest(rows) \in 0 .. MaxChanges
                BY GreatestOf DEF TypeOK
            <4>. QED  BY <1>3, <1>10, <2>1, <4>1, <4>2, ReplicaAssumption
        <3>3. PICK i \in DOMAIN backlog : backlog[i] = [key |-> k, number |-> server[k]]
            BY <1>4, <3>2
        <3>4. n + i \in DOMAIN wire' /\ wire'[n + i] = backlog[i]
            <4>1. i \in 1 .. l
                BY <1>5
            <4>2. n + i \in 1 .. n + l /\ n + i > n /\ (n + i) - n = i
                BY <1>3, <1>5, <4>1
            <4>. QED  BY <1>6, <4>2
        <3>5. ASSUME NEW j \in DOMAIN wire', j < n + i, wire'[j].key # Unknown
              PROVE  wire'[j].number < server[k]
            <4>1. j > n
                BY <1>3, <1>5, <1>6, <3>1, <3>5
            <4>2. /\ j - n \in DOMAIN backlog /\ wire'[j] = backlog[j - n]
                  /\ j - n < i
                BY <1>3, <1>5, <1>6, <3>5, <4>1
            <4>3. backlog[j - n].number < backlog[i].number
                BY <1>4, <4>2
            <4>. QED  BY <3>3, <4>2, <4>3
        <3>. QED  BY <1>1, <2>1, <3>3, <3>4, <3>5 DEF Coming
    <2>. QED  BY <2>2, <2>3
<1>13. Sent'
    BY <1>1, <1>12 DEF Sent, Skipped
<1>. QED  BY <1>7, <1>8, <1>9, <1>11, <1>13 DEF SafeInv

\* A read: what is behind the blocks that are received is newer than they are,
\* and what is among them is stored or skipped.
LEMMA SafeAtReceive ==
    ASSUME TypeOK, SafeInv, NEW n \in 1 .. Len(wire), Receive(n) PROVE SafeInv'
<1>. DEFINE recv == SubSeq(wire, 1, n)
            N == Len(wire)
<1>1. /\ n \in 0 .. N /\ N \in Nat
      /\ recv \in Seq(Block) /\ DOMAIN recv = 1 .. n
      /\ \A i \in 1 .. n : recv[i] = wire[i]
      /\ wire' \in Seq(Block) /\ Len(wire') = N - n
      /\ \A i \in 1 .. N - n : wire'[i] = wire[n + i]
      /\ positions' = Written(positions, recv, 1 .. n)
    BY ReceiveIs
<1>2. PICK I \in SUBSET (1 .. n) :
        /\ rows' = Written(rows, recv, I)
        /\ saved' \in {saved, rows'}
        /\ skipped' = skipped \cup
            {recv[i] : i \in {j \in (1 .. n) \ I : recv[j].key # Unknown}}
    BY ReceiveIs
<1>3. phase = "online" /\ UNCHANGED <<phase, filter, server, serving>>
    BY DEF Receive
<1>4. DOMAIN wire = 1 .. N /\ DOMAIN wire' = 1 .. N - n
    BY <1>1, LenProperties DEF TypeOK
<1>. HIDE DEF recv, N
<1>5. \A k \in Keys : /\ rows[k] \in Nat /\ saved[k] \in Nat /\ positions[k] \in Nat
                      /\ server[k] \in Nat
                      /\ rows[k] <= positions[k] /\ positions[k] <= server[k]
                      /\ rows[k] <= server[k] /\ saved[k] <= server[k]
    BY <1>3, ReplicaAssumption DEF SafeInv, Behind, InSession, TypeOK, Table
\* Blocks on the wire are what InOrder says.
<1>6. \A i \in 1 .. N : wire[i].key \in Keys =>
        /\ serving /\ wire[i].number \in Nat
        /\ positions[wire[i].key] <= wire[i].number
        /\ wire[i].number <= server[wire[i].key]
        /\ \A j \in 1 .. N : i <= j /\ wire[j].key = wire[i].key =>
                wire[j].number \in Nat /\ wire[i].number <= wire[j].number
    <2>1. \A i \in 1 .. N : wire[i].number \in Nat
        <3>1. wire \in Seq(Block)
            BY DEF TypeOK
        <3>2. \A i \in DOMAIN wire : wire[i] \in Block
            BY <3>1
        <3>. QED  BY <1>4, <3>2, ReplicaAssumption DEF Block
    <2>. SUFFICES ASSUME NEW i \in 1 .. N, wire[i].key \in Keys
                  PROVE  /\ serving
                         /\ positions[wire[i].key] <= wire[i].number
                         /\ wire[i].number <= server[wire[i].key]
                         /\ \A j \in 1 .. N : i <= j /\ wire[j].key = wire[i].key =>
                                wire[i].number <= wire[j].number
        BY <2>1
    <2>2. /\ serving
          /\ positions[wire[i].key] <= wire[i].number
          /\ wire[i].number <= server[wire[i].key]
          /\ \A j \in 1 .. N : i < j /\ wire[j].key = wire[i].key =>
                wire[i].number <= wire[j].number
        BY <1>4 DEF SafeInv, InOrder
    <2>3. ASSUME NEW j \in 1 .. N, i <= j, wire[j].key = wire[i].key
          PROVE  wire[i].number <= wire[j].number
        <3>1. CASE i = j
            BY <2>1, <3>1
        <3>2. CASE i # j
            <4>1. i < j
                BY <1>1, <2>3, <3>2
            <4>. QED  BY <2>2, <2>3, <4>1
        <3>. QED  BY <3>1, <3>2
    <2>. QED  BY <2>2, <2>3
<1>7. ASSUME NEW k \in Keys
      PROVE  \/ (\A i \in I : wire[i].key # k) /\ rows'[k] = rows[k]
             \/ \E m \in I : /\ wire[m].key = k /\ rows'[k] = wire[m].number
                             /\ \A i \in I : wire[i].key = k => i <= m
    <2>1. I \in SUBSET DOMAIN recv /\ rows \in Table /\ recv \in Seq(Block)
        BY <1>1 DEF TypeOK
    <2>. DEFINE new == Written(rows, recv, I)
    <2>2. \/ (\A i \in I : recv[i].key # k) /\ new[k] = rows[k]
          \/ \E m \in I : /\ recv[m].key = k /\ new[k] = recv[m].number
                          /\ \A i \in I : recv[i].key = k => i <= m
        <3>. HIDE DEF new
        <3>1. \A J \in SUBSET DOMAIN recv : LET w == Written(rows, recv, J) IN
                \/ (\A i \in J : recv[i].key # k) /\ w[k] = rows[k]
                \/ \E m \in J : /\ recv[m].key = k /\ w[k] = recv[m].number
                                /\ \A i \in J : recv[i].key = k => i <= m
            BY <2>1, WrittenIs
        <3>. QED  BY <2>1, <3>1 DEF new
    <2>. HIDE DEF new
    <2>3. new = rows'
        BY <1>2 DEF new
    <2>4. \A i \in I : recv[i] = wire[i]
        BY <1>1
    <2>. QED  BY <2>2, <2>3, <2>4
<1>8. ASSUME NEW k \in Keys
      PROVE  \/ (\A i \in 1 .. n : wire[i].key # k) /\ positions'[k] = positions[k]
             \/ \E m \in 1 .. n : /\ wire[m].key = k /\ positions'[k] = wire[m].number
                                  /\ \A i \in 1 .. n : wire[i].key = k => i <= m
    <2>1. (1 .. n) \in SUBSET DOMAIN recv /\ positions \in Table /\ recv \in Seq(Block)
        BY <1>1 DEF TypeOK
    <2>. DEFINE new == Written(positions, recv, 1 .. n)
    <2>2. \/ (\A i \in 1 .. n : recv[i].key # k) /\ new[k] = positions[k]
          \/ \E m \in 1 .. n : /\ recv[m].key = k /\ new[k] = recv[m].number
                               /\ \A i \in 1 .. n : recv[i].key = k => i <= m
        BY <2>1, WrittenIs
    <2>. HIDE DEF new
    <2>3. new = positions'
        BY <1>1 DEF new
    <2>4. \A i \in 1 .. n : recv[i] = wire[i]
        BY <1>1
    <2>. QED  BY <2>2, <2>3, <2>4
<1>9. 1 .. n \subseteq 1 .. N /\ I \subseteq 1 .. n
    BY <1>1
<1>10. ASSUME NEW k \in Keys
       PROVE  /\ rows'[k] \in Nat /\ rows[k] <= rows'[k] /\ rows'[k] <= server[k]
              /\ rows'[k] <= positions'[k]
              /\ positions'[k] \in Nat /\ positions[k] <= positions'[k]
              /\ positions'[k] <= server[k]
    <2>1. /\ positions'[k] \in Nat /\ positions[k] <= positions'[k]
          /\ positions'[k] <= server[k]
        BY <1>5, <1>6, <1>8, <1>9
    <2>2. CASE rows'[k] = rows[k]
        BY <1>5, <2>1, <2>2
    <2>3. CASE rows'[k] # rows[k]
        <3>1. PICK m \in I : wire[m].key = k /\ rows'[k] = wire[m].number
            BY <1>7, <2>3
        <3>2. PICK p \in 1 .. n : /\ wire[p].key = k /\ positions'[k] = wire[p].number
                                  /\ m <= p
            BY <1>8, <1>9, <3>1
        <3>3. wire[m].number <= wire[p].number
            BY <1>6, <1>9, <3>1, <3>2
        <3>4. /\ wire[m].number \in Nat /\ positions[k] <= wire[m].number
              /\ wire[m].number <= server[k]
            BY <1>6, <1>9, <3>1
        <3>. QED  BY <1>5, <2>1, <3>1, <3>2, <3>3, <3>4
    <2>. QED  BY <2>2, <2>3
<1>11. TypeOK'
    BY NextTypeOK DEF Next
<1>12. Behind'
    <2>1. \A k \in Keys : saved'[k] <= server[k]
        BY <1>2, <1>5, <1>10
    <2>. QED  BY <1>3, <1>10, <2>1 DEF Behind
<1>13. InSession'
    <2>1. Greatest(rows) <= Greatest(rows')
        BY <1>10, <1>11, GreatestGrows DEF TypeOK
    <2>2. filter <= Greatest(rows)
        BY <1>3 DEF SafeInv, InSession
    <2>3. Greatest(rows) \in 0 .. MaxChanges /\ Greatest(rows') \in 0 .. MaxChanges
        BY <1>11, GreatestOf DEF TypeOK
    <2>4. filter <= Greatest(rows')
        BY <2>1, <2>2, <2>3, ReplicaAssumption DEF TypeOK
    <2>. QED  BY <1>3, <1>10, <2>4 DEF InSession
<1>14. InOrder'
    <2>. SUFFICES ASSUME NEW i \in 1 .. N - n, NEW k \in Keys, k = wire'[i].key
                  PROVE  /\ serving
                         /\ positions'[k] <= wire'[i].number /\ wire'[i].number <= server[k]
                         /\ \A j \in 1 .. N - n :
                                i < j /\ wire'[j].key = k => wire'[i].number <= wire'[j].number
        BY <1>3, <1>4 DEF InOrder
    <2>1. n + i \in 1 .. N /\ wire'[i] = wire[n + i]
        BY <1>1
    <2>2. /\ serving /\ wire[n + i].number \in Nat
          /\ positions[k] <= wire[n + i].number /\ wire[n + i].number <= server[k]
          /\ \A j \in 1 .. N : n + i <= j /\ wire[j].key = k =>
                wire[n + i].number <= wire[j].number
        BY <1>6, <2>1
    <2>3. positions'[k] <= wire'[i].number
        <3>1. CASE positions'[k] = positions[k]
            BY <2>1, <2>2, <3>1
        <3>2. CASE positions'[k] # positions[k]
            <4>1. PICK m \in 1 .. n : wire[m].key = k /\ positions'[k] = wire[m].number
                BY <1>8, <3>2
            <4>2. m \in 1 .. N /\ m <= n + i
                BY <1>1
            <4>. QED  BY <1>6, <2>1, <4>1, <4>2
        <3>. QED  BY <3>1, <3>2
    <2>4. ASSUME NEW j \in 1 .. N - n, i < j, wire'[j].key = k
          PROVE  wire'[i].number <= wire'[j].number
        <3>1. n + j \in 1 .. N /\ wire'[j] = wire[n + j] /\ n + i <= n + j
            BY <1>1, <2>4
        <3>. QED  BY <2>1, <2>2, <2>4, <3>1
    <2>. QED  BY <2>1, <2>2, <2>3, <2>4
\* A row that is still not the server's was not before, and its last change is
\* behind what was received.
<1>15. ASSUME NEW k \in Keys, rows'[k] # server[k],
              [key |-> k, number |-> server[k]] \notin skipped'
       PROVE  server[k] > Greatest(rows') /\ (serving => Coming(k)')
    <2>1. rows[k] # server[k] /\ ~Skipped(k)
        BY <1>2, <1>5, <1>10, <1>15 DEF Skipped
    <2>2. server[k] > Greatest(rows) /\ (serving => Coming(k))
        BY <2>1 DEF SafeInv, Sent
    <2>3. Greatest(rows) \in Nat /\ \A j \in Keys : rows[j] <= Greatest(rows)
        BY GreatestOf, ReplicaAssumption DEF TypeOK
    <2>4. SUFFICES (\A j \in Keys : rows'[j] < server[k]) /\ (serving => Coming(k)')
        <3>1. PICK j \in Keys : rows'[j] = Greatest(rows')
            BY <1>11, GreatestOf DEF TypeOK
        <3>2. ASSUME rows'[j] < server[k] PROVE server[k] > Greatest(rows')
            BY <1>5, <1>10, <3>1, <3>2
        <3>. QED  BY <3>2
    <2>5. CASE ~serving
        <3>1. \A j \in Keys : rows'[j] = rows[j]
            BY <1>6, <1>7, <1>9, <2>5
        <3>2. \A j \in Keys : rows[j] < server[k]
            BY <1>5, <2>2, <2>3
        <3>. QED  BY <2>5, <3>1, <3>2
    <2>6. CASE serving
        <3>1. PICK i \in DOMAIN wire :
                /\ wire[i] = [key |-> k, number |-> server[k]]
                /\ \A j \in DOMAIN wire :
                    j < i /\ wire[j].key # Unknown => wire[j].number < server[k]
            BY <2>2, <2>6 DEF Coming
        <3>2. i \in 1 .. N /\ wire[i].key = k /\ wire[i].number = server[k]
            BY <1>4, <3>1
        <3>3. ~(i \in 1 .. n)
            <4>. SUFFICES ASSUME i \in 1 .. n PROVE FALSE
                OBVIOUS
            <4>1. CASE i \in I
                <5>1. PICK m \in I : /\ wire[m].key = k /\ rows'[k] = wire[m].number
                                     /\ i <= m
                    BY <1>7, <3>2, <4>1
                <5>2. server[k] <= rows'[k]
                    BY <1>6, <1>9, <3>2, <5>1
                <5>. QED  BY <1>5, <1>10, <1>15, <5>2
            <4>2. CASE i \notin I
                <5>1. recv[i] = [key |-> k, number |-> server[k]]
                    BY <1>1, <3>1
                <5>2. recv[i].key # Unknown
                    BY <5>1, ReplicaAssumption
                <5>. QED  BY <1>2, <1>15, <4>2, <5>1, <5>2
            <4>. QED  BY <4>1, <4>2
        <3>4. i - n \in 1 .. N - n /\ n + (i - n) = i
            BY <1>1, <3>2, <3>3
        <3>5. ASSUME NEW j \in Keys PROVE rows'[j] < server[k]
            <4>1. CASE rows'[j] = rows[j]
                BY <1>5, <2>2, <2>3, <4>1
            <4>2. CASE rows'[j] # rows[j]
                <5>1. PICK m \in I : wire[m].key = j /\ rows'[j] = wire[m].number
                    BY <1>7, <4>2
                <5>2. m \in DOMAIN wire /\ m < i /\ wire[m].key # Unknown
                    BY <1>1, <1>4, <1>9, <3>2, <3>3, <5>1, ReplicaAssumption
                <5>. QED  BY <3>1, <5>1, <5>2
            <4>. QED  BY <4>1, <4>2
        <3>6. wire'[i - n] = [key |-> k, number |-> server[k]]
            BY <1>1, <3>1, <3>4
        <3>7. ASSUME NEW j \in 1 .. N - n, j < i - n, wire'[j].key # Unknown
              PROVE  wire'[j].number < server[k]
            <4>1. n + j \in DOMAIN wire /\ wire'[j] = wire[n + j] /\ n + j < i
                BY <1>1, <1>4, <3>2, <3>7
            <4>. QED  BY <3>1, <3>7, <4>1
        <3>. QED  BY <1>3, <1>4, <3>4, <3>5, <3>6, <3>7 DEF Coming
    <2>. QED  BY <2>5, <2>6
<1>16. Sent'
    BY <1>3, <1>15 DEF Sent, Skipped
<1>17. WouldBeSent(saved)'
    <2>1. CASE saved' = saved
        BY <1>2, <1>3, <2>1 DEF SafeInv, WouldBeSent
    <2>2. CASE saved' = rows'
        BY <1>3, <1>15, <2>2 DEF WouldBeSent
    <2>. QED  BY <1>2, <2>1, <2>2
<1>. QED  BY <1>12, <1>13, <1>14, <1>16, <1>17 DEF SafeInv

-----------------------------------------------------------------------------
\* Types are right: no row or position has a number the server has not given.
THEOREM TypeCorrect == Spec => []TypeOK
<1>1. TypeOK /\ [Next]_vars => TypeOK'
    BY NextTypeOK
<1>. QED  BY InitTypeOK, <1>1, PTL DEF Spec

\* The invariant of the replica: rows, positions and what is on its way fit
\* together.
THEOREM ReplicaInvariant == Spec => [](TypeOK /\ SafeInv)
<1>1. TypeOK /\ SafeInv /\ [Next]_vars => (TypeOK /\ SafeInv)'
    BY NextTypeOK, SafeAtEnd, SafeAtStart, SafeAtLogin, SafeAtUnknown, SafeAtChange,
       SafeAtPing, SafeAtReceive DEF Next
<1>. QED  BY InitTypeOK, InitSafe, <1>1, PTL DEF Spec

\* A change of a position is lost only when storeDataIntoDB skipped it: what a
\* session stores, one that breaks or a process that ends loses nothing, and the
\* next login (getADLastSimpleFilterUpdates) asks for the rest.
THEOREM NothingLost == Spec => []NothingElseLost
<1>1. Sent /\ WouldBeSent(saved) => NothingElseLost
    BY DEF Sent, Skipped, NothingElseLost, WouldBeSent
<1>2. TypeOK /\ SafeInv => NothingElseLost
    BY <1>1 DEF SafeInv
<1>. QED  BY ReplicaInvariant, <1>2, PTL

\* When the server serves the session and nothing is on its way, the positions
\* that users see are the server's, but for skipped changes.
THEOREM PositionsAreServers == Spec => []PositionsFollow
<1>1. ASSUME TypeOK, SafeInv, serving, wire = <<>>, NEW k \in Keys,
             positions[k] # server[k]
      PROVE  Skipped(k)
    <2>1. phase = "online"
        BY <1>1 DEF SafeInv, InSession
    <2>2. /\ rows[k] <= positions[k] /\ positions[k] <= server[k]
          /\ rows[k] \in Int /\ positions[k] \in Int /\ server[k] \in Int
        BY <1>1, <2>1 DEF SafeInv, InSession, Behind, TypeOK, Table
    <2>3. rows[k] # server[k]
        BY <1>1, <2>2
    <2>4. ~Coming(k)
        BY <1>1 DEF Coming
    <2>. QED  BY <1>1, <2>3, <2>4 DEF SafeInv, Sent
<1>2. TypeOK /\ SafeInv => PositionsFollow
    BY <1>1 DEF PositionsFollow, Skipped
<1>. QED  BY ReplicaInvariant, <1>2, PTL

=============================================================================
