-------------------------------- MODULE Replica --------------------------------
(***************************************************************************)
(* The copy of the account's positions: the server has the positions, the  *)
(* database keeps what was received, and m_positions is what users see.    *)
(*                                                                         *)
(* A row bears the number of its last change, i_last_update.  At a login   *)
(* the connection asks for what is newer than the greatest number in its   *)
(* database, so that a row that is not stored, while a newer one is, is    *)
(* never asked for again.  A received list of blocks is first stored, in   *)
(* one transaction, and then handled; at a block the store does not know   *)
(* (time, queue, quotes, responses) it returns and leaves the transaction  *)
(* open.                                                                   *)
(*                                                                         *)
(* External: the server, which numbers changes in their order and sends    *)
(* rows in the order of the numbers, and which may ignore the first filter *)
(* of a session ("stupid ... AD").                                         *)
(***************************************************************************)
EXTENDS Integers, Sequences, Functions, FiniteSetsExt

CONSTANTS
    Keys,        \* an account and a paper
    Unknown,     \* the key of a block the store does not know
    MaxChanges,  \* bound: changes of positions at the server
    MaxWire,     \* bound: blocks under way to which the server adds another
    MaxConnects  \* bound: times connect() is called

ASSUME ReplicaAssumption ==
    /\ IsFiniteSet(Keys) /\ Keys # {} /\ Unknown \notin Keys
    /\ MaxChanges \in Nat /\ MaxWire \in Nat /\ MaxConnects \in Nat

VARIABLES
    phase,      \* "off", "connecting", "online"
    positions,  \* m_positions; a position is the number of its last change
    filter,     \* m_simpleFilter["balance"]
    resent,     \* m_resendFilters
    rows,       \* AD_BALANCE as the network thread sees it
    saved,      \* AD_BALANCE without the transaction that is open, if one is
    skipped,    \* history: blocks that were handled and not stored
    server,     \* external: the positions
    serving,    \* external: the filter of this session was taken
    wire,       \* external: blocks sent and not received
    connects    \* times connect() was called

client == <<positions, filter, resent>>
store == <<rows, saved, skipped>>
stream == <<server, serving, wire>>
vars == <<phase, client, store, stream, connects>>

Table == [Keys -> 0 .. MaxChanges]
Empty == [k \in Keys |-> 0]
Block == [key: Keys \cup {Unknown}, number: 0 .. MaxChanges]

Init ==
    /\ phase = "off"
    /\ positions = Empty
    /\ filter = 0
    /\ resent = FALSE
    /\ rows = Empty /\ saved = Empty
    /\ skipped = {}
    /\ server = Empty
    /\ serving = FALSE
    /\ wire = <<>>
    /\ connects = 0

-----------------------------------------------------------------------------
(* The server.                                                             *)

Greatest(table) == Max({table[k] : k \in Keys})

\* What a filter asks for, in the order of the numbers.
Backlogs(from) ==
    LET newer == {[key |-> k, number |-> server[k]] :
                    k \in {j \in Keys : server[j] > from}}
    IN  {s \in [1 .. Cardinality(newer) -> newer] :
            /\ Range(s) = newer
            /\ \A i, j \in DOMAIN s : i < j => s[i].number < s[j].number}

Change(k) ==
    /\ Greatest(server) < MaxChanges
    /\ Len(wire) < MaxWire
    /\ LET number == Greatest(server) + 1
       IN  /\ server' = [server EXCEPT ![k] = number]
           /\ wire' = IF serving THEN Append(wire, [key |-> k, number |-> number])
                                 ELSE wire
    /\ UNCHANGED <<phase, client, store, serving, connects>>

SendUnknown ==
    /\ phase = "online"
    /\ Len(wire) < MaxWire
    /\ wire' = Append(wire, [key |-> Unknown, number |-> 0])
    /\ UNCHANGED <<phase, client, store, server, serving, connects>>

-----------------------------------------------------------------------------
(* The session.                                                            *)

Connect ==
    /\ phase = "off"
    /\ connects < MaxConnects
    /\ connects' = connects + 1
    /\ phase' = "connecting"
    /\ UNCHANGED <<client, store, stream>>

\* Mutant: the numbers of the positions instead of those of the rows.
LastOfPositions == Greatest(positions)

\* getADLastSimpleFilterUpdates.
LastUpdate == Greatest(rows)

\* _sqlGetCurrentPositions: the rows take the place of what is in the hash.
Resumed == [k \in Keys |-> IF rows[k] # 0 THEN rows[k] ELSE positions[k]]

\* The answer to the login.
Login ==
    /\ phase = "connecting"
    /\ phase' = "online"
    /\ filter' = LastUpdate
    /\ positions' = Resumed
    /\ \/ serving' = TRUE /\ wire' \in Backlogs(LastUpdate)
       \/ UNCHANGED <<serving, wire>>    \* the filter is ignored
    /\ UNCHANGED <<resent, store, server, connects>>

\* Mutant: the filter is not sent again.
PingOnly ==
    /\ phase = "online"
    /\ ~resent
    /\ resent' = TRUE
    /\ UNCHANGED <<phase, positions, filter, store, stream, connects>>

\* The first ping of the connection object's life sends the filter of the
\* login again; it is never reset.
SendPing ==
    /\ phase = "online"
    /\ ~resent
    /\ resent' = TRUE
    /\ serving' = TRUE
    /\ \E backlog \in Backlogs(filter) : wire' = wire \o backlog
    /\ UNCHANGED <<phase, positions, filter, store, server, connects>>

\* The event loop ends; the database is closed, and SQLite rolls back.
Quit ==
    /\ phase # "off"
    /\ phase' = "off"
    /\ rows' = saved
    /\ serving' = FALSE
    /\ wire' = <<>>
    /\ UNCHANGED <<client, saved, skipped, server, connects>>

\* The process ends and another one begins.
Restart ==
    /\ phase' = "off"
    /\ positions' = Empty
    /\ filter' = 0
    /\ resent' = FALSE
    /\ rows' = saved
    /\ serving' = FALSE
    /\ wire' = <<>>
    /\ UNCHANGED <<saved, skipped, server, connects>>

-----------------------------------------------------------------------------
(* tcpReadyRead.                                                           *)

\* Mutant: the first block about a key wins.
WrittenOnce(table, recv, I) ==
    [k \in Keys |->
        LET own == {i \in I : recv[i].key = k}
        IN  IF own = {} THEN table[k] ELSE recv[Min(own)].number]

\* The blocks at the positions I of the list, written one after the other.
Written(table, recv, I) ==
    [k \in Keys |->
        LET own == {i \in I : recv[i].key = k}
        IN  IF own = {} THEN table[k] ELSE recv[Max(own)].number]

UnknownAt(recv) == {i \in DOMAIN recv : recv[i].key = Unknown}

\* storeDataIntoDB; a statement that fails is logged.
Store(recv, failing) ==
    LET end == Min(UnknownAt(recv) \cup {Len(recv) + 1})
        I == (1 .. end - 1) \ failing
    IN  /\ rows' = Written(rows, recv, I)
        /\ saved' = IF UnknownAt(recv) = {} THEN rows' ELSE saved
        /\ skipped' = skipped \cup
                {recv[i] : i \in {j \in DOMAIN recv \ I : recv[j].key # Unknown}}

\* A read that brings n blocks.
Receive(n) ==
    LET recv == SubSeq(wire, 1, n)
    IN  /\ phase = "online"
        /\ wire' = SubSeq(wire, n + 1, Len(wire))
        /\ \E failing \in SUBSET (1 .. n) : Store(recv, failing)
        /\ positions' = Written(positions, recv, 1 .. n)
        /\ UNCHANGED <<phase, filter, resent, server, serving, connects>>

-----------------------------------------------------------------------------
Next ==
    \/ Connect \/ Login \/ SendPing \/ Quit \/ Restart
    \/ SendUnknown
    \/ \E k \in Keys : Change(k)
    \/ \E n \in 1 .. Len(wire) : Receive(n)

Spec == Init /\ [][Next]_vars

\* Within a session the timer fires and the network thread reads.
Fairness ==
    /\ WF_vars(SendPing)
    /\ WF_vars(\E n \in 1 .. Len(wire) : Receive(n))

FairSpec == Spec /\ Fairness

-----------------------------------------------------------------------------
TypeOK ==
    /\ phase \in {"off", "connecting", "online"}
    /\ positions \in Table /\ rows \in Table /\ saved \in Table /\ server \in Table
    /\ filter \in 0 .. MaxChanges
    /\ resent \in BOOLEAN /\ serving \in BOOLEAN
    /\ skipped \subseteq Block
    /\ wire \in Seq(Block)
    /\ connects \in 0 .. MaxConnects

\* A change is lost to the server, which is not asked for it again, only if
\* the store skipped it: rolled back transactions, broken connections and ends
\* of the process lose none (storeDataIntoDB, getADLastSimpleFilterUpdates).
WouldBeSent(table) ==
    \A k \in Keys :
        \/ table[k] = server[k]
        \/ server[k] > Greatest(table)
        \/ [key |-> k, number |-> server[k]] \in skipped

NothingElseLost == WouldBeSent(rows) /\ WouldBeSent(saved)

\* What users see: when all that was sent is handled, m_positions are those of
\* the server, but for changes the store skipped, which a login may take back.
PositionsFollow ==
    serving /\ wire = <<>> =>
        \A k \in Keys :
            \/ positions[k] = server[k]
            \/ [key |-> k, number |-> server[k]] \in skipped

\* A filter the server ignored is made good by the first ping, once in the life
\* of the connection: the positions catch up with the server, or the session
\* ends.
CatchesUp ==
    phase = "online" /\ ~resent ~>
        \/ phase # "online"
        \/ \A k \in Keys : \/ positions[k] = server[k]
                           \/ [key |-> k, number |-> server[k]] \in skipped

=============================================================================
