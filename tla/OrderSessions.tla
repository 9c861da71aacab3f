----------------------------- MODULE OrderSessions -----------------------------
(***************************************************************************)
(* The order registry over several sessions and processes.  Between two    *)
(* sessions the hashes stay as they are and users go on calling; what      *)
(* another process knows of the orders is in the database, into which      *)
(* every received list of blocks is written before it is handled.          *)
(*                                                                         *)
(* Only the network thread touches the database, so that a list of blocks  *)
(* is one step per line, and the step chooses what else was in the list:   *)
(* a block the store does not know (time, queue, quotes, responses) ends   *)
(* the store where it is met, without a commit.                            *)
(***************************************************************************)
EXTENDS Orders, FiniteSets

CONSTANT MaxConnects  \* bound: times connect() is called

ASSUME MaxConnectsAssumption == MaxConnects \in Nat

VARIABLES
    phase,     \* m_state; "connecting": the event loop runs, not authenticated
    resuming,  \* rows of the login's query that are still to be inserted
    rows,      \* AD_ORDERS as the network thread sees it
    saved,     \* AD_ORDERS without the transaction that is open, if one is
    heard,     \* requests that reached the server in this session
    connects     \* times connect() was called

sessionVars == <<phase, resuming, rows, saved, heard, connects>>
allVars == <<vars, sessionVars>>

Rows == {"none", "open", "closed"}

SessionInit ==
    /\ Init
    /\ phase = "off"
    /\ resuming = {}
    /\ rows = [i \in Ids |-> "none"]
    /\ saved = [i \in Ids |-> "none"]
    /\ heard = {}
    /\ connects = 0

\* The network thread waits for events: it is not within a handler.
Waiting == phase # "off" /\ resuming = {}
Online == phase = "online" /\ resuming = {}

\* Bound: the objects left, of which one is kept for each row to be resumed.
ObjectsLeft == Cardinality({o \in Objects : ~Allocated(o)})

-----------------------------------------------------------------------------
(* storeDataIntoDB.                                                        *)

\* A status line of order i.
Store(i, row) ==
    \/ /\ rows' = [rows EXCEPT ![i] = row]    \* only known blocks
       /\ saved' = rows'
    \/ /\ rows' = [rows EXCEPT ![i] = row]    \* an unknown block follows
       /\ UNCHANGED saved
    \/ UNCHANGED <<rows, saved>>              \* an unknown block precedes

\* A block of another table; what an earlier list left uncommitted may be
\* committed with it.
StoreOther ==
    /\ saved' \in {saved, rows}
    /\ UNCHANGED rows

-----------------------------------------------------------------------------
(* The session.                                                            *)

Connect ==
    /\ phase = "off"
    /\ connects < MaxConnects
    /\ connects' = connects + 1
    /\ phase' = "connecting"
    /\ UNCHANGED <<vars, resuming, rows, saved, heard>>

\* Mutant: the orders are not looked up.
LoginWithoutResume ==
    /\ phase = "connecting"
    /\ phase' = "online"
    /\ resuming' = {}
    /\ told' \in {told, [i \in Ids |-> 0]}
    /\ UNCHANGED <<registry, reqId, calling, sent, market,
                   rows, saved, heard, connects>>

\* The answer to the login.  The query is made once; the server may report
\* the trades of earlier sessions again.
Login ==
    /\ phase = "connecting"
    /\ phase' = "online"
    /\ resuming' = {i \in Ids : rows[i] = "open"}
    /\ Cardinality(resuming') <= ObjectsLeft
    /\ told' \in {told, [i \in Ids |-> 0]}
    /\ UNCHANGED <<registry, reqId, calling, sent, market,
                   rows, saved, heard, connects>>

\* One row of the query: a new object takes the place of whatever is filed
\* under the id, in spite of the assertion.  Its rest is the whole quantity.
ResumeOrder(i) ==
    /\ i \in resuming
    /\ \E o \in Objects :
        /\ ~Allocated(o)
        /\ active' = [active EXCEPT ![i] = o]
        /\ order' = [order EXCEPT ![o] = NewOrder(i, "Accepted")]
    /\ resuming' = resuming \ {i}
    /\ UNCHANGED <<inactive, op, pending, reqId, calling, sent, market, told,
                   phase, rows, saved, heard, connects>>

\* Mutant: whoever waits for a slot is left waiting.
QuitAlone ==
    /\ Waiting
    /\ phase' = "off"
    /\ heard' = {}
    /\ rows' = saved
    /\ UNCHANGED <<vars, resuming, saved, connects>>

\* The event loop ends: disconnect(), an error of the socket or of the login.
\* The receivers are destroyed with the slots queued for them, whose callers
\* go on; the hashes are left as they are.  The database is closed with the
\* open transaction.
Quit ==
    /\ Waiting
    /\ phase' = "off"
    /\ heard' = {}
    /\ rows' = saved
    /\ calling' = [t \in Threads |->
                    IF SlotQueued(t)
                    THEN [req |-> NoRequest, says |-> "Unknown"]
                    ELSE calling[t]]
    /\ UNCHANGED <<registry, reqId, sent, market, told,
                   resuming, saved, connects>>

\* The process ends, at any moment, and another one begins.
Restart ==
    /\ order' = [o \in Objects |-> FreeOrder]
    /\ active' = [i \in Ids |-> None]
    /\ inactive' = {}
    /\ op' = [r \in Requests |-> [kind |-> "none", object |-> None, id |-> NoId,
                                  phase |-> 0, result |-> "Unknown"]]
    /\ pending' = {}
    /\ reqId' = 0
    /\ calling' = [t \in Threads |-> [req |-> NoRequest, says |-> "Unknown"]]
    /\ sent' = {}
    /\ market' = [i \in Ids |-> [market[i] EXCEPT !.by = NoRequest]]
    /\ phase' = "off"
    /\ resuming' = {}
    /\ rows' = saved
    /\ heard' = {}
    /\ UNCHANGED <<told, saved, connects>>

-----------------------------------------------------------------------------
(* User threads.  A call does not ask for the state of the session.        *)

Call(t) ==
    /\ \/ Cardinality(resuming) < ObjectsLeft /\ TradePaper(t)
       \/ ChangeOrder(t)
       \/ CancelOrder(t)
    /\ UNCHANGED sessionVars

\* The receivers exist: the slot is queued.
AnnounceInSession(t) ==
    /\ phase # "off"
    /\ Announce(t)
    /\ UNCHANGED sessionVars

\* No receiver is connected: the signal is lost and the call returns, its
\* operation pending.
AnnounceOffline(t) ==
    /\ phase = "off"
    /\ calling[t].req # NoRequest
    /\ calling[t].says # "Unknown"
    /\ Return(t)
    /\ UNCHANGED <<registry, reqId, sent, market, told, sessionVars>>

\* What is written before the login is lost.
Slot(t) ==
    /\ Waiting
    /\ \/ /\ SlotSends(t)
          /\ heard' = IF phase = "online" THEN heard \cup {calling[t].req}
                                          ELSE heard
       \/ /\ SlotFails(t)
          /\ UNCHANGED heard
    /\ UNCHANGED <<phase, resuming, rows, saved, connects>>

-----------------------------------------------------------------------------
(* What the server says.                                                   *)

\* MSG_ID is a block the store does not know.
Response(r) ==
    /\ Online
    /\ r \in heard
    /\ ResponseStep(r)
    /\ UNCHANGED sessionVars

\* A status O, X or N of a retired id: the hashes ignore it, the store does not.
RetiredLine(i) ==
    /\ market[i].status # "none"
    /\ i \in inactive
    /\ UNCHANGED vars

StatusLine(i) ==
    /\ Online
    /\ \/ /\ \/ \E rest \in 0 .. Lot : OpenLine(i, rest)
             \/ RetiredLine(i)
          /\ Store(i, "open")
       \/ /\ ExecutedLine(i) \/ DroppedLine(i)
          /\ Store(i, "closed")
    /\ UNCHANGED <<phase, resuming, heard, connects>>

Trade(i) ==
    /\ Online
    /\ \E x \in 1 .. Lot : TradeLine(i, x)
    /\ StoreOther
    /\ UNCHANGED <<phase, resuming, heard, connects>>

\* Blocks of other tables: positions, balances, papers.
OtherBlocks ==
    /\ Online
    /\ StoreOther
    /\ UNCHANGED <<vars, phase, resuming, heard, connects>>

Exchange ==
    /\ \/ \E r \in heard, i \in Ids : Execute(r, i) \/ Replace(r, i)
       \/ \E i \in Ids : ListElsewhere(i) \/ Drop(i)
       \/ \E i \in Ids, x \in 1 .. Lot : Deal(i, x)
    /\ UNCHANGED sessionVars

SessionNext ==
    \/ Connect \/ Login \/ Quit \/ Restart
    \/ \E i \in Ids : ResumeOrder(i)
    \/ \E t \in Threads :
        Call(t) \/ AnnounceInSession(t) \/ AnnounceOffline(t) \/ Slot(t)
    \/ \E r \in Requests : Response(r)
    \/ \E i \in Ids : StatusLine(i) \/ Trade(i)
    \/ OtherBlocks
    \/ Exchange

SessionSpec == SessionInit /\ [][SessionNext]_allVars

\* User threads run, and so does the network thread within a session.  Nothing
\* makes anybody connect again.
SessionFairness ==
    /\ \A t \in Threads :
        /\ WF_allVars(AnnounceInSession(t) \/ AnnounceOffline(t))
        /\ WF_allVars(Slot(t))
    /\ \A i \in Ids : WF_allVars(ResumeOrder(i))

FairSessionSpec == SessionSpec /\ SessionFairness

-----------------------------------------------------------------------------
SessionTypeOK ==
    /\ TypeOK
    /\ phase \in {"off", "connecting", "online"}
    /\ resuming \subseteq Ids
    /\ rows \in [Ids -> Rows]
    /\ saved \in [Ids -> Rows]
    /\ heard \subseteq sent
    /\ connects \in 0 .. MaxConnects

\* The database and the hash agree while a session is up, although lines are
\* stored in part, transactions are rolled back and the process may start
\* anew: an order that the database would resume is active, or retired.
OpenRowsAreActive ==
    Online => \A i \in Ids :
        rows[i] = "open" /\ i \notin inactive => active[i] # None

\* The rest of an object never claims more lots than the exchange dealt, not
\* even that of one that was filed at a login or outlived a session (its trades
\* may: those told again are counted twice).
NoPhantomRest ==
    \A i \in Ids : active[i] # None => ByRest(order[active[i]]) <= market[i].done

\* Nobody is left in a call: its slot runs, or finds no receiver, or is
\* destroyed with the receiver, even if there is never a session again.
CallersReturn ==
    \A t \in Threads :
        calling[t].req # NoRequest ~> calling[t].req = NoRequest

\* "We should keep all cancelled orders because of race on AD server": the
\* login, too, makes no retired order active.
RetiredNotResumed ==
    [][\A i \in Ids : ResumeOrder(i) => i \notin inactive]_allVars

=============================================================================
