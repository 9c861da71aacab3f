----------------------------- MODULE QuoteFilters -----------------------------
(***************************************************************************)
(* Which quotes the server sends.  The connection counts, per filter and   *)
(* paper, the subscriptions that want it, and tells the server a filter    *)
(* when one of its counts becomes 1 or 0.  A subscription that nobody uses *)
(* any more is noticed and dropped by the next line of quotes.             *)
(*                                                                         *)
(* The life of a session is modelled as far as filters live on it: the     *)
(* network thread is off, connecting (its receiver exists) or online (it   *)
(* has handled the server's answer to the login).  Writes are queued for   *)
(* the receiver, and are gone with it.                                     *)
(*                                                                         *)
(* External: the server, which forgets the filters of a lost connection,   *)
(* and the socket, on which a write may fail.                              *)
(***************************************************************************)
EXTENDS Integers, Sequences, FiniteSets

CONSTANTS
    Keys,     \* filters of quotes: "filter_f", "filter_q"
    Papers,   \* paper numbers
    Subs,     \* subscription objects
    Want,     \* what each subscribes to: pairs of a filter and a paper, each
              \* named by one of its options only
    MaxWrites \* bound: no subscription is made while more writes are queued

ASSUME FiltersAssumption ==
    /\ IsFiniteSet(Subs)
    /\ MaxWrites \in Nat
    /\ Want \in [Subs -> SUBSET (Keys \X Papers)]

VARIABLES
    phase,     \* "off", "connecting", "online"
    count,     \* m_complexFilter; 0: the filter does not hold the paper
    listed,    \* m_subscriptions
    used,      \* subscriptions of which some user holds a handle
    left,      \* the subscriptions the loop over m_subscriptions has not
               \* visited; as long as there are some, m_rwLock is held
    outbox,    \* SetFilter writes queued for the receiver
    resent,    \* m_resendFilters
    server,    \* external: the filters the server has
    dirty,     \* history: filters of which the last write failed
    inherited  \* history: the last login found subscriptions in the list

subscriptions == <<listed, used, left>>
wire == <<outbox, server, dirty>>
vars == <<phase, count, subscriptions, wire, resent, inherited>>

Message == [keys: SUBSET Keys, filter: [Keys -> SUBSET Papers]]

Nobody == [k \in Keys |-> [p \in Papers |-> 0]]
Unset == [k \in Keys |-> {}]

Init ==
    /\ phase = "off"
    /\ count = Nobody
    /\ listed = {} /\ used = {} /\ left = {}
    /\ outbox = <<>>
    /\ resent = FALSE
    /\ server = Unset
    /\ dirty = {}
    /\ inherited = FALSE

-----------------------------------------------------------------------------
\* The papers of each filter, as sendADFilters writes them.
FilterOf(counts) == [k \in Keys |-> {p \in Papers : counts[k][p] > 0}]

\* sendADFilters: writes the filters of the given keys, if there are any.
\* Without a session nobody receives the signal.
SendADFilters(keys, counts) ==
    outbox' = IF keys = {} \/ phase = "off" THEN outbox
              ELSE Append(outbox, [keys |-> keys, filter |-> FilterOf(counts)])

\* Mutant: a paper is counted once.
CountedOnce(s) ==
    [k \in Keys |-> [p \in Papers |-> IF <<k, p>> \in Want[s] THEN 1 ELSE count[k][p]]]

Counted(s) ==
    [k \in Keys |-> [p \in Papers |->
        IF <<k, p>> \in Want[s] THEN count[k][p] + 1 ELSE count[k][p]]]

Uncounted(s) ==
    [k \in Keys |-> [p \in Papers |->
        IF <<k, p>> \in Want[s] /\ count[k][p] > 0
        THEN count[k][p] - 1 ELSE count[k][p]]]

\* Mutant: a filter is told when its last paper is gone.
EmptiedBy(s) ==
    {k \in Keys : \E p \in Papers :
        /\ <<k, p>> \in Want[s] /\ count[k][p] = 1
        /\ \A q \in Papers \ {p} : count[k][q] = 0}

\* The filters that must be told when s comes, and when s goes.
RaisedBy(s) == {k \in Keys : \E p \in Papers : <<k, p>> \in Want[s] /\ count[k][p] = 0}
ClearedBy(s) == {k \in Keys : \E p \in Papers : <<k, p>> \in Want[s] /\ count[k][p] = 1}

-----------------------------------------------------------------------------
(* User threads.                                                           *)

SubscribeToQuotes(s) ==
    /\ left = {}
    /\ Len(outbox) <= MaxWrites
    /\ s \notin listed
    /\ s \notin used
    /\ count' = Counted(s)
    /\ SendADFilters(RaisedBy(s), Counted(s))
    /\ listed' = listed \cup {s}
    /\ used' = used \cup {s}
    /\ UNCHANGED <<phase, left, resent, server, dirty, inherited>>

\* The last handle goes, which takes no lock.
Release(s) ==
    /\ s \in used
    /\ used' = used \ {s}
    /\ UNCHANGED <<phase, count, listed, left, wire, resent, inherited>>

-----------------------------------------------------------------------------
(* The network thread: the session.                                        *)

\* connect and run, up to the event loop.  (If run fails before, nothing of
\* this has changed.)
Connect ==
    /\ phase = "off"
    /\ phase' = "connecting"
    /\ UNCHANGED <<count, subscriptions, wire, resent, inherited>>

\* The answer to the login: setADFilters starts with empty filters and tells
\* all of them.
Login ==
    /\ phase = "connecting"
    /\ left = {}
    /\ phase' = "online"
    /\ count' = Nobody
    /\ SendADFilters(Keys, Nobody)
    /\ inherited' = (listed # {})
    /\ UNCHANGED <<subscriptions, resent, server, dirty>>

\* disconnect, an error of the socket, of the decoding or of the login.
Quit ==
    /\ phase # "off"
    /\ left = {}
    /\ phase' = "off"
    /\ outbox' = <<>>
    /\ server' = Unset
    /\ dirty' = {}
    /\ UNCHANGED <<count, subscriptions, resent, inherited>>

\* sendPing resends the filters the first time.
SendPing ==
    /\ phase = "online"
    /\ left = {}
    /\ ~resent
    /\ resent' = TRUE
    /\ SendADFilters(Keys, count)
    /\ UNCHANGED <<phase, count, subscriptions, server, dirty, inherited>>

\* tcpWriteToSock, which works or does not.  Before the login the server does
\* not know who sets the filter.
Write ==
    /\ outbox # <<>>
    /\ left = {}
    /\ outbox' = Tail(outbox)
    /\ IF phase = "online"
       THEN LET m == Head(outbox)
            IN  /\ server' = [k \in Keys |-> IF k \in m.keys THEN m.filter[k]
                                             ELSE server[k]]
                /\ dirty' = dirty \ m.keys
       ELSE UNCHANGED <<server, dirty>>
    /\ UNCHANGED <<phase, count, subscriptions, resent, inherited>>

WriteFails ==
    /\ outbox # <<>>
    /\ left = {}
    /\ outbox' = Tail(outbox)
    /\ dirty' = IF phase = "online" THEN dirty \cup Head(outbox).keys ELSE dirty
    /\ UNCHANGED <<phase, count, subscriptions, resent, server, inherited>>

-----------------------------------------------------------------------------
(* The network thread: a line of the order queue or of the quotes.  Under   *)
(* m_rwLock all subscriptions are visited; the used ones are updated (module *)
(* Subscription), the others dropped.                                       *)

Line ==
    /\ phase = "online"
    /\ left = {} /\ listed # {}
    /\ left' = listed
    /\ UNCHANGED <<phase, count, listed, used, wire, resent, inherited>>

\* Mutant: the reference of the list counts as a use.
VisitKeeping(s) ==
    /\ s \in left
    /\ left' = left \ {s}
    /\ UNCHANGED <<phase, count, listed, used, wire, resent, inherited>>

Visit(s) ==
    /\ s \in left
    /\ left' = left \ {s}
    /\ IF s \in used
       THEN UNCHANGED <<count, listed, outbox>>
       ELSE /\ count' = Uncounted(s)
            /\ SendADFilters(ClearedBy(s), Uncounted(s))
            /\ listed' = listed \ {s}
    /\ UNCHANGED <<phase, used, resent, server, dirty, inherited>>

Next ==
    \/ \E s \in Subs : SubscribeToQuotes(s) \/ Release(s) \/ Visit(s)
    \/ Connect \/ Login \/ Quit
    \/ SendPing \/ Write \/ WriteFails
    \/ Line

Spec == Init /\ [][Next]_vars

\* The market of a paper in the filters is never still for good.  The lines of a
\* server without filters are those under way: there may be none.
Quotes == (\E k \in Keys : server[k] # {}) /\ Line

\* The receiver's thread gets to the queued writes, which work or fail, and the
\* loop over the list ends.
FairSpec ==
    /\ Spec
    /\ WF_vars(Quotes) /\ WF_vars(Write \/ WriteFails)
    /\ \A s \in Subs : WF_vars(Visit(s))

-----------------------------------------------------------------------------
TypeOK ==
    /\ phase \in {"off", "connecting", "online"}
    /\ count \in [Keys -> [Papers -> Nat]]
    /\ listed \subseteq Subs /\ used \subseteq listed /\ left \subseteq listed
    /\ outbox \in Seq(Message)
    /\ resent \in BOOLEAN
    /\ server \in [Keys -> SUBSET Papers]
    /\ dirty \subseteq Keys
    /\ inherited \in BOOLEAN

Wanting(k, p) == {s \in listed : <<k, p>> \in Want[s]}

\* The counts are those of the subscriptions in the list, unless a login has
\* reset them while there were some: then the counts of papers that old
\* subscriptions want are too small, and go to 0 too early.
CountsAreSubscribers ==
    ~inherited =>
        \A k \in Keys, p \in Papers : count[k][p] = Cardinality(Wanting(k, p))

\* Filters are told only when a count becomes 1 or 0, in writes queued by
\* several threads; still the last word on each filter is the present one,
\* be it queued or already with the server.  With CountsAreSubscribers: once
\* all writes are through, the server sends what the listed subscriptions want.
ServerFollows ==
    phase = "online" =>
        \A k \in Keys :
            /\ \A i \in DOMAIN outbox :
                k \in outbox[i].keys
                    /\ (\A j \in DOMAIN outbox : j > i => k \notin outbox[j].keys)
                    => outbox[i].filter[k] = FilterOf(count)[k]
            /\ k \notin dirty /\ (\A i \in DOMAIN outbox : k \notin outbox[i].keys)
                    => server[k] = FilterOf(count)[k]

\* What nobody uses is dropped by the lines that follow, which its own count
\* makes the server send: a filter with a listed subscription is not emptied,
\* even before the write that set it is through.  No line is promised, and the
\* subscription may stay in the list, after a login that found some in it, or
\* when the last writes of all its filters failed.
FiltersOf(s) == {w[1] : w \in Want[s]}

ReleasedIsDropped ==
    \A s \in Subs :
        s \in listed /\ s \notin used ~>
            \/ s \notin listed
            \/ phase # "online" \/ inherited \/ FiltersOf(s) \subseteq dirty
=============================================================================
