----------------------------- MODULE Subscription -----------------------------
(***************************************************************************)
(* One subscription to quotes (class ADSubscriptionPrivate).  The network  *)
(* thread stores a quote and calls update for every subscription, all of   *)
(* it under the connection's m_rwLock; the thread that subscribed waits    *)
(* for the next updated paper; any thread peeks at quotes.  A paper with a *)
(* minimal delay is reported at most once in that time.                    *)
(*                                                                         *)
(* Time is kept relative: instead of the time marks, the milliseconds that *)
(* remain until them.  A timer that is 0 may still take a while to fire.   *)
(***************************************************************************)
EXTENDS Integers, SequencesExt

CONSTANTS
    Papers,    \* paper numbers of the subscription
    Types,     \* kinds of update: "queue", "quote"
    Wanted,    \* m_subscrType of each paper
    MinDelay   \* m_minDelay of each paper, in milliseconds

ASSUME SubscriptionAssumption ==
    /\ Papers \subseteq Nat
    /\ IsFiniteSet(Papers)
    /\ Wanted \in [Papers -> SUBSET Types]
    /\ MinDelay \in [Papers -> Nat]

VARIABLES
    updated,   \* the papers whose state is updated
    appended,  \* the papers whose state is appended
    delay,     \* per paper: time until wakeupTime
    jobs,      \* m_jobs
    waiter,    \* the thread in waitForUpdate: "out", "in", "asleep"
    timer,     \* time until a sleeping waiter wakes; Forever: never
    connected, \* m_adConnection is set
    fresh,     \* history: papers whose wanted update nobody has peeked at
    handed,    \* history: papers reported by waitForUpdate and not yet peeked at
    since      \* history: per paper, time since the subscription or its last
               \* report, counted up to MinDelay

flags == <<updated, appended, jobs>>
history == <<fresh, handed, since>>
vars == <<flags, delay, waiter, timer, connected, history>>

Forever == -1

\* The constructor: the first report waits for the delay, too.
Init ==
    /\ updated = {}
    /\ appended = {}
    /\ delay = MinDelay
    /\ jobs = <<>>
    /\ waiter = "out"
    /\ timer = Forever
    /\ connected = TRUE
    /\ fresh = {}
    /\ handed = {}
    /\ since = [p \in Papers |-> 0]

Jobs == {jobs[k] : k \in DOMAIN jobs}

\* Mutant: nobody is woken.
WakeNobody == UNCHANGED waiter

\* wakeAll wakes the waiter, if it sleeps.
Wake == waiter' = IF waiter = "asleep" THEN "in" ELSE waiter

-----------------------------------------------------------------------------
\* Mutant: an update within the delay is forgotten.
UpdateDueOnly(p, type) ==
    /\ connected
    /\ type \in Wanted[p]
    /\ fresh' = fresh \cup {p}
    /\ IF delay[p] = 0 /\ p \notin appended
       THEN /\ updated' = updated \cup {p}
            /\ appended' = appended \cup {p} /\ jobs' = Append(jobs, p) /\ Wake
       ELSE UNCHANGED <<updated, appended, jobs, waiter>>
    /\ UNCHANGED <<delay, timer, connected, handed, since>>

\* update: the network thread has stored a quote of paper p.  What the paper
\* is not subscribed for changes nothing.
Update(p, type) ==
    /\ connected
    /\ type \in Wanted[p]
    /\ fresh' = fresh \cup {p}
    /\ updated' = updated \cup {p}
    /\ IF delay[p] = 0 /\ p \notin appended
       THEN appended' = appended \cup {p} /\ jobs' = Append(jobs, p) /\ Wake
       ELSE UNCHANGED <<appended, jobs, waiter>>
    /\ UNCHANGED <<delay, timer, connected, handed, since>>

-----------------------------------------------------------------------------
(* waitForUpdate, called by the thread that subscribed.                    *)

Call ==
    /\ waiter = "out"
    /\ waiter' = "in"
    /\ UNCHANGED <<flags, delay, timer, connected, history>>

\* Mutant: the delay is not looked at.
DueAnyway == {p \in updated : p \notin appended}

\* The updates whose delay is over.
Due == {p \in updated : p \notin appended /\ delay[p] = 0}

\* A set of papers in the order of the keys of m_vals.
InOrder(S) ==
    {s \in [1 .. Cardinality(S) -> S] : \A k, l \in DOMAIN s : k < l => s[k] < s[l]}

\* Mutant: the papers without an update are not waited for.
DelaysOfUpdated == {delay[p] : p \in updated} \ {0}

\* The delays that are not over, with an update or without.
Delays == {delay[p] : p \in Papers} \ {0}

\* One iteration: due updates become jobs, then the first job is returned, or
\* the thread sleeps for minWait, the shortest delay.
Report(all) ==
    LET p == Head(all)
    IN  /\ jobs' = Tail(all)
        /\ updated' = updated \ {p}
        /\ appended' = (appended \cup Due) \ {p}
        /\ delay' = [delay EXCEPT ![p] = MinDelay[p]]
        /\ waiter' = "out"
        /\ handed' = handed \cup {p}
        /\ since' = [since EXCEPT ![p] = 0]
        /\ UNCHANGED <<timer, connected, fresh>>

Sleep ==
    /\ waiter' = "asleep"
    /\ IF Delays = {} THEN timer' = Forever
       ELSE /\ timer' \in Delays
            /\ \A d \in Delays : timer' <= d
    /\ UNCHANGED <<flags, delay, connected, history>>

Iterate ==
    /\ waiter = "in"
    /\ \E due \in InOrder(Due) :
        IF jobs \o due = <<>> THEN Sleep ELSE Report(jobs \o due)

\* The sleep is over: the code looks at everything again, whatever woke it.
TimerFires ==
    /\ waiter = "asleep"
    /\ timer = 0
    /\ waiter' = "in"
    /\ UNCHANGED <<flags, delay, timer, connected, history>>

-----------------------------------------------------------------------------
\* Mutant: the job stays in the list.
PeekLeavingJob(p) ==
    /\ connected
    /\ updated' = updated \ {p}
    /\ appended' = appended \ {p}
    /\ fresh' = fresh \ {p}
    /\ handed' = handed \ {p}
    /\ UNCHANGED <<jobs, delay, waiter, timer, connected, since>>

\* The removal of the first job of a paper, if there is one.
Without(p, rest) ==
    IF p \in Jobs
    THEN \E k \in DOMAIN jobs :
            /\ jobs[k] = p
            /\ \A l \in 1 .. k - 1 : jobs[l] # p
            /\ rest = RemoveAt(jobs, k)
    ELSE rest = jobs

\* peekQuote, by any thread: the quote is read, and the paper has no news.
PeekQuote(p) ==
    /\ connected
    /\ Without(p, jobs')
    /\ updated' = updated \ {p}
    /\ appended' = appended \ {p}
    /\ fresh' = fresh \ {p}
    /\ handed' = handed \ {p}
    /\ UNCHANGED <<delay, waiter, timer, connected, since>>

\* zeroConnectionMember: the connection is destructed.
ZeroConnectionMember ==
    /\ connected
    /\ connected' = FALSE
    /\ UNCHANGED <<flags, delay, waiter, timer, history>>

\* A millisecond passes.
Tick ==
    /\ delay' = [p \in Papers |-> IF delay[p] > 0 THEN delay[p] - 1 ELSE 0]
    /\ timer' = IF timer > 0 THEN timer - 1 ELSE timer
    /\ since' = [p \in Papers |->
                    IF since[p] < MinDelay[p] THEN since[p] + 1 ELSE since[p]]
    /\ UNCHANGED <<flags, waiter, connected, fresh, handed>>

Next ==
    \/ \E p \in Papers, type \in Types : Update(p, type)
    \/ Call
    \/ Iterate
    \/ TimerFires
    \/ \E p \in Papers : PeekQuote(p)
    \/ ZeroConnectionMember
    \/ Tick

Spec == Init /\ [][Next]_vars

\* The thread that subscribed calls again and again, and time passes.
FairSpec ==
    Spec /\ WF_vars(Call) /\ WF_vars(Iterate) /\ WF_vars(TimerFires)
         /\ WF_vars(Tick)

-----------------------------------------------------------------------------
TypeOK ==
    /\ updated \subseteq Papers /\ appended \subseteq Papers
    /\ delay \in [Papers -> Nat]
    /\ jobs \in Seq(Papers)
    /\ waiter \in {"out", "in", "asleep"}
    /\ timer \in Nat \cup {Forever}
    /\ connected \in BOOLEAN
    /\ fresh \subseteq Papers /\ handed \subseteq Papers
    /\ since \in [Papers -> Nat]

\* The list and the flags agree: a paper is in the list once, exactly if it
\* is appended, and then it has news and its delay is over.  (waitForUpdate
\* asserts the first part for its paper.)
JobsAreDue ==
    /\ Jobs = appended
    /\ \A k, l \in DOMAIN jobs : jobs[k] = jobs[l] => k = l
    /\ \A p \in appended : p \in updated /\ delay[p] = 0

\* The waiter never sleeps through news: nothing is due, and the timer ends
\* before the delay of every paper that has some.
NoOversleep ==
    waiter = "asleep" =>
        /\ jobs = <<>>
        /\ \A p \in updated : timer # Forever /\ timer <= delay[p]

\* A quote that nobody has read since it changed is remembered, or was
\* reported to the thread that waits.
NewsKept == fresh \subseteq updated \cup handed

\* Two reports of one paper are at least its delay apart, peeks and updates in
\* between notwithstanding.
MinDelayKept ==
    [][\A p \in Papers :
        since'[p] < since[p] => since[p] = MinDelay[p]]_vars

\* Every update is reported or peeked at, however many papers change.
Delivered == \A p \in Papers : p \in updated ~> p \notin updated
=============================================================================
