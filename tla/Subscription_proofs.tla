-------------------------- MODULE Subscription_proofs --------------------------
(***************************************************************************)
(* The safety of a subscription, for any papers, delays and wanted types.  *)
(***************************************************************************)
EXTENDS Subscription, SequenceTheorems, FiniteSetTheorems, TLAPS

\* The time since the last report and the time to the next make up the delay.
Clock == \A p \in Papers : delay[p] + since[p] = MinDelay[p]

\* NoOversleep with what makes it inductive: the timer also ends before the
\* delay of a paper that has no news yet but may get some.
Alarm ==
    waiter = "asleep" =>
        /\ jobs = <<>>
        /\ \A p \in Papers :
            p \in updated \/ delay[p] > 0 => timer # Forever /\ timer <= delay[p]

SubInvariant == TypeOK /\ JobsAreDue /\ Clock /\ Alarm /\ NewsKept

-----------------------------------------------------------------------------
(* Removing a job.                                                          *)

\* RemoveAt drops one element and moves the later ones down.
LEMMA RemovedAt ==
    ASSUME NEW S, NEW s \in Seq(S), NEW k \in 1 .. Len(s)
    PROVE  /\ RemoveAt(s, k) \in Seq(S)
           /\ Len(RemoveAt(s, k)) = Len(s) - 1
           /\ \A i \in 1 .. Len(s) - 1 :
                RemoveAt(s, k)[i] = IF i < k THEN s[i] ELSE s[i + 1]
<1> DEFINE a == SubSeq(s, 1, k - 1)
           b == SubSeq(s, k + 1, Len(s))
<1>1. /\ a \in Seq(S) /\ Len(a) = k - 1
      /\ \A i \in 1 .. k - 1 : a[i] = s[i]
  BY SubSeqProperties
<1>2. /\ b \in Seq(S) /\ Len(b) = Len(s) - k
      /\ \A i \in 1 .. Len(s) - k : b[i] = s[i + k]
  <2>1. k + 1 \in 1 .. Len(s) + 1 /\ Len(s) \in k .. Len(s)
    BY LenProperties
  <2> QED BY <2>1, SubSeqProperties, LenProperties
<1>3. RemoveAt(s, k) = a \o b
  BY DEF RemoveAt
<1> HIDE DEF a, b
<1>4. /\ a \o b \in Seq(S)
      /\ Len(a \o b) = Len(a) + Len(b)
      /\ \A i \in 1 .. Len(a) + Len(b) :
            (a \o b)[i] = IF i <= Len(a) THEN a[i] ELSE b[i - Len(a)]
  BY <1>1, <1>2, ConcatProperties
<1> QED BY <1>1, <1>2, <1>3, <1>4

\* The list after a removal: the same papers but one, each of them once.
LEMMA WithoutOne ==
    ASSUME jobs \in Seq(Papers), NEW p \in Papers, NEW rest,
           \A k, l \in DOMAIN jobs : jobs[k] = jobs[l] => k = l,
           Without(p, rest)
    PROVE  /\ rest \in Seq(Papers)
           /\ {rest[k] : k \in DOMAIN rest} = Jobs \ {p}
           /\ \A k, l \in DOMAIN rest : rest[k] = rest[l] => k = l
<1>1. CASE p \notin Jobs
  BY <1>1 DEF Without, Jobs
<1>2. CASE p \in Jobs
  <2>1. PICK n \in DOMAIN jobs : jobs[n] = p /\ rest = RemoveAt(jobs, n)
    BY <1>2 DEF Without
  <2>2. DOMAIN jobs = 1 .. Len(jobs) /\ Len(jobs) \in Nat
    BY LenProperties
  <2>3. /\ rest \in Seq(Papers)
        /\ Len(rest) = Len(jobs) - 1
        /\ \A i \in 1 .. Len(jobs) - 1 :
              rest[i] = IF i < n THEN jobs[i] ELSE jobs[i + 1]
    BY <2>1, <2>2, RemovedAt
  <2>4. DOMAIN rest = 1 .. Len(jobs) - 1
    BY <2>3, LenProperties
  <2>5. ASSUME NEW k \in DOMAIN rest, NEW l \in DOMAIN rest, rest[k] = rest[l]
        PROVE  k = l
    BY <2>2, <2>3, <2>4, <2>5
  <2>6. ASSUME NEW k \in DOMAIN rest
        PROVE  rest[k] \in Jobs \ {p}
    BY <2>1, <2>2, <2>3, <2>4 DEF Jobs
  <2>7. ASSUME NEW q \in Jobs \ {p}
        PROVE  \E k \in DOMAIN rest : rest[k] = q
    <3>1. PICK k \in DOMAIN jobs : jobs[k] = q
      BY DEF Jobs
    <3>2. k # n
      BY <2>1, <3>1
    <3>3. CASE k < n
      BY <2>1, <2>2, <2>3, <2>4, <3>1, <3>3
    <3>4. CASE k > n
      <4>1. k - 1 \in 1 .. Len(jobs) - 1 /\ ~(k - 1 < n) /\ (k - 1) + 1 = k
        BY <2>1, <2>2, <3>4
      <4>2. rest[k - 1] = q
        BY <2>3, <3>1, <4>1
      <4> QED BY <2>4, <4>1, <4>2
    <3> QED BY <2>1, <2>2, <3>2, <3>3, <3>4
  <2>8. {rest[k] : k \in DOMAIN rest} = Jobs \ {p}
    BY <2>6, <2>7
  <2> QED BY <2>3, <2>5, <2>8
<1> QED BY <1>1, <1>2

\* The list with the papers of a set appended, and its head and tail.
LEMMA Joined ==
    ASSUME jobs \in Seq(Papers), NEW S \in SUBSET Papers,
           NEW N \in Nat, NEW due \in [1 .. N -> S],
           {due[k] : k \in 1 .. N} = S, S \cap Jobs = {},
           \A k, l \in 1 .. N : k # l => due[k] # due[l],
           \A k, l \in DOMAIN jobs : jobs[k] = jobs[l] => k = l
    PROVE  LET all == jobs \o due
           IN  /\ all \in Seq(Papers)
               /\ {all[k] : k \in DOMAIN all} = Jobs \cup S
               /\ \A k, l \in DOMAIN all : all[k] = all[l] => k = l
<1> DEFINE all == jobs \o due
<1>1. due \in Seq(Papers) /\ Len(due) = N /\ DOMAIN due = 1 .. N
  BY IsASeq, LenProperties
<1>2. /\ DOMAIN jobs = 1 .. Len(jobs) /\ Len(jobs) \in Nat
  BY LenProperties
<1>3. /\ all \in Seq(Papers)
      /\ Len(all) = Len(jobs) + N
      /\ \A i \in 1 .. Len(jobs) + N :
            all[i] = IF i <= Len(jobs) THEN jobs[i] ELSE due[i - Len(jobs)]
  BY <1>1, ConcatProperties
<1>4. DOMAIN all = 1 .. Len(jobs) + N
  BY <1>3, LenProperties
<1> HIDE DEF all
<1>5. \A k \in DOMAIN jobs : k \in DOMAIN all /\ all[k] = jobs[k]
  BY <1>2, <1>3, <1>4
<1>6. ASSUME NEW k \in 1 .. N
      PROVE  k + Len(jobs) \in DOMAIN all /\ all[k + Len(jobs)] = due[k]
  <2>1. /\ k + Len(jobs) \in 1 .. Len(jobs) + N
        /\ ~(k + Len(jobs) <= Len(jobs))
        /\ (k + Len(jobs)) - Len(jobs) = k
    BY <1>2
  <2> QED BY <1>3, <1>4, <2>1
<1>7. ASSUME NEW k \in DOMAIN all
      PROVE  \/ k \in DOMAIN jobs /\ all[k] = jobs[k] /\ all[k] \in Jobs
             \/ /\ k \notin DOMAIN jobs
                /\ k - Len(jobs) \in 1 .. N
                /\ all[k] = due[k - Len(jobs)] /\ all[k] \in S
  BY <1>2, <1>3, <1>4 DEF Jobs
<1>8. {all[k] : k \in DOMAIN all} = Jobs \cup S
  <2>1. \A q \in Jobs : \E k \in DOMAIN all : all[k] = q
    BY <1>5 DEF Jobs
  <2>2. \A q \in S : \E k \in DOMAIN all : all[k] = q
    BY <1>6
  <2> QED BY <1>7, <2>1, <2>2
<1>9. ASSUME NEW k \in DOMAIN all, NEW l \in DOMAIN all, all[k] = all[l]
      PROVE  k = l
  <2>1. CASE k \in DOMAIN jobs
    <3>1. l \in DOMAIN jobs
      BY <1>7, <1>9, <2>1
    <3> QED BY <1>5, <1>9, <2>1, <3>1
  <2>2. CASE k \notin DOMAIN jobs
    <3>1. l \notin DOMAIN jobs
      BY <1>7, <1>9, <2>2
    <3>2. k - Len(jobs) = l - Len(jobs)
      BY <1>7, <1>9, <2>2, <3>1
    <3> QED BY <1>2, <1>4, <3>2
  <2> QED BY <2>1, <2>2
<1> QED BY <1>3, <1>8, <1>9 DEF all

\* A set in order is a list of each of its elements, once.
LEMMA Ordered ==
    ASSUME NEW S \in SUBSET Papers, NEW due \in InOrder(S)
    PROVE  /\ Cardinality(S) \in Nat
           /\ due \in [1 .. Cardinality(S) -> S]
           /\ {due[k] : k \in 1 .. Cardinality(S)} = S
           /\ \A k, l \in 1 .. Cardinality(S) : k # l => due[k] # due[l]
<1> DEFINE N == Cardinality(S)
<1>1. IsFiniteSet(S) /\ N \in Nat
  BY SubscriptionAssumption, FS_Subset, FS_CardinalityType
<1>2. due \in [1 .. N -> S] /\ DOMAIN due = 1 .. N
      /\ \A k, l \in 1 .. N : k < l => due[k] < due[l]
  BY DEF InOrder
<1>3. ASSUME NEW k \in 1 .. N, NEW l \in 1 .. N, k # l
      PROVE  due[k] # due[l]
  <2>1. due[k] \in Nat /\ due[l] \in Nat
    BY <1>2, SubscriptionAssumption
  <2>2. k < l \/ l < k
    BY <1>1, <1>3
  <2>3. due[k] < due[l] \/ due[l] < due[k]
    BY <1>2, <2>2
  <2> QED BY <2>1, <2>3
<1>4. due \in Injection(1 .. N, S)
  BY <1>2, <1>3 DEF Injection, IsInjective
<1>5. Cardinality(1 .. N) = N
  BY <1>1, FS_Interval
<1>6. due \in Surjection(1 .. N, S)
  <2>1. Cardinality(1 .. N) = Cardinality(S) <=> due \in Surjection(1 .. N, S)
    BY <1>1, <1>4, FS_Injection, Zenon
  <2> QED BY <1>5, <2>1
<1>7. \A q \in S : \E k \in 1 .. N : due[k] = q
  BY <1>6 DEF Surjection
<1> QED BY <1>1, <1>2, <1>3, <1>7

\* Taking the first job.
LEMMA Taken ==
    ASSUME NEW all \in Seq(Papers), all # <<>>,
           \A k, l \in DOMAIN all : all[k] = all[l] => k = l
    PROVE  /\ Head(all) \in Papers
           /\ Tail(all) \in Seq(Papers)
           /\ {Tail(all)[k] : k \in DOMAIN Tail(all)}
                  = {all[k] : k \in DOMAIN all} \ {Head(all)}
           /\ \A k, l \in DOMAIN Tail(all) : Tail(all)[k] = Tail(all)[l] => k = l
           /\ \E k \in DOMAIN all : all[k] = Head(all)
<1> DEFINE rest == Tail(all)
<1>1. /\ Head(all) \in Papers
      /\ rest \in Seq(Papers)
      /\ Len(rest) = Len(all) - 1
      /\ \A i \in 1 .. Len(rest) : rest[i] = all[i + 1]
  BY HeadTailProperties
<1>2. DOMAIN all = 1 .. Len(all) /\ Len(all) \in Nat /\ Len(all) # 0
  BY LenProperties, EmptySeq
<1>3. DOMAIN rest = 1 .. Len(all) - 1
  BY <1>1, LenProperties
<1>4. Head(all) = all[1] /\ 1 \in DOMAIN all
  BY <1>2
<1> HIDE DEF rest
<1>5. ASSUME NEW k \in DOMAIN rest
      PROVE  k + 1 \in DOMAIN all /\ k + 1 # 1 /\ rest[k] = all[k + 1]
  BY <1>1, <1>2, <1>3
<1>6. ASSUME NEW k \in DOMAIN all, k # 1
      PROVE  k - 1 \in DOMAIN rest /\ rest[k - 1] = all[k]
  <2>1. k - 1 \in 1 .. Len(all) - 1 /\ (k - 1) + 1 = k
    BY <1>2, <1>6
  <2> QED BY <1>1, <1>3, <2>1
<1>7. {rest[k] : k \in DOMAIN rest} = {all[k] : k \in DOMAIN all} \ {Head(all)}
  <2>1. ASSUME NEW k \in DOMAIN rest
        PROVE  rest[k] \in {all[l] : l \in DOMAIN all} \ {Head(all)}
    BY <1>4, <1>5
  <2>2. ASSUME NEW k \in DOMAIN all, all[k] # Head(all)
        PROVE  \E l \in DOMAIN rest : rest[l] = all[k]
    BY <1>4, <1>6, <2>2
  <2> QED BY <2>1, <2>2
<1>8. ASSUME NEW k \in DOMAIN rest, NEW l \in DOMAIN rest, rest[k] = rest[l]
      PROVE  k = l
  <2>1. k + 1 = l + 1
    BY <1>5, <1>8
  <2> QED BY <1>2, <1>3, <2>1
<1> QED BY <1>1, <1>4, <1>7, <1>8 DEF rest

-----------------------------------------------------------------------------
(* The inductive invariant.                                                *)

LEMMA InitInvariant == Init => SubInvariant
<1> SUFFICES ASSUME Init PROVE SubInvariant
  OBVIOUS
<1> USE SubscriptionAssumption DEF Init
<1>1. DOMAIN jobs = {}
  BY EmptySeq, LenProperties
<1>2. TypeOK
  BY EmptySeq DEF TypeOK
<1>3. JobsAreDue
  BY <1>1 DEF JobsAreDue, Jobs
<1>4. Clock
  BY DEF Clock
<1>5. Alarm /\ NewsKept
  BY DEF Alarm, NewsKept
<1> QED BY <1>2, <1>3, <1>4, <1>5 DEF SubInvariant

\* A new job: what update does for a paper whose delay is over.
LEMMA UpdateKeeps ==
    ASSUME SubInvariant, NEW p \in Papers, NEW type \in Types, Update(p, type)
    PROVE  SubInvariant'
<1> USE DEF SubInvariant
<1>1. CASE delay[p] = 0 /\ p \notin appended
  <2>1. /\ updated' = updated \cup {p}
        /\ appended' = appended \cup {p}
        /\ jobs' = Append(jobs, p)
        /\ waiter' = IF waiter = "asleep" THEN "in" ELSE waiter
        /\ fresh' = fresh \cup {p}
        /\ UNCHANGED <<delay, timer, connected, handed, since>>
    BY <1>1 DEF Update, Wake
  <2>2. jobs \in Seq(Papers) /\ Len(jobs) \in Nat /\ DOMAIN jobs = 1 .. Len(jobs)
    BY LenProperties DEF TypeOK
  <2>3. /\ jobs' \in Seq(Papers)
        /\ Len(jobs') = Len(jobs) + 1
        /\ \A i \in 1 .. Len(jobs) : jobs'[i] = jobs[i]
        /\ jobs'[Len(jobs) + 1] = p
    BY <2>1, <2>2, AppendProperties
  <2>4. DOMAIN jobs' = 1 .. Len(jobs) + 1
    BY <2>3, LenProperties
  <2>5. TypeOK'
    BY <2>1, <2>3 DEF TypeOK
  <2>6. \A k \in 1 .. Len(jobs) : jobs[k] # p
    BY <1>1, <2>2 DEF JobsAreDue, Jobs
  <2>7. Jobs' = Jobs \cup {p}
    BY <2>2, <2>3, <2>4 DEF Jobs
  <2>8. \A k, l \in DOMAIN jobs' : jobs'[k] = jobs'[l] => k = l
    <3>1. SUFFICES ASSUME NEW k \in 1 .. Len(jobs) + 1,
                          NEW l \in 1 .. Len(jobs) + 1, jobs'[k] = jobs'[l]
                   PROVE  k = l
      BY <2>4
    <3>2. CASE k \in 1 .. Len(jobs) /\ l \in 1 .. Len(jobs)
      BY <2>2, <2>3, <3>1, <3>2 DEF JobsAreDue
    <3>3. CASE k = Len(jobs) + 1 \/ l = Len(jobs) + 1
      BY <2>2, <2>3, <2>6, <3>1, <3>3
    <3> QED BY <2>2, <3>2, <3>3
  <2>9. JobsAreDue'
    BY <1>1, <2>1, <2>7, <2>8 DEF JobsAreDue
  <2>10. Clock' /\ Alarm' /\ NewsKept'
    BY <2>1 DEF Clock, Alarm, NewsKept, TypeOK
  <2> QED BY <2>5, <2>9, <2>10
<1>2. CASE ~(delay[p] = 0 /\ p \notin appended)
  <2>1. /\ updated' = updated \cup {p}
        /\ fresh' = fresh \cup {p}
        /\ UNCHANGED <<appended, jobs, waiter, delay, timer, connected, handed,
                       since>>
    BY <1>2 DEF Update
  <2>2. TypeOK'
    BY <2>1 DEF TypeOK
  <2>3. JobsAreDue'
    BY <2>1 DEF JobsAreDue, Jobs
  <2>4. Clock' /\ NewsKept'
    BY <2>1 DEF Clock, NewsKept
  <2>5. Alarm'
    <3>1. CASE p \in appended
      <4>1. p \in updated
        BY <3>1 DEF JobsAreDue
      <4> QED BY <2>1, <4>1 DEF Alarm
    <3>2. CASE delay[p] # 0
      <4>1. delay[p] > 0
        BY <3>2 DEF TypeOK
      <4> QED BY <2>1, <4>1 DEF Alarm
    <3> QED BY <1>2, <3>1, <3>2
  <2> QED BY <2>2, <2>3, <2>4, <2>5
<1> QED BY <1>1, <1>2

\* Going to sleep: nothing is due, so that every paper with news has a delay
\* of which the timer is the least.
LEMMA SleepKeeps ==
    ASSUME SubInvariant, waiter = "in", Due = {}, jobs = <<>>, Sleep
    PROVE  SubInvariant'
<1> USE DEF SubInvariant
<1>1. /\ waiter' = "asleep"
      /\ UNCHANGED <<updated, appended, jobs, delay, connected, fresh, handed, since>>
  BY DEF Sleep, flags, history
<1>2. DOMAIN jobs = {}
  BY EmptySeq, LenProperties
<1>3. appended = {}
  BY <1>2 DEF JobsAreDue, Jobs
<1>4. \A p \in Papers : delay[p] \in Nat
  BY DEF TypeOK
<1>5. \A p \in Papers : p \in updated \/ delay[p] > 0 => delay[p] \in Delays
  BY <1>3, <1>4 DEF Due, Delays
<1>6. timer' \in Nat \cup {Forever}
  BY <1>4 DEF Sleep, Delays
<1>7. ASSUME NEW p \in Papers, p \in updated \/ delay[p] > 0
      PROVE  timer' # Forever /\ timer' <= delay[p]
  <2>1. delay[p] \in Delays
    BY <1>5, <1>7
  <2>2. timer' \in Delays /\ timer' <= delay[p]
    BY <2>1 DEF Sleep
  <2> QED BY <1>4, <2>2 DEF Delays, Forever
<1>8. TypeOK'
  BY <1>1, <1>6 DEF TypeOK
<1>9. JobsAreDue' /\ Clock' /\ NewsKept'
  BY <1>1 DEF JobsAreDue, Jobs, Clock, NewsKept
<1>10. Alarm'
  BY <1>1, <1>7 DEF Alarm
<1> QED BY <1>8, <1>9, <1>10

\* A report: the first job, of which the delay is over.
LEMMA ReportKeeps ==
    ASSUME SubInvariant, waiter = "in", NEW due \in InOrder(Due),
           jobs \o due # <<>>, Report(jobs \o due)
    PROVE  /\ SubInvariant'
           /\ Head(jobs \o due) \in Papers /\ delay[Head(jobs \o due)] = 0
<1> DEFINE all == jobs \o due
           q == Head(all)
<1> USE DEF SubInvariant
<1>1. Due \in SUBSET Papers
  BY DEF Due, TypeOK
<1>2. Due \cap Jobs = {}
  BY DEF Due, JobsAreDue
<1>3. /\ Cardinality(Due) \in Nat
      /\ due \in [1 .. Cardinality(Due) -> Due]
      /\ {due[k] : k \in 1 .. Cardinality(Due)} = Due
      /\ \A k, l \in 1 .. Cardinality(Due) : k # l => due[k] # due[l]
  BY <1>1, Ordered
<1>4. jobs \in Seq(Papers) /\ \A k, l \in DOMAIN jobs : jobs[k] = jobs[l] => k = l
  BY DEF TypeOK, JobsAreDue
<1>5. /\ all \in Seq(Papers)
      /\ {all[k] : k \in DOMAIN all} = Jobs \cup Due
      /\ \A k, l \in DOMAIN all : all[k] = all[l] => k = l
  BY <1>1, <1>2, <1>3, <1>4, Joined
<1>6. /\ jobs' = Tail(all)
      /\ updated' = updated \ {q}
      /\ appended' = (appended \cup Due) \ {q}
      /\ delay' = [delay EXCEPT ![q] = MinDelay[q]]
      /\ waiter' = "out"
      /\ handed' = handed \cup {q}
      /\ since' = [since EXCEPT ![q] = 0]
      /\ UNCHANGED <<timer, connected, fresh>>
  BY DEF Report
<1>7. all # <<>>
  OBVIOUS
<1> HIDE DEF all
<1>8. /\ q \in Papers
      /\ Tail(all) \in Seq(Papers)
      /\ {Tail(all)[k] : k \in DOMAIN Tail(all)} = (Jobs \cup Due) \ {q}
      /\ \A k, l \in DOMAIN Tail(all) : Tail(all)[k] = Tail(all)[l] => k = l
      /\ q \in Jobs \cup Due
  <2>1. PICK k \in DOMAIN all : all[k] = q
    BY <1>5, <1>7, Taken
  <2>2. q \in Jobs \cup Due
    BY <1>5, <2>1
  <2> QED BY <1>5, <1>7, <2>2, Taken
<1> HIDE DEF q
<1>9. delay[q] = 0
  BY <1>8 DEF JobsAreDue, Due
<1>10. MinDelay[q] \in Nat /\ MinDelay \in [Papers -> Nat]
  BY <1>8, SubscriptionAssumption
<1>11. TypeOK'
  BY <1>1, <1>6, <1>8, <1>10 DEF TypeOK
<1>12. JobsAreDue'
  <2>1. Jobs' = appended'
    BY <1>6, <1>8 DEF Jobs, JobsAreDue
  <2>2. \A p \in appended' : p \in updated' /\ delay'[p] = 0
    BY <1>1, <1>6, <1>8 DEF JobsAreDue, Due, TypeOK
  <2> QED BY <1>6, <1>8, <2>1, <2>2 DEF JobsAreDue
<1>13. Clock'
  <2>1. ASSUME NEW p \in Papers
        PROVE  delay'[p] + since'[p] = MinDelay[p]
    <3>1. CASE p = q
      BY <1>6, <1>8, <1>10, <3>1 DEF TypeOK
    <3>2. CASE p # q
      BY <1>6, <3>2 DEF TypeOK, Clock
    <3> QED BY <3>1, <3>2
  <2> QED BY <2>1 DEF Clock
<1>14. Alarm' /\ NewsKept'
  BY <1>6 DEF Alarm, NewsKept
<1> QED BY <1>8, <1>9, <1>11, <1>12, <1>13, <1>14 DEF q, all

LEMMA IterateKeeps ==
    ASSUME SubInvariant, Iterate
    PROVE  SubInvariant'
<1>1. waiter = "in"
  BY DEF Iterate
<1>2. PICK due \in InOrder(Due) :
        IF jobs \o due = <<>> THEN Sleep ELSE Report(jobs \o due)
  BY DEF Iterate
<1>3. CASE jobs \o due = <<>>
  <2>1. Due \in SUBSET Papers
    BY DEF Due, SubInvariant, TypeOK
  <2>2. jobs \in Seq(Papers) /\ Len(jobs) \in Nat
    BY LenProperties DEF SubInvariant, TypeOK
  <2>3. /\ Cardinality(Due) \in Nat
        /\ due \in [1 .. Cardinality(Due) -> Due]
        /\ {due[k] : k \in 1 .. Cardinality(Due)} = Due
    BY <2>1, Ordered
  <2>4. due \in Seq(Papers) /\ Len(due) = Cardinality(Due)
    BY <2>1, <2>3, IsASeq, LenProperties
  <2>5. Len(jobs \o due) = 0
    BY <1>3
  <2>6. Len(jobs) = 0 /\ Len(due) = 0
    BY <2>2, <2>3, <2>4, <2>5, ConcatProperties
  <2>7. Due = {}
    BY <2>3, <2>4, <2>6
  <2>8. jobs = <<>>
    BY <2>2, <2>6, EmptySeq
  <2> QED BY <1>1, <1>2, <1>3, <2>7, <2>8, SleepKeeps
<1>4. CASE jobs \o due # <<>>
  BY <1>1, <1>2, <1>4, ReportKeeps
<1> QED BY <1>3, <1>4

LEMMA PeekKeeps ==
    ASSUME SubInvariant, NEW p \in Papers, PeekQuote(p)
    PROVE  SubInvariant'
<1> USE DEF SubInvariant
<1>1. /\ Without(p, jobs')
      /\ updated' = updated \ {p}
      /\ appended' = appended \ {p}
      /\ fresh' = fresh \ {p}
      /\ handed' = handed \ {p}
      /\ UNCHANGED <<delay, waiter, timer, connected, since>>
  BY DEF PeekQuote
<1>2. /\ jobs' \in Seq(Papers)
      /\ {jobs'[k] : k \in DOMAIN jobs'} = Jobs \ {p}
      /\ \A k, l \in DOMAIN jobs' : jobs'[k] = jobs'[l] => k = l
  BY <1>1, WithoutOne DEF TypeOK, JobsAreDue
<1>3. TypeOK'
  BY <1>1, <1>2 DEF TypeOK
<1>4. Jobs' = appended'
  BY <1>1, <1>2 DEF Jobs, JobsAreDue
<1>5. JobsAreDue'
  BY <1>1, <1>2, <1>4 DEF JobsAreDue
<1>6. Clock' /\ NewsKept'
  BY <1>1 DEF Clock, NewsKept
<1>7. Alarm'
  <2>1. ASSUME jobs = <<>>
        PROVE  jobs' = <<>>
    <3>1. Jobs = {}
      BY <2>1, EmptySeq, LenProperties DEF Jobs
    <3> QED BY <1>1, <2>1, <3>1 DEF Without
  <2> QED BY <1>1, <2>1 DEF Alarm
<1> QED BY <1>3, <1>5, <1>6, <1>7

LEMMA TickKeeps ==
    ASSUME SubInvariant, Tick
    PROVE  SubInvariant'
<1> USE DEF SubInvariant
<1>1. /\ delay' = [p \in Papers |-> IF delay[p] > 0 THEN delay[p] - 1 ELSE 0]
      /\ timer' = IF timer > 0 THEN timer - 1 ELSE timer
      /\ since' = [p \in Papers |->
                    IF since[p] < MinDelay[p] THEN since[p] + 1 ELSE since[p]]
      /\ UNCHANGED <<updated, appended, jobs, waiter, connected, fresh, handed>>
  BY DEF Tick, flags
<1>2. \A p \in Papers : /\ delay[p] \in Nat /\ since[p] \in Nat /\ MinDelay[p] \in Nat
                        /\ delay[p] + since[p] = MinDelay[p]
  BY SubscriptionAssumption DEF TypeOK, Clock
<1>3. timer \in Nat \/ timer = -1
  BY DEF TypeOK, Forever
<1>4. \A p \in Papers : delay'[p] \in Nat /\ since'[p] \in Nat
                        /\ delay'[p] + since'[p] = MinDelay[p]
  BY <1>1, <1>2
<1>5. timer' \in Nat \cup {Forever}
  BY <1>1, <1>3 DEF Forever
<1>6. TypeOK'
  <2>1. delay' \in [Papers -> Nat] /\ since' \in [Papers -> Nat]
    BY <1>1, <1>4
  <2> QED BY <1>1, <1>5, <2>1 DEF TypeOK
<1>7. JobsAreDue'
  <2>1. \A p \in appended : p \in Papers /\ delay'[p] = 0
    BY <1>1, <1>2 DEF JobsAreDue, TypeOK
  <2> QED BY <1>1, <2>1 DEF JobsAreDue, Jobs
<1>8. Clock' /\ NewsKept'
  BY <1>1, <1>4 DEF Clock, NewsKept
<1>9. Alarm'
  <2>1. ASSUME NEW p \in Papers, waiter = "asleep",
               p \in updated \/ delay'[p] > 0
        PROVE  timer' # Forever /\ timer' <= delay'[p]
    <3>1. p \in updated \/ delay[p] > 0
      BY <1>1, <1>2, <2>1
    <3>2. timer \in Nat /\ timer <= delay[p]
      BY <1>3, <2>1, <3>1 DEF Alarm, Forever
    <3> QED BY <1>1, <1>2, <3>2 DEF Forever
  <2> QED BY <1>1, <2>1 DEF Alarm
<1> QED BY <1>6, <1>7, <1>8, <1>9

LEMMA NextInvariant == SubInvariant /\ [Next]_vars => SubInvariant'
<1> SUFFICES ASSUME SubInvariant, [Next]_vars PROVE SubInvariant'
  OBVIOUS
<1>1. CASE \E p \in Papers, type \in Types : Update(p, type)
  BY <1>1, UpdateKeeps
<1>2. CASE Call
  <2>1. waiter' = "in" /\ UNCHANGED <<updated, appended, jobs, delay, timer,
                                      connected, fresh, handed, since>>
    BY <1>2 DEF Call, flags, history
  <2> QED BY <2>1 DEF SubInvariant, TypeOK, JobsAreDue, Jobs, Clock, Alarm, NewsKept
<1>3. CASE Iterate
  BY <1>3, IterateKeeps
<1>4. CASE TimerFires
  <2>1. waiter' = "in" /\ UNCHANGED <<updated, appended, jobs, delay, timer,
                                      connected, fresh, handed, since>>
    BY <1>4 DEF TimerFires, flags, history
  <2> QED BY <2>1 DEF SubInvariant, TypeOK, JobsAreDue, Jobs, Clock, Alarm, NewsKept
<1>5. CASE \E p \in Papers : PeekQuote(p)
  BY <1>5, PeekKeeps
<1>6. CASE ZeroConnectionMember
  <2>1. connected' = FALSE /\ UNCHANGED <<updated, appended, jobs, delay, timer,
                                          waiter, fresh, handed, since>>
    BY <1>6 DEF ZeroConnectionMember, flags, history
  <2> QED BY <2>1 DEF SubInvariant, TypeOK, JobsAreDue, Jobs, Clock, Alarm, NewsKept
<1>7. CASE Tick
  BY <1>7, TickKeeps
<1>8. CASE UNCHANGED vars
  BY <1>8 DEF vars, flags, history, SubInvariant, TypeOK, JobsAreDue, Jobs,
              Clock, Alarm, NewsKept
<1> QED BY <1>1, <1>2, <1>3, <1>4, <1>5, <1>6, <1>7, <1>8 DEF Next

LEMMA InvariantHolds == Spec => []SubInvariant
BY InitInvariant, NextInvariant, PTL DEF Spec

-----------------------------------------------------------------------------
(* The theorems.                                                           *)

\* The variables keep their types.
THEOREM TypeCorrect == Spec => []TypeOK
BY InvariantHolds, PTL DEF SubInvariant

\* The list of jobs and the flags of the papers agree in every state, so that
\* the assertion of waitForUpdate about its paper holds.
THEOREM ListAndFlagsAgree == Spec => []JobsAreDue
BY InvariantHolds, PTL DEF SubInvariant

\* waitForUpdate never sleeps through an update that was or will become due:
\* its timer ends first, or update wakes it.
THEOREM NeverOversleeps == Spec => []NoOversleep
<1>1. SubInvariant => NoOversleep
  BY DEF SubInvariant, Alarm, NoOversleep, TypeOK
<1> QED BY <1>1, InvariantHolds, PTL

\* What was stored since the last peek is remembered or was reported.
THEOREM NewsAreKept == Spec => []NewsKept
BY InvariantHolds, PTL DEF SubInvariant

\* Reports of one paper are at least its minimal delay apart.
THEOREM ReportsAreApart == Spec => MinDelayKept
<1> DEFINE Step == \A p \in Papers : since'[p] < since[p] => since[p] = MinDelay[p]
<1>1. ASSUME SubInvariant, [Next]_vars
      PROVE  [Step]_vars
  <2> SUFFICES ASSUME NEW p \in Papers, since'[p] < since[p]
               PROVE  since[p] = MinDelay[p]
    BY DEF Step
  <2>1. since[p] \in Nat /\ delay[p] \in Nat /\ MinDelay[p] \in Nat
        /\ delay[p] + since[p] = MinDelay[p]
    BY <1>1, SubscriptionAssumption DEF SubInvariant, TypeOK, Clock
  <2>2. ~ UNCHANGED since
    BY <2>1
  <2>3. ~ Tick
    BY <2>1 DEF Tick
  <2>4. Iterate
    BY <1>1, <2>2, <2>3 DEF Next, vars, history, Update, Call, TimerFires,
          PeekQuote, ZeroConnectionMember
  <2>5. PICK due \in InOrder(Due) : jobs \o due # <<>> /\ Report(jobs \o due)
    BY <2>2, <2>4 DEF Iterate, Sleep, history
  <2> DEFINE q == Head(jobs \o due)
  <2>6. q \in Papers /\ delay[q] = 0
    BY <1>1, <2>4, <2>5, ReportKeeps DEF Iterate
  <2>7. since' = [since EXCEPT ![q] = 0]
    BY <2>5 DEF Report
  <2> HIDE DEF q
  <2>8. p = q
    BY <1>1, <2>1, <2>7 DEF SubInvariant, TypeOK
  <2> QED BY <2>1, <2>6, <2>8
<1> QED BY <1>1, InvariantHolds, PTL DEF Spec, MinDelayKept
=============================================================================
