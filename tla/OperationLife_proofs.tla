------------------------- MODULE OperationLife_proofs -------------------------
(***************************************************************************)
(* The safety of waiting for an operation and of its deletion, for any     *)
(* number of threads.                                                      *)
(***************************************************************************)
EXTENDS OperationLife, FiniteSetTheorems, TLAPS

\* A woken thread finds a result; the others were told what the result is.
WaitInvariant ==
    /\ TypeOK
    /\ NobodySleepsOn
    /\ OneAnswer
    /\ \A t \in Threads : waiter[t] = "woken" => result # Unknown
    /\ \A t \in Threads : waiter[t] = "late" => t \in timed

LEMMA InitInvariant == Init => WaitInvariant
BY DEF Init, WaitInvariant, TypeOK, NobodySleepsOn, OneAnswer

LEMMA NextInvariant == WaitInvariant /\ [Next]_vars => WaitInvariant'
<1> SUFFICES ASSUME WaitInvariant, [Next]_vars PROVE WaitInvariant'
  OBVIOUS
<1> USE DEF WaitInvariant, NobodySleepsOn, OneAnswer, Unknown, Ends
<1>1. ASSUME NEW t \in Threads, NEW in \in BOOLEAN, WaitForOperationResult(t, in)
      PROVE  WaitInvariant'
  <2>1. CASE result # Unknown
    BY <1>1, <2>1 DEF WaitForOperationResult, TypeOK
  <2>2. CASE result = Unknown
    BY <1>1, <2>2 DEF WaitForOperationResult, TypeOK
  <2> QED BY <2>1, <2>2
<1>2. ASSUME NEW t \in Threads, TimeIsUp(t)
      PROVE  WaitInvariant'
  BY <1>2 DEF TimeIsUp, TypeOK
<1>3. ASSUME NEW t \in Threads, Return(t)
      PROVE  WaitInvariant'
  BY <1>3 DEF Return, TypeOK
<1>4. ASSUME NEW r \in Ends, WakeUpAll(r)
      PROVE  WaitInvariant'
  BY <1>4 DEF WakeUpAll, Woken, TypeOK
<1>5. CASE UNCHANGED vars
  BY <1>5 DEF vars, TypeOK
<1> QED BY <1>1, <1>2, <1>3, <1>4, <1>5 DEF Next, ThreadStep

LEMMA InvariantHolds == Spec => []WaitInvariant
BY InitInvariant, NextInvariant, PTL DEF Spec

-----------------------------------------------------------------------------
\* The variables keep their types.
THEOREM TypeCorrect == Spec => []TypeOK
BY InvariantHolds, PTL DEF WaitInvariant

\* No thread sleeps on an operation that has its result.
THEOREM NoWakeupLost == Spec => []NobodySleepsOn
BY InvariantHolds, PTL DEF WaitInvariant

\* Threads that are told a result are told the only one.
THEOREM AnswersAgree == Spec => []OneAnswer
BY InvariantHolds, PTL DEF WaitInvariant

\* Timeouts are reported only to threads that asked for one.
THEOREM TimeoutsAreReal == Spec => TimeoutWasAskedFor
<1>1. ASSUME WaitInvariant, [Next]_vars
      PROVE  [\A t \in Threads :
                got'[t] = "Timeout" /\ got[t] # "Timeout" => t \in timed]_vars
  <2> SUFFICES ASSUME NEW t \in Threads, got'[t] = "Timeout", got[t] # "Timeout"
               PROVE  t \in timed
    OBVIOUS
  <2> USE DEF WaitInvariant, TypeOK, Unknown, Ends
  <2>1. PICK u \in Threads :
            \/ \E in \in BOOLEAN : WaitForOperationResult(u, in)
            \/ Return(u)
    BY <1>1 DEF Next, ThreadStep, TimeIsUp, WakeUpAll, vars
  <2>2. CASE \E in \in BOOLEAN : WaitForOperationResult(u, in)
    BY <1>1, <2>2 DEF WaitForOperationResult
  <2>3. CASE Return(u)
    BY <1>1, <2>3 DEF Return
  <2> QED BY <2>1, <2>2, <2>3
<1> QED BY <1>1, InvariantHolds, PTL DEF Spec, TimeoutWasAskedFor

-----------------------------------------------------------------------------
(***************************************************************************)
(* The life of the operation.  The count is that of the pointers: those of *)
(* the threads and the one in the hash.  As long as there is one, nobody   *)
(* has been told 0; when there is none, the operation is deleted, or one   *)
(* thread is about to delete it.                                           *)
(***************************************************************************)
Holders == {e \in Everybody : hand[e] = "held"}
Deleters == {e \in Everybody : hand[e] = "going" /\ told[e] = 0}
InHash == IF filed THEN 1 ELSE 0

RefInv ==
    /\ IsFiniteSet(Holders)
    /\ ref = Cardinality(Holders) + InHash
    /\ ref > 0 => deleted = 0 /\ Deleters = {}
    /\ ref = 0 => \/ deleted = 1 /\ Deleters = {}
                  \/ deleted = 0 /\ \E e \in Everybody : Deleters = {e}

LifeInv == LifeTypeOK /\ WaitInvariant /\ RefInv

\* What the operation does on the way is what OperationWait says.
LEMMA LifeWaits == ASSUME [LifeNext]_allVars PROVE [Next]_vars
BY DEF LifeNext, Share, Use, LetGo, Delete, Take, Remove, WakeUp, Done, Next,
       allVars

LEMMA InitLife == LifeInit => LifeInv
<1> SUFFICES ASSUME LifeInit PROVE LifeInv
  OBVIOUS
<1>1. WaitInvariant
  BY InitInvariant DEF LifeInit
<1>2. PICK t \in Threads :
        hand = [e \in Everybody |-> IF e = t THEN "held" ELSE "none"]
  BY DEF LifeInit
<1>3. Holders = {t} /\ Deleters = {}
  BY <1>2 DEF Holders, Deleters, Everybody
<1>4. RefInv
  <2>1. IsFiniteSet({t}) /\ Cardinality({t}) = 1
    BY FS_Singleton
  <2>2. ref = 2 /\ filed = TRUE /\ deleted = 0
    BY DEF LifeInit
  <2>. QED
    BY <1>3, <2>1, <2>2 DEF RefInv, InHash
<1>5. LifeTypeOK
  <2>1. /\ ref = 2 /\ deleted = 0 /\ filed = TRUE /\ woken = FALSE
        /\ told = [e \in Everybody |-> 0]
    BY DEF LifeInit
  <2>2. /\ hand \in [Everybody -> {"none", "held", "going"}]
        /\ told \in [Everybody -> Nat]
    BY <1>2, <2>1
  <2>3. ref \in Nat /\ deleted \in 0 .. 1
    BY <2>1
  <2>4. filed \in BOOLEAN /\ woken \in BOOLEAN
    BY <2>1, Zenon
  <2>. QED
    BY <1>1, <2>2, <2>3, <2>4 DEF LifeTypeOK, WaitInvariant
<1>. QED
  BY <1>1, <1>4, <1>5 DEF LifeInv

\* A pointer is copied while another one is kept.
LEMMA CopyCounts ==
    ASSUME LifeTypeOK, RefInv, NEW e \in Everybody, ref > 0, Copy(e),
           UNCHANGED <<deleted, filed, told>>
    PROVE  RefInv' /\ ref' \in Nat
                   /\ hand' \in [Everybody -> {"none", "held", "going"}]
<1>1. /\ hand \in [Everybody -> {"none", "held", "going"}]
      /\ ref \in Nat /\ hand[e] = "none" /\ ref' = ref + 1
      /\ hand' = [hand EXCEPT ![e] = "held"]
  BY DEF LifeTypeOK, Copy
<1>2. Holders' = Holders \cup {e} /\ e \notin Holders /\ Deleters' = Deleters
  BY <1>1 DEF Holders, Deleters
<1>3. /\ IsFiniteSet(Holders') /\ Cardinality(Holders) \in Nat
      /\ Cardinality(Holders') = Cardinality(Holders) + 1
  BY <1>2, FS_AddElement, FS_CardinalityType DEF RefInv
<1>. QED
  BY <1>1, <1>2, <1>3 DEF RefInv, InHash

\* A thread lets go, and is told 0 only if its pointer was the last one.
LEMMA DecRefCounts ==
    ASSUME LifeTypeOK, RefInv, NEW e \in Everybody, DecRef(e),
           UNCHANGED <<deleted, filed>>
    PROVE  /\ RefInv' /\ ref' \in Nat /\ told' \in [Everybody -> Nat]
           /\ hand' \in [Everybody -> {"none", "held", "going"}]
<1>1. /\ hand \in [Everybody -> {"none", "held", "going"}]
      /\ told \in [Everybody -> Nat]
      /\ ref \in Nat /\ hand[e] = "held" /\ ref' = ref - 1
      /\ hand' = [hand EXCEPT ![e] = "going"]
      /\ told' = [told EXCEPT ![e] = ref - 1]
  BY DEF LifeTypeOK, DecRef
<1>2. /\ Holders' = Holders \ {e} /\ e \in Holders
      /\ Deleters' = IF ref - 1 = 0 THEN Deleters \cup {e} ELSE Deleters
  BY <1>1 DEF Holders, Deleters
<1>3. /\ IsFiniteSet(Holders') /\ Cardinality(Holders) \in Nat
      /\ Cardinality(Holders') \in Nat
      /\ Cardinality(Holders') = Cardinality(Holders) - 1
  BY <1>2, FS_RemoveElement, FS_CardinalityType DEF RefInv
<1>4. ref > 0 /\ ref' = Cardinality(Holders') + InHash'
  BY <1>1, <1>3 DEF RefInv, InHash
<1>. QED
  BY <1>1, <1>2, <1>3, <1>4 DEF RefInv

LEMMA LifeStep ==
    ASSUME LifeInv, [LifeNext]_allVars
    PROVE  LifeInv'
<1> USE DEF LifeInv
<1>1. WaitInvariant' /\ TypeOK'
  BY LifeWaits, NextInvariant DEF WaitInvariant
<1>2. /\ hand \in [Everybody -> {"none", "held", "going"}]
      /\ told \in [Everybody -> Nat] /\ ref \in Nat
      /\ deleted \in 0 .. 1 /\ filed \in BOOLEAN /\ woken \in BOOLEAN
      /\ Cardinality(Holders) \in Nat
  BY FS_CardinalityType DEF LifeTypeOK, RefInv
<1>3. ASSUME NEW e \in Everybody, hand[e] = "held" PROVE Cardinality(Holders) > 0
  <2>1. Holders # {} /\ IsFiniteSet(Holders)
    BY <1>3 DEF Holders, RefInv
  <2>. QED
    BY <1>2, <2>1, FS_EmptySet
<1>4. ASSUME NEW t \in Threads, NEW u \in Threads, Share(t, u) PROVE LifeInv'
  <2>1. ref > 0 /\ u \in Everybody
    BY <1>2, <1>3, <1>4 DEF Share, Everybody, RefInv, InHash
  <2>. QED
    BY <1>1, <1>2, <1>4, <2>1, CopyCounts DEF Share, LifeTypeOK
<1>5. ASSUME UNCHANGED lifeVars PROVE LifeInv'
  BY <1>1, <1>5 DEF lifeVars, LifeTypeOK, RefInv, Holders, Deleters, InHash
<1>6. ASSUME NEW t \in Threads, LetGo(t) PROVE LifeInv'
  BY <1>1, <1>2, <1>6, DecRefCounts DEF LetGo, LifeTypeOK, Everybody
<1>7. ASSUME NEW e \in Everybody, Delete(e) PROVE LifeInv'
  <2>1. /\ hand[e] = "going" /\ hand' = [hand EXCEPT ![e] = "none"]
        /\ deleted' = IF told[e] = 0 THEN deleted + 1 ELSE deleted
        /\ UNCHANGED <<ref, filed, told, woken>>
    BY <1>7 DEF Delete, FreeStorage
  <2>2. /\ Holders' = Holders /\ Deleters' = Deleters \ {e}
        /\ told[e] = 0 <=> e \in Deleters
    BY <1>2, <2>1 DEF Holders, Deleters
  <2>3. CASE told[e] # 0
    <3>1. Deleters' = Deleters /\ deleted' = deleted
      BY <2>1, <2>2, <2>3
    <3>. QED
      BY <1>1, <1>2, <2>1, <2>2, <3>1 DEF LifeTypeOK, RefInv, InHash
  <2>4. CASE told[e] = 0
    <3>1. ref = 0 /\ deleted = 0 /\ Deleters = {e}
      BY <1>2, <2>2, <2>4 DEF RefInv
    <3>2. deleted' = 1 /\ Deleters' = {} /\ ref' = 0
      BY <2>1, <2>2, <2>4, <3>1
    <3>. QED
      BY <1>1, <1>2, <2>1, <2>2, <3>2 DEF LifeTypeOK, RefInv, InHash
  <2>. QED
    BY <2>3, <2>4
<1>8. ASSUME Take PROVE LifeInv'
  <2>1. ref > 0 /\ Network \in Everybody
    BY <1>2, <1>8 DEF Take, Everybody, RefInv, InHash
  <2>. QED
    BY <1>1, <1>2, <1>8, <2>1, CopyCounts DEF Take, LifeTypeOK
<1>9. ASSUME Remove PROVE LifeInv'
  <2>1. Cardinality(Holders) > 0
    BY <1>3, <1>9 DEF Remove, Everybody
  <2>2. /\ filed /\ filed' = FALSE /\ ref' = ref - 1 /\ UNCHANGED <<hand, told, woken>>
        /\ deleted' = IF ref - 1 = 0 THEN deleted + 1 ELSE deleted
    BY <1>9 DEF Remove
  <2>3. Holders' = Holders /\ Deleters' = Deleters
    BY <2>2 DEF Holders, Deleters
  <2>4. ref = Cardinality(Holders) + 1 /\ ref' = Cardinality(Holders') + 0
    BY <1>2, <2>2, <2>3 DEF RefInv, InHash
  <2>5. ref' > 0 /\ ref' \in Nat /\ deleted' = deleted
    BY <1>2, <2>1, <2>2, <2>4
  <2>6. RefInv'
    <3>1. deleted = 0 /\ Deleters = {} /\ IsFiniteSet(Holders)
      BY <1>2, <2>1, <2>4 DEF RefInv
    <3>2. InHash' = 0
      BY <2>2 DEF InHash
    <3>. QED
      BY <2>3, <2>4, <2>5, <3>1, <3>2 DEF RefInv
  <2>7. LifeTypeOK'
    BY <1>1, <1>2, <2>2, <2>5 DEF LifeTypeOK
  <2>. QED
    BY <1>1, <2>6, <2>7
<1>10. ASSUME WakeUp PROVE LifeInv'
  BY <1>1, <1>2, <1>10
  DEF WakeUp, LifeTypeOK, RefInv, Holders, Deleters, InHash
<1>11. ASSUME Done PROVE LifeInv'
  BY <1>1, <1>2, <1>11, DecRefCounts DEF Done, LifeTypeOK, Everybody
<1>12. ASSUME NEW t \in Threads, Use(t) PROVE UNCHANGED lifeVars
  BY <1>12 DEF Use
<1>13. ASSUME UNCHANGED allVars PROVE UNCHANGED lifeVars
  BY <1>13 DEF allVars
<1>. QED
  BY <1>4, <1>5, <1>6, <1>7, <1>8, <1>9, <1>10, <1>11, <1>12, <1>13 DEF LifeNext

LEMMA LifeHolds == LifeSpec => []LifeInv
<1>1. LifeInv /\ [LifeNext]_allVars => LifeInv'
  BY LifeStep
<1>. QED
  BY InitLife, <1>1, PTL DEF LifeSpec

\* The variables of the life keep their types.
THEOREM LifeTypeCorrect == LifeSpec => []LifeTypeOK
BY LifeHolds, PTL DEF LifeInv

(***************************************************************************)
(* What the threads and the handlers do with their pointers does not       *)
(* disturb the waiting: it is a behaviour of OperationWait, but for its    *)
(* fairness.                                                               *)
(***************************************************************************)
THEOREM LifeImplementsWait == LifeSpec => Init /\ [][Next]_vars
<1>1. LifeInit => Init
  BY DEF LifeInit
<1>2. [LifeNext]_allVars => [Next]_vars
  BY LifeWaits
<1>. QED
  BY <1>1, <1>2, PTL DEF LifeSpec

(***************************************************************************)
(* Nobody sleeps on an operation that has its result, and all are told     *)
(* that one, while pointers to it come and go.                             *)
(***************************************************************************)
THEOREM WaitersServed == LifeSpec => [](NobodySleepsOn /\ OneAnswer)
<1>1. LifeInv => NobodySleepsOn /\ OneAnswer
  BY DEF LifeInv, WaitInvariant
<1>. QED
  BY <1>1, LifeHolds, PTL

(***************************************************************************)
(* The mutex and the condition variable are deleted once, and only when no *)
(* pointer is left: each thread decides by what its own decrement          *)
(* returned, so that of two that let go together one deletes.              *)
(***************************************************************************)
THEOREM DeletedOnceUnused == LifeSpec => []NotDeletedInUse
<1>1. LifeInv => NotDeletedInUse
  <2> SUFFICES ASSUME LifeInv, deleted # 0
               PROVE  deleted <= 1 /\ ~filed /\ Holders = {}
    BY DEF NotDeletedInUse, Holders, LifeInv, LifeTypeOK
  <2>1. ref = 0 /\ deleted = 1 /\ Cardinality(Holders) \in Nat
        /\ IsFiniteSet(Holders) /\ ref = Cardinality(Holders) + InHash
    BY FS_CardinalityType DEF LifeInv, LifeTypeOK, RefInv
  <2>2. Cardinality(Holders) = 0 /\ ~filed
    BY <2>1 DEF InHash
  <2>. QED
    BY <2>1, <2>2, FS_EmptySet
<1>. QED
  BY <1>1, LifeHolds, PTL
=============================================================================
