----------------------------- MODULE OperationLife -----------------------------
(***************************************************************************)
(* The life of an ADOrderOperationPrivate: whoever uses it holds an        *)
(* ADSmartPtr to it, and the last one to let go deletes it, together with  *)
(* the mutex and the condition variable that others may be waiting on.     *)
(*                                                                         *)
(* The operation is in m_ordersOperations and in handles of user threads,  *)
(* which may copy them for each other.  The network thread finds it in the *)
(* hash, copies the pointer, wakes the waiters and takes it out of the     *)
(* hash, in either order, and lets go.                                     *)
(*                                                                         *)
(* A pointer may be copied only while the one it is copied from is kept;   *)
(* the count itself is changed by atomic operations.                       *)
(***************************************************************************)
EXTENDS OperationWait, Integers

CONSTANT Network  \* the network thread

ASSUME NetworkAssumption == Network \notin Threads

VARIABLES
    ref,      \* m_ref of the storage
    deleted,  \* how often the operation was deleted
    filed,    \* m_ordersOperations has a pointer
    hand,     \* the pointer of each thread: "none", "held", or let go
              \* ("going"), with decRef to be looked at
    told,     \* what decRef returned to each thread
    woken     \* the network thread has called wakeUpAll

lifeVars == <<ref, deleted, filed, hand, told, woken>>
allVars == <<vars, lifeVars>>

Everybody == Threads \cup {Network}

\* The call returns: one pointer is in the hash, one in the caller's handle.
LifeInit ==
    /\ Init
    /\ ref = 2
    /\ deleted = 0
    /\ filed = TRUE
    /\ \E t \in Threads :
        hand = [e \in Everybody |-> IF e = t THEN "held" ELSE "none"]
    /\ told = [e \in Everybody |-> 0]
    /\ woken = FALSE

-----------------------------------------------------------------------------
(* ADSmartPtr.                                                             *)

\* The copy constructor.
Copy(e) ==
    /\ hand[e] = "none"
    /\ hand' = [hand EXCEPT ![e] = "held"]
    /\ ref' = ref + 1

\* Mutant: the count is read again after it was decremented.
FreeStorageReadingAgain(e) ==
    /\ hand[e] = "going"
    /\ hand' = [hand EXCEPT ![e] = "none"]
    /\ deleted' = IF ref = 0 THEN deleted + 1 ELSE deleted

\* The destructor: decRef, an atomic decrement that returns the new count ...
DecRef(e) ==
    /\ hand[e] = "held"
    /\ hand' = [hand EXCEPT ![e] = "going"]
    /\ ref' = ref - 1
    /\ told' = [told EXCEPT ![e] = ref - 1]

\* ... by which the thread decides.
FreeStorage(e) ==
    /\ hand[e] = "going"
    /\ hand' = [hand EXCEPT ![e] = "none"]
    /\ deleted' = IF told[e] = 0 THEN deleted + 1 ELSE deleted

-----------------------------------------------------------------------------
(* User threads.                                                           *)

\* A thread hands its handle, or a copy of it, to another one.
Share(t, u) ==
    /\ hand[t] = "held"
    /\ Copy(u)
    /\ UNCHANGED <<vars, deleted, filed, told, woken>>

Use(t) ==
    /\ hand[t] = "held"
    /\ ThreadStep(t)
    /\ UNCHANGED lifeVars

\* Not while the thread itself is in waitForOperationResult.
LetGo(t) ==
    /\ waiter[t] = "out"
    /\ DecRef(t)
    /\ UNCHANGED <<vars, deleted, filed, woken>>

Delete(e) ==
    /\ FreeStorage(e)
    /\ UNCHANGED <<vars, ref, filed, told, woken>>

-----------------------------------------------------------------------------
(* The network thread.                                                     *)

\* Mutant: the reference into the hash is used instead of a copy.
TakeReference ==
    /\ filed
    /\ ~woken
    /\ hand[Network] = "none"
    /\ hand' = [hand EXCEPT ![Network] = "held"]
    /\ UNCHANGED <<vars, ref, deleted, filed, told, woken>>

\* A response or a line is about the operation.
Take ==
    /\ filed
    /\ ~woken
    /\ Copy(Network)
    /\ UNCHANGED <<vars, deleted, filed, told, woken>>

\* m_ordersOperations->take or remove; the pointer in the hash goes.
Remove ==
    /\ hand[Network] = "held"
    /\ filed
    /\ filed' = FALSE
    /\ ref' = ref - 1
    /\ deleted' = IF ref - 1 = 0 THEN deleted + 1 ELSE deleted
    /\ UNCHANGED <<vars, hand, told, woken>>

WakeUp ==
    /\ hand[Network] = "held"
    /\ ~woken
    /\ woken' = TRUE
    /\ \E r \in Ends : WakeUpAll(r)
    /\ UNCHANGED <<ref, deleted, filed, hand, told>>

\* The end of the handler.
Done ==
    /\ woken /\ ~filed
    /\ DecRef(Network)
    /\ UNCHANGED <<vars, deleted, filed, woken>>

-----------------------------------------------------------------------------
LifeNext ==
    \/ \E t, u \in Threads : Share(t, u)
    \/ \E t \in Threads : Use(t) \/ LetGo(t)
    \/ \E e \in Everybody : Delete(e)
    \/ Take \/ Remove \/ WakeUp \/ Done

\* Threads get the mutex, timeouts run out, and no thread stops within a
\* destructor or a handler.  Nothing makes a user let go of a handle.
LifeFairness ==
    /\ \A t \in Threads :
        WF_allVars(Return(t) /\ Use(t)) /\ WF_allVars(TimeIsUp(t) /\ Use(t))
    /\ \A e \in Everybody : WF_allVars(Delete(e))
    /\ WF_allVars(Remove) /\ WF_allVars(WakeUp) /\ WF_allVars(Done)

LifeSpec == LifeInit /\ [][LifeNext]_allVars /\ LifeFairness

-----------------------------------------------------------------------------
LifeTypeOK ==
    /\ TypeOK
    /\ ref \in Nat
    /\ deleted \in 0 .. 1
    /\ filed \in BOOLEAN /\ woken \in BOOLEAN
    /\ hand \in [Everybody -> {"none", "held", "going"}]
    /\ told \in [Everybody -> Nat]

\* An operation is deleted at most once, and not while somebody may use it: a
\* waiter, the holder of a handle, the hash, or the handler between the removal
\* and the wakeup.
NotDeletedInUse ==
    /\ deleted <= 1
    /\ deleted = 1 => ~filed /\ \A e \in Everybody : hand[e] # "held"

\* It is deleted, when the last pointer is gone, however the threads' decRefs
\* fall together.
DeletedAtLast ==
    ~filed /\ (\A e \in Everybody : hand[e] # "held") ~> deleted = 1

=============================================================================
