------------------------------ MODULE RemoteCalls ------------------------------
(***************************************************************************)
(* The library of the broker runs in a helper process: ADRemoteLibrary     *)
(* starts it with one end of a socket pair as its standard input, and      *)
(* ADRPC sends each call over the pair and waits for the answer.  All of   *)
(* it happens in the network thread; the helper serves one call after the  *)
(* other (exec_loop).  Either process may die at any moment.               *)
(*                                                                         *)
(* Reads and writes move any number of bytes that fits.  A byte is known   *)
(* by the call it belongs to and by the number of bytes that follow it in  *)
(* its message; only the first byte, the header, is looked at by readers.  *)
(* Descriptors are numbered: the system hands out the lowest free number.  *)
(***************************************************************************)
EXTENDS Integers, Sequences, FiniteSetsExt

CONSTANTS
    MaxCalls,   \* bound: calls made in one life of the helper
    MaxSize,    \* bound: bytes of one message
    Capacity,   \* bytes a socket buffers
    Numbers     \* bound: descriptor numbers the client may get, above 0

ASSUME RemoteCallsAssumption ==
    /\ MaxCalls \in Nat
    /\ MaxSize \in Nat \ {0}
    /\ Capacity \in Nat \ {0}
    /\ Numbers \subseteq Nat \ {0}

Closed == 0         \* socks[i] = -1
Header == -1        \* a reader that waits for the first byte of a message

VARIABLES
    stage,     \* how far load() got
    fds,       \* the client's descriptors: what each number refers to
    socks,     \* RemoteData::socks
    cloexec,   \* the client's end is not inherited
    file,      \* the number of a file of the network thread, opened after load
    running,   \* the helper runs
    holds,     \* ends the helper has open
    toHelper, toClient,   \* bytes under way
    calls,     \* calls made on this helper
    client,    \* the call under way: where it is, bytes still to be written,
               \* bytes still to be read, calls whose bytes it has read
    helper     \* the same of the helper's loop

pair == <<fds, socks, cloexec, file>>
bytes == <<toHelper, toClient>>
vars == <<stage, pair, running, holds, bytes, calls, client, helper>>

Idle(at) == [at |-> at, unsent |-> <<>>, left |-> Header, read |-> {}]

Init ==
    /\ stage = "unloaded"
    /\ fds = [n \in Numbers |-> "free"]
    /\ socks = <<Closed, Closed>>
    /\ cloexec = FALSE
    /\ file = Closed
    /\ running = FALSE
    /\ holds = {}
    /\ toHelper = <<>> /\ toClient = <<>>
    /\ calls = 0
    /\ client = Idle("none")
    /\ helper = Idle("none")

-----------------------------------------------------------------------------
(* Descriptors.                                                            *)

Free == {n \in Numbers : fds[n] = "free"}

\* An end is closed when no descriptor of either process refers to it.
Open(end) == end \in holds \/ \E n \in Numbers : fds[n] = end

\* close() of the given numbers, whatever they refer to.
CloseAll(closing) ==
    fds' = [n \in Numbers |-> IF n \in closing THEN "free" ELSE fds[n]]

-----------------------------------------------------------------------------
(* load and unload.                                                        *)

\* socketpair: from here on "client" and "helper" are the two ends.
SocketPair ==
    /\ stage = "unloaded"
    /\ \E m, n \in Free :
        /\ m < n
        /\ \A k \in Free \ {m} : n <= k
        /\ fds' = [fds EXCEPT ![m] = "client", ![n] = "helper"]
        /\ socks' = <<m, n>>
    /\ stage' = "paired"
    /\ toHelper' = <<>> /\ toClient' = <<>>
    /\ calls' = 0
    /\ UNCHANGED <<cloexec, file, running, holds, client, helper>>

\* Mutant: the flag is read and not set.
NotExclusive ==
    /\ stage = "paired"
    /\ stage' = "exclusive"
    /\ UNCHANGED <<pair, running, holds, bytes, calls, client, helper>>

\* fcntl(F_SETFD): "prevent inheritance".
SetCloseOnExec ==
    /\ stage = "paired"
    /\ cloexec' = TRUE
    /\ stage' = "exclusive"
    /\ UNCHANGED <<fds, socks, file, running, holds, bytes, calls, client,
                   helper>>

\* QProcess::start: the helper inherits the descriptors that are not closed on
\* exec, and gets its end as standard input.
StartProcess ==
    /\ stage = "exclusive"
    /\ running' = TRUE
    /\ holds' = {"helper"} \cup (IF cloexec THEN {} ELSE {"client"})
    /\ helper' = Idle("reading")
    /\ stage' = "started"
    /\ UNCHANGED <<pair, bytes, calls, client>>

\* Mutant: "Close fd on this side" is left out.
KeepOtherEnd ==
    /\ stage = "started"
    /\ stage' = "loaded"
    /\ UNCHANGED <<pair, running, holds, bytes, calls, client, helper>>

\* "Close fd on this side": the number stays in socks.
CloseOtherEnd ==
    /\ stage = "started"
    /\ CloseAll({socks[2]})
    /\ stage' = "loaded"
    /\ UNCHANGED <<socks, cloexec, file, running, holds, bytes, calls, client,
                   helper>>

\* closeSocks, then the process is terminated and deleted.
Unload ==
    /\ CloseAll({socks[1], socks[2]})
    /\ socks' = <<Closed, Closed>>
    /\ cloexec' = FALSE
    /\ running' = FALSE
    /\ holds' = {}
    /\ helper' = Idle("none")
    /\ stage' = "unloaded"
    /\ client' = Idle("none")
    /\ UNCHANGED <<file, bytes, calls>>

\* fcntl or the start of the process fails.
LoadFails ==
    /\ stage \in {"paired", "exclusive"}
    /\ Unload

\* Mutant: the library is unloaded before the database is closed.
UnloadBeforeFiles ==
    /\ stage = "loaded"
    /\ client.at = "none"
    /\ Unload

\* The end of the session.
EndOfSession ==
    /\ stage = "loaded"
    /\ client.at = "none"
    /\ file = Closed
    /\ Unload

\* The session opens the database, later the socket, and closes them before
\* the library is unloaded.
OpenFile ==
    /\ stage = "loaded"
    /\ client.at = "none"
    /\ file = Closed
    /\ Free # {}
    /\ file' = Min(Free)
    /\ fds' = [fds EXCEPT ![Min(Free)] = "file"]
    /\ UNCHANGED <<stage, socks, cloexec, running, holds, bytes, calls, client,
                   helper>>

CloseFile ==
    /\ client.at = "none"
    /\ file # Closed
    /\ CloseAll({file})
    /\ file' = Closed
    /\ UNCHANGED <<stage, socks, cloexec, running, holds, bytes, calls, client,
                   helper>>

\* The client's process ends; the system closes its descriptors.
ClientDies ==
    /\ stage # "dead"
    /\ stage' = "dead"
    /\ CloseAll(Numbers)
    /\ file' = Closed
    /\ client' = Idle("none")
    /\ UNCHANGED <<socks, cloexec, running, holds, bytes, calls, helper>>

-----------------------------------------------------------------------------
(* ADRPC, as used on either side.  Each step moves k bytes.                *)

Message(call, size) ==
    [j \in 1 .. size |-> [call |-> call, follow |-> size - j]]

\* One ::write of send().
Written(side, k) ==
    LET rest == SubSeq(side.unsent, k + 1, Len(side.unsent))
    IN  [side EXCEPT !.unsent = rest,
                     !.at = IF rest = <<>> THEN "reading" ELSE "sending"]

\* Bytes still to be read after k more of them.
LeftAfter(left, first, k) == (IF left = Header THEN first.follow + 1 ELSE left) - k

\* One ::read of read(): the header is read by itself, the rest as it comes.
MayRead(side, from) ==
    1 .. (IF side.left = Header THEN Min({1, Len(from)})
          ELSE Min({side.left, Len(from)}))

\* Mutant: a read that returns less is taken for the whole.
ReadOnce(side, from, k, done) ==
    [at |-> IF side.left # Header \/ from[1].follow = 0 THEN done ELSE "reading",
     unsent |-> <<>>,
     left |-> IF side.left # Header \/ from[1].follow = 0
              THEN Header ELSE from[1].follow,
     read |-> side.read \cup {from[j].call : j \in 1 .. k}]

\* The reader after k bytes; when nothing is left of the message it is done.
Read(side, from, k, done) ==
    LET left == LeftAfter(side.left, from[1], k)
    IN  [at |-> IF left = 0 THEN done ELSE "reading",
         unsent |-> <<>>,
         left |-> IF left = 0 THEN Header ELSE left,
         read |-> side.read \cup {from[j].call : j \in 1 .. k}]

Drop(from, k) == SubSeq(from, k + 1, Len(from))

\* How many bytes a write may take.
MayWrite(side, buffer) ==
    1 .. Min({Len(side.unsent), Capacity - Len(buffer)})

-----------------------------------------------------------------------------
(* The client: ADRPC::call.                                                *)

NoLoad == UNCHANGED <<stage, pair>>

Call(size) ==
    /\ stage = "loaded"
    /\ client.at = "none"
    /\ calls < MaxCalls
    /\ calls' = calls + 1
    /\ client' = [Idle("sending") EXCEPT !.unsent = Message(calls + 1, size)]
    /\ NoLoad
    /\ UNCHANGED <<running, holds, bytes, helper>>

ClientWrites ==
    /\ client.at = "sending"
    /\ Open("helper")
    /\ \E k \in MayWrite(client, toHelper) :
        /\ toHelper' = toHelper \o SubSeq(client.unsent, 1, k)
        /\ client' = Written(client, k)
    /\ NoLoad
    /\ UNCHANGED <<running, holds, toClient, calls, helper>>

ClientReads ==
    /\ client.at = "reading"
    /\ \E k \in MayRead(client, toClient) :
        /\ client' = Read(client, toClient, k, "none")
        /\ toClient' = Drop(toClient, k)
    /\ NoLoad
    /\ UNCHANGED <<running, holds, toHelper, calls, helper>>

\* The peer is gone: ::write fails, ::read returns 0.  The call returns false.
ClientFails ==
    /\ ~Open("helper")
    /\ \/ client.at = "sending"
       \/ client.at = "reading" /\ toClient = <<>>
    /\ client' = Idle("none")
    /\ NoLoad
    /\ UNCHANGED <<running, holds, bytes, calls, helper>>

-----------------------------------------------------------------------------
(* The helper: exec_loop.                                                  *)

HelperReads ==
    /\ running
    /\ helper.at = "reading"
    /\ \E k \in MayRead(helper, toHelper) :
        /\ helper' = Read(helper, toHelper, k, "calling")
        /\ toHelper' = Drop(toHelper, k)
    /\ NoLoad
    /\ UNCHANGED <<running, holds, toClient, calls, client>>

\* The registered function is called; the answer bears the name of the method.
HelperCalls(size) ==
    /\ running
    /\ helper.at = "calling"
    /\ \E c \in helper.read :
        helper' = [Idle("sending") EXCEPT !.unsent = Message(c, size)]
    /\ NoLoad
    /\ UNCHANGED <<running, holds, bytes, calls, client>>

HelperWrites ==
    /\ running
    /\ helper.at = "sending"
    /\ Open("client")
    /\ \E k \in MayWrite(helper, toClient) :
        /\ toClient' = toClient \o SubSeq(helper.unsent, 1, k)
        /\ helper' = Written(helper, k)
    /\ NoLoad
    /\ UNCHANGED <<running, holds, toHelper, calls, client>>

HelperEnds ==
    /\ running' = FALSE
    /\ holds' = {}
    /\ helper' = Idle("none")
    /\ NoLoad
    /\ UNCHANGED <<bytes, calls, client>>

\* The loop ends on the first read or write that fails, and main returns.
HelperFails ==
    /\ running
    /\ ~Open("client")
    /\ \/ helper.at = "sending"
       \/ helper.at = "reading" /\ toHelper = <<>>
    /\ HelperEnds

HelperDies == running /\ HelperEnds

-----------------------------------------------------------------------------
Load == SocketPair \/ SetCloseOnExec \/ StartProcess \/ CloseOtherEnd \/ LoadFails

Session == OpenFile \/ CloseFile \/ EndOfSession \/ ClientDies

ClientStep ==
    \/ \E size \in 1 .. MaxSize : Call(size)
    \/ ClientWrites \/ ClientReads \/ ClientFails

HelperStep ==
    \/ HelperReads \/ HelperWrites \/ HelperFails \/ HelperDies
    \/ \E size \in 1 .. MaxSize : HelperCalls(size)

Next == Load \/ Session \/ ClientStep \/ HelperStep

Spec == Init /\ [][Next]_vars

\* Both processes run as long as they live, and the library's functions return.
Fairness ==
    /\ WF_vars(ClientWrites \/ ClientReads \/ ClientFails)
    /\ WF_vars(HelperReads \/ HelperWrites \/ HelperFails
                \/ \E size \in 1 .. MaxSize : HelperCalls(size))

FairSpec == Spec /\ Fairness

-----------------------------------------------------------------------------
Byte == [call: 1 .. MaxCalls, follow: 0 .. MaxSize - 1]

Side == [at: {"none", "reading", "calling", "sending"},
         unsent: Seq(Byte), left: Header .. MaxSize - 1, read: SUBSET (1 .. MaxCalls)]

TypeOK ==
    /\ stage \in {"unloaded", "paired", "exclusive", "started", "loaded", "dead"}
    /\ fds \in [Numbers -> {"free", "client", "helper", "file"}]
    /\ socks \in (Numbers \cup {Closed}) \X (Numbers \cup {Closed})
    /\ cloexec \in BOOLEAN /\ running \in BOOLEAN
    /\ file \in Numbers \cup {Closed}
    /\ holds \subseteq {"client", "helper"}
    /\ toHelper \in Seq(Byte) /\ Len(toHelper) <= Capacity
    /\ toClient \in Seq(Byte) /\ Len(toClient) <= Capacity
    /\ calls \in 0 .. MaxCalls
    /\ client \in Side /\ helper \in Side

\* assert(method == method_ret): what a call reads is the answer to it, however
\* the bytes of messages are cut and even after calls that failed.
AnswerIsOwn ==
    client.read \subseteq {calls}

\* A file the session has open is not closed by the second close of socks[1],
\* although the file got just that number.
FileStaysOpen ==
    file # Closed => fds[file] = "file"

\* The network thread never hangs in a call: it gets the answer, or notices
\* that the helper died, at whatever point of the call.
CallReturns ==
    client.at # "none" ~> client.at = "none"

\* No helper outlives its client, even one that was killed.
HelperGoes ==
    stage = "dead" ~> ~running

=============================================================================
