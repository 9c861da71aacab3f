---------------------------- MODULE Transport_proofs ----------------------------
(***************************************************************************)
(* Proofs about the two layers that carry bytes: RemoteCalls, for any      *)
(* number of calls, any size of messages and of buffers, and any           *)
(* descriptor numbers; and Framing, for any blocks, any cut of the text    *)
(* into frames and reads, and any width of sizes.                          *)
(*                                                                         *)
(* AnswerIsOwn is not inductive: nothing in it forbids that bytes of an    *)
(* earlier answer are still under way when a call begins.  Exchange below  *)
(* says what the two sides and the two streams hold at each stage of a     *)
(* call, down to the number of bytes that are still to come, so that both  *)
(* readers stop exactly at the end of a message and nothing is left behind. *)
(* A dead helper only leaves less: then the streams hold a beginning of    *)
(* what they would have held.                                              *)
(*                                                                         *)
(* NothingLost and InOrder are not inductive either: a buffer that does    *)
(* not begin with a block could be cut into other blocks of the same text. *)
(* StreamInv says that the buffers and the wire hold the text from the     *)
(* first block on that was not handed over; during the login, the answer.  *)
(* A text that begins with a block has ends of blocks only where the       *)
(* blocks end, so that it is cut into whole blocks and the beginning of    *)
(* one more.  That Split and FlattenSeq, which recur, have the values      *)
(* their definitions say is proved from the smallest counterexample.       *)
(***************************************************************************)
EXTENDS RemoteCalls, Framing, SequenceTheorems, WellFoundedInduction, TLAPS

-----------------------------------------------------------------------------
(* Smallest numbers.                                                       *)

LEMMA SmallestExists ==
    ASSUME NEW S \in SUBSET Nat, S # {}
    PROVE  \E x \in S : \A y \in S : x <= y
<1>. DEFINE Less == {ss \in Nat \X Nat : ss[1] < ss[2]}
<1>1. IsWellFoundedOn(Less, Nat)
    BY NatLessThanWellFounded DEF OpToRel
<1>2. \A x, y \in Nat : y < x => <<y, x>> \in Less
    OBVIOUS
<1>. HIDE DEF Less
<1>3. PICK x \in S : \A y \in S : ~(<<y, x>> \in Less)
    BY <1>1, WFMin
<1>4. ASSUME NEW y \in S PROVE x <= y
    <2>1. x \in Nat /\ y \in Nat /\ ~(y < x)
        BY <1>2, <1>3
    <2>. QED  BY <2>1
<1>. QED BY <1>4

\* Induction, about sets instead of predicates.
LEMMA NatSets ==
    ASSUME NEW S, 0 \in S, \A n \in Nat : n \in S => n + 1 \in S
    PROVE  \A n \in Nat : n \in S
<1>. SUFFICES ASSUME NEW m \in Nat, m \notin S PROVE FALSE
    OBVIOUS
<1>. DEFINE T == {n \in Nat : n \notin S}
<1>1. T \in SUBSET Nat /\ T # {}
    OBVIOUS
<1>2. PICK n \in T : \A k \in T : n <= k
    BY <1>1, SmallestExists
<1>3. n \in Nat /\ n \notin S /\ n # 0
    BY <1>2
<1>4. n - 1 \in Nat /\ n - 1 \notin T
    BY <1>2, <1>3
<1>. QED  BY <1>3, <1>4

LEMMA MinOf ==
    ASSUME NEW S \in SUBSET Nat, S # {}
    PROVE  Min(S) \in S /\ \A y \in S : Min(S) <= y
BY SmallestExists DEF Min

LEMMA MinOfTwo ==
    ASSUME NEW a \in Int, NEW b \in Int
    PROVE  Min({a, b}) = IF a <= b THEN a ELSE b
<1>1. \E x \in {a, b} : \A y \in {a, b} : x <= y
    OBVIOUS
<1>2. Min({a, b}) \in {a, b} /\ \A y \in {a, b} : Min({a, b}) <= y
    BY <1>1 DEF Min
<1>. QED BY <1>2

LEMMA MaxIs ==
    ASSUME NEW S \in SUBSET Int, NEW x \in S, \A y \in S : y <= x
    PROVE  Max(S) = x
<1>1. \E z \in S : \A y \in S : z >= y
    OBVIOUS
<1>2. Max(S) \in S /\ \A y \in S : Max(S) >= y
    BY <1>1 DEF Max
<1>3. Max(S) \in Int /\ x \in Int /\ Max(S) >= x /\ Max(S) <= x
    BY <1>2
<1>. QED  BY <1>3

-----------------------------------------------------------------------------
(* The state of a call.                                                    *)

\* What follows is m bytes of call c, or as many of them as s has.
Follows(s, c, m) == \A i \in DOMAIN s : s[i] = [call |-> c, follow |-> m - i]

\* Nobody calls.
Quiet ==
    /\ client.at = "none" /\ client.unsent = <<>>
    /\ client.left = Header /\ client.read \subseteq {calls}
    /\ toClient = <<>>
    /\ running => toHelper = <<>> /\ helper = Idle("reading")

\* The call is on its way to the helper.
Asking ==
    /\ client.at = (IF client.unsent = <<>> THEN "reading" ELSE "sending")
    /\ client.left = Header /\ client.read = {}
    /\ toClient = <<>>
    /\ running =>
        \E m \in 1 .. MaxSize :
            /\ m = Len(toHelper) + Len(client.unsent)
            /\ Follows(toHelper, calls, m)
            /\ Follows(client.unsent, calls, m - Len(toHelper))
            /\ helper.at = "reading" /\ helper.unsent = <<>>
            /\ \/ helper.left = Header /\ helper.read = {}
               \/ helper.left = m /\ helper.read = {calls}

\* The helper has all of it.
Working ==
    /\ client = Idle("reading")
    /\ toClient = <<>> /\ toHelper = <<>>
    /\ running
    /\ helper.at = "calling" /\ helper.unsent = <<>>
    /\ helper.left = Header /\ helper.read = {calls}

\* The answer, of which m bytes are still to be read, is on its way back.
Answering ==
    /\ client.at = "reading" /\ client.unsent = <<>>
    /\ \E m \in 1 .. MaxSize :
        /\ Len(toClient) <= m
        /\ Follows(toClient, calls, m)
        /\ running =>
            /\ m = Len(toClient) + Len(helper.unsent)
            /\ Follows(helper.unsent, calls, m - Len(toClient))
            /\ toHelper = <<>>
            /\ helper.at = (IF helper.unsent = <<>> THEN "reading" ELSE "sending")
            /\ helper.left = Header /\ helper.read = {}
        /\ \/ client.left = Header /\ client.read = {}
           \/ client.left = m /\ client.read = {calls}

Lives ==
    /\ stage \in {"unloaded", "paired", "exclusive"} => ~running
    /\ IF running THEN "helper" \in holds ELSE helper = Idle("none")
    /\ stage \in {"paired", "exclusive"} => toHelper = <<>>
    /\ stage # "loaded" => client = Idle("none")

Talk == Quiet \/ Asking \/ Working \/ Answering

Exchange == stage \in {"paired", "exclusive", "started", "loaded"} => Talk

Link == Lives /\ Exchange

\* Files are open only while the library is loaded.
FileInv == file # Closed => stage = "loaded" /\ fds[file] = "file"

-----------------------------------------------------------------------------
(* Cutting and joining streams.                                            *)

LEMMA CutStream ==
    ASSUME NEW S, NEW s \in Seq(S), NEW k \in 0 .. Len(s)
    PROVE  LET front == SubSeq(s, 1, k)
               rest == SubSeq(s, k + 1, Len(s))
           IN  /\ front \in Seq(S) /\ Len(front) = k
               /\ \A i \in 1 .. k : front[i] = s[i]
               /\ rest \in Seq(S) /\ Len(rest) = Len(s) - k
               /\ \A i \in 1 .. Len(s) - k : rest[i] = s[k + i]
<1>1. Len(s) \in Nat
    BY LenProperties
<1>2. /\ SubSeq(s, 1, k) \in Seq(S) /\ Len(SubSeq(s, 1, k)) = k
      /\ \A i \in 1 .. k : SubSeq(s, 1, k)[i] = s[i]
    <2>1. 1 \in 1 .. Len(s) + 1 /\ k \in 0 .. Len(s)
        BY <1>1
    <2>. QED  BY <1>1, <2>1, SubSeqProperties
<1>3. /\ SubSeq(s, k + 1, Len(s)) \in Seq(S)
      /\ Len(SubSeq(s, k + 1, Len(s))) = Len(s) - k
      /\ \A i \in 1 .. Len(s) - k : SubSeq(s, k + 1, Len(s))[i] = s[k + i]
    <2>1. k + 1 \in 1 .. Len(s) + 1 /\ Len(s) \in k .. Len(s)
        BY <1>1
    <2>. QED  BY <1>1, <2>1, SubSeqProperties
<1>. QED  BY <1>2, <1>3

LEMMA EmptyFollows ==
    ASSUME NEW c, NEW m PROVE Follows(<<>>, c, m)
BY DEF Follows

LEMMA CutFollows ==
    ASSUME NEW s \in Seq(Byte), NEW k \in 0 .. Len(s), NEW c, NEW m \in Int,
           Follows(s, c, m)
    PROVE  /\ Follows(SubSeq(s, 1, k), c, m)
           /\ Follows(SubSeq(s, k + 1, Len(s)), c, m - k)
<1>. DEFINE front == SubSeq(s, 1, k)
            rest == SubSeq(s, k + 1, Len(s))
<1>1. /\ front \in Seq(Byte) /\ Len(front) = k
      /\ \A i \in 1 .. k : front[i] = s[i]
      /\ rest \in Seq(Byte) /\ Len(rest) = Len(s) - k
      /\ \A i \in 1 .. Len(s) - k : rest[i] = s[k + i]
    BY CutStream
<1>. HIDE DEF front, rest
<1>2. /\ Len(s) \in Nat /\ k \in Int
      /\ DOMAIN s = 1 .. Len(s) /\ DOMAIN front = 1 .. k
      /\ DOMAIN rest = 1 .. (Len(s) - k)
    BY <1>1, LenProperties
<1>3. ASSUME NEW i \in DOMAIN front
      PROVE  front[i] = [call |-> c, follow |-> m - i]
    <2>1. i \in DOMAIN s /\ front[i] = s[i]
        BY <1>1, <1>2, <1>3
    <2>. QED  BY <2>1 DEF Follows
<1>4. ASSUME NEW i \in DOMAIN rest
      PROVE  rest[i] = [call |-> c, follow |-> (m - k) - i]
    <2>1. k + i \in DOMAIN s /\ rest[i] = s[k + i] /\ m - (k + i) = (m - k) - i
        BY <1>1, <1>2, <1>4
    <2>. QED  BY <2>1 DEF Follows
<1>. QED  BY <1>3, <1>4 DEF Follows, front, rest

LEMMA JoinFollows ==
    ASSUME NEW s \in Seq(Byte), NEW t \in Seq(Byte), NEW c, NEW m \in Int,
           Follows(s, c, m), Follows(t, c, m - Len(s))
    PROVE  /\ Follows(s \o t, c, m)
           /\ s \o t \in Seq(Byte) /\ Len(s \o t) = Len(s) + Len(t)
<1>1. /\ s \o t \in Seq(Byte) /\ Len(s \o t) = Len(s) + Len(t)
      /\ \A i \in 1 .. Len(s) + Len(t) :
            (s \o t)[i] = IF i <= Len(s) THEN s[i] ELSE t[i - Len(s)]
    BY ConcatProperties
<1>2. /\ Len(s) \in Nat /\ Len(t) \in Nat
      /\ DOMAIN s = 1 .. Len(s) /\ DOMAIN t = 1 .. Len(t)
      /\ DOMAIN (s \o t) = 1 .. Len(s) + Len(t)
    BY <1>1, LenProperties
<1>3. ASSUME NEW i \in DOMAIN (s \o t)
      PROVE  (s \o t)[i] = [call |-> c, follow |-> m - i]
    <2>1. CASE i <= Len(s)
        BY <1>1, <1>2, <2>1 DEF Follows
    <2>2. CASE ~(i <= Len(s))
        <3>1. i - Len(s) \in DOMAIN t /\ (m - Len(s)) - (i - Len(s)) = m - i
            BY <1>2, <2>2
        <3>. QED  BY <1>1, <1>2, <2>2, <3>1 DEF Follows
    <2>. QED  BY <2>1, <2>2
<1>. QED  BY <1>1, <1>3 DEF Follows

\* A message is the bytes of its call, all of them.
LEMMA MessageFollows ==
    ASSUME NEW c \in 1 .. MaxCalls, NEW size \in 1 .. MaxSize
    PROVE  /\ Message(c, size) \in Seq(Byte) /\ Len(Message(c, size)) = size
           /\ Message(c, size) # <<>>
           /\ Follows(Message(c, size), c, size)
<1>. USE RemoteCallsAssumption
<1>1. \A j \in 1 .. size : [call |-> c, follow |-> size - j] \in Byte
    BY DEF Byte
<1>2. size \in Nat /\ size > 0
    OBVIOUS
<1>3. Message(c, size) \in Seq(Byte) /\ Len(Message(c, size)) = size
    <2>. DEFINE f == Message(c, size)
    <2>1. f \in [1 .. size -> Byte] /\ DOMAIN f = 1 .. size
        BY <1>1 DEF Message
    <2>. HIDE DEF f
    <2>2. f \in Seq(Byte)
        BY <1>2, <2>1
    <2>3. Len(f) = size
        BY <1>2, <2>1, <2>2
    <2>. QED  BY <2>2, <2>3 DEF f
<1>4. Message(c, size) # <<>>
    <2>. SUFFICES ASSUME Message(c, size) = <<>> PROVE FALSE
        OBVIOUS
    <2>1. Len(<<>>) = 0
        OBVIOUS
    <2>. QED  BY <1>2, <1>3, <2>1
<1>5. Follows(Message(c, size), c, size)
    BY DEF Follows, Message
<1>. QED  BY <1>3, <1>4, <1>5

-----------------------------------------------------------------------------
(* One read and one write of ADRPC.                                        *)

\* What a read may take: one byte of a header, or what the buffer has of the
\* rest.
LEMMA ReadTakes ==
    ASSUME NEW side \in Side, NEW from \in Seq(Byte), NEW k \in MayRead(side, from)
    PROVE  /\ k \in 1 .. Len(from) /\ k \in 0 .. Len(from) /\ from # <<>>
           /\ from[1] \in Byte
           /\ IF side.left = Header THEN k = 1 ELSE k <= side.left
<1>. USE DEF Header
<1>1. Len(from) \in Nat /\ side.left \in Int
    BY RemoteCallsAssumption, LenProperties DEF Side
<1>2. CASE side.left = Header
    <2>1. Min({1, Len(from)}) = IF 1 <= Len(from) THEN 1 ELSE Len(from)
        BY <1>1, MinOfTwo
    <2>2. k \in 1 .. Min({1, Len(from)})
        BY <1>2 DEF MayRead
    <2>. QED  BY <1>1, <1>2, <2>1, <2>2
<1>3. CASE side.left # Header
    <2>1. /\ Min({side.left, Len(from)}) =
                IF side.left <= Len(from) THEN side.left ELSE Len(from)
        BY <1>1, MinOfTwo
    <2>2. k \in 1 .. Min({side.left, Len(from)})
        BY <1>3 DEF MayRead
    <2>. QED  BY <1>1, <1>3, <2>1, <2>2
<1>. QED  BY <1>2, <1>3

LEMMA ReadTyped ==
    ASSUME NEW side \in Side, NEW from \in Seq(Byte), NEW k \in MayRead(side, from),
           NEW done \in {"none", "calling"}
    PROVE  /\ Read(side, from, k, done) \in Side
           /\ Drop(from, k) \in Seq(Byte) /\ Len(Drop(from, k)) = Len(from) - k
<1>. USE DEF Header
<1>1. /\ k \in 1 .. Len(from) /\ k \in 0 .. Len(from)
      /\ from[1] \in Byte
      /\ IF side.left = Header THEN k = 1 ELSE k <= side.left
    BY ReadTakes
<1>2. Drop(from, k) \in Seq(Byte) /\ Len(Drop(from, k)) = Len(from) - k
    BY <1>1, CutStream DEF Drop
<1>3. LeftAfter(side.left, from[1], k) \in 0 .. MaxSize - 1
    BY <1>1, RemoteCallsAssumption DEF LeftAfter, Side, Byte
<1>4. {from[j].call : j \in 1 .. k} \subseteq 1 .. MaxCalls
    <2>1. \A j \in 1 .. k : from[j] \in Byte
        BY <1>1, LenProperties
    <2>. QED  BY <2>1 DEF Byte
<1>. DEFINE l == LeftAfter(side.left, from[1], k)
            new == [at |-> IF l = 0 THEN done ELSE "reading",
                    unsent |-> <<>>,
                    left |-> IF l = 0 THEN Header ELSE l,
                    read |-> side.read \cup {from[j].call : j \in 1 .. k}]
<1>5. new = Read(side, from, k, done)
    BY DEF Read
<1>. HIDE DEF l
<1>6. /\ (IF l = 0 THEN done ELSE "reading") \in {"none", "reading", "calling", "sending"}
      /\ (IF l = 0 THEN Header ELSE l) \in Header .. MaxSize - 1
      /\ side.read \cup {from[j].call : j \in 1 .. k} \in SUBSET (1 .. MaxCalls)
      /\ <<>> \in Seq(Byte)
    BY <1>3, <1>4, RemoteCallsAssumption DEF l, Side
<1>7. new \in Side
    BY <1>6 DEF Side
<1>. QED  BY <1>2, <1>5, <1>7

\* Reading k of the m bytes that are still to come of call c.
LEMMA ReadFollows ==
    ASSUME NEW side \in Side, NEW from \in Seq(Byte), NEW k \in MayRead(side, from),
           NEW done, NEW c, NEW m \in 1 .. MaxSize,
           Follows(from, c, m), Len(from) <= m,
           \/ side.left = Header /\ side.read = {}
           \/ side.left = m /\ side.read = {c}
    PROVE  LET new == Read(side, from, k, done)
           IN  /\ k \in 1 .. Len(from)
               /\ m - k \in 0 .. MaxSize
               /\ Follows(Drop(from, k), c, m - k)
               /\ new.read = {c} /\ new.unsent = <<>>
               /\ new.left = IF m - k = 0 THEN Header ELSE m - k
               /\ new.at = IF m - k = 0 THEN done ELSE "reading"
<1>. USE DEF Header
<1>1. /\ k \in 1 .. Len(from) /\ k \in 0 .. Len(from)
      /\ IF side.left = Header THEN k = 1 ELSE k <= side.left
    BY ReadTakes
<1>2. Len(from) \in Nat /\ DOMAIN from = 1 .. Len(from)
    BY LenProperties
<1>3. m \in Nat /\ m > 0
    BY RemoteCallsAssumption
<1>4. from[1] = [call |-> c, follow |-> m - 1]
    BY <1>1, <1>2 DEF Follows
<1>5. LeftAfter(side.left, from[1], k) = m - k
    BY <1>1, <1>2, <1>3, <1>4 DEF LeftAfter
<1>6. {from[j].call : j \in 1 .. k} = {c}
    <2>1. \A j \in 1 .. k : from[j].call = c
        BY <1>1, <1>2 DEF Follows
    <2>2. 1 \in 1 .. k
        BY <1>1
    <2>. QED  BY <2>1, <2>2
<1>7. Follows(Drop(from, k), c, m - k)
    BY <1>1, <1>3, CutFollows DEF Drop
<1>8. m - k \in 0 .. MaxSize
    BY <1>1, <1>2, <1>3, RemoteCallsAssumption
<1>. QED  BY <1>1, <1>5, <1>6, <1>7, <1>8 DEF Read

LEMMA WriteTakes ==
    ASSUME NEW side \in Side, NEW buffer \in Seq(Byte), Len(buffer) <= Capacity,
           NEW k \in MayWrite(side, buffer)
    PROVE  /\ k \in 1 .. Len(side.unsent) /\ k \in 0 .. Len(side.unsent)
           /\ Len(buffer) + k <= Capacity
<1>1. Len(side.unsent) \in Nat /\ Len(buffer) \in Nat /\ Capacity \in Nat
    BY RemoteCallsAssumption, LenProperties DEF Side
<1>2. Min({Len(side.unsent), Capacity - Len(buffer)}) =
        IF Len(side.unsent) <= Capacity - Len(buffer) THEN Len(side.unsent)
        ELSE Capacity - Len(buffer)
    BY <1>1, MinOfTwo
<1>. QED  BY <1>1, <1>2 DEF MayWrite

LEMMA WriteTyped ==
    ASSUME NEW side \in Side, NEW buffer \in Seq(Byte), Len(buffer) <= Capacity,
           NEW k \in MayWrite(side, buffer)
    PROVE  LET put == SubSeq(side.unsent, 1, k)
               new == Written(side, k)
           IN  /\ put \in Seq(Byte) /\ Len(put) = k
               /\ buffer \o put \in Seq(Byte)
               /\ Len(buffer \o put) = Len(buffer) + k
               /\ Len(buffer \o put) <= Capacity
               /\ new \in Side
               /\ new.unsent = SubSeq(side.unsent, k + 1, Len(side.unsent))
               /\ new.unsent \in Seq(Byte)
               /\ Len(new.unsent) = Len(side.unsent) - k
               /\ new.at = IF new.unsent = <<>> THEN "reading" ELSE "sending"
               /\ new.left = side.left /\ new.read = side.read
<1>. DEFINE put == SubSeq(side.unsent, 1, k)
            rest == SubSeq(side.unsent, k + 1, Len(side.unsent))
<1>1. /\ k \in 1 .. Len(side.unsent) /\ k \in 0 .. Len(side.unsent)
      /\ Len(buffer) + k <= Capacity
    BY WriteTakes
<1>2. side.unsent \in Seq(Byte)
    BY DEF Side
<1>3. /\ put \in Seq(Byte) /\ Len(put) = k
      /\ rest \in Seq(Byte) /\ Len(rest) = Len(side.unsent) - k
    BY <1>1, <1>2, CutStream
<1>. HIDE DEF put, rest
<1>4. buffer \o put \in Seq(Byte) /\ Len(buffer \o put) = Len(buffer) + k
    BY <1>3, ConcatProperties
<1>5. Written(side, k) =
        [side EXCEPT !.unsent = rest, !.at = IF rest = <<>> THEN "reading" ELSE "sending"]
    BY DEF Written, rest
<1>6. Written(side, k) \in Side
    BY <1>3, <1>5 DEF Side
<1>7. /\ Written(side, k).unsent = rest
      /\ Written(side, k).at = IF rest = <<>> THEN "reading" ELSE "sending"
      /\ Written(side, k).left = side.left /\ Written(side, k).read = side.read
    BY <1>5 DEF Side
<1>. QED  BY <1>1, <1>3, <1>4, <1>6, <1>7 DEF put, rest

LEMMA IdleTyped ==
    ASSUME NEW at \in {"none", "reading", "calling", "sending"}
    PROVE  /\ Idle(at) \in Side
           /\ \A s \in Seq(Byte) : [Idle(at) EXCEPT !.unsent = s] \in Side
<1>1. Header \in Header .. MaxSize - 1
    BY RemoteCallsAssumption DEF Header
<1>2. <<>> \in Seq(Byte) /\ {} \in SUBSET (1 .. MaxCalls)
    OBVIOUS
<1>. QED  BY <1>1, <1>2 DEF Idle, Side

-----------------------------------------------------------------------------
(* The types, and files.                                                   *)

LEMMA FreeIsNat == Free \subseteq Numbers /\ Free \subseteq Nat
BY RemoteCallsAssumption DEF Free

LEMMA InitTypeOK == Init => TypeOK /\ FileInv
<1>. SUFFICES ASSUME Init PROVE TypeOK /\ FileInv
    OBVIOUS
<1>1. client \in Side /\ helper \in Side
    BY IdleTyped DEF Init
<1>2. <<>> \in Seq(Byte) /\ Len(<<>>) = 0
    OBVIOUS
<1>3. cloexec \in BOOLEAN /\ running \in BOOLEAN
    BY Zenon DEF Init
<1>4. toHelper \in Seq(Byte) /\ toClient \in Seq(Byte)
    BY <1>2 DEF Init
<1>5. Len(toHelper) <= Capacity /\ Len(toClient) <= Capacity /\ calls \in 0 .. MaxCalls
    BY <1>2, RemoteCallsAssumption DEF Init
<1>6. fds \in [Numbers -> {"free", "client", "helper", "file"}]
    BY DEF Init
<1>7. FileInv
    BY DEF Init, FileInv
<1>8. /\ socks \in (Numbers \cup {Closed}) \X (Numbers \cup {Closed})
      /\ file \in Numbers \cup {Closed}
      /\ holds \subseteq {"client", "helper"}
      /\ stage \in {"unloaded", "paired", "exclusive", "started", "loaded", "dead"}
    BY DEF Init
<1>. QED  BY <1>1, <1>3, <1>4, <1>5, <1>6, <1>7, <1>8 DEF TypeOK

LEMMA UnloadTypeOK ==
    ASSUME TypeOK, Unload PROVE TypeOK'
<1>1. client' \in Side /\ helper' \in Side
    BY IdleTyped DEF Unload
<1>2. fds' \in [Numbers -> {"free", "client", "helper", "file"}]
    BY DEF Unload, CloseAll, TypeOK
<1>3. UNCHANGED <<file, toHelper, toClient, calls>>
    BY DEF Unload, bytes
<1>. QED  BY <1>1, <1>2, <1>3 DEF Unload, TypeOK

LEMMA LoadTypeOK ==
    ASSUME TypeOK, FileInv, Load PROVE TypeOK' /\ FileInv'
<1>. USE DEF pair, bytes
<1>1. ASSUME SocketPair PROVE TypeOK' /\ FileInv'
    <2>1. PICK m \in Free, n \in Free :
            /\ fds' = [fds EXCEPT ![m] = "client", ![n] = "helper"]
            /\ socks' = <<m, n>>
        BY <1>1 DEF SocketPair
    <2>2. m \in Numbers /\ n \in Numbers
        BY FreeIsNat
    <2>3. socks' \in (Numbers \cup {Closed}) \X (Numbers \cup {Closed})
        BY <2>1, <2>2
    <2>4. fds' \in [Numbers -> {"free", "client", "helper", "file"}]
        BY <2>1, <2>2 DEF TypeOK
    <2>5. toHelper' \in Seq(Byte) /\ Len(toHelper') <= Capacity
        BY <1>1, RemoteCallsAssumption DEF SocketPair
    <2>6. toClient' \in Seq(Byte) /\ Len(toClient') <= Capacity
        BY <1>1, RemoteCallsAssumption DEF SocketPair
    <2>7. calls' \in 0 .. MaxCalls
        BY <1>1, RemoteCallsAssumption DEF SocketPair
    <2>8. TypeOK'
        BY <1>1, <2>3, <2>4, <2>5, <2>6, <2>7 DEF SocketPair, TypeOK
    <2>9. FileInv'
        BY <1>1 DEF SocketPair, FileInv
    <2>. QED  BY <2>8, <2>9
<1>2. ASSUME SetCloseOnExec PROVE TypeOK' /\ FileInv'
    BY <1>2 DEF SetCloseOnExec, TypeOK, FileInv
<1>3. ASSUME StartProcess PROVE TypeOK' /\ FileInv'
    <2>1. helper' \in Side
        BY <1>3, IdleTyped DEF StartProcess
    <2>2. holds' \subseteq {"client", "helper"}
        BY <1>3 DEF StartProcess
    <2>. QED  BY <1>3, <2>1, <2>2 DEF StartProcess, TypeOK, FileInv
<1>4. ASSUME CloseOtherEnd PROVE TypeOK' /\ FileInv'
    <2>1. fds' \in [Numbers -> {"free", "client", "helper", "file"}]
        BY <1>4 DEF CloseOtherEnd, CloseAll, TypeOK
    <2>. QED  BY <1>4, <2>1 DEF CloseOtherEnd, TypeOK, FileInv
<1>5. ASSUME LoadFails PROVE TypeOK' /\ FileInv'
    <2>1. TypeOK'
        BY <1>5, UnloadTypeOK DEF LoadFails
    <2>. QED  BY <1>5, <2>1 DEF LoadFails, Unload, FileInv
<1>. QED  BY <1>1, <1>2, <1>3, <1>4, <1>5 DEF Load

LEMMA SessionTypeOK ==
    ASSUME TypeOK, FileInv, Session PROVE TypeOK' /\ FileInv'
<1>. USE DEF pair, bytes
<1>1. ASSUME OpenFile PROVE TypeOK' /\ FileInv'
    <2>1. Min(Free) \in Numbers
        BY <1>1, FreeIsNat, MinOf DEF OpenFile
    <2>2. /\ fds' \in [Numbers -> {"free", "client", "helper", "file"}]
          /\ fds'[Min(Free)] = "file"
        BY <1>1, <2>1 DEF OpenFile, TypeOK
    <2>. QED  BY <1>1, <2>1, <2>2 DEF OpenFile, TypeOK, FileInv
<1>2. ASSUME CloseFile PROVE TypeOK' /\ FileInv'
    <2>1. fds' \in [Numbers -> {"free", "client", "helper", "file"}]
        BY <1>2 DEF CloseFile, CloseAll, TypeOK
    <2>. QED  BY <1>2, <2>1 DEF CloseFile, TypeOK, FileInv
<1>3. ASSUME EndOfSession PROVE TypeOK' /\ FileInv'
    <2>1. TypeOK'
        BY <1>3, UnloadTypeOK DEF EndOfSession
    <2>. QED  BY <1>3, <2>1 DEF EndOfSession, Unload, FileInv
<1>4. ASSUME ClientDies PROVE TypeOK' /\ FileInv'
    <2>1. fds' \in [Numbers -> {"free", "client", "helper", "file"}]
        BY <1>4 DEF ClientDies, CloseAll, TypeOK
    <2>2. client' \in Side
        BY <1>4, IdleTyped DEF ClientDies
    <2>. QED  BY <1>4, <2>1, <2>2 DEF ClientDies, TypeOK, FileInv
<1>. QED  BY <1>1, <1>2, <1>3, <1>4 DEF Session

LEMMA FileInvStays ==
    ASSUME FileInv, UNCHANGED <<stage, fds, file>> PROVE FileInv'
BY DEF FileInv

LEMMA ClientTypeOK ==
    ASSUME TypeOK, FileInv, ClientStep PROVE TypeOK' /\ FileInv'
<1>. USE DEF pair, bytes, NoLoad
<1>1. ASSUME NEW size \in 1 .. MaxSize, Call(size) PROVE TypeOK'
    <2>1. calls' \in 1 .. MaxCalls
        BY <1>1, RemoteCallsAssumption DEF Call, TypeOK
    <2>2. Message(calls + 1, size) \in Seq(Byte)
        BY <1>1, <2>1, MessageFollows DEF Call
    <2>3. client' \in Side
        BY <1>1, <2>2, IdleTyped DEF Call
    <2>. QED  BY <1>1, <2>1, <2>3 DEF Call, TypeOK
<1>2. ASSUME ClientWrites PROVE TypeOK'
    <2>1. PICK k \in MayWrite(client, toHelper) :
            /\ toHelper' = toHelper \o SubSeq(client.unsent, 1, k)
            /\ client' = Written(client, k)
        BY <1>2 DEF ClientWrites
    <2>2. /\ toHelper' \in Seq(Byte) /\ Len(toHelper') <= Capacity
          /\ client' \in Side
        BY <2>1, WriteTyped DEF TypeOK
    <2>. QED  BY <1>2, <2>2 DEF ClientWrites, TypeOK
<1>3. ASSUME ClientReads PROVE TypeOK'
    <2>1. PICK k \in MayRead(client, toClient) :
            /\ client' = Read(client, toClient, k, "none")
            /\ toClient' = Drop(toClient, k)
        BY <1>3 DEF ClientReads
    <2>2. /\ client' \in Side
          /\ toClient' \in Seq(Byte) /\ Len(toClient') = Len(toClient) - k
        BY <2>1, ReadTyped DEF TypeOK
    <2>3. k \in 1 .. Len(toClient) /\ Len(toClient) \in Nat
        BY <2>1, ReadTakes, LenProperties DEF TypeOK
    <2>4. Len(toClient') <= Capacity
        BY <2>2, <2>3, RemoteCallsAssumption DEF TypeOK
    <2>. QED  BY <1>3, <2>2, <2>4 DEF ClientReads, TypeOK
<1>4. ASSUME ClientFails PROVE TypeOK'
    BY <1>4, IdleTyped DEF ClientFails, TypeOK
<1>5. UNCHANGED <<stage, fds, file>>
    BY DEF ClientStep, Call, ClientWrites, ClientReads, ClientFails
<1>. QED  BY <1>1, <1>2, <1>3, <1>4, <1>5, FileInvStays DEF ClientStep

LEMMA HelperTypeOK ==
    ASSUME TypeOK, FileInv, HelperStep PROVE TypeOK' /\ FileInv'
<1>. USE DEF pair, bytes, NoLoad
<1>1. ASSUME HelperReads PROVE TypeOK'
    <2>1. PICK k \in MayRead(helper, toHelper) :
            /\ helper' = Read(helper, toHelper, k, "calling")
            /\ toHelper' = Drop(toHelper, k)
        BY <1>1 DEF HelperReads
    <2>2. /\ helper' \in Side
          /\ toHelper' \in Seq(Byte) /\ Len(toHelper') = Len(toHelper) - k
        BY <2>1, ReadTyped DEF TypeOK
    <2>3. k \in 1 .. Len(toHelper) /\ Len(toHelper) \in Nat
        BY <2>1, ReadTakes, LenProperties DEF TypeOK
    <2>4. Len(toHelper') <= Capacity
        BY <2>2, <2>3, RemoteCallsAssumption DEF TypeOK
    <2>. QED  BY <1>1, <2>2, <2>4 DEF HelperReads, TypeOK
<1>2. ASSUME NEW size \in 1 .. MaxSize, HelperCalls(size) PROVE TypeOK'
    <2>1. PICK c \in helper.read :
            helper' = [Idle("sending") EXCEPT !.unsent = Message(c, size)]
        BY <1>2 DEF HelperCalls
    <2>2. c \in 1 .. MaxCalls
        BY DEF TypeOK, Side
    <2>3. helper' \in Side
        BY <2>1, <2>2, MessageFollows, IdleTyped
    <2>. QED  BY <1>2, <2>3 DEF HelperCalls, TypeOK
<1>3. ASSUME HelperWrites PROVE TypeOK'
    <2>1. PICK k \in MayWrite(helper, toClient) :
            /\ toClient' = toClient \o SubSeq(helper.unsent, 1, k)
            /\ helper' = Written(helper, k)
        BY <1>3 DEF HelperWrites
    <2>2. /\ toClient' \in Seq(Byte) /\ Len(toClient') <= Capacity
          /\ helper' \in Side
        BY <2>1, WriteTyped DEF TypeOK
    <2>. QED  BY <1>3, <2>2 DEF HelperWrites, TypeOK
<1>4. ASSUME HelperEnds PROVE TypeOK'
    BY <1>4, IdleTyped DEF HelperEnds, TypeOK
<1>5. UNCHANGED <<stage, fds, file>>
    BY DEF HelperStep, HelperReads, HelperCalls, HelperWrites, HelperFails, HelperDies,
           HelperEnds
<1>. QED
    BY <1>1, <1>2, <1>3, <1>4, <1>5, FileInvStays DEF HelperStep, HelperFails, HelperDies

LEMMA NextTypeOK ==
    ASSUME TypeOK, FileInv, [Next]_vars PROVE TypeOK' /\ FileInv'
<1>1. ASSUME UNCHANGED vars PROVE TypeOK' /\ FileInv'
    BY <1>1 DEF vars, pair, bytes, TypeOK, FileInv
<1>. QED
    BY <1>1, LoadTypeOK, SessionTypeOK, ClientTypeOK, HelperTypeOK DEF Next

-----------------------------------------------------------------------------
(* A call.                                                                 *)

LEMMA InitLink == Init => Link
BY DEF Init, Link, Lives, Exchange

\* The state of a call is that of the two sides, the streams and the number of
\* the call.
LEMMA TalkStays ==
    ASSUME UNCHANGED <<client, helper, bytes, running, calls>>, Talk
    PROVE  Talk'
BY DEF Talk, Quiet, Asking, Working, Answering, Follows, Idle, bytes

\* Before the library is loaded, and between calls, nothing is under way.
LEMMA NobodyCalls ==
    ASSUME Lives, Talk, client.at = "none"
    PROVE  Quiet
BY DEF Talk, Asking, Working, Answering, Idle

LEMMA ClientCalling ==
    ASSUME Link, client.at \in {"sending", "reading"}
    PROVE  stage = "loaded" /\ (Asking \/ Working \/ Answering)
<1>1. stage = "loaded"
    BY DEF Link, Lives, Idle
<1>. QED  BY <1>1 DEF Link, Exchange, Talk, Quiet

LEMMA LoadLink ==
    ASSUME TypeOK, Link, Load PROVE Link'
<1>. USE DEF pair, bytes
<1>1. ASSUME SocketPair PROVE Link'
    <2>1. ~running /\ helper = Idle("none") /\ client = Idle("none")
        BY <1>1 DEF SocketPair, Link, Lives
    <2>2. UNCHANGED <<running, holds, client, helper>>
        BY <1>1 DEF SocketPair
    <2>3. /\ toHelper' = <<>> /\ toClient' = <<>> /\ calls' = 0
          /\ stage' = "paired"
        BY <1>1 DEF SocketPair
    <2>4. Lives'
        BY <2>1, <2>2, <2>3 DEF Lives, Idle
    <2>5. Quiet'
        BY <2>1, <2>2, <2>3 DEF Quiet, Idle
    <2>. QED  BY <2>4, <2>5 DEF Link, Exchange, Talk
<1>2. ASSUME SetCloseOnExec PROVE Link'
    <2>1. UNCHANGED <<client, helper, bytes, running, calls, holds>>
        BY <1>2 DEF SetCloseOnExec
    <2>2. stage = "paired" /\ stage' = "exclusive"
        BY <1>2 DEF SetCloseOnExec
    <2>3. Talk'
        BY <2>1, <2>2, TalkStays DEF Link, Exchange
    <2>4. Lives'
        BY <2>1, <2>2 DEF Link, Lives, Idle
    <2>. QED  BY <2>3, <2>4 DEF Link, Exchange
<1>3. ASSUME StartProcess PROVE Link'
    <2>1. stage = "exclusive" /\ stage' = "started"
        BY <1>3 DEF StartProcess
    <2>2. client = Idle("none") /\ toHelper = <<>>
        BY <2>1 DEF Link, Lives
    <2>3. Quiet
        BY <2>1, <2>2, NobodyCalls DEF Link, Exchange, Idle
    <2>4. UNCHANGED <<client, bytes, calls>> /\ helper' = Idle("reading")
        BY <1>3 DEF StartProcess
    <2>5. Quiet'
        BY <2>2, <2>3, <2>4 DEF Quiet, Idle
    <2>6. running' /\ "helper" \in holds'
        BY <1>3 DEF StartProcess
    <2>7. Lives'
        BY <2>1, <2>2, <2>4, <2>6 DEF Lives, Idle
    <2>. QED  BY <2>5, <2>7 DEF Link, Exchange, Talk
<1>4. ASSUME CloseOtherEnd PROVE Link'
    <2>1. UNCHANGED <<client, helper, bytes, running, calls, holds>>
        BY <1>4 DEF CloseOtherEnd
    <2>2. stage = "started" /\ stage' = "loaded"
        BY <1>4 DEF CloseOtherEnd
    <2>3. Talk'
        BY <2>1, <2>2, TalkStays DEF Link, Exchange
    <2>4. Lives'
        BY <2>1, <2>2 DEF Link, Lives, Idle
    <2>. QED  BY <2>3, <2>4 DEF Link, Exchange
<1>5. ASSUME LoadFails PROVE Link'
    BY <1>5 DEF LoadFails, Unload, Link, Lives, Exchange, Idle
<1>. QED  BY <1>1, <1>2, <1>3, <1>4, <1>5 DEF Load

LEMMA SessionLink ==
    ASSUME TypeOK, Link, Session PROVE Link'
<1>. USE DEF pair, bytes
<1>1. ASSUME OpenFile \/ CloseFile PROVE Link'
    <2>1. UNCHANGED <<client, helper, bytes, running, calls, holds, stage>>
        BY <1>1 DEF OpenFile, CloseFile
    <2>2. Exchange'
        BY <2>1, TalkStays DEF Link, Exchange
    <2>3. Lives'
        BY <2>1 DEF Link, Lives, Idle
    <2>. QED  BY <2>2, <2>3 DEF Link
<1>2. ASSUME EndOfSession PROVE Link'
    BY <1>2 DEF EndOfSession, Unload, Link, Lives, Exchange, Idle
<1>3. ASSUME ClientDies PROVE Link'
    BY <1>3 DEF ClientDies, Link, Lives, Exchange, Idle
<1>. QED  BY <1>1, <1>2, <1>3 DEF Session

\* The steps of the client leave the helper, and whether it runs, alone.
LEMMA ClientLives ==
    ASSUME Link, stage = "loaded", UNCHANGED <<stage, running, holds, helper>>
    PROVE  Lives'
BY DEF Link, Lives, Idle

LEMMA CallLink ==
    ASSUME TypeOK, Link, NEW size \in 1 .. MaxSize, Call(size) PROVE Link'
<1>1. /\ stage = "loaded" /\ client.at = "none" /\ calls' = calls + 1
      /\ client' = [Idle("sending") EXCEPT !.unsent = Message(calls + 1, size)]
      /\ UNCHANGED <<stage, running, holds, toHelper, toClient, helper>>
    BY DEF Call, NoLoad, bytes
<1>2. Quiet
    BY <1>1, NobodyCalls DEF Link, Exchange
<1>3. calls' \in 1 .. MaxCalls
    BY <1>1, RemoteCallsAssumption DEF Call, TypeOK
<1>4. /\ Message(calls', size) \in Seq(Byte) /\ Len(Message(calls', size)) = size
      /\ Message(calls', size) # <<>>
      /\ Follows(Message(calls', size), calls', size)
    BY <1>3, MessageFollows
<1>5. /\ client'.at = "sending" /\ client'.left = Header /\ client'.read = {}
      /\ client'.unsent = Message(calls', size)
    BY <1>1 DEF Idle
<1>6. toClient' = <<>>
    BY <1>1, <1>2 DEF Quiet
<1>7. ASSUME running' PROVE
        /\ size = Len(toHelper') + Len(client'.unsent)
        /\ Follows(toHelper', calls', size)
        /\ Follows(client'.unsent, calls', size - Len(toHelper'))
        /\ helper'.at = "reading" /\ helper'.unsent = <<>>
        /\ helper'.left = Header /\ helper'.read = {}
    <2>1. toHelper' = <<>> /\ helper' = Idle("reading")
        BY <1>1, <1>2, <1>7 DEF Quiet
    <2>2. Len(toHelper') = 0 /\ size \in Int
        BY <2>1
    <2>3. size - Len(toHelper') = size /\ size = Len(toHelper') + size
        BY <2>2
    <2>. QED  BY <1>4, <1>5, <2>1, <2>3, EmptyFollows DEF Idle
<1>8. Asking'
    BY <1>4, <1>5, <1>6, <1>7 DEF Asking, Follows
<1>. QED  BY <1>1, <1>8, ClientLives DEF Link, Exchange, Talk

LEMMA ClientWritesLink ==
    ASSUME TypeOK, Link, ClientWrites PROVE Link'
<1>1. PICK k \in MayWrite(client, toHelper) :
        /\ toHelper' = toHelper \o SubSeq(client.unsent, 1, k)
        /\ client' = Written(client, k)
    BY DEF ClientWrites
<1>2. /\ client.at = "sending"
      /\ UNCHANGED <<stage, running, holds, toClient, calls, helper>>
    BY DEF ClientWrites, NoLoad
<1>3. stage = "loaded" /\ Asking
    BY <1>2, ClientCalling DEF Working, Answering, Idle
<1>. DEFINE put == SubSeq(client.unsent, 1, k)
<1>4. /\ put \in Seq(Byte) /\ Len(put) = k
      /\ toHelper' \in Seq(Byte) /\ Len(toHelper') = Len(toHelper) + k
      /\ client'.unsent = SubSeq(client.unsent, k + 1, Len(client.unsent))
      /\ Len(client'.unsent) = Len(client.unsent) - k
      /\ client'.at = IF client'.unsent = <<>> THEN "reading" ELSE "sending"
      /\ client'.left = client.left /\ client'.read = client.read
    <2>1. client \in Side /\ toHelper \in Seq(Byte) /\ Len(toHelper) <= Capacity
        BY DEF TypeOK
    <2>2. /\ put \in Seq(Byte) /\ Len(put) = k
          /\ toHelper \o put \in Seq(Byte)
          /\ Len(toHelper \o put) = Len(toHelper) + k
        BY <2>1, WriteTyped
    <2>3. /\ Written(client, k).unsent = SubSeq(client.unsent, k + 1, Len(client.unsent))
          /\ Len(Written(client, k).unsent) = Len(client.unsent) - k
          /\ Written(client, k).at = IF Written(client, k).unsent = <<>>
                                 THEN "reading" ELSE "sending"
          /\ Written(client, k).left = client.left /\ Written(client, k).read = client.read
        BY <2>1, WriteTyped
    <2>. QED  BY <1>1, <2>2, <2>3
<1>5. k \in 0 .. Len(client.unsent)
    BY <1>1, WriteTakes DEF TypeOK
<1>6. client.unsent \in Seq(Byte) /\ toHelper \in Seq(Byte)
    BY DEF TypeOK, Side
<1>7. Len(client.unsent) \in Nat /\ Len(toHelper) \in Nat
    BY <1>6, LenProperties
<1>8. ASSUME running'
      PROVE  \E m \in 1 .. MaxSize :
                /\ m = Len(toHelper') + Len(client'.unsent)
                /\ Follows(toHelper', calls', m)
                /\ Follows(client'.unsent, calls', m - Len(toHelper'))
                /\ helper'.at = "reading" /\ helper'.unsent = <<>>
                /\ \/ helper'.left = Header /\ helper'.read = {}
                   \/ helper'.left = m /\ helper'.read = {calls'}
    <2>1. PICK m \in 1 .. MaxSize :
            /\ m = Len(toHelper) + Len(client.unsent)
            /\ Follows(toHelper, calls, m)
            /\ Follows(client.unsent, calls, m - Len(toHelper))
            /\ helper.at = "reading" /\ helper.unsent = <<>>
            /\ \/ helper.left = Header /\ helper.read = {}
               \/ helper.left = m /\ helper.read = {calls}
        BY <1>2, <1>3, <1>8 DEF Asking
    <2>2. m \in Int /\ m - Len(toHelper) \in Int
        BY <1>7, RemoteCallsAssumption
    <2>3. /\ Follows(put, calls, m - Len(toHelper))
          /\ Follows(client'.unsent, calls, (m - Len(toHelper)) - k)
        BY <1>4, <1>5, <1>6, <2>1, <2>2, CutFollows
    <2>. HIDE DEF put
    <2>4. Follows(toHelper \o put, calls, m)
        BY <1>4, <1>6, <2>1, <2>2, <2>3, JoinFollows
    <2>5. Follows(toHelper', calls, m)
        BY <1>1, <2>4 DEF put
    <2>6. /\ m = Len(toHelper') + Len(client'.unsent)
          /\ (m - Len(toHelper)) - k = m - Len(toHelper')
        <3>1. /\ Len(toHelper') = Len(toHelper) + k
              /\ Len(client'.unsent) = Len(client.unsent) - k
              /\ m = Len(toHelper) + Len(client.unsent)
            BY <1>4, <2>1, Zenon
        <3>2. k \in Int
            BY <1>5
        <3>. HIDE DEF put
        <3>. DEFINE a == Len(toHelper)
                    b == Len(client.unsent)
                    c == Len(toHelper')
                    d == Len(client'.unsent)
        <3>3. /\ a \in Int /\ b \in Int /\ k \in Int /\ m \in Int
              /\ c = a + k /\ d = b - k /\ m = a + b
            BY <1>7, <3>1, <3>2, <2>2
        <3>. HIDE DEF a, b, c, d
        <3>4. m = c + d /\ (m - a) - k = m - c
            BY <3>3
        <3>. QED  BY <3>4 DEF a, b, c, d
    <2>. QED  BY <1>2, <2>1, <2>3, <2>5, <2>6
<1>9. Asking'
    <2>1. client.left = Header /\ client.read = {} /\ toClient = <<>>
        BY <1>3 DEF Asking
    <2>. QED  BY <1>2, <1>4, <1>8, <2>1 DEF Asking, Follows
<1>. QED  BY <1>2, <1>3, <1>9, ClientLives DEF Link, Exchange, Talk

\* Reading the last byte of the answer leaves nothing in either stream.
LEMMA ClientReadsLink ==
    ASSUME TypeOK, Link, ClientReads PROVE Link'
<1>1. PICK k \in MayRead(client, toClient) :
        /\ client' = Read(client, toClient, k, "none")
        /\ toClient' = Drop(toClient, k)
    BY DEF ClientReads
<1>2. /\ client.at = "reading"
      /\ UNCHANGED <<stage, running, holds, toHelper, calls, helper>>
    BY DEF ClientReads, NoLoad
<1>3. /\ k \in 1 .. Len(toClient) /\ toClient # <<>>
      /\ Len(toClient) \in Nat
    BY <1>1, ReadTakes, LenProperties DEF TypeOK
<1>4. stage = "loaded" /\ Answering
    BY <1>2, <1>3, ClientCalling DEF Asking, Working
<1>5. PICK m \in 1 .. MaxSize :
        /\ Len(toClient) <= m
        /\ Follows(toClient, calls, m)
        /\ running =>
            /\ m = Len(toClient) + Len(helper.unsent)
            /\ Follows(helper.unsent, calls, m - Len(toClient))
            /\ toHelper = <<>>
            /\ helper.at = (IF helper.unsent = <<>> THEN "reading" ELSE "sending")
            /\ helper.left = Header /\ helper.read = {}
        /\ \/ client.left = Header /\ client.read = {}
           \/ client.left = m /\ client.read = {calls}
    BY <1>4 DEF Answering
<1>6. /\ m - k \in 0 .. MaxSize
      /\ Follows(toClient', calls, m - k)
      /\ client'.read = {calls} /\ client'.unsent = <<>>
      /\ client'.left = IF m - k = 0 THEN Header ELSE m - k
      /\ client'.at = IF m - k = 0 THEN "none" ELSE "reading"
    BY <1>1, <1>5, ReadFollows DEF TypeOK
<1>7. toClient' \in Seq(Byte) /\ Len(toClient') = Len(toClient) - k
    BY <1>1, ReadTyped DEF TypeOK
<1>8. helper \in Side /\ helper.unsent \in Seq(Byte) /\ Len(helper.unsent) \in Nat
    BY LenProperties DEF TypeOK, Side
<1>9. m \in Int /\ m > 0
    BY RemoteCallsAssumption
<1>10. CASE m - k = 0
    <2>1. Len(toClient') = 0 /\ Len(toClient) = m
        BY <1>3, <1>5, <1>7, <1>9, <1>10
    <2>2. toClient' = <<>>
        BY <1>7, <2>1, EmptySeq
    <2>3. ASSUME running PROVE toHelper = <<>> /\ helper = Idle("reading")
        <3>1. Len(helper.unsent) = 0
            BY <1>5, <1>8, <1>9, <2>1, <2>3
        <3>2. helper.unsent = <<>>
            BY <1>8, <3>1, EmptySeq
        <3>3. /\ helper.at = "reading" /\ helper.left = Header /\ helper.read = {}
              /\ toHelper = <<>>
            BY <1>5, <2>3, <3>2
        <3>. QED  BY <1>8, <3>2, <3>3 DEF Side, Idle
    <2>4. Quiet'
        BY <1>2, <1>6, <1>10, <2>2, <2>3 DEF Quiet, Idle
    <2>. QED  BY <1>2, <1>4, <2>4, ClientLives DEF Link, Exchange, Talk
<1>11. CASE m - k # 0
    <2>. DEFINE n == m - k
    <2>1. /\ n \in 1 .. MaxSize
          /\ Len(toClient') <= n
        BY <1>3, <1>5, <1>6, <1>7, <1>9, <1>11
    <2>2. ASSUME running PROVE
            /\ n = Len(toClient') + Len(helper.unsent)
            /\ Follows(helper.unsent, calls, n - Len(toClient'))
        <3>1. /\ n = Len(toClient') + Len(helper.unsent)
              /\ n - Len(toClient') = m - Len(toClient)
            BY <1>3, <1>5, <1>7, <1>8, <1>9, <2>2
        <3>. QED  BY <1>5, <2>2, <3>1
    <2>3. /\ client'.at = "reading" /\ client'.unsent = <<>>
          /\ client'.left = n /\ client'.read = {calls}
          /\ Follows(toClient', calls, n)
        BY <1>6, <1>11
    <2>. HIDE DEF n
    <2>4. Answering'
        BY <1>2, <1>5, <2>1, <2>2, <2>3 DEF Answering, Follows
    <2>. QED  BY <1>2, <1>4, <2>4, ClientLives DEF Link, Exchange, Talk
<1>. QED  BY <1>10, <1>11

\* A call fails only when the helper is dead and all it sent has been read.
LEMMA ClientFailsLink ==
    ASSUME TypeOK, Link, ClientFails PROVE Link'
<1>1. /\ ~Open("helper") /\ client.at \in {"sending", "reading"}
      /\ client.at = "reading" => toClient = <<>>
      /\ client' = Idle("none")
      /\ UNCHANGED <<stage, running, holds, bytes, calls, helper>>
    BY DEF ClientFails, NoLoad
<1>2. ~running
    BY <1>1 DEF Open, Link, Lives
<1>3. stage = "loaded" /\ (Asking \/ Working \/ Answering)
    BY <1>1, ClientCalling
<1>4. toClient = <<>>
    BY <1>1, <1>3 DEF Asking, Working, Answering
<1>5. Quiet'
    BY <1>1, <1>2, <1>4 DEF Quiet, Idle, bytes
<1>. QED  BY <1>1, <1>3, <1>5, ClientLives DEF Link, Exchange, Talk

\* A step of a helper that goes on running.
LEMMA HelperLives ==
    ASSUME Link, running, UNCHANGED <<stage, running, holds, client>>,
           stage \in {"started", "loaded"} => Talk'
    PROVE  Link'
BY DEF Link, Lives, Exchange, Idle

LEMMA HelperReadsLink ==
    ASSUME TypeOK, Link, HelperReads PROVE Link'
<1>1. PICK k \in MayRead(helper, toHelper) :
        /\ helper' = Read(helper, toHelper, k, "calling")
        /\ toHelper' = Drop(toHelper, k)
    BY DEF HelperReads
<1>2. /\ running /\ helper.at = "reading"
      /\ UNCHANGED <<stage, running, holds, toClient, calls, client>>
    BY DEF HelperReads, NoLoad
<1>3. /\ k \in 1 .. Len(toHelper) /\ toHelper # <<>>
      /\ Len(toHelper) \in Nat
    BY <1>1, ReadTakes, LenProperties DEF TypeOK
<1>4. SUFFICES ASSUME stage \in {"started", "loaded"} PROVE Talk'
    BY <1>2, HelperLives
<1>5. Asking
    BY <1>2, <1>3, <1>4 DEF Link, Exchange, Talk, Quiet, Working, Answering
<1>6. PICK m \in 1 .. MaxSize :
        /\ m = Len(toHelper) + Len(client.unsent)
        /\ Follows(toHelper, calls, m)
        /\ Follows(client.unsent, calls, m - Len(toHelper))
        /\ helper.at = "reading" /\ helper.unsent = <<>>
        /\ \/ helper.left = Header /\ helper.read = {}
           \/ helper.left = m /\ helper.read = {calls}
    BY <1>2, <1>5 DEF Asking
<1>7. /\ client.at = (IF client.unsent = <<>> THEN "reading" ELSE "sending")
      /\ client.left = Header /\ client.read = {} /\ toClient = <<>>
    BY <1>5 DEF Asking
<1>8. /\ client \in Side /\ client.unsent \in Seq(Byte)
      /\ Len(client.unsent) \in Nat /\ m \in Int /\ m > 0
    BY RemoteCallsAssumption, LenProperties DEF TypeOK, Side
<1>9. Len(toHelper) <= m
    BY <1>3, <1>6, <1>8
<1>10. /\ m - k \in 0 .. MaxSize
       /\ Follows(toHelper', calls, m - k)
       /\ helper'.read = {calls} /\ helper'.unsent = <<>>
       /\ helper'.left = IF m - k = 0 THEN Header ELSE m - k
       /\ helper'.at = IF m - k = 0 THEN "calling" ELSE "reading"
    BY <1>1, <1>6, <1>9, ReadFollows DEF TypeOK
<1>11. toHelper' \in Seq(Byte) /\ Len(toHelper') = Len(toHelper) - k
    BY <1>1, ReadTyped DEF TypeOK
<1>12. CASE m - k = 0
    <2>1. Len(toHelper') = 0 /\ Len(client.unsent) = 0
        BY <1>3, <1>6, <1>8, <1>9, <1>11, <1>12
    <2>2. toHelper' = <<>> /\ client.unsent = <<>>
        BY <1>8, <1>11, <2>1, EmptySeq
    <2>3. client = Idle("reading")
        BY <1>7, <1>8, <2>2 DEF Side, Idle
    <2>4. Working'
        BY <1>2, <1>7, <1>10, <1>12, <2>2, <2>3 DEF Working, Idle
    <2>. QED  BY <2>4 DEF Talk
<1>13. CASE m - k # 0
    <2>. DEFINE n == m - k
    <2>1. /\ n \in 1 .. MaxSize
          /\ n = Len(toHelper') + Len(client.unsent)
          /\ n - Len(toHelper') = m - Len(toHelper)
        BY <1>3, <1>6, <1>8, <1>10, <1>11, <1>13
    <2>2. Follows(client.unsent, calls, n - Len(toHelper'))
        BY <1>6, <2>1
    <2>3. /\ helper'.at = "reading" /\ helper'.unsent = <<>>
          /\ helper'.left = n /\ helper'.read = {calls}
          /\ Follows(toHelper', calls, n)
        BY <1>10, <1>13
    <2>. HIDE DEF n
    <2>4. Asking'
        BY <1>2, <1>7, <2>1, <2>2, <2>3 DEF Asking, Follows
    <2>. QED  BY <2>4 DEF Talk
<1>. QED  BY <1>12, <1>13

LEMMA HelperCallsLink ==
    ASSUME TypeOK, Link, NEW size \in 1 .. MaxSize, HelperCalls(size) PROVE Link'
<1>1. PICK c \in helper.read :
        helper' = [Idle("sending") EXCEPT !.unsent = Message(c, size)]
    BY DEF HelperCalls
<1>2. /\ running /\ helper.at = "calling"
      /\ UNCHANGED <<stage, running, holds, toHelper, toClient, calls, client>>
    BY DEF HelperCalls, NoLoad, bytes
<1>3. SUFFICES ASSUME stage \in {"started", "loaded"} PROVE Talk'
    BY <1>2, HelperLives
<1>4. Working
    BY <1>2, <1>3 DEF Link, Exchange, Talk, Quiet, Asking, Answering, Idle
<1>5. c = calls /\ c \in 1 .. MaxCalls
    BY <1>4 DEF Working, TypeOK, Side
<1>6. /\ Message(calls, size) \in Seq(Byte) /\ Len(Message(calls, size)) = size
      /\ Message(calls, size) # <<>>
      /\ Follows(Message(calls, size), calls, size)
    BY <1>5, MessageFollows
<1>7. /\ helper'.at = "sending" /\ helper'.left = Header /\ helper'.read = {}
      /\ helper'.unsent = Message(calls, size)
    BY <1>1, <1>5 DEF Idle
<1>8. /\ toClient = <<>> /\ toHelper = <<>>
      /\ client.at = "reading" /\ client.unsent = <<>>
      /\ client.left = Header /\ client.read = {}
    BY <1>4 DEF Working, Idle
<1>9. Len(toClient) = 0 /\ size \in Nat
    BY <1>8
<1>10. /\ Len(toClient) <= size /\ size = Len(toClient) + size
       /\ size - Len(toClient) = size
    BY <1>9
<1>11. Follows(toClient, calls, size)
    BY <1>8, EmptyFollows
<1>12. Answering'
    BY <1>2, <1>6, <1>7, <1>8, <1>10, <1>11 DEF Answering, Follows
<1>. QED  BY <1>12 DEF Talk

LEMMA HelperWritesLink ==
    ASSUME TypeOK, Link, HelperWrites PROVE Link'
<1>1. PICK k \in MayWrite(helper, toClient) :
        /\ toClient' = toClient \o SubSeq(helper.unsent, 1, k)
        /\ helper' = Written(helper, k)
    BY DEF HelperWrites
<1>2. /\ running /\ helper.at = "sending"
      /\ UNCHANGED <<stage, running, holds, toHelper, calls, client>>
    BY DEF HelperWrites, NoLoad
<1>3. SUFFICES ASSUME stage \in {"started", "loaded"} PROVE Talk'
    BY <1>2, HelperLives
<1>4. Answering
    BY <1>2, <1>3 DEF Link, Exchange, Talk, Quiet, Asking, Working, Idle
<1>5. PICK m \in 1 .. MaxSize :
        /\ Len(toClient) <= m
        /\ Follows(toClient, calls, m)
        /\ m = Len(toClient) + Len(helper.unsent)
        /\ Follows(helper.unsent, calls, m - Len(toClient))
        /\ toHelper = <<>>
        /\ helper.left = Header /\ helper.read = {}
        /\ \/ client.left = Header /\ client.read = {}
           \/ client.left = m /\ client.read = {calls}
    BY <1>2, <1>4 DEF Answering
<1>. DEFINE put == SubSeq(helper.unsent, 1, k)
<1>6. /\ put \in Seq(Byte) /\ Len(put) = k
      /\ toClient' \in Seq(Byte) /\ Len(toClient') = Len(toClient) + k
      /\ helper'.unsent = SubSeq(helper.unsent, k + 1, Len(helper.unsent))
      /\ Len(helper'.unsent) = Len(helper.unsent) - k
      /\ helper'.at = IF helper'.unsent = <<>> THEN "reading" ELSE "sending"
      /\ helper'.left = helper.left /\ helper'.read = helper.read
    <2>1. helper \in Side /\ toClient \in Seq(Byte) /\ Len(toClient) <= Capacity
        BY DEF TypeOK
    <2>2. /\ put \in Seq(Byte) /\ Len(put) = k
          /\ toClient \o put \in Seq(Byte)
          /\ Len(toClient \o put) = Len(toClient) + k
        BY <2>1, WriteTyped
    <2>3. /\ Written(helper, k).unsent = SubSeq(helper.unsent, k + 1, Len(helper.unsent))
          /\ Len(Written(helper, k).unsent) = Len(helper.unsent) - k
          /\ Written(helper, k).at = IF Written(helper, k).unsent = <<>>
                                 THEN "reading" ELSE "sending"
          /\ Written(helper, k).left = helper.left /\ Written(helper, k).read = helper.read
        BY <2>1, WriteTyped
    <2>. QED  BY <1>1, <2>2, <2>3
<1>7. k \in 0 .. Len(helper.unsent)
    BY <1>1, WriteTakes DEF TypeOK
<1>8. helper.unsent \in Seq(Byte) /\ toClient \in Seq(Byte)
    BY DEF TypeOK, Side
<1>9. /\ Len(helper.unsent) \in Nat /\ Len(toClient) \in Nat
      /\ m \in Int /\ m - Len(toClient) \in Int
    BY <1>8, RemoteCallsAssumption, LenProperties
<1>10. /\ Follows(put, calls, m - Len(toClient))
       /\ Follows(helper'.unsent, calls, (m - Len(toClient)) - k)
    BY <1>5, <1>6, <1>7, <1>8, <1>9, CutFollows
<1>. HIDE DEF put
<1>11. Follows(toClient \o put, calls, m)
    BY <1>5, <1>6, <1>8, <1>9, <1>10, JoinFollows
<1>12. Follows(toClient', calls, m)
    BY <1>1, <1>11 DEF put
<1>13. /\ m = Len(toClient') + Len(helper'.unsent)
       /\ (m - Len(toClient)) - k = m - Len(toClient')
       /\ Len(toClient') <= m
    <2>1. /\ Len(toClient') = Len(toClient) + k
          /\ Len(helper'.unsent) = Len(helper.unsent) - k
          /\ m = Len(toClient) + Len(helper.unsent)
        BY <1>5, <1>6, Zenon
    <2>. DEFINE a == Len(toClient)
                b == Len(helper.unsent)
                c == Len(toClient')
                d == Len(helper'.unsent)
    <2>2. /\ a \in Nat /\ b \in Nat /\ k \in 0 .. b /\ m \in Int
          /\ c = a + k /\ d = b - k /\ m = a + b
        BY <1>7, <1>9, <2>1
    <2>. HIDE DEF a, b, c, d
    <2>3. m = c + d /\ (m - a) - k = m - c /\ c <= m
        BY <2>2
    <2>. QED  BY <2>3 DEF a, b, c, d
<1>14. client.at = "reading" /\ client.unsent = <<>>
    BY <1>4 DEF Answering
<1>15. Follows(helper'.unsent, calls, m - Len(toClient'))
    BY <1>10, <1>13
<1>16. Answering'
    BY <1>2, <1>5, <1>6, <1>12, <1>13, <1>14, <1>15 DEF Answering, Follows
<1>. QED  BY <1>16 DEF Talk

\* A helper that dies leaves a beginning of the answer, or nothing.
LEMMA HelperEndsLink ==
    ASSUME TypeOK, Link, running, HelperEnds PROVE Link'
<1>1. /\ ~running' /\ helper' = Idle("none")
      /\ UNCHANGED <<stage, toHelper, toClient, calls, client>>
    BY DEF HelperEnds, NoLoad, bytes
<1>2. Lives'
    BY <1>1 DEF Link, Lives, Idle
<1>3. ASSUME Talk PROVE Talk'
    <2>1. ASSUME Quiet PROVE Quiet'
        BY <1>1, <2>1 DEF Quiet, Idle
    <2>2. ASSUME Asking PROVE Asking'
        BY <1>1, <2>2 DEF Asking, Follows
    <2>3. ASSUME Working PROVE Asking'
        BY <1>1, <2>3 DEF Asking, Working, Follows, Idle
    <2>4. ASSUME Answering PROVE Answering'
        BY <1>1, <2>4 DEF Answering, Follows
    <2>. QED  BY <1>3, <2>1, <2>2, <2>3, <2>4 DEF Talk
<1>. QED  BY <1>1, <1>2, <1>3 DEF Link, Exchange

LEMMA NextLink ==
    ASSUME TypeOK, Link, [Next]_vars PROVE Link'
<1>1. ASSUME ClientStep PROVE Link'
    BY <1>1, CallLink, ClientWritesLink, ClientReadsLink, ClientFailsLink DEF ClientStep
<1>2. ASSUME HelperStep PROVE Link'
    BY <1>2, HelperReadsLink, HelperCallsLink, HelperWritesLink, HelperEndsLink
       DEF HelperStep, HelperFails, HelperDies
<1>3. ASSUME UNCHANGED vars PROVE Link'
    <2>1. UNCHANGED <<stage, client, helper, bytes, running, calls, holds>>
        BY <1>3 DEF vars
    <2>2. Exchange'
        BY <2>1, TalkStays DEF Link, Exchange
    <2>3. Lives'
        BY <2>1 DEF Link, Lives, Idle, bytes
    <2>. QED  BY <2>2, <2>3 DEF Link
<1>. QED  BY <1>1, <1>2, <1>3, LoadLink, SessionLink DEF Next

-----------------------------------------------------------------------------
\* Types are right: no buffer holds more than its capacity, no reader waits for
\* a number of bytes that is not positive, and the descriptors it keeps are
\* numbers or -1 (ADRPC, RemoteData::socks).
THEOREM TypeCorrect == Spec => []TypeOK
<1>1. TypeOK /\ FileInv /\ [Next]_vars => (TypeOK /\ FileInv)'
    BY NextTypeOK
<1>. QED  BY InitTypeOK, <1>1, PTL DEF Spec

\* A file the session has open keeps its descriptor: the second close of the
\* number in socks[1] comes only after all files are closed.
THEOREM FilesStayOpen == Spec => []FileStaysOpen
<1>1. TypeOK /\ FileInv /\ [Next]_vars => (TypeOK /\ FileInv)'
    BY NextTypeOK
<1>2. FileInv => FileStaysOpen
    BY DEF FileInv, FileStaysOpen
<1>. QED  BY InitTypeOK, <1>1, <1>2, PTL DEF Spec

\* Before, during and after a call the sides and the streams are where Exchange
\* says: what is under way belongs to the call that runs.
THEOREM ExchangeInvariant == Spec => [](TypeOK /\ FileInv /\ Link)
<1>1. TypeOK /\ FileInv /\ Link /\ [Next]_vars => (TypeOK /\ FileInv /\ Link)'
    BY NextTypeOK, NextLink
<1>. QED  BY InitTypeOK, InitLink, <1>1, PTL DEF Spec

\* A call of ADRPC never reads a byte of another call's answer, whatever the
\* sizes of messages and buffers, however reads and writes are cut, and whenever
\* the helper dies: assert(method == method_ret) holds.
THEOREM AnswersAreOwn == Spec => []AnswerIsOwn
<1>1. Link => AnswerIsOwn
    <2>1. ASSUME Link, stage # "loaded" PROVE AnswerIsOwn
        BY <2>1 DEF Link, Lives, AnswerIsOwn, Idle
    <2>2. ASSUME Link, stage = "loaded" PROVE AnswerIsOwn
        BY <2>2 DEF Link, Exchange, Talk, Quiet, Asking, Working, Answering, AnswerIsOwn,
                    Idle
    <2>. QED  BY <2>1, <2>2
<1>. QED  BY ExchangeInvariant, <1>1, PTL

-----------------------------------------------------------------------------
(* Framing: joined sequences.                                              *)

\* f[i] is the first i of the sequences, joined.
Joins(f, seqs) ==
    /\ f[0] = <<>>
    /\ \A i \in 1 .. Len(seqs) : f[i] = f[i - 1] \o seqs[i]

LEMMA JoinsExist ==
    ASSUME NEW S, NEW seqs \in Seq(Seq(S))
    PROVE  \E f \in [0 .. Len(seqs) -> Seq(S)] : Joins(f, seqs)
<1>. DEFINE To(n) == \E f \in [0 .. n -> Seq(S)] :
                        /\ f[0] = <<>>
                        /\ \A i \in 1 .. n : f[i] = f[i - 1] \o seqs[i]
            I == {n \in Nat : n <= Len(seqs) => To(n)}
<1>0. Len(seqs) \in Nat /\ \A i \in 1 .. Len(seqs) : seqs[i] \in Seq(S)
    BY LenProperties, ElementOfSeq
<1>1. To(0)
    <2>. DEFINE f == [i \in 0 .. 0 |-> <<>>]
    <2>1. f \in [0 .. 0 -> Seq(S)] /\ f[0] = <<>>
        BY EmptySeq
    <2>2. \A i \in 1 .. 0 : f[i] = f[i - 1] \o seqs[i]
        OBVIOUS
    <2>. HIDE DEF f
    <2>. QED  BY <2>1, <2>2
<1>2. ASSUME NEW n \in Nat, To(n), n + 1 <= Len(seqs) PROVE To(n + 1)
    <2>1. PICK f \in [0 .. n -> Seq(S)] :
                        /\ f[0] = <<>>
                        /\ \A i \in 1 .. n : f[i] = f[i - 1] \o seqs[i]
        BY <1>2
    <2>. DEFINE g == [i \in 0 .. n + 1 |-> IF i = n + 1 THEN f[n] \o seqs[n + 1] ELSE f[i]]
    <2>2. f[n] \in Seq(S) /\ seqs[n + 1] \in Seq(S)
        BY <1>0, <1>2
    <2>3. f[n] \o seqs[n + 1] \in Seq(S)
        BY <2>2, ConcatProperties
    <2>4. g \in [0 .. n + 1 -> Seq(S)]
        BY <2>3
    <2>5. g[0] = <<>>
        BY <2>1
    <2>6. ASSUME NEW i \in 1 .. n + 1 PROVE g[i] = g[i - 1] \o seqs[i]
        <3>1. i - 1 \in 0 .. n /\ g[i - 1] = f[i - 1]
            OBVIOUS
        <3>2. CASE i = n + 1
            <4>1. i - 1 = n /\ g[i] = f[n] \o seqs[i]
                BY <3>2
            <4>. QED  BY <3>1, <4>1
        <3>3. CASE i # n + 1
            <4>1. i \in 1 .. n /\ g[i] = f[i]
                BY <3>3
            <4>. QED  BY <2>1, <3>1, <4>1
        <3>. QED  BY <3>2, <3>3
    <2>. HIDE DEF g
    <2>. QED  BY <2>4, <2>5, <2>6
<1>. HIDE DEF To
<1>3. 0 \in I
    BY <1>1
<1>4. \A n \in Nat : n \in I => n + 1 \in I
    BY <1>0, <1>2
<1>. HIDE DEF I
<1>5. Len(seqs) \in I
    BY <1>0, <1>3, <1>4, NatSets
<1>6. To(Len(seqs))
    BY <1>5 DEF I
<1>. QED  BY <1>6 DEF To, Joins

\* A function on 1 .. n is a sequence of that length.
LEMMA FunctionIsSeq ==
    ASSUME NEW S, NEW n \in Nat, NEW f \in [1 .. n -> S]
    PROVE  f \in Seq(S) /\ Len(f) = n
<1>1. f \in Seq(S)
    BY SeqDef
<1>2. DOMAIN f = 1 .. n /\ DOMAIN f = 1 .. Len(f) /\ Len(f) \in Nat
    BY <1>1, LenProperties
<1>. QED  BY <1>1, <1>2

\* Sequences that begin alike are joined alike.
LEMMA JoinsAgree ==
    ASSUME NEW s, NEW t, NEW f, NEW g, Joins(f, s), Joins(g, t),
           Len(s) \in Nat, Len(t) \in Nat, NEW m \in 0 .. Len(s), m <= Len(t),
           \A i \in 1 .. m : s[i] = t[i]
    PROVE  f[m] = g[m]
<1>. DEFINE I == {i \in Nat : i <= m => f[i] = g[i]}
<1>1. 0 \in I
    BY DEF Joins
<1>2. ASSUME NEW i \in Nat, i \in I PROVE i + 1 \in I
    <2>. SUFFICES ASSUME i + 1 <= m PROVE f[i + 1] = g[i + 1]
        OBVIOUS
    <2>1. f[i] = g[i] /\ i + 1 \in 1 .. m /\ i + 1 \in 1 .. Len(s) /\ i + 1 \in 1 .. Len(t)
        BY <1>2
    <2>2. f[i + 1] = f[(i + 1) - 1] \o s[i + 1] /\ g[i + 1] = g[(i + 1) - 1] \o t[i + 1]
        BY <2>1 DEF Joins
    <2>3. (i + 1) - 1 = i
        OBVIOUS
    <2>. QED  BY <2>1, <2>2, <2>3
<1>. HIDE DEF I
<1>3. \A i \in Nat : i \in I
    BY <1>1, <1>2, NatSets
<1>. QED  BY <1>3 DEF I

\* What FlattenSeq joins.
LEMMA FlattenJoins ==
    ASSUME NEW S, NEW seqs \in Seq(Seq(S)), NEW f, Joins(f, seqs)
    PROVE  FlattenSeq(seqs) = f[Len(seqs)]
<1>. DEFINE n == Len(seqs)
            Flat(h) == h = [i \in 1 .. n |-> IF i = 1 THEN seqs[i] ELSE h[i - 1] \o seqs[i]]
            c == CHOOSE h : Flat(h)
<1>0. n \in Nat /\ \A i \in 1 .. n : seqs[i] \in Seq(S)
    BY LenProperties, ElementOfSeq
<1>1. CASE n = 0
    <2>1. seqs = <<>>
        BY <1>1, EmptySeq
    <2>. QED  BY <1>1, <2>1 DEF FlattenSeq, Joins
<1>2. CASE n # 0
    <2>1. FlattenSeq(seqs) = c[n]
        BY <1>2 DEF FlattenSeq
    <2>2. \A i \in 1 .. n : f[i] = f[i - 1] \o seqs[i]
        BY DEF Joins
    <2>3. f[0] = <<>>
        BY DEF Joins
    <2>. HIDE DEF n
    <2>4. Flat([i \in 1 .. n |-> f[i]])
        <3>. DEFINE h == [i \in 1 .. n |-> f[i]]
        <3>1. ASSUME NEW i \in 1 .. n
              PROVE  h[i] = IF i = 1 THEN seqs[i] ELSE h[i - 1] \o seqs[i]
            <4>1. CASE i = 1
                <5>1. f[1] = f[0] \o seqs[1]
                    <6>1. f[1] = f[1 - 1] \o seqs[1]
                        BY <2>2, <4>1
                    <6>. QED  BY <6>1
                <5>2. <<>> \o seqs[1] = seqs[1]
                    BY <1>0, <4>1, ConcatEmptySeq
                <5>. QED  BY <2>3, <4>1, <5>1, <5>2
            <4>2. CASE i # 1
                <5>1. i - 1 \in 1 .. n
                    BY <1>0, <4>2
                <5>. QED  BY <2>2, <4>2, <5>1
            <4>. QED  BY <4>1, <4>2
        <3>. QED  BY <3>1
    <2>5. Flat(c)
        BY <2>4, Zenon
    <2>. HIDE DEF c
    <2>6. ASSUME NEW i \in 1 .. n
          PROVE  c[i] = IF i = 1 THEN seqs[i] ELSE c[i - 1] \o seqs[i]
        BY <2>5
    <2>. DEFINE g == [i \in 0 .. n |-> IF i = 0 THEN <<>> ELSE c[i]]
    <2>7. ASSUME NEW i \in 1 .. n PROVE g[i] = g[i - 1] \o seqs[i]
        <3>0. g[i] = c[i]
            OBVIOUS
        <3>1. CASE i = 1
            <4>1. c[1] = seqs[1]
                BY <2>6, <3>1
            <4>2. <<>> \o seqs[1] = seqs[1]
                BY <1>0, <3>1, ConcatEmptySeq
            <4>3. g[0] = <<>>
                BY <1>0
            <4>4. i - 1 = 0
                BY <3>1
            <4>5. g[i - 1] = <<>> /\ g[i] = seqs[1]
                BY <3>0, <3>1, <4>1, <4>3, <4>4
            <4>. QED  BY <3>1, <4>2, <4>5
        <3>2. CASE i # 1
            <4>1. i - 1 \in 1 .. n
                BY <1>0, <3>2
            <4>2. g[i - 1] = c[i - 1]
                BY <4>1
            <4>3. c[i] = c[i - 1] \o seqs[i]
                BY <2>6, <3>2
            <4>. QED  BY <3>0, <4>2, <4>3
        <3>. QED  BY <3>1, <3>2
    <2>8. g[0] = <<>> /\ g[n] = c[n]
        BY <1>0, <1>2 DEF n
    <2>. HIDE DEF g
    <2>9. Joins(g, seqs)
        BY <2>7, <2>8 DEF Joins, n
    <2>10. f[n] = g[n]
        BY <1>0, <2>9, JoinsAgree DEF n
    <2>. QED  BY <2>1, <2>8, <2>10 DEF n
<1>. QED  BY <1>1, <1>2

-----------------------------------------------------------------------------
(* Parts of a sequence.                                                    *)

\* The elements of s after the a-th up to the b-th.
Piece(s, a, b) == SubSeq(s, a + 1, b)

LEMMA PieceIs ==
    ASSUME NEW S, NEW s \in Seq(S), NEW a \in 0 .. Len(s), NEW b \in a .. Len(s)
    PROVE  /\ Piece(s, a, b) \in Seq(S)
           /\ Len(Piece(s, a, b)) = b - a
           /\ \A i \in 1 .. b - a : Piece(s, a, b)[i] = s[a + i]
<1>1. Len(s) \in Nat /\ \A i \in 1 .. Len(s) : s[i] \in S
    BY LenProperties, ElementOfSeq
<1>2. a + 1 \in Int /\ b \in Int /\ \A i \in a + 1 .. b : s[i] \in S
    BY <1>1
<1>3. /\ Piece(s, a, b) \in Seq(S)
      /\ Len(Piece(s, a, b)) = IF a + 1 <= b THEN b - (a + 1) + 1 ELSE 0
      /\ \A i \in 1 .. b - (a + 1) + 1 : Piece(s, a, b)[i] = s[(a + 1) + i - 1]
    BY <1>2, SubSeqProperties DEF Piece
<1>4. b - (a + 1) + 1 = b - a /\ (IF a + 1 <= b THEN b - (a + 1) + 1 ELSE 0) = b - a
    BY <1>1
<1>5. \A i \in 1 .. b - a : (a + 1) + i - 1 = a + i
    BY <1>1
<1>. QED  BY <1>3, <1>4, <1>5

LEMMA PieceJoin ==
    ASSUME NEW S, NEW s \in Seq(S), NEW a \in 0 .. Len(s), NEW b \in a .. Len(s), NEW c \in b .. Len(s)
    PROVE  Piece(s, a, b) \o Piece(s, b, c) = Piece(s, a, c)
<1>1. Len(s) \in Nat
    BY LenProperties
<1>2. a + 1 \in 1 .. Len(s) + 1 /\ b \in (a + 1) - 1 .. Len(s)
    BY <1>1
<1>. QED  BY <1>2, ConcatAdjacentSubSeq DEF Piece

LEMMA PieceOfPiece ==
    ASSUME NEW S, NEW s \in Seq(S), NEW a \in 0 .. Len(s), NEW c \in a .. Len(s),
           NEW i \in 0 .. c - a, NEW j \in i .. c - a
    PROVE  Piece(Piece(s, a, c), i, j) = Piece(s, a + i, a + j)
<1>. DEFINE p == Piece(s, a, c)
            l == Piece(p, i, j)
            r == Piece(s, a + i, a + j)
<1>0. Len(s) \in Nat
    BY LenProperties
<1>1. p \in Seq(S) /\ Len(p) = c - a /\ \A k \in 1 .. c - a : p[k] = s[a + k]
    BY PieceIs
<1>. HIDE DEF p
<1>2. i \in 0 .. Len(p) /\ j \in i .. Len(p)
    BY <1>0, <1>1
<1>3. l \in Seq(S) /\ Len(l) = j - i /\ \A k \in 1 .. j - i : l[k] = p[i + k]
    BY <1>1, <1>2, PieceIs
<1>4. a + i \in 0 .. Len(s) /\ a + j \in a + i .. Len(s)
    BY <1>0
<1>5. r \in Seq(S) /\ Len(r) = (a + j) - (a + i) /\ \A k \in 1 .. (a + j) - (a + i) : r[k] = s[(a + i) + k]
    BY <1>4, PieceIs
<1>. HIDE DEF l, r
<1>6. (a + j) - (a + i) = j - i
    BY <1>0
<1>7. ASSUME NEW k \in 1 .. Len(l) PROVE l[k] = r[k]
    <2>1. l[k] = p[i + k] /\ i + k \in 1 .. c - a
        BY <1>0, <1>3
    <2>2. r[k] = s[(a + i) + k]
        BY <1>3, <1>5, <1>6
    <2>3. (a + i) + k = a + (i + k)
        BY <1>0, <1>3
    <2>. QED  BY <1>1, <2>1, <2>2, <2>3
<1>8. l = r
    BY <1>3, <1>5, <1>6, <1>7, SeqEqual
<1>. QED  BY <1>8 DEF l, r, p

LEMMA PieceOfStart ==
    ASSUME NEW S, NEW s \in Seq(S), NEW c \in 0 .. Len(s), NEW i \in 0 .. c, NEW j \in i .. c
    PROVE  Piece(Piece(s, 0, c), i, j) = Piece(s, i, j)
<1>1. Len(s) \in Nat
    BY LenProperties
<1>2. PICK a \in 0 .. Len(s) : a = 0
    BY <1>1
<1>3. c \in a .. Len(s) /\ i \in 0 .. c - a /\ j \in i .. c - a
    BY <1>1, <1>2
<1>4. Piece(Piece(s, a, c), i, j) = Piece(s, a + i, a + j)
    BY <1>3, PieceOfPiece
<1>5. a + i = i /\ a + j = j
    BY <1>1, <1>2
<1>. QED  BY <1>2, <1>4, <1>5

LEMMA PieceAll ==
    ASSUME NEW S, NEW s \in Seq(S)
    PROVE  Piece(s, 0, Len(s)) = s
BY SubSeqFull DEF Piece

LEMMA PieceLast ==
    ASSUME NEW S, NEW s \in Seq(S), NEW b \in 1 .. Len(s)
    PROVE  Piece(s, 0, b) = Piece(s, 0, b - 1) \o <<s[b]>>
<1>1. Len(s) \in Nat
    BY LenProperties
<1>2. 1 \in 1 .. Len(s) /\ b \in 1 .. Len(s) /\ 0 + 1 = 1
    BY <1>1
<1>3. SubSeq(s, 1, b) = SubSeq(s, 1, b - 1) \o <<s[b]>>
    BY <1>2, SubSeqRecursiveSecond
<1>. QED  BY <1>2, <1>3 DEF Piece

LEMMA PieceNone ==
    ASSUME NEW s, NEW a \in Nat
    PROVE  Piece(s, a, a) = <<>>
BY SubSeqEmpty DEF Piece

\* A piece cut in two.
LEMMA PieceCutEnd ==
    ASSUME NEW S, NEW s \in Seq(S), NEW a \in 0 .. Len(s), NEW c \in a .. Len(s),
           NEW u \in Seq(S), NEW v \in Seq(S), u \o v = Piece(s, a, c)
    PROVE  a + Len(u) \in a .. c
<1>1. Len(s) \in Nat /\ Len(u) \in Nat /\ Len(v) \in Nat
    BY LenProperties
<1>2. Len(u \o v) = Len(u) + Len(v)
    BY ConcatProperties
<1>3. Len(Piece(s, a, c)) = c - a
    BY PieceIs
<1>. QED  BY <1>1, <1>2, <1>3

LEMMA PieceCut ==
    ASSUME NEW S, NEW s \in Seq(S), NEW a \in 0 .. Len(s), NEW c \in a .. Len(s),
           NEW u \in Seq(S), NEW v \in Seq(S), u \o v = Piece(s, a, c)
    PROVE  u = Piece(s, a, a + Len(u)) /\ v = Piece(s, a + Len(u), c)
<1>. DEFINE m == a + Len(u)
            p == Piece(s, a, m)
            q == Piece(s, m, c)
<1>0. Len(s) \in Nat /\ Len(u) \in Nat /\ Len(v) \in Nat
    BY LenProperties
<1>1. /\ Len(u) + Len(v) = c - a
      /\ \A i \in 1 .. Len(u) + Len(v) :
            (u \o v)[i] = IF i <= Len(u) THEN u[i] ELSE v[i - Len(u)]
      /\ \A i \in 1 .. c - a : (u \o v)[i] = s[a + i]
    <2>1. /\ Len(u \o v) = Len(u) + Len(v)
          /\ \A i \in 1 .. Len(u) + Len(v) :
                (u \o v)[i] = IF i <= Len(u) THEN u[i] ELSE v[i - Len(u)]
        BY ConcatProperties
    <2>2. /\ Len(Piece(s, a, c)) = c - a
          /\ \A i \in 1 .. c - a : Piece(s, a, c)[i] = s[a + i]
        BY PieceIs
    <2>. QED  BY <2>1, <2>2
<1>2. m \in a .. c /\ m \in 0 .. Len(s) /\ m \in a .. Len(s) /\ c \in m .. Len(s)
    BY <1>0, <1>1
<1>3. /\ p \in Seq(S) /\ Len(p) = m - a /\ \A i \in 1 .. m - a : p[i] = s[a + i]
      /\ q \in Seq(S) /\ Len(q) = c - m /\ \A i \in 1 .. c - m : q[i] = s[m + i]
    BY <1>2, PieceIs
<1>. HIDE DEF p, q
<1>4. Len(p) = Len(u) /\ Len(q) = Len(v)
    BY <1>0, <1>1, <1>3
<1>5. ASSUME NEW i \in 1 .. Len(u) PROVE u[i] = p[i]
    <2>1. i \in 1 .. Len(u) + Len(v) /\ i \in 1 .. c - a /\ i \in 1 .. m - a /\ i <= Len(u)
        BY <1>0, <1>1
    <2>. QED  BY <1>1, <1>3, <2>1
<1>6. ASSUME NEW i \in 1 .. Len(v) PROVE v[i] = q[i]
    <2>. DEFINE k == i + Len(u)
    <2>1. /\ k \in 1 .. Len(u) + Len(v) /\ k \in 1 .. c - a /\ i \in 1 .. c - m
          /\ ~(k <= Len(u)) /\ k - Len(u) = i /\ a + k = m + i
        BY <1>0, <1>1
    <2>2. (u \o v)[k] = v[k - Len(u)] /\ (u \o v)[k] = s[a + k]
        BY <1>1, <2>1
    <2>3. q[i] = s[m + i]
        BY <1>3, <2>1
    <2>. HIDE DEF k
    <2>. QED  BY <2>1, <2>2, <2>3
<1>7. u = p /\ v = q
    BY <1>3, <1>4, <1>5, <1>6, SeqEqual
<1>. QED  BY <1>7 DEF p, q

LEMMA ConcatPieces ==
    ASSUME NEW S, NEW u \in Seq(S), NEW v \in Seq(S)
    PROVE  /\ u = Piece(u \o v, 0, Len(u))
           /\ v = Piece(u \o v, Len(u), Len(u) + Len(v))
<1>. DEFINE w == u \o v
            p == Piece(w, 0, Len(u))
            q == Piece(w, Len(u), Len(u) + Len(v))
<1>0. Len(u) \in Nat /\ Len(v) \in Nat
    BY LenProperties
<1>1. /\ w \in Seq(S) /\ Len(w) = Len(u) + Len(v)
      /\ \A i \in 1 .. Len(u) + Len(v) : w[i] = IF i <= Len(u) THEN u[i] ELSE v[i - Len(u)]
    BY ConcatProperties
<1>. HIDE DEF w
<1>2. /\ 0 \in 0 .. Len(w) /\ Len(u) \in 0 .. Len(w)
      /\ Len(u) + Len(v) \in Len(u) .. Len(w)
    BY <1>0, <1>1
<1>3. p \in Seq(S) /\ Len(p) = Len(u) /\ \A i \in 1 .. Len(u) : p[i] = w[i]
    <2>1. p \in Seq(S) /\ Len(p) = Len(u) - 0 /\ \A i \in 1 .. Len(u) - 0 : p[i] = w[0 + i]
        BY <1>1, <1>2, PieceIs
    <2>. HIDE DEF p
    <2>. QED  BY <1>0, <2>1
<1>4. q \in Seq(S) /\ Len(q) = Len(v) /\ \A i \in 1 .. Len(v) : q[i] = w[Len(u) + i]
    <2>. DEFINE m == Len(u)
                n == Len(u) + Len(v)
    <2>1. m \in 0 .. Len(w) /\ n \in m .. Len(w) /\ n - m = Len(v)
        BY <1>0, <1>2
    <2>2. q = Piece(w, m, n)
        OBVIOUS
    <2>. HIDE DEF m, n, q
    <2>3. q \in Seq(S) /\ Len(q) = n - m /\ \A i \in 1 .. n - m : q[i] = w[m + i]
        BY <1>1, <2>1, <2>2, PieceIs
    <2>. QED  BY <2>1, <2>3 DEF m
<1>. HIDE DEF p, q
<1>5. ASSUME NEW i \in 1 .. Len(u) PROVE u[i] = p[i]
    BY <1>0, <1>1, <1>3
<1>6. ASSUME NEW i \in 1 .. Len(v) PROVE v[i] = q[i]
    <2>1. /\ Len(u) + i \in 1 .. Len(u) + Len(v) /\ ~(Len(u) + i <= Len(u))
          /\ (Len(u) + i) - Len(u) = i
        BY <1>0
    <2>. QED  BY <1>1, <1>4, <2>1
<1>7. u = p /\ v = q
    BY <1>3, <1>4, <1>5, <1>6, SeqEqual
<1>. QED  BY <1>7 DEF p, q, w

-----------------------------------------------------------------------------
(* Ends of blocks and of lines, and what SkipEmptyParts leaves out.        *)

\* Of parts of which only the last is empty, the others are left.
LEMMA NonEmptyOf ==
    ASSUME NEW S, NEW parts \in Seq(S), NEW n \in Nat, Len(parts) = n + 1,
           \A i \in 1 .. n : parts[i] # <<>>, parts[n + 1] = <<>>
    PROVE  NonEmpty(parts) = Piece(parts, 0, n)
<1>. DEFINE seqs == [k \in DOMAIN parts |-> IF parts[k] = <<>> THEN <<>> ELSE <<parts[k]>>]
            f == [i \in 0 .. n + 1 |-> Piece(parts, 0, IF i = n + 1 THEN n ELSE i)]
<1>1. DOMAIN parts = 1 .. n + 1 /\ \A i \in 1 .. n + 1 : parts[i] \in S
    BY LenProperties, ElementOfSeq
<1>2. \A i \in 1 .. n + 1 : seqs[i] \in Seq(S)
    BY <1>1, EmptySeq
<1>3. seqs \in Seq(Seq(S)) /\ Len(seqs) = n + 1
    <2>1. seqs \in [1 .. n + 1 -> Seq(S)]
        BY <1>1, <1>2
    <2>. HIDE DEF seqs
    <2>. QED  BY <2>1, FunctionIsSeq
<1>4. ASSUME NEW i \in 1 .. n + 1 PROVE f[i] = f[i - 1] \o seqs[i]
    <2>1. CASE i = n + 1
        <3>1. seqs[i] = <<>> /\ i - 1 = n /\ f[i] = Piece(parts, 0, n) /\ f[n] = Piece(parts, 0, n)
            BY <1>1, <2>1
        <3>2. Piece(parts, 0, n) \in Seq(S)
            <4>1. 0 \in 0 .. Len(parts) /\ n \in 0 .. Len(parts)
                OBVIOUS
            <4>. QED  BY <4>1, PieceIs
        <3>. QED  BY <3>1, <3>2, ConcatEmptySeq
    <2>2. CASE i # n + 1
        <3>1. /\ i - 1 \in 0 .. n + 1 /\ f[i - 1] = Piece(parts, 0, i - 1)
              /\ f[i] = Piece(parts, 0, i)
              /\ seqs[i] = <<parts[i]>>
            BY <1>1, <2>2
        <3>2. Piece(parts, 0, i) = Piece(parts, 0, i - 1) \o <<parts[i]>>
            <4>1. i \in 1 .. Len(parts)
                OBVIOUS
            <4>. QED  BY <4>1, PieceLast
        <3>. QED  BY <3>1, <3>2
    <2>. QED  BY <2>1, <2>2
<1>5. f[0] = <<>> /\ f[n + 1] = Piece(parts, 0, n)
    <2>1. Piece(parts, 0, 0) = <<>>
        BY PieceNone
    <2>. QED  BY <2>1
<1>. HIDE DEF f, seqs
<1>6. Joins(f, seqs)
    BY <1>3, <1>4, <1>5 DEF Joins
<1>7. FlattenSeq(seqs) = f[n + 1]
    BY <1>3, <1>6, FlattenJoins
<1>. QED  BY <1>5, <1>7 DEF NonEmpty, seqs

LEMMA EndBlockIs ==
    /\ EndLine \in Seq(Char) /\ Len(EndLine) = 2 /\ EndLine[1] = "CR" /\ EndLine[2] = "LF"
    /\ EndBlock \in Seq(Char) /\ Len(EndBlock) = 4
    /\ EndBlock[1] = "CR" /\ EndBlock[2] = "LF" /\ EndBlock[3] = "CR" /\ EndBlock[4] = "LF"
<1>1. EndLine \in Seq(Char) /\ Len(EndLine) = 2 /\ EndLine[1] = "CR" /\ EndLine[2] = "LF"
    BY DEF EndLine, Char
<1>2. /\ EndBlock \in Seq(Char)
      /\ Len(EndBlock) = Len(EndLine) + Len(EndLine)
      /\ \A i \in 1 .. Len(EndLine) + Len(EndLine) :
            EndBlock[i] = IF i <= Len(EndLine) THEN EndLine[i] ELSE EndLine[i - Len(EndLine)]
    BY <1>1, ConcatProperties DEF EndBlock
<1>3. Len(EndBlock) = 4 /\ \A i \in 1 .. 4 : EndBlock[i] = IF i <= 2 THEN EndLine[i] ELSE EndLine[i - 2]
    BY <1>1, <1>2
<1>4. /\ EndBlock[1] = EndLine[1] /\ EndBlock[2] = EndLine[2]
      /\ EndBlock[3] = EndLine[1] /\ EndBlock[4] = EndLine[2]
    BY <1>3
<1>. QED  BY <1>1, <1>2, <1>3, <1>4

\* An end of a block or of a line, character by character.
LEMMA EndBlockAt ==
    ASSUME NEW S, NEW s \in Seq(S), NEW i \in Int
    PROVE  i \in At(EndBlock, s) <=>
                /\ i \in 1 .. Len(s) - 3
                /\ s[i] = "CR" /\ s[i + 1] = "LF" /\ s[i + 2] = "CR" /\ s[i + 3] = "LF"
<1>1. Len(s) \in Nat /\ \A j \in 1 .. Len(s) : s[j] \in S
    BY LenProperties, ElementOfSeq
<1>2. i \in At(EndBlock, s) <=> i \in 1 .. Len(s) - 3 /\ SubSeq(s, i, i + 3) = EndBlock
    BY <1>1, EndBlockIs DEF At
<1>3. ASSUME i \in 1 .. Len(s) - 3
      PROVE  SubSeq(s, i, i + 3) = EndBlock <=>
                s[i] = "CR" /\ s[i + 1] = "LF" /\ s[i + 2] = "CR" /\ s[i + 3] = "LF"
    <2>. DEFINE t == SubSeq(s, i, i + 3)
    <2>1. \A j \in i .. i + 3 : s[j] \in S
        BY <1>1, <1>3
    <2>2. /\ t \in Seq(S) /\ Len(t) = (i + 3) - i + 1
          /\ \A j \in 1 .. (i + 3) - i + 1 : t[j] = s[i + j - 1]
        BY <1>3, <2>1, SubSeqProperties
    <2>3. /\ t[1] = s[i] /\ t[2] = s[i + 1] /\ t[3] = s[i + 2] /\ t[4] = s[i + 3]
          /\ Len(t) = 4
        BY <1>3, <2>2
    <2>. HIDE DEF t
    <2>4. ASSUME s[i] = "CR" /\ s[i + 1] = "LF" /\ s[i + 2] = "CR" /\ s[i + 3] = "LF"
          PROVE  t = EndBlock
        <3>1. \A j \in 1 .. 4 : t[j] = EndBlock[j]
            BY <2>3, <2>4, EndBlockIs
        <3>2. t \in Seq(S \cup Char) /\ EndBlock \in Seq(S \cup Char)
            BY <2>2, EndBlockIs, SeqMonotonic
        <3>. QED  BY <2>3, <3>1, <3>2, EndBlockIs, SeqEqual
    <2>5. ASSUME t = EndBlock
          PROVE  s[i] = "CR" /\ s[i + 1] = "LF" /\ s[i + 2] = "CR" /\ s[i + 3] = "LF"
        BY <2>3, <2>5, EndBlockIs
    <2>. QED  BY <2>4, <2>5 DEF t
<1>. QED  BY <1>2, <1>3

LEMMA EndLineAt ==
    ASSUME NEW S, NEW s \in Seq(S), NEW i \in Int
    PROVE  i \in At(EndLine, s) <=> i \in 1 .. Len(s) - 1 /\ s[i] = "CR" /\ s[i + 1] = "LF"
<1>1. Len(s) \in Nat /\ \A j \in 1 .. Len(s) : s[j] \in S
    BY LenProperties, ElementOfSeq
<1>2. i \in At(EndLine, s) <=> i \in 1 .. Len(s) - 1 /\ SubSeq(s, i, i + 1) = EndLine
    BY <1>1, EndBlockIs DEF At
<1>3. ASSUME i \in 1 .. Len(s) - 1
      PROVE  SubSeq(s, i, i + 1) = EndLine <=> s[i] = "CR" /\ s[i + 1] = "LF"
    <2>. DEFINE t == SubSeq(s, i, i + 1)
    <2>1. \A j \in i .. i + 1 : s[j] \in S
        BY <1>1, <1>3
    <2>2. /\ t \in Seq(S) /\ Len(t) = (i + 1) - i + 1
          /\ \A j \in 1 .. (i + 1) - i + 1 : t[j] = s[i + j - 1]
        BY <1>3, <2>1, SubSeqProperties
    <2>3. t[1] = s[i] /\ t[2] = s[i + 1] /\ Len(t) = 2
        <3>1. (i + 1) - i + 1 = 2 /\ i + 1 - 1 = i /\ i + 2 - 1 = i + 1
            OBVIOUS
        <3>. QED  BY <2>2, <3>1
    <2>. HIDE DEF t
    <2>4. ASSUME s[i] = "CR" /\ s[i + 1] = "LF"
          PROVE  t = EndLine
        <3>1. \A j \in 1 .. 2 : t[j] = EndLine[j]
            BY <2>3, <2>4, EndBlockIs
        <3>2. t \in Seq(S \cup Char) /\ EndLine \in Seq(S \cup Char)
            BY <2>2, EndBlockIs, SeqMonotonic
        <3>. QED  BY <2>3, <3>1, <3>2, EndBlockIs, SeqEqual
    <2>5. ASSUME t = EndLine
          PROVE  s[i] = "CR" /\ s[i + 1] = "LF"
        BY <2>3, <2>5, EndBlockIs
    <2>. QED  BY <2>4, <2>5 DEF t
<1>. QED  BY <1>2, <1>3

\* The ends of blocks in a piece are those of the whole within its limits.
LEMMA AtPiece ==
    ASSUME NEW S, NEW s \in Seq(S), NEW a \in 0 .. Len(s), NEW c \in a .. Len(s), NEW i \in Int
    PROVE  i \in At(EndBlock, Piece(s, a, c)) <=>
                i \in 1 .. (c - a) - 3 /\ a + i \in At(EndBlock, s)
<1>. DEFINE p == Piece(s, a, c)
<1>1. Len(s) \in Nat
    BY LenProperties
<1>2. p \in Seq(S) /\ Len(p) = c - a /\ \A k \in 1 .. c - a : p[k] = s[a + k]
    BY PieceIs
<1>. HIDE DEF p
<1>3. i \in At(EndBlock, p) <=>
                /\ i \in 1 .. (c - a) - 3
                /\ p[i] = "CR" /\ p[i + 1] = "LF" /\ p[i + 2] = "CR" /\ p[i + 3] = "LF"
    BY <1>2, EndBlockAt
<1>4. a + i \in At(EndBlock, s) <=>
                /\ a + i \in 1 .. Len(s) - 3
                /\ s[a + i] = "CR" /\ s[(a + i) + 1] = "LF"
                /\ s[(a + i) + 2] = "CR" /\ s[(a + i) + 3] = "LF"
    BY EndBlockAt
<1>5. ASSUME i \in 1 .. (c - a) - 3
      PROVE  /\ p[i] = s[a + i] /\ p[i + 1] = s[(a + i) + 1]
             /\ p[i + 2] = s[(a + i) + 2] /\ p[i + 3] = s[(a + i) + 3]
             /\ a + i \in 1 .. Len(s) - 3
    <2>1. i \in 1 .. c - a /\ i + 1 \in 1 .. c - a /\ i + 2 \in 1 .. c - a /\ i + 3 \in 1 .. c - a
        BY <1>1, <1>5
    <2>2. p[i] = s[a + i] /\ p[i + 1] = s[a + (i + 1)] /\ p[i + 2] = s[a + (i + 2)] /\ p[i + 3] = s[a + (i + 3)]
        BY <1>2, <2>1
    <2>3. a + (i + 1) = (a + i) + 1 /\ a + (i + 2) = (a + i) + 2 /\ a + (i + 3) = (a + i) + 3
        BY <1>1
    <2>4. a + i \in 1 .. Len(s) - 3
        BY <1>1, <1>5
    <2>. QED  BY <2>2, <2>3, <2>4
<1>. QED  BY <1>3, <1>4, <1>5 DEF p

-----------------------------------------------------------------------------
(* Split.                                                                  *)

\* The text before and after the first end of a block.
Before(s) == SubSeq(s, 1, Min(At(EndBlock, s)) - 1)
After(s) == From(s, Min(At(EndBlock, s)) + Len(EndBlock))

LEMMA FirstEnd ==
    ASSUME NEW S, NEW s \in Seq(S), At(EndBlock, s) # {}
    PROVE  /\ Min(At(EndBlock, s)) \in At(EndBlock, s)
           /\ \A i \in At(EndBlock, s) : Min(At(EndBlock, s)) <= i
           /\ Min(At(EndBlock, s)) \in 1 .. Len(s) - 3
<1>1. Len(s) \in Nat
    BY LenProperties
<1>2. At(EndBlock, s) \subseteq 1 .. Len(s) - 3
    BY <1>1, EndBlockIs DEF At
<1>3. At(EndBlock, s) \in SUBSET Nat
    BY <1>1, <1>2
<1>. QED  BY <1>2, <1>3, MinOf

LEMMA AfterIs ==
    ASSUME NEW S, NEW s \in Seq(S), At(EndBlock, s) # {}
    PROVE  After(s) \in Seq(S) /\ Len(After(s)) < Len(s) /\ Before(s) \in Seq(S)
<1>. DEFINE m == Min(At(EndBlock, s))
<1>1. m \in 1 .. Len(s) - 3 /\ Len(s) \in Nat /\ Len(EndBlock) = 4
    BY FirstEnd, LenProperties, EndBlockIs
<1>2. m + 4 \in Int /\ \A i \in m + 4 .. Len(s) : s[i] \in S
    BY <1>1, ElementOfSeq
<1>3. After(s) = SubSeq(s, m + 4, Len(s))
    BY <1>1 DEF After, From
<1>4. m - 1 \in Int /\ \A i \in 1 .. m - 1 : s[i] \in S
    BY <1>1, ElementOfSeq
<1>5. Before(s) = SubSeq(s, 1, m - 1)
    BY DEF Before
<1>. HIDE DEF m
<1>6. /\ After(s) \in Seq(S)
      /\ Len(After(s)) = IF m + 4 <= Len(s) THEN Len(s) - (m + 4) + 1 ELSE 0
    BY <1>1, <1>2, <1>3, SubSeqProperties
<1>7. Before(s) \in Seq(S)
    BY <1>4, <1>5, SubSeqProperties
<1>. QED  BY <1>1, <1>6, <1>7

\* One level of the recursion.
Cut(f, s) == IF At(EndBlock, s) = {} THEN <<s>> ELSE <<Before(s)>> \o f[After(s)]

\* f cuts texts of up to n characters as Split does.
CutsUpTo(f, n) == \A s \in Seq(Char) : Len(s) <= n => f[s] = Cut(f, s)

LEMMA CutsExist ==
    ASSUME NEW n \in Nat
    PROVE  \E f : CutsUpTo(f, n)
<1>. DEFINE I == {i \in Nat : \E f : CutsUpTo(f, i)}
<1>1. 0 \in I
    <2>. DEFINE f == [s \in Seq(Char) |-> <<s>>]
    <2>1. ASSUME NEW s \in Seq(Char), Len(s) <= 0 PROVE f[s] = Cut(f, s)
        <3>1. At(EndBlock, s) = {}
            <4>1. Len(s) \in Nat
                BY LenProperties
            <4>2. ~(\E i \in At(EndBlock, s) : TRUE)
                BY <2>1, <4>1, EndBlockIs DEF At
            <4>. QED  BY <4>2
        <3>. QED  BY <3>1 DEF Cut
    <2>. HIDE DEF f
    <2>2. CutsUpTo(f, 0)
        BY <2>1 DEF CutsUpTo
    <2>. QED  BY <2>2
<1>2. ASSUME NEW i \in Nat, i \in I PROVE i + 1 \in I
    <2>1. PICK f : CutsUpTo(f, i)
        BY <1>2
    <2>. DEFINE g == [s \in Seq(Char) |-> Cut(f, s)]
    <2>2. ASSUME NEW s \in Seq(Char), Len(s) <= i + 1 PROVE g[s] = Cut(g, s)
        <3>1. CASE At(EndBlock, s) = {}
            BY <3>1 DEF Cut
        <3>2. CASE At(EndBlock, s) # {}
            <4>1. After(s) \in Seq(Char) /\ Len(After(s)) < Len(s)
                BY <3>2, AfterIs
            <4>2. Len(After(s)) <= i
                BY <2>2, <4>1, LenProperties
            <4>3. f[After(s)] = Cut(f, After(s)) /\ g[After(s)] = Cut(f, After(s))
                BY <2>1, <4>1, <4>2 DEF CutsUpTo
            <4>4. g[s] = Cut(f, s)
                OBVIOUS
            <4>. HIDE DEF g
            <4>. QED  BY <3>2, <4>3, <4>4 DEF Cut
        <3>. QED  BY <3>1, <3>2
    <2>. HIDE DEF g
    <2>3. CutsUpTo(g, i + 1)
        BY <2>2 DEF CutsUpTo
    <2>. QED  BY <2>3
<1>. HIDE DEF I
<1>3. n \in I
    BY <1>1, <1>2, NatSets
<1>. QED  BY <1>3 DEF I

LEMMA CutsAgree ==
    ASSUME NEW f, NEW g, NEW n \in Nat, NEW m \in Nat, CutsUpTo(f, n), CutsUpTo(g, m),
           NEW s \in Seq(Char), Len(s) <= n, Len(s) <= m
    PROVE  f[s] = g[s]
<1>. DEFINE I == {i \in Nat : \A t \in Seq(Char) : Len(t) <= i /\ Len(t) <= n /\ Len(t) <= m => f[t] = g[t]}
<1>1. ASSUME NEW i \in Nat,
             \A t \in Seq(Char) : Len(t) < i /\ Len(t) <= n /\ Len(t) <= m => f[t] = g[t],
             NEW t \in Seq(Char), Len(t) <= i, Len(t) <= n, Len(t) <= m
      PROVE  f[t] = g[t]
    <2>1. f[t] = Cut(f, t) /\ g[t] = Cut(g, t)
        BY <1>1 DEF CutsUpTo
    <2>2. CASE At(EndBlock, t) = {}
        BY <2>1, <2>2 DEF Cut
    <2>3. CASE At(EndBlock, t) # {}
        <3>1. After(t) \in Seq(Char) /\ Len(After(t)) < Len(t) /\ Len(t) \in Nat /\ Len(After(t)) \in Nat
            BY <2>3, AfterIs, LenProperties
        <3>2. Len(After(t)) < i /\ Len(After(t)) <= n /\ Len(After(t)) <= m
            BY <1>1, <3>1
        <3>3. f[After(t)] = g[After(t)]
            BY <1>1, <3>1, <3>2
        <3>. QED  BY <2>1, <2>3, <3>3 DEF Cut
    <2>. QED  BY <2>2, <2>3
<1>2. 0 \in I
    <2>1. \A t \in Seq(Char) : ~(Len(t) < 0)
        BY LenProperties
    <2>. QED  BY <1>1, <2>1
<1>3. ASSUME NEW i \in Nat, i \in I PROVE i + 1 \in I
    <2>1. \A t \in Seq(Char) : Len(t) < i + 1 => Len(t) <= i
        BY LenProperties
    <2>2. \A t \in Seq(Char) : Len(t) < i + 1 /\ Len(t) <= n /\ Len(t) <= m => f[t] = g[t]
        BY <1>3, <2>1
    <2>3. i + 1 \in Nat
        OBVIOUS
    <2>. QED  BY <1>1, <2>2, <2>3
<1>4. Len(s) \in Nat
    BY LenProperties
<1>. HIDE DEF I
<1>5. Len(s) \in I
    BY <1>2, <1>3, <1>4, NatSets
<1>. QED  BY <1>4, <1>5 DEF I

\* The recursion of Split is well founded.
LEMMA SplitIs ==
    ASSUME NEW s \in Seq(Char)
    PROVE  Split[s] = IF At(EndBlock, s) = {} THEN <<s>> ELSE <<Before(s)>> \o Split[After(s)]
<1>. DEFINE c(t) == CHOOSE f : CutsUpTo(f, Len(t))
            F == [t \in Seq(Char) |-> c(t)[t]]
            IsSplit(f) == f = [t \in Seq(Char) |->
                                IF At(EndBlock, t) = {} THEN <<t>>
                                ELSE <<SubSeq(t, 1, Min(At(EndBlock, t)) - 1)>>
                                        \o f[From(t, Min(At(EndBlock, t)) + Len(EndBlock))]]
<1>1. ASSUME NEW t \in Seq(Char) PROVE CutsUpTo(c(t), Len(t)) /\ Len(t) \in Nat
    <2>1. Len(t) \in Nat
        BY LenProperties
    <2>2. \E f : CutsUpTo(f, Len(t))
        BY <2>1, CutsExist
    <2>. QED  BY <2>1, <2>2
<1>. HIDE DEF c
<1>2. ASSUME NEW t \in Seq(Char) PROVE F[t] = Cut(F, t)
    <2>1. F[t] = c(t)[t] /\ c(t)[t] = Cut(c(t), t)
        BY <1>1 DEF CutsUpTo
    <2>2. CASE At(EndBlock, t) = {}
        BY <2>1, <2>2 DEF Cut
    <2>3. CASE At(EndBlock, t) # {}
        <3>. DEFINE a == After(t)
        <3>1. a \in Seq(Char) /\ Len(a) < Len(t)
            BY <2>3, AfterIs
        <3>. HIDE DEF a
        <3>2. /\ CutsUpTo(c(t), Len(t)) /\ Len(t) \in Nat
              /\ CutsUpTo(c(a), Len(a)) /\ Len(a) \in Nat
            BY <1>1, <3>1
        <3>3. c(t)[a] = c(a)[a]
            BY <3>1, <3>2, CutsAgree
        <3>4. F[a] = c(a)[a]
            BY <3>1
        <3>. QED  BY <2>1, <2>3, <3>3, <3>4 DEF Cut, a
    <2>. QED  BY <2>2, <2>3
<1>3. IsSplit(F)
    <2>. DEFINE G == [t \in Seq(Char) |->
                                IF At(EndBlock, t) = {} THEN <<t>>
                                ELSE <<SubSeq(t, 1, Min(At(EndBlock, t)) - 1)>>
                                        \o F[From(t, Min(At(EndBlock, t)) + Len(EndBlock))]]
    <2>1. \A t \in Seq(Char) : F[t] = G[t]
        BY <1>2 DEF Cut, Before, After
    <2>2. F = [t \in Seq(Char) |-> F[t]] /\ G = [t \in Seq(Char) |-> G[t]]
        OBVIOUS
    <2>3. F = G
        <3>. HIDE DEF F, G
        <3>. QED  BY <2>1, <2>2, Zenon
    <2>. QED  BY <2>3
<1>. HIDE DEF F
<1>4. Split = CHOOSE f : IsSplit(f)
    BY DEF Split
<1>5. IsSplit(Split)
    BY <1>3, <1>4, Zenon
<1>. QED  BY <1>5 DEF Before, After

-----------------------------------------------------------------------------
(* Texts of blocks.                                                        *)

\* Texts of blocks as the server sends them.
Streams ==
    {R \in Seq(Seq(Char) \ {<<>>}) :
        \A k \in DOMAIN R :
            At(EndBlock, R[k]) = {} /\ Head(R[k]) \in Letters /\ Last(R[k]) \in Letters}

\* The text of the first k blocks of R, its length, and the text of them all.
Upto(R, k) == FlattenSeq([i \in 1 .. k |-> R[i] \o EndBlock])
Bound(R, k) == Len(Upto(R, k))
Whole(R) == Upto(R, Len(R))

LEMMA StreamIs ==
    ASSUME NEW R \in Streams
    PROVE  /\ R \in Seq(Seq(Char)) /\ Len(R) \in Nat /\ DOMAIN R = 1 .. Len(R)
           /\ \A k \in 1 .. Len(R) :
                /\ R[k] \in Seq(Char) /\ Len(R[k]) \in Nat \ {0}
                /\ At(EndBlock, R[k]) = {}
                /\ R[k][1] \in Letters /\ R[k][Len(R[k])] \in Letters
<1>1. R \in Seq(Seq(Char) \ {<<>>})
    BY DEF Streams
<1>2. R \in Seq(Seq(Char)) /\ Len(R) \in Nat /\ DOMAIN R = 1 .. Len(R)
    BY <1>1, SeqMonotonic, LenProperties
<1>3. ASSUME NEW k \in 1 .. Len(R)
      PROVE  /\ R[k] \in Seq(Char) /\ Len(R[k]) \in Nat \ {0}
             /\ At(EndBlock, R[k]) = {}
             /\ R[k][1] \in Letters /\ R[k][Len(R[k])] \in Letters
    <2>1. R[k] \in Seq(Char) \ {<<>>}
        BY <1>1, ElementOfSeq
    <2>2. Len(R[k]) \in Nat \ {0}
        BY <2>1, EmptySeq
    <2>3. At(EndBlock, R[k]) = {} /\ Head(R[k]) \in Letters /\ Last(R[k]) \in Letters
        BY <1>2 DEF Streams
    <2>4. Head(R[k]) = R[k][1]
        BY <2>1
    <2>. QED  BY <2>1, <2>2, <2>3, <2>4 DEF Last
<1>. QED  BY <1>2, <1>3

LEMMA EndedIs ==
    ASSUME NEW s \in Seq(Char)
    PROVE  /\ s \o EndBlock \in Seq(Char)
           /\ Len(s \o EndBlock) = Len(s) + 4
           /\ \A i \in 1 .. Len(s) + 4 :
                (s \o EndBlock)[i] = IF i <= Len(s) THEN s[i] ELSE EndBlock[i - Len(s)]
<1>1. EndBlock \in Seq(Char) /\ Len(EndBlock) = 4
    BY EndBlockIs
<1>2. /\ s \o EndBlock \in Seq(Char)
      /\ Len(s \o EndBlock) = Len(s) + Len(EndBlock)
      /\ \A i \in 1 .. Len(s) + Len(EndBlock) :
            (s \o EndBlock)[i] = IF i <= Len(s) THEN s[i] ELSE EndBlock[i - Len(s)]
    BY <1>1, ConcatProperties
<1>. QED  BY <1>1, <1>2

LEMMA UptoIs ==
    ASSUME NEW R \in Seq(Seq(Char))
    PROVE  /\ Upto(R, 0) = <<>>
           /\ \A k \in 0 .. Len(R) : Upto(R, k) \in Seq(Char)
           /\ \A k \in 1 .. Len(R) : Upto(R, k) = Upto(R, k - 1) \o (R[k] \o EndBlock)
<1>. DEFINE n == Len(R)
            To(k) == [i \in 1 .. k |-> R[i] \o EndBlock]
<1>0. n \in Nat /\ \A i \in 1 .. n : R[i] \in Seq(Char)
    BY LenProperties, ElementOfSeq
<1>1. \A i \in 1 .. n : R[i] \o EndBlock \in Seq(Char)
    BY <1>0, EndBlockIs, ConcatProperties
<1>2. ASSUME NEW k \in 0 .. n PROVE To(k) \in Seq(Seq(Char)) /\ Len(To(k)) = k
    <2>1. To(k) \in [1 .. k -> Seq(Char)] /\ k \in Nat
        BY <1>0, <1>1
    <2>. HIDE DEF To
    <2>. QED  BY <2>1, FunctionIsSeq
<1>3. n \in 0 .. n
    BY <1>0
<1>5. PICK g \in [0 .. Len(To(n)) -> Seq(Char)] : Joins(g, To(n))
    <2>. HIDE DEF To
    <2>. QED  BY <1>2, <1>3, JoinsExist
<1>6. g \in [0 .. n -> Seq(Char)] /\ g[0] = <<>> /\ \A i \in 1 .. n : g[i] = g[i - 1] \o (R[i] \o EndBlock)
    <2>1. \A i \in 1 .. n : To(n)[i] = R[i] \o EndBlock
        OBVIOUS
    <2>2. Len(To(n)) = n
        BY <1>2, <1>3
    <2>3. g[0] = <<>> /\ \A i \in 1 .. n : g[i] = g[i - 1] \o To(n)[i]
        <3>. HIDE DEF To
        <3>. QED  BY <1>5, <2>2 DEF Joins
    <2>4. g \in [0 .. n -> Seq(Char)]
        BY <1>5, <2>2
    <2>. QED  BY <2>1, <2>3, <2>4
<1>7. ASSUME NEW k \in 0 .. n PROVE Upto(R, k) = g[k]
    <2>1. \A i \in 1 .. k : To(k)[i] = R[i] \o EndBlock /\ i \in 1 .. n
        BY <1>0
    <2>2. To(k) \in Seq(Seq(Char)) /\ Len(To(k)) = k
        BY <1>2
    <2>3. Joins(g, To(k))
        <3>. HIDE DEF To
        <3>. QED  BY <1>6, <2>1, <2>2 DEF Joins
    <2>4. Upto(R, k) = FlattenSeq(To(k))
        BY DEF Upto
    <2>. HIDE DEF To
    <2>. QED  BY <2>2, <2>3, <2>4, FlattenJoins
<1>8. ASSUME NEW k \in 1 .. n PROVE Upto(R, k) = Upto(R, k - 1) \o (R[k] \o EndBlock)
    <2>1. k \in 0 .. n /\ k - 1 \in 0 .. n
        BY <1>0
    <2>. QED  BY <1>6, <1>7, <2>1
<1>9. 0 \in 0 .. n
    BY <1>0
<1>. QED  BY <1>6, <1>7, <1>8, <1>9

LEMMA BoundStep ==
    ASSUME NEW R \in Streams
    PROVE  /\ Bound(R, 0) = 0
           /\ \A k \in 0 .. Len(R) : Bound(R, k) \in Nat
           /\ \A k \in 1 .. Len(R) : Bound(R, k) = Bound(R, k - 1) + Len(R[k]) + 4
<1>1. /\ R \in Seq(Seq(Char)) /\ Len(R) \in Nat
      /\ \A k \in 1 .. Len(R) : R[k] \in Seq(Char) /\ Len(R[k]) \in Nat \ {0}
    BY StreamIs
<1>2. Bound(R, 0) = 0
    BY <1>1, UptoIs, EmptySeq DEF Bound
<1>3. \A k \in 0 .. Len(R) : Bound(R, k) \in Nat
    BY <1>1, UptoIs, LenProperties DEF Bound
<1>4. ASSUME NEW k \in 1 .. Len(R) PROVE Bound(R, k) = Bound(R, k - 1) + Len(R[k]) + 4
    <2>1. k - 1 \in 0 .. Len(R)
        BY <1>1
    <2>2. /\ Upto(R, k - 1) \in Seq(Char)
          /\ Upto(R, k) = Upto(R, k - 1) \o (R[k] \o EndBlock)
        BY <1>1, <2>1, UptoIs
    <2>. DEFINE u == Upto(R, k - 1)
                v == R[k] \o EndBlock
    <2>3. R[k] \in Seq(Char) /\ Len(R[k]) \in Nat
        BY <1>1
    <2>4. v \in Seq(Char) /\ Len(v) = Len(R[k]) + 4
        BY <2>3, EndedIs
    <2>5. u \in Seq(Char) /\ Upto(R, k) = u \o v
        BY <2>2
    <2>. HIDE DEF u, v
    <2>6. Len(u \o v) = Len(u) + Len(v) /\ Len(u) \in Nat
        BY <2>4, <2>5, ConcatProperties, LenProperties
    <2>7. Len(u \o v) = Len(u) + Len(R[k]) + 4
        BY <2>3, <2>4, <2>6
    <2>. QED  BY <2>5, <2>7 DEF Bound, u
<1>. QED  BY <1>2, <1>3, <1>4

\* The texts of fewer blocks begin the texts of more.
LEMMA UptoPiece ==
    ASSUME NEW R \in Streams, NEW k \in 0 .. Len(R), NEW m \in k .. Len(R)
    PROVE  /\ Bound(R, k) + 5 * (m - k) <= Bound(R, m)
           /\ Upto(R, k) = Piece(Upto(R, m), 0, Bound(R, k))
<1>. DEFINE Begins(j) == /\ Bound(R, k) + 5 * (j - k) <= Bound(R, j)
                         /\ Upto(R, k) = Piece(Upto(R, j), 0, Bound(R, k))
            I == {i \in Nat : k + i <= Len(R) => Begins(k + i)}
<1>1. /\ R \in Seq(Seq(Char)) /\ Len(R) \in Nat
      /\ \A j \in 1 .. Len(R) : R[j] \in Seq(Char) /\ Len(R[j]) \in Nat \ {0}
      /\ \A j \in 0 .. Len(R) : Upto(R, j) \in Seq(Char) /\ Bound(R, j) \in Nat
      /\ \A j \in 1 .. Len(R) : Bound(R, j) = Bound(R, j - 1) + Len(R[j]) + 4
      /\ \A j \in 1 .. Len(R) : Upto(R, j) = Upto(R, j - 1) \o (R[j] \o EndBlock)
    BY StreamIs, UptoIs, BoundStep
<1>2. Begins(k)
    <2>1. Upto(R, k) \in Seq(Char) /\ Bound(R, k) \in Nat
        BY <1>1
    <2>2. Upto(R, k) = Piece(Upto(R, k), 0, Bound(R, k))
        BY <2>1, PieceAll DEF Bound
    <2>. QED  BY <1>1, <2>1, <2>2
<1>3. ASSUME NEW i \in Nat, k + i + 1 <= Len(R), Begins(k + i) PROVE Begins(k + i + 1)
    <2>. DEFINE j == k + i
    <2>1. j \in 0 .. Len(R) /\ j + 1 \in 1 .. Len(R) /\ (j + 1) - 1 = j
        BY <1>1, <1>3
    <2>2. Bound(R, j + 1) = Bound(R, j) + Len(R[j + 1]) + 4 /\ Len(R[j + 1]) \in Nat \ {0}
        BY <1>1, <2>1
    <2>3. Bound(R, k) \in Nat /\ Bound(R, j) \in Nat
        BY <1>1, <2>1
    <2>4. Bound(R, k) + 5 * ((j + 1) - k) <= Bound(R, j + 1)
        <3>1. Bound(R, k) + 5 * (j - k) <= Bound(R, j) /\ j \in Int /\ k \in Int
            BY <1>1, <1>3
        <3>. HIDE DEF j
        <3>2. 5 * ((j + 1) - k) = 5 * (j - k) + 5 /\ 5 * (j - k) \in Int
            BY <3>1
        <3>3. Bound(R, j + 1) >= Bound(R, j) + 5 /\ Bound(R, j + 1) \in Int
            BY <2>2, <2>3
        <3>. QED  BY <2>3, <3>1, <3>2, <3>3
    <2>. DEFINE u == Upto(R, j)
                v == R[j + 1] \o EndBlock
    <2>5. /\ u \in Seq(Char) /\ v \in Seq(Char)
          /\ Upto(R, j + 1) = u \o v
          /\ u = Piece(u \o v, 0, Len(u))
        <3>1. u \in Seq(Char) /\ v \in Seq(Char)
            BY <1>1, <2>1, EndBlockIs, ConcatProperties
        <3>2. Upto(R, j + 1) = u \o v
            BY <1>1, <2>1
        <3>. HIDE DEF u, v
        <3>. QED  BY <3>1, <3>2, ConcatPieces
    <2>6. Bound(R, k) <= Bound(R, j) /\ Bound(R, j) = Len(u)
        BY <1>3, <2>1, <2>3 DEF Bound
    <2>7. Upto(R, k) = Piece(u, 0, Bound(R, k))
        BY <1>3
    <2>8. Piece(Piece(u \o v, 0, Len(u)), 0, Bound(R, k)) = Piece(u \o v, 0, Bound(R, k))
        <3>. HIDE DEF u, v
        <3>1. u \o v \in Seq(Char) /\ Len(u \o v) = Len(u) + Len(v) /\ Len(u) \in Nat /\ Len(v) \in Nat
            BY <2>5, ConcatProperties, LenProperties
        <3>2. /\ 0 \in 0 .. Len(u \o v) /\ Len(u) \in 0 .. Len(u \o v)
              /\ 0 \in 0 .. Len(u) - 0 /\ Bound(R, k) \in 0 .. Len(u) - 0
              /\ 0 + 0 = 0 /\ 0 + Bound(R, k) = Bound(R, k)
            BY <2>3, <2>6, <3>1
        <3>. DEFINE w == u \o v
                    e == Bound(R, k)
        <3>3. Piece(Piece(w, 0, Len(u)), 0, e) = Piece(w, 0 + 0, 0 + e)
            <4>1. w \in Seq(Char)
                BY <3>1
            <4>2. 0 \in 0 .. Len(w) /\ Len(u) \in 0 .. Len(w) /\ 0 \in 0 .. Len(u) - 0 /\ e \in 0 .. Len(u) - 0
                BY <3>2
            <4>. HIDE DEF w, e
            <4>. QED  BY <4>1, <4>2, PieceOfPiece
        <3>. QED  BY <3>2, <3>3
    <2>9. Upto(R, k) = Piece(Upto(R, j + 1), 0, Bound(R, k))
        BY <2>5, <2>7, <2>8
    <2>. QED  BY <2>4, <2>9
<1>4. 0 \in I
    BY <1>2
<1>5. ASSUME NEW i \in Nat, i \in I PROVE i + 1 \in I
    <2>. HIDE DEF Begins
    <2>1. k + (i + 1) = k + i + 1
        BY <1>1
    <2>2. k + (i + 1) <= Len(R) => k + i <= Len(R)
        BY <1>1
    <2>. QED  BY <1>3, <1>5, <2>1, <2>2
<1>. HIDE DEF I
<1>6. m - k \in Nat /\ k + (m - k) = m
    BY <1>1
<1>7. m - k \in I
    BY <1>4, <1>5, <1>6, NatSets
<1>. QED  BY <1>1, <1>6, <1>7 DEF I

-----------------------------------------------------------------------------
(* Where the blocks of a text end.                                         *)

LEMMA WholeIs ==
    ASSUME NEW R \in Streams
    PROVE  /\ Whole(R) \in Seq(Char)
           /\ Len(Whole(R)) = Bound(R, Len(R))
           /\ \A k \in 0 .. Len(R) : Bound(R, k) \in 0 .. Len(Whole(R))
           /\ \A k, m \in 0 .. Len(R) : k < m => Bound(R, k) + 5 <= Bound(R, m)
<1>1. R \in Seq(Seq(Char)) /\ Len(R) \in Nat /\ Len(R) \in 0 .. Len(R)
    BY StreamIs
<1>2. Whole(R) \in Seq(Char)
    BY <1>1, UptoIs DEF Whole
<1>3. Len(Whole(R)) = Bound(R, Len(R))
    BY DEF Whole, Bound
<1>4. \A k \in 0 .. Len(R) : Bound(R, k) \in Nat
    BY BoundStep
<1>5. ASSUME NEW k \in 0 .. Len(R), NEW m \in 0 .. Len(R), k < m
      PROVE  Bound(R, k) + 5 <= Bound(R, m)
    <2>1. m \in k .. Len(R) /\ m - k >= 1 /\ m - k \in Int
        BY <1>1, <1>5
    <2>2. Bound(R, k) + 5 * (m - k) <= Bound(R, m)
        BY <2>1, UptoPiece
    <2>3. 5 * (m - k) >= 5 /\ 5 * (m - k) \in Int
        BY <2>1
    <2>. QED  BY <1>4, <2>2, <2>3
<1>6. ASSUME NEW k \in 0 .. Len(R) PROVE Bound(R, k) \in 0 .. Len(Whole(R))
    <2>1. CASE k = Len(R)
        BY <1>3, <1>4, <2>1
    <2>2. CASE k < Len(R)
        <3>1. Bound(R, k) + 5 <= Bound(R, Len(R))
            BY <1>1, <1>5, <2>2
        <3>. QED  BY <1>1, <1>3, <1>4, <3>1
    <2>. QED  BY <1>1, <2>1, <2>2
<1>. QED  BY <1>2, <1>3, <1>5, <1>6

\* A block and its end in the text.
LEMMA SectionIs ==
    ASSUME NEW R \in Streams, NEW k \in 1 .. Len(R)
    PROVE  /\ Bound(R, k) = Bound(R, k - 1) + Len(R[k]) + 4
           /\ Bound(R, k - 1) \in Nat /\ Bound(R, k) <= Len(Whole(R))
           /\ Piece(Whole(R), Bound(R, k - 1), Bound(R, k)) = R[k] \o EndBlock
           /\ Piece(Whole(R), Bound(R, k - 1), Bound(R, k) - 4) = R[k]
           /\ \A i \in 1 .. Len(R[k]) : Whole(R)[Bound(R, k - 1) + i] = R[k][i]
           /\ Whole(R)[Bound(R, k) - 3] = "CR" /\ Whole(R)[Bound(R, k) - 2] = "LF"
           /\ Whole(R)[Bound(R, k) - 1] = "CR" /\ Whole(R)[Bound(R, k)] = "LF"
<1>. DEFINE w == Whole(R)
            a == Bound(R, k - 1)
            b == Bound(R, k)
            u == Upto(R, k - 1)
            v == R[k] \o EndBlock
            l == Len(R[k])
<1>1. R \in Seq(Seq(Char)) /\ Len(R) \in Nat /\ R[k] \in Seq(Char) /\ l \in Nat \ {0}
    BY StreamIs
<1>2. k \in 0 .. Len(R) /\ k - 1 \in 0 .. Len(R) /\ Len(R) \in k .. Len(R)
    BY <1>1
<1>3. w \in Seq(Char) /\ a \in 0 .. Len(w) /\ b \in 0 .. Len(w)
    BY <1>2, WholeIs
<1>4. b = a + l + 4
    BY BoundStep
<1>5. /\ v \in Seq(Char) /\ Len(v) = l + 4
      /\ \A i \in 1 .. l + 4 : v[i] = IF i <= l THEN R[k][i] ELSE EndBlock[i - l]
    BY <1>1, EndedIs
<1>6. u \in Seq(Char) /\ Len(u) = a /\ Upto(R, k) = u \o v
    BY <1>1, <1>2, UptoIs DEF Bound
<1>7. Upto(R, k) = Piece(w, 0, b)
    BY <1>2, UptoPiece DEF Whole
<1>8. v = Piece(Piece(w, 0, b), a, b)
    <2>. HIDE DEF u, v, a, b, w, l
    <2>1. v = Piece(u \o v, Len(u), Len(u) + Len(v))
        BY <1>5, <1>6, ConcatPieces
    <2>2. Len(u) + Len(v) = b
        BY <1>1, <1>3, <1>4, <1>5, <1>6
    <2>. QED  BY <1>6, <1>7, <2>1, <2>2
<1>9. v = Piece(w, a, b)
    <2>. HIDE DEF u, v, a, b, w, l
    <2>1. b \in 0 .. Len(w) /\ a \in 0 .. b /\ b \in a .. b
        BY <1>1, <1>3, <1>4
    <2>2. Piece(Piece(w, 0, b), a, b) = Piece(w, a, b)
        BY <1>3, <2>1, PieceOfStart
    <2>. QED  BY <1>8, <2>2
<1>. HIDE DEF u, v, a, b, w, l
<1>10. a \in 0 .. Len(w) /\ b \in a .. Len(w) /\ b - a = l + 4
    BY <1>1, <1>3, <1>4
<1>11. \A i \in 1 .. l + 4 : v[i] = w[a + i]
    <2>1. \A i \in 1 .. b - a : Piece(w, a, b)[i] = w[a + i]
        BY <1>3, <1>10, PieceIs
    <2>. QED  BY <1>9, <1>10, <2>1
<1>12. ASSUME NEW i \in 1 .. l PROVE w[a + i] = R[k][i]
    BY <1>1, <1>5, <1>11
<1>13. w[b - 3] = "CR" /\ w[b - 2] = "LF" /\ w[b - 1] = "CR" /\ w[b] = "LF"
    <2>1. /\ l + 1 \in 1 .. l + 4 /\ l + 2 \in 1 .. l + 4 /\ l + 3 \in 1 .. l + 4 /\ l + 4 \in 1 .. l + 4
          /\ ~(l + 1 <= l) /\ ~(l + 2 <= l) /\ ~(l + 3 <= l) /\ ~(l + 4 <= l)
          /\ (l + 1) - l = 1 /\ (l + 2) - l = 2 /\ (l + 3) - l = 3 /\ (l + 4) - l = 4
          /\ a + (l + 1) = b - 3 /\ a + (l + 2) = b - 2 /\ a + (l + 3) = b - 1 /\ a + (l + 4) = b
        BY <1>1, <1>3, <1>4
    <2>2. /\ v[l + 1] = EndBlock[1] /\ v[l + 2] = EndBlock[2]
          /\ v[l + 3] = EndBlock[3] /\ v[l + 4] = EndBlock[4]
        BY <1>5, <2>1
    <2>3. /\ v[l + 1] = w[b - 3] /\ v[l + 2] = w[b - 2]
          /\ v[l + 3] = w[b - 1] /\ v[l + 4] = w[b]
        BY <1>11, <2>1
    <2>. QED  BY <2>2, <2>3, EndBlockIs
<1>14. Piece(w, a, b - 4) = R[k]
    <2>. DEFINE p == Piece(w, a, b - 4)
    <2>1. b - 4 \in a .. Len(w) /\ (b - 4) - a = l
        BY <1>1, <1>3, <1>4
    <2>2. p \in Seq(Char) /\ Len(p) = (b - 4) - a /\ \A i \in 1 .. (b - 4) - a : p[i] = w[a + i]
        BY <1>3, <1>10, <2>1, PieceIs
    <2>. HIDE DEF p
    <2>3. Len(p) = Len(R[k]) /\ \A i \in 1 .. Len(p) : p[i] = R[k][i]
        BY <1>12, <2>1, <2>2 DEF l
    <2>4. p = R[k]
        BY <1>1, <2>2, <2>3, SeqEqual
    <2>. QED  BY <2>4 DEF p
<1>15. a \in Nat /\ b <= Len(w)
    BY <1>3, <1>10
<1>. QED  BY <1>4, <1>9, <1>12, <1>13, <1>14, <1>15 DEF u, v, a, b, w, l

\* Every character lies in a block or its end.
LEMMA InSection ==
    ASSUME NEW R \in Streams, NEW p \in Int, 0 < p, p <= Len(Whole(R))
    PROVE  \E k \in 1 .. Len(R) : Bound(R, k - 1) < p /\ p <= Bound(R, k)
<1>. DEFINE S == {k \in 0 .. Len(R) : p <= Bound(R, k)}
<1>1. Len(R) \in Nat /\ Bound(R, 0) = 0 /\ \A k \in 0 .. Len(R) : Bound(R, k) \in Nat
    BY StreamIs, BoundStep
<1>2. Len(R) \in S
    BY <1>1, WholeIs
<1>3. S \in SUBSET Nat /\ S # {}
    BY <1>1, <1>2
<1>4. PICK k \in S : \A y \in S : k <= y
    BY <1>3, SmallestExists
<1>5. k # 0 /\ k \in 0 .. Len(R)
    BY <1>1, <1>4
<1>6. k - 1 \in 0 .. Len(R) /\ k - 1 \notin S
    BY <1>1, <1>4, <1>5
<1>7. Bound(R, k - 1) < p
    BY <1>1, <1>6
<1>. QED  BY <1>1, <1>4, <1>5, <1>7

\* Nothing but the end of a block looks like one.
LEMMA EndsAt ==
    ASSUME NEW R \in Streams, NEW p \in Int
    PROVE  p \in At(EndBlock, Whole(R)) <=> \E k \in 1 .. Len(R) : p = Bound(R, k) - 3
<1>. DEFINE w == Whole(R)
<1>0. w \in Seq(Char) /\ Len(w) \in Nat /\ Len(R) \in Nat
    BY WholeIs, StreamIs, LenProperties
<1>1. p \in At(EndBlock, w) <=>
                /\ p \in 1 .. Len(w) - 3
                /\ w[p] = "CR" /\ w[p + 1] = "LF" /\ w[p + 2] = "CR" /\ w[p + 3] = "LF"
    BY <1>0, EndBlockAt
<1>2. ASSUME NEW k \in 1 .. Len(R), p = Bound(R, k) - 3 PROVE p \in At(EndBlock, w)
    <2>. DEFINE b == Bound(R, k)
    <2>1. /\ b = Bound(R, k - 1) + Len(R[k]) + 4 /\ Bound(R, k - 1) \in Nat /\ b <= Len(w)
          /\ w[b - 3] = "CR" /\ w[b - 2] = "LF" /\ w[b - 1] = "CR" /\ w[b] = "LF"
          /\ Len(R[k]) \in Nat
        BY SectionIs, StreamIs
    <2>. HIDE DEF b, w
    <2>2. p \in 1 .. Len(w) - 3
        BY <1>0, <1>2, <2>1 DEF b
    <2>3. b - 3 = p /\ b - 2 = p + 1 /\ b - 1 = p + 2 /\ b = p + 3
        BY <1>2, <2>1 DEF b
    <2>. QED  BY <1>1, <2>1, <2>2, <2>3
<1>3. ASSUME p \in 1 .. Len(w) - 3,
             w[p] = "CR", w[p + 1] = "LF", w[p + 2] = "CR", w[p + 3] = "LF"
      PROVE  \E k \in 1 .. Len(R) : p = Bound(R, k) - 3
    <2>1. PICK k \in 1 .. Len(R) : Bound(R, k - 1) < p /\ p <= Bound(R, k)
        <3>1. 0 < p /\ p <= Len(w)
            BY <1>0, <1>3
        <3>. QED  BY <3>1, InSection
    <2>. DEFINE a == Bound(R, k - 1)
                b == Bound(R, k)
                r == R[k]
                l == Len(r)
    <2>2. /\ b = a + l + 4 /\ a \in Nat /\ b <= Len(w)
          /\ \A i \in 1 .. l : w[a + i] = r[i]
          /\ w[b - 3] = "CR" /\ w[b - 2] = "LF" /\ w[b - 1] = "CR" /\ w[b] = "LF"
        BY SectionIs
    <2>3. /\ r \in Seq(Char) /\ l \in Nat \ {0} /\ At(EndBlock, r) = {}
          /\ r[1] \in Letters /\ r[l] \in Letters
        BY StreamIs
    <2>. DEFINE o == p - a
    <2>. HIDE DEF w, a, b, r, l
    <2>4. o \in 1 .. l + 4 /\ a + o = p
        <3>1. a < p /\ p <= b
            BY <2>1 DEF a, b
        <3>2. o = p - a
            OBVIOUS
        <3>. HIDE DEF o
        <3>. QED  BY <2>2, <2>3, <3>1, <3>2
    <2>5. "CR" \notin Letters /\ "LF" \notin Letters
        BY FramingAssumption
    <2>7. p = b - 3 => (\E j \in 1 .. Len(R) : p = Bound(R, j) - 3)
        BY DEF b
    <2>. HIDE DEF o
    <2>8. ASSUME o + 3 <= l PROVE FALSE
        <3>1. o \in 1 .. l /\ o + 1 \in 1 .. l /\ o + 2 \in 1 .. l /\ o + 3 \in 1 .. l
            BY <2>3, <2>4, <2>8
        <3>2. a + (o + 1) = p + 1 /\ a + (o + 2) = p + 2 /\ a + (o + 3) = p + 3
            BY <2>2, <2>4
        <3>3. r[o] = "CR" /\ r[o + 1] = "LF" /\ r[o + 2] = "CR" /\ r[o + 3] = "LF"
            BY <1>3, <2>2, <2>4, <3>1, <3>2
        <3>4. o \in Int /\ o \in 1 .. Len(r) - 3
            BY <2>3, <2>4, <2>8 DEF l
        <3>5. o \in At(EndBlock, r)
            BY <2>3, <3>3, <3>4, EndBlockAt
        <3>. QED  BY <2>3, <3>5
    <2>9. ASSUME o <= l, l < o + 3 PROVE FALSE
        <3>1. l \in o .. o + 2 /\ l \in 1 .. l
            BY <2>3, <2>4, <2>9
        <3>2. w[a + l] \in Letters
            BY <2>2, <2>3, <3>1
        <3>3. a + l = p \/ a + l = p + 1 \/ a + l = p + 2
            BY <2>2, <2>3, <2>4, <3>1
        <3>. QED  BY <1>3, <2>5, <3>2, <3>3
    <2>10. ASSUME o = l + 2 PROVE FALSE
        <3>1. p = b - 2
            BY <2>2, <2>3, <2>4, <2>10
        <3>. QED  BY <1>3, <2>2, <3>1
    <2>11. ASSUME o = l + 4 PROVE FALSE
        <3>1. p = b
            BY <2>2, <2>3, <2>4, <2>11
        <3>. QED  BY <1>3, <2>2, <3>1
    <2>12. ASSUME o = l + 3 PROVE FALSE
        <3>1. p + 2 = b + 1 /\ b < Len(w) /\ b \in Nat
            BY <1>0, <1>3, <2>2, <2>3, <2>4, <2>12
        <3>2. k # Len(R)
            BY <3>1, WholeIs DEF b, w
        <3>3. k + 1 \in 1 .. Len(R) /\ (k + 1) - 1 = k
            BY <1>0, <3>2
        <3>4. \A i \in 1 .. Len(R[k + 1]) : w[Bound(R, (k + 1) - 1) + i] = R[k + 1][i]
            BY <3>3, SectionIs DEF w
        <3>5. Len(R[k + 1]) \in Nat \ {0} /\ R[k + 1][1] \in Letters
            BY <3>3, StreamIs
        <3>6. w[b + 1] \in Letters
            <4>1. 1 \in 1 .. Len(R[k + 1])
                BY <3>5
            <4>2. w[Bound(R, k) + 1] = R[k + 1][1]
                BY <3>3, <3>4, <4>1
            <4>. QED  BY <3>5, <4>2 DEF b
        <3>. QED  BY <1>3, <2>5, <3>1, <3>6
    <2>13. o = l + 1
        BY <2>3, <2>4, <2>8, <2>9, <2>10, <2>11, <2>12
    <2>14. p = b - 3
        BY <2>2, <2>3, <2>4, <2>13
    <2>. QED  BY <2>7, <2>14
<1>. QED  BY <1>1, <1>2, <1>3

-----------------------------------------------------------------------------
(* Texts cut at any place.                                                 *)

\* j is the number of whole blocks in the first e characters.
Full(R, j, e) ==
    /\ j \in 0 .. Len(R) /\ Bound(R, j) <= e
    /\ \A m \in 0 .. Len(R) : Bound(R, m) <= e => m <= j

LEMMA FullExists ==
    ASSUME NEW R \in Streams, NEW e \in 0 .. Len(Whole(R))
    PROVE  \E j \in 0 .. Len(R) : Full(R, j, e)
<1>. DEFINE S == {k \in Nat : k > Len(R) \/ Bound(R, k) > e}
<1>1. /\ Len(R) \in Nat /\ Bound(R, 0) = 0 /\ Len(Whole(R)) \in Nat
      /\ \A k \in 0 .. Len(R) : Bound(R, k) \in Nat
    BY StreamIs, BoundStep, WholeIs, LenProperties
<1>2. S \in SUBSET Nat /\ Len(R) + 1 \in S
    BY <1>1
<1>3. PICK k \in S : \A y \in S : k <= y
    BY <1>2, SmallestExists
<1>4. k # 0 /\ k \in Nat /\ k <= Len(R) + 1
    BY <1>1, <1>2, <1>3
<1>. DEFINE j == k - 1
<1>5. j \in 0 .. Len(R) /\ j \in Nat /\ j \notin S
    BY <1>1, <1>3, <1>4
<1>6. Bound(R, j) <= e
    BY <1>1, <1>5
<1>7. ASSUME NEW m \in 0 .. Len(R), Bound(R, m) <= e, m > j PROVE FALSE
    <2>1. k \in 0 .. Len(R) /\ m >= k
        BY <1>1, <1>4, <1>7
    <2>2. Bound(R, k) > e
        BY <1>1, <1>3, <2>1
    <2>3. Bound(R, k) <= Bound(R, m)
        <3>1. CASE k = m
            BY <1>1, <1>7, <3>1
        <3>2. CASE k < m
            BY <1>1, <2>1, <3>2, WholeIs
        <3>. QED  BY <1>1, <1>7, <2>1, <3>1, <3>2
    <2>. QED  BY <1>1, <1>7, <2>1, <2>2, <2>3
<1>8. \A m \in 0 .. Len(R) : Bound(R, m) <= e => m <= j
    BY <1>1, <1>5, <1>7
<1>. QED  BY <1>5, <1>6, <1>8 DEF Full

\* The ends of blocks in a text that begins with a block.
LEMMA PieceEnds ==
    ASSUME NEW R \in Streams, NEW k \in 0 .. Len(R),
           NEW e \in 0 .. Len(Whole(R)), Bound(R, k) <= e, NEW i \in Int
    PROVE  i \in At(EndBlock, Piece(Whole(R), Bound(R, k), e)) <=>
                \E m \in 1 .. Len(R) : k < m /\ Bound(R, m) <= e /\ i = Bound(R, m) - 3 - Bound(R, k)
<1>. DEFINE a == Bound(R, k)
            w == Whole(R)
<1>1. /\ w \in Seq(Char) /\ Len(w) \in Nat /\ Len(R) \in Nat
      /\ \A m \in 0 .. Len(R) : Bound(R, m) \in Nat
      /\ \A m, n \in 0 .. Len(R) : m < n => Bound(R, m) + 5 <= Bound(R, n)
    BY WholeIs, StreamIs, BoundStep, LenProperties
<1>2. a \in 0 .. Len(w) /\ e \in a .. Len(w)
    BY <1>1
<1>3. i \in At(EndBlock, Piece(w, a, e)) <=> i \in 1 .. (e - a) - 3 /\ a + i \in At(EndBlock, w)
    <2>. HIDE DEF a, w
    <2>. QED  BY <1>1, <1>2, AtPiece
<1>4. a + i \in At(EndBlock, w) <=> \E m \in 1 .. Len(R) : a + i = Bound(R, m) - 3
    <2>1. a + i \in Int
        BY <1>2
    <2>. HIDE DEF a
    <2>. QED  BY <2>1, EndsAt
<1>5. ASSUME NEW m \in 1 .. Len(R), i \in 1 .. (e - a) - 3, a + i = Bound(R, m) - 3
      PROVE  k < m /\ Bound(R, m) <= e /\ i = Bound(R, m) - 3 - a
    <2>1. Bound(R, m) \in Nat /\ m \in 0 .. Len(R) /\ a \in Nat
        BY <1>1
    <2>2. Bound(R, m) > a /\ Bound(R, m) <= e /\ i = Bound(R, m) - 3 - a
        <3>. HIDE DEF a
        <3>. QED  BY <1>2, <1>5, <2>1
    <2>3. ~(m < k) /\ m # k
        <3>1. m < k => Bound(R, m) + 5 <= a
            BY <1>1, <2>1
        <3>. QED  BY <2>1, <2>2, <3>1
    <2>. QED  BY <1>1, <2>1, <2>2, <2>3
<1>6. ASSUME NEW m \in 1 .. Len(R), k < m, Bound(R, m) <= e, i = Bound(R, m) - 3 - a
      PROVE  i \in 1 .. (e - a) - 3 /\ a + i = Bound(R, m) - 3
    <2>1. Bound(R, m) \in Nat /\ m \in 0 .. Len(R) /\ a \in Nat
        BY <1>1
    <2>2. a + 5 <= Bound(R, m)
        BY <1>1, <1>6, <2>1
    <2>. HIDE DEF a
    <2>. QED  BY <1>2, <1>6, <2>1, <2>2
<1>. QED  BY <1>3, <1>4, <1>5, <1>6

\* The blocks after the k-th up to the j-th, and the text up to e.
Cuts(R, k, j, e) ==
    [i \in 1 .. (j - k) + 1 |->
        IF i = (j - k) + 1 THEN Piece(Whole(R), Bound(R, j), e) ELSE R[k + i]]

\* The first end of a block in a text that begins with a whole block.
LEMMA FirstPiece ==
    ASSUME NEW R \in Streams, NEW k \in 0 .. Len(R), k < Len(R),
           NEW e \in 0 .. Len(Whole(R)), Bound(R, k + 1) <= e
    PROVE  LET p == Piece(Whole(R), Bound(R, k), e)
           IN  /\ p \in Seq(Char) /\ At(EndBlock, p) # {}
               /\ Before(p) = R[k + 1]
               /\ After(p) = Piece(Whole(R), Bound(R, k + 1), e)
<1>. DEFINE w == Whole(R)
            a == Bound(R, k)
            b == Bound(R, k + 1)
            p == Piece(w, a, e)
            l == Len(R[k + 1])
            m == Min(At(EndBlock, p))
<1>1. /\ Len(R) \in Nat /\ k + 1 \in 1 .. Len(R) /\ (k + 1) - 1 = k /\ k + 1 \in 0 .. Len(R)
      /\ k < k + 1
    <2>1. Len(R) \in Nat
        BY StreamIs
    <2>. QED  BY <2>1
<1>2. /\ w \in Seq(Char) /\ Len(w) \in Nat /\ l \in Nat \ {0}
      /\ \A n \in 0 .. Len(R) : Bound(R, n) \in Nat
      /\ \A n, o \in 0 .. Len(R) : n < o => Bound(R, n) + 5 <= Bound(R, o)
    BY <1>1, WholeIs, StreamIs, BoundStep, LenProperties
<1>3. b = a + l + 4 /\ Piece(w, a, b - 4) = R[k + 1]
    <2>1. /\ Bound(R, k + 1) = Bound(R, (k + 1) - 1) + Len(R[k + 1]) + 4
          /\ Piece(w, Bound(R, (k + 1) - 1), Bound(R, k + 1) - 4) = R[k + 1]
        BY <1>1, SectionIs
    <2>. QED  BY <1>1, <2>1
<1>4. a \in Nat /\ b \in Nat /\ a \in 0 .. Len(w) /\ e \in a .. Len(w) /\ b <= e /\ a <= e
    BY <1>1, <1>2, <1>3
<1>5. p \in Seq(Char) /\ Len(p) = e - a
    <2>. HIDE DEF w, a
    <2>. QED  BY <1>2, <1>4, PieceIs
<1>6. \A i \in Int : i \in At(EndBlock, p) <=>
        \E n \in 1 .. Len(R) : k < n /\ Bound(R, n) <= e /\ i = Bound(R, n) - 3 - a
    BY <1>4, PieceEnds
<1>7. l + 1 \in At(EndBlock, p)
    <2>1. l + 1 = b - 3 - a /\ l + 1 \in Int
        <3>. HIDE DEF a, b, l
        <3>. QED  BY <1>2, <1>3, <1>4
    <2>. HIDE DEF p, l
    <2>. QED  BY <1>1, <1>4, <1>6, <2>1
<1>8. m \in At(EndBlock, p) /\ \A i \in At(EndBlock, p) : m <= i
    <2>. HIDE DEF p
    <2>. QED  BY <1>5, <1>7, FirstEnd
<1>9. m \in Int
    <2>. HIDE DEF p
    <2>. QED  BY <1>5, <1>7, FirstEnd, LenProperties
<1>. HIDE DEF m, p, w, a, l
<1>10. m = l + 1
    <2>1. PICK n \in 1 .. Len(R) : k < n /\ Bound(R, n) <= e /\ m = Bound(R, n) - 3 - a
        BY <1>6, <1>8, <1>9
    <2>2. n \in 0 .. Len(R) /\ (n = k + 1 \/ k + 1 < n)
        BY <1>1, <2>1
    <2>3. b <= Bound(R, n)
        BY <1>1, <1>2, <2>2
    <2>4. Bound(R, n) \in Nat
        BY <1>2, <2>2
    <2>. HIDE DEF b
    <2>5. m >= l + 1
        BY <1>2, <1>3, <1>4, <2>1, <2>3, <2>4
    <2>6. m <= l + 1
        BY <1>7, <1>8
    <2>. QED  BY <1>2, <1>9, <2>5, <2>6
<1>. HIDE DEF b
<1>11. Before(p) = R[k + 1]
    <2>1. Before(p) = Piece(p, 0, l)
        <3>1. m - 1 = l /\ 0 + 1 = 1
            BY <1>2, <1>10
        <3>2. Before(p) = SubSeq(p, 1, m - 1)
            BY DEF Before, m
        <3>. QED  BY <3>1, <3>2 DEF Piece
    <2>2. 0 \in 0 .. e - a /\ l \in 0 .. e - a /\ a + 0 = a /\ a + l = b - 4
        BY <1>2, <1>3, <1>4
    <2>3. PICK z \in Nat : z = 0
        OBVIOUS
    <2>4. Piece(p, z, l) = Piece(w, a + z, a + l)
        <3>1. z \in 0 .. e - a /\ l \in z .. e - a
            BY <1>2, <2>2, <2>3
        <3>. QED  BY <1>2, <1>4, <3>1, PieceOfPiece DEF p
    <2>5. a + z = a
        BY <1>4, <2>3
    <2>. QED  BY <1>3, <2>1, <2>2, <2>3, <2>4, <2>5
<1>12. After(p) = Piece(w, b, e)
    <2>. DEFINE i == l + 4
                j == e - a
    <2>1. After(p) = SubSeq(p, m + Len(EndBlock), Len(p))
        BY DEF After, From, m
    <2>2. m + Len(EndBlock) = i + 1 /\ Len(p) = j
        BY <1>2, <1>5, <1>10, EndBlockIs
    <2>3. After(p) = Piece(p, i, j)
        BY <2>1, <2>2 DEF Piece
    <2>4. i \in 0 .. e - a /\ j \in i .. e - a /\ a + i = b /\ a + j = e
        BY <1>2, <1>3, <1>4
    <2>. HIDE DEF i, j
    <2>5. Piece(p, i, j) = Piece(w, a + i, a + j)
        BY <1>2, <1>4, <2>4, PieceOfPiece DEF p
    <2>. QED  BY <2>3, <2>4, <2>5
<1>13. At(EndBlock, p) # {}
    BY <1>7
<1>. QED  BY <1>5, <1>11, <1>12, <1>13 DEF p, a, b, w

LEMMA SplitPiece ==
    ASSUME NEW R \in Streams, NEW e \in 0 .. Len(Whole(R)), NEW j, Full(R, j, e), NEW k \in 0 .. j
    PROVE  Split[Piece(Whole(R), Bound(R, k), e)] = Cuts(R, k, j, e)
<1>. DEFINE w == Whole(R)
            p(n) == Piece(w, Bound(R, n), e)
            I == {d \in Nat : \A n \in 0 .. j : j - n = d => Split[p(n)] = Cuts(R, n, j, e)}
<1>1. /\ w \in Seq(Char) /\ Len(w) \in Nat /\ Len(R) \in Nat
      /\ \A n \in 0 .. Len(R) : Bound(R, n) \in Nat
      /\ \A n, o \in 0 .. Len(R) : n < o => Bound(R, n) + 5 <= Bound(R, o)
    BY WholeIs, StreamIs, BoundStep, LenProperties
<1>2. /\ j \in 0 .. Len(R) /\ Bound(R, j) <= e
      /\ \A m \in 0 .. Len(R) : Bound(R, m) <= e => m <= j
    BY DEF Full
<1>3. ASSUME NEW n \in 0 .. j PROVE Bound(R, n) \in 0 .. Len(w) /\ Bound(R, n) <= e /\ n \in 0 .. Len(R)
    <2>1. n \in 0 .. Len(R) /\ (n = j \/ n < j)
        BY <1>1, <1>2
    <2>2. Bound(R, n) <= Bound(R, j)
        BY <1>1, <1>2, <2>1
    <2>. QED  BY <1>1, <1>2, <2>1, <2>2
<1>4. ASSUME NEW n \in 0 .. j PROVE p(n) \in Seq(Char)
    <2>. DEFINE a == Bound(R, n)
    <2>1. a \in 0 .. Len(w) /\ e \in a .. Len(w)
        BY <1>1, <1>3
    <2>. HIDE DEF a, w
    <2>2. Piece(w, a, e) \in Seq(Char)
        BY <1>1, <2>1, PieceIs
    <2>. QED  BY <2>2 DEF a
<1>5. Split[p(j)] = Cuts(R, j, j, e)
    <2>1. j \in 0 .. j /\ (j - j) + 1 = 1
        BY <1>1, <1>2
    <2>2. At(EndBlock, p(j)) = {}
        <3>1. ASSUME NEW i \in At(EndBlock, p(j)) PROVE FALSE
            <4>1. i \in Int
                BY <1>4, <2>1, LenProperties, EndBlockIs DEF At
            <4>2. PICK m \in 1 .. Len(R) : j < m /\ Bound(R, m) <= e
                BY <1>2, <1>3, <2>1, <3>1, <4>1, PieceEnds
            <4>. QED  BY <1>1, <1>2, <4>2
        <3>. QED  BY <3>1
    <2>3. Split[p(j)] = <<p(j)>>
        BY <1>4, <2>1, <2>2, SplitIs
    <2>4. Cuts(R, j, j, e) = <<p(j)>>
        <3>. HIDE DEF w
        <3>1. Cuts(R, j, j, e) = [i \in 1 .. 1 |-> IF i = 1 THEN p(j) ELSE R[j + i]]
            BY <2>1 DEF Cuts, w
        <3>2. \A i \in 1 .. 1 : i = 1
            OBVIOUS
        <3>. HIDE DEF p
        <3>. QED  BY <3>1, <3>2
    <2>. QED  BY <2>3, <2>4
<1>6. ASSUME NEW n \in 0 .. j, n # j, Split[p(n + 1)] = Cuts(R, n + 1, j, e)
      PROVE  Split[p(n)] = Cuts(R, n, j, e)
    <2>1. /\ n \in 0 .. Len(R) /\ n < Len(R) /\ n + 1 \in 0 .. j /\ n + 1 \in 1 .. Len(R)
          /\ j \in Nat /\ n \in Nat
        BY <1>1, <1>2, <1>6
    <2>2. Bound(R, n + 1) <= e
        BY <1>3, <2>1
    <2>3. /\ p(n) \in Seq(Char) /\ At(EndBlock, p(n)) # {}
          /\ Before(p(n)) = R[n + 1] /\ After(p(n)) = p(n + 1)
        BY <2>1, <2>2, FirstPiece
    <2>4. Split[p(n)] = <<Before(p(n))>> \o Split[After(p(n))]
        <3>. HIDE DEF p
        <3>. QED  BY <2>3, SplitIs
    <2>. DEFINE u == <<R[n + 1]>>
                v == Cuts(R, n + 1, j, e)
                c == Cuts(R, n, j, e)
                d == j - n
    <2>5. Split[p(n)] = u \o v
        <3>. HIDE DEF p
        <3>. QED  BY <1>6, <2>3, <2>4
    <2>6. \A i \in 1 .. Len(R) : R[i] \in Seq(Char)
        BY StreamIs
    <2>7. p(j) \in Seq(Char)
        <3>1. j \in 0 .. j
            BY <2>1
        <3>. HIDE DEF p
        <3>. QED  BY <1>4, <3>1
    <2>8. d \in Nat /\ d >= 1 /\ (j - (n + 1)) + 1 = d /\ (j - n) + 1 = d + 1
        BY <1>6, <2>1
    <2>9. v \in Seq(Seq(Char)) /\ Len(v) = d /\ \A i \in 1 .. d : v[i] = IF i = d THEN p(j) ELSE R[(n + 1) + i]
        <3>1. v = [i \in 1 .. d |-> IF i = d THEN p(j) ELSE R[(n + 1) + i]]
            BY <2>8 DEF Cuts
        <3>2. \A i \in 1 .. d : i # d => (n + 1) + i \in 1 .. Len(R)
            BY <1>1, <1>2, <2>1, <2>8
        <3>. HIDE DEF p, v, d
        <3>3. v \in [1 .. d -> Seq(Char)]
            BY <2>6, <2>7, <3>1, <3>2
        <3>. QED  BY <2>8, <3>1, <3>3, FunctionIsSeq
    <2>10. c \in Seq(Seq(Char)) /\ Len(c) = d + 1 /\ \A i \in 1 .. d + 1 : c[i] = IF i = d + 1 THEN p(j) ELSE R[n + i]
        <3>1. c = [i \in 1 .. d + 1 |-> IF i = d + 1 THEN p(j) ELSE R[n + i]]
            BY <2>8 DEF Cuts
        <3>2. \A i \in 1 .. d + 1 : i # d + 1 => n + i \in 1 .. Len(R)
            BY <1>1, <1>2, <2>1, <2>8
        <3>3. d + 1 \in Nat
            BY <2>8
        <3>. HIDE DEF p, c, d
        <3>4. c \in [1 .. d + 1 -> Seq(Char)]
            BY <2>6, <2>7, <3>1, <3>2
        <3>. QED  BY <3>1, <3>3, <3>4, FunctionIsSeq
    <2>11. u \in Seq(Seq(Char)) /\ Len(u) = 1 /\ u[1] = R[n + 1]
        BY <2>1, <2>6
    <2>. HIDE DEF p, u, v, c, d
    <2>12. /\ u \o v \in Seq(Seq(Char)) /\ Len(u \o v) = 1 + d
           /\ \A i \in 1 .. 1 + d : (u \o v)[i] = IF i <= 1 THEN u[i] ELSE v[i - 1]
        <3>1. /\ u \o v \in Seq(Seq(Char)) /\ Len(u \o v) = Len(u) + Len(v)
              /\ \A i \in 1 .. Len(u) + Len(v) :
                    (u \o v)[i] = IF i <= Len(u) THEN u[i] ELSE v[i - Len(u)]
            BY <2>9, <2>11, ConcatProperties
        <3>. QED  BY <2>9, <2>11, <3>1
    <2>13. ASSUME NEW i \in 1 .. d + 1 PROVE (u \o v)[i] = c[i]
        <3>1. CASE i = 1
            <4>1. i # d + 1 /\ i \in 1 .. 1 + d /\ i <= 1
                BY <2>8, <3>1
            <4>. QED  BY <2>10, <2>11, <2>12, <3>1, <4>1
        <3>2. CASE i # 1
            <4>1. i \in 1 .. 1 + d /\ ~(i <= 1) /\ i - 1 \in 1 .. d /\ (i = d + 1 <=> i - 1 = d) /\ (n + 1) + (i - 1) = n + i
                BY <2>1, <2>8, <3>2
            <4>. QED  BY <2>9, <2>10, <2>12, <4>1
        <3>. QED  BY <3>1, <3>2
    <2>14. Len(u \o v) = d + 1
        BY <2>8, <2>12
    <2>15. u \o v = c
        BY <2>10, <2>12, <2>13, <2>14, SeqEqual
    <2>. QED  BY <2>5, <2>15 DEF c
<1>. HIDE DEF p
<1>7. 0 \in I
    <2>1. \A n \in 0 .. j : j - n = 0 => n = j
        BY <1>1, <1>2
    <2>. QED  BY <1>5, <2>1
<1>8. ASSUME NEW d \in Nat, d \in I PROVE d + 1 \in I
    <2>1. ASSUME NEW n \in 0 .. j, j - n = d + 1 PROVE Split[p(n)] = Cuts(R, n, j, e)
        <3>1. n # j /\ n + 1 \in 0 .. j /\ j - (n + 1) = d
            BY <1>1, <1>2, <2>1
        <3>2. Split[p(n + 1)] = Cuts(R, n + 1, j, e)
            BY <1>8, <3>1
        <3>. QED  BY <1>6, <3>1, <3>2
    <2>. QED  BY <2>1
<1>. HIDE DEF I
<1>9. j - k \in Nat
    BY <1>1, <1>2
<1>10. j - k \in I
    BY <1>7, <1>8, <1>9, NatSets
<1>. QED  BY <1>10 DEF I, p

-----------------------------------------------------------------------------
(* What is handed over, and what stays.                                    *)

\* The blocks after the k-th up to the j-th, as they are handed over.
Parsed(R, k, j) == [i \in 1 .. j - k |-> Named(R[k + i])]

\* What the connection takes from a buffer that begins with a block: the whole
\* blocks, and the beginning of one more stays.
LEMMA ParsePiece ==
    ASSUME NEW R \in Streams, NEW e \in 0 .. Len(Whole(R)), NEW j, Full(R, j, e), NEW k \in 0 .. j
    PROVE  LET p == Piece(Whole(R), Bound(R, k), e)
           IN  /\ Rest(p) = Piece(Whole(R), Bound(R, j), e)
               /\ Blocks(p) = Parsed(R, k, j)
<1>. DEFINE w == Whole(R)
            a == Bound(R, k)
            b == Bound(R, j)
            p == Piece(w, a, e)
            d == j - k
<1>1. /\ w \in Seq(Char) /\ Len(w) \in Nat /\ Len(R) \in Nat
      /\ \A n \in 0 .. Len(R) : Bound(R, n) \in 0 .. Len(w)
      /\ \A n, o \in 0 .. Len(R) : n < o => Bound(R, n) + 5 <= Bound(R, o)
    BY WholeIs, StreamIs, BoundStep, LenProperties
<1>2. /\ j \in 0 .. Len(R) /\ Bound(R, j) <= e
      /\ \A m \in 0 .. Len(R) : Bound(R, m) <= e => m <= j
    BY DEF Full
<1>3. k \in 0 .. Len(R) /\ a \in Nat /\ b \in Nat /\ b <= e /\ e \in Nat /\ e <= Len(w)
    BY <1>1, <1>2
<1>4. k < j => a + 5 <= b
    BY <1>1, <1>2, <1>3
<1>5. d \in Nat /\ (d = 0 <=> k = j) /\ (d # 0 <=> k < j)
    BY <1>1, <1>2, <1>3
<1>6. a <= e /\ a \in 0 .. Len(w) /\ e \in a .. Len(w)
    <2>1. k = j => a = b
        OBVIOUS
    <2>. HIDE DEF a, b, w
    <2>. QED  BY <1>3, <1>4, <1>5, <2>1
<1>7. p \in Seq(Char) /\ Len(p) = e - a
    <2>. HIDE DEF a, w
    <2>. QED  BY <1>1, <1>6, PieceIs
<1>8. \A i \in At(EndBlock, p) : i \in Int
    <2>. HIDE DEF p
    <2>. QED  BY <1>7, LenProperties, EndBlockIs DEF At
<1>9. \A i \in Int : i \in At(EndBlock, p) <=>
        \E n \in 1 .. Len(R) : k < n /\ Bound(R, n) <= e /\ i = Bound(R, n) - 3 - a
    BY <1>3, <1>6, PieceEnds
<1>10. ASSUME d = 0
       PROVE  Rest(p) = Piece(w, b, e) /\ Blocks(p) = [i \in 1 .. d |-> Named(R[k + i])]
    <2>1. At(EndBlock, p) = {}
        <3>1. ASSUME NEW i \in At(EndBlock, p) PROVE FALSE
            <4>1. PICK n \in 1 .. Len(R) : k < n /\ Bound(R, n) <= e
                BY <1>8, <1>9, <3>1
            <4>. QED  BY <1>1, <1>2, <1>5, <1>10, <4>1
        <3>. QED  BY <3>1
    <2>2. Rest(p) = p /\ Blocks(p) = <<>>
        BY <2>1 DEF Rest, Blocks
    <2>3. p = Piece(w, b, e)
        BY <1>5, <1>10
    <2>4. [i \in 1 .. d |-> Named(R[k + i])] = <<>>
        BY <1>10
    <2>. QED  BY <2>2, <2>3, <2>4
<1>11. ASSUME d # 0
       PROVE  Rest(p) = Piece(w, b, e) /\ Blocks(p) = [i \in 1 .. d |-> Named(R[k + i])]
    <2>. DEFINE x == b - 3 - a
    <2>1. x \in Int /\ x \in At(EndBlock, p)
        <3>1. j \in 1 .. Len(R) /\ k < j
            BY <1>1, <1>2, <1>3, <1>5, <1>11
        <3>2. x \in Int
            BY <1>3
        <3>. QED  BY <1>2, <1>9, <3>1, <3>2
    <2>2. ASSUME NEW i \in At(EndBlock, p) PROVE i <= x
        <3>1. PICK n \in 1 .. Len(R) : k < n /\ Bound(R, n) <= e /\ i = Bound(R, n) - 3 - a
            BY <1>8, <1>9, <2>2
        <3>2. n \in 0 .. Len(R) /\ (n = j \/ n < j)
            BY <1>1, <1>2, <3>1
        <3>3. Bound(R, n) <= b /\ Bound(R, n) \in Nat
            BY <1>1, <1>2, <3>2
        <3>. HIDE DEF a, b
        <3>. QED  BY <1>3, <3>1, <3>3
    <2>. HIDE DEF x
    <2>3. LastEnd(p) = x
        <3>. HIDE DEF p
        <3>. QED  BY <1>8, <2>1, <2>2, MaxIs DEF LastEnd
    <2>4. x + 3 = b - a /\ x >= 2 /\ b >= a + 5
        <3>1. b >= a + 5
            BY <1>4, <1>5, <1>11
        <3>2. x = b - 3 - a
            BY DEF x
        <3>. HIDE DEF a, b
        <3>. QED  BY <1>3, <3>1, <3>2
    <2>. HIDE DEF p, a, b, w, d
    <2>5. Rest(p) = Piece(w, b, e)
        <3>. DEFINE i == b - a
                    l == e - a
        <3>1. Rest(p) = SubSeq(p, x + Len(EndBlock), Len(p))
            BY <2>1, <2>3 DEF Rest, From
        <3>2. x + Len(EndBlock) = i + 1 /\ Len(p) = l
            BY <1>3, <1>7, <2>1, <2>4, EndBlockIs
        <3>3. Rest(p) = Piece(p, i, l)
            BY <3>1, <3>2 DEF Piece
        <3>4. i \in 0 .. e - a /\ l \in i .. e - a /\ a + i = b /\ a + l = e
            BY <1>3, <2>4
        <3>. HIDE DEF i, l
        <3>5. Piece(p, i, l) = Piece(w, a + i, a + l)
            BY <1>1, <1>6, <3>4, PieceOfPiece DEF p
        <3>. QED  BY <3>3, <3>4, <3>5
    <2>. DEFINE recv == IF LastEnd(p) + Len(EndBlock) > Len(p)
                        THEN NonEmpty(Split[p])
                        ELSE Split[SubSeq(p, 1, LastEnd(p) - 1)]
    <2>6. Blocks(p) = [i \in DOMAIN recv |-> Named(recv[i])]
        BY <2>1 DEF Blocks
    <2>7. LastEnd(p) + Len(EndBlock) > Len(p) <=> e = b
        BY <1>3, <1>7, <2>1, <2>3, <2>4, EndBlockIs
    <2>8. \A i \in 1 .. Len(R) : R[i] \in Seq(Char) /\ R[i] # <<>>
        BY StreamIs, EmptySeq
    <2>9. \A i \in 1 .. d : k + i \in 1 .. Len(R)
        BY <1>1, <1>2, <1>3 DEF d
    <2>10. DOMAIN recv = 1 .. d /\ \A i \in 1 .. d : recv[i] = R[k + i]
        <3>1. CASE e = b
            <4>. DEFINE c == Cuts(R, k, j, e)
            <4>1. Split[p] = c
                BY SplitPiece DEF p, a, w
            <4>2. c = [i \in 1 .. d + 1 |-> IF i = d + 1 THEN Piece(w, b, e) ELSE R[k + i]]
                BY DEF Cuts, d, w, b
            <4>3. Piece(w, b, e) = <<>> /\ <<>> \in Seq(Char)
                BY <1>3, <3>1, PieceNone, EmptySeq
            <4>. HIDE DEF c
            <4>4. ASSUME NEW i \in 1 .. d PROVE i # d + 1 /\ i \in 1 .. d + 1 /\ R[k + i] \in Seq(Char) /\ R[k + i] # <<>>
                <5>1. k + i \in 1 .. Len(R) /\ i # d + 1 /\ i \in 1 .. d + 1
                    BY <1>5, <2>9
                <5>. QED  BY <2>8, <5>1
            <4>5. c \in [1 .. d + 1 -> Seq(Char)] /\ d + 1 \in Nat
                <5>1. \A i \in 1 .. d + 1 : i = d + 1 \/ i \in 1 .. d
                    BY <1>5
                <5>2. d + 1 \in Nat
                    BY <1>5
                <5>. QED  BY <4>2, <4>3, <4>4, <5>1, <5>2
            <4>6. c \in Seq(Seq(Char)) /\ Len(c) = d + 1
                BY <4>5, FunctionIsSeq
            <4>7. c[d + 1] = <<>> /\ \A i \in 1 .. d : c[i] = R[k + i] /\ c[i] # <<>>
                <5>1. d + 1 \in 1 .. d + 1
                    BY <1>5
                <5>2. c[d + 1] = <<>>
                    BY <4>2, <4>3, <5>1
                <5>. QED  BY <4>2, <4>4, <5>2
            <4>8. NonEmpty(c) = Piece(c, 0, d)
                BY <1>5, <4>6, <4>7, NonEmptyOf
            <4>9. recv = Piece(c, 0, d)
                BY <2>7, <3>1, <4>1, <4>8
            <4>. DEFINE q == Piece(c, 0, d)
            <4>10. q \in Seq(Seq(Char)) /\ Len(q) = d /\ \A i \in 1 .. d : q[i] = c[i]
                <5>1. 0 \in 0 .. Len(c) /\ d \in 0 .. Len(c) /\ d - 0 = d /\ \A i \in 1 .. d : 0 + i = i
                    BY <1>5, <4>6
                <5>2. q \in Seq(Seq(Char)) /\ Len(q) = d - 0 /\ \A i \in 1 .. d - 0 : q[i] = c[0 + i]
                    BY <4>6, <5>1, PieceIs
                <5>. HIDE DEF q
                <5>. QED  BY <5>1, <5>2
            <4>. HIDE DEF q
            <4>. HIDE DEF recv
            <4>11. DOMAIN q = 1 .. d
                BY <4>10, LenProperties
            <4>. QED  BY <4>7, <4>9, <4>10, <4>11 DEF q
        <3>2. CASE e # b
            <4>. DEFINE i0 == j - 1
                        f == b - 4
                        c == Cuts(R, k, i0, f)
            <4>1. i0 \in 0 .. Len(R) /\ j \in 1 .. Len(R) /\ k \in 0 .. i0 /\ f \in 0 .. Len(w) /\ a <= f
                BY <1>1, <1>2, <1>3, <1>5, <1>11, <2>4
            <4>2. Full(R, i0, f)
                <5>1. Bound(R, i0) + 5 <= b
                    BY <1>1, <1>2, <4>1 DEF b
                <5>2. Bound(R, i0) <= f
                    <6>1. Bound(R, i0) \in Int
                        BY <1>1, <4>1
                    <6>2. b \in Int
                        BY <1>3
                    <6>. HIDE DEF i0, b
                    <6>. QED  BY <5>1, <6>1, <6>2
                <5>3. ASSUME NEW m \in 0 .. Len(R), Bound(R, m) <= f, ~(m <= i0) PROVE FALSE
                    <6>1. m = j \/ j < m
                        BY <1>1, <1>2, <5>3
                    <6>2. b <= Bound(R, m)
                        BY <1>1, <1>2, <6>1 DEF b
                    <6>. QED  BY <1>1, <1>3, <5>3, <6>2
                <5>. QED  BY <4>1, <5>2, <5>3 DEF Full
            <4>3. SubSeq(p, 1, LastEnd(p) - 1) = Piece(w, a, f)
                <5>. DEFINE l == x - 1
                <5>1. l \in 0 .. e - a /\ a + l = f
                    BY <1>3, <2>1, <2>4
                <5>2. SubSeq(p, 1, LastEnd(p) - 1) = Piece(p, 0, l)
                    <6>1. 0 + 1 = 1 /\ LastEnd(p) - 1 = l
                        BY <2>3
                    <6>. QED  BY <6>1 DEF Piece
                <5>. HIDE DEF l, f
                <5>3. PICK z \in Nat : z = 0
                    OBVIOUS
                <5>4. z \in 0 .. e - a /\ l \in z .. e - a /\ a + z = a
                    BY <1>3, <5>1, <5>3
                <5>5. Piece(p, z, l) = Piece(w, a + z, a + l)
                    BY <1>1, <1>6, <5>4, PieceOfPiece DEF p
                <5>. QED  BY <5>1, <5>2, <5>3, <5>4, <5>5
            <4>4. Split[SubSeq(p, 1, LastEnd(p) - 1)] = c
                <5>1. Split[Piece(w, a, f)] = c
                    <6>. HIDE DEF i0, f
                    <6>. QED  BY <4>1, <4>2, SplitPiece DEF a, w
                <5>. QED  BY <4>3, <5>1
            <4>5. recv = c
                BY <2>7, <3>2, <4>4
            <4>6. Piece(w, Bound(R, i0), f) = R[j] /\ (i0 - k) + 1 = d /\ k + d = j
                BY <1>2, <1>3, <4>1, SectionIs DEF b, w, d
            <4>7. c = [i \in 1 .. d |-> IF i = d THEN R[j] ELSE R[k + i]]
                BY <4>6 DEF Cuts, w
            <4>. HIDE DEF c, recv
            <4>. QED  BY <4>5, <4>6, <4>7
        <3>. QED  BY <3>1, <3>2
    <2>. HIDE DEF recv
    <2>. QED  BY <2>5, <2>6, <2>10
<1>. QED  BY <1>10, <1>11 DEF Parsed

-----------------------------------------------------------------------------
(* Characters of bytes.                                                    *)

LEMMA CharsIs ==
    ASSUME NEW s \in Seq(EncodedByte)
    PROVE  /\ Chars(s) \in Seq(Char) /\ Len(Chars(s)) = Len(s)
           /\ \A i \in 1 .. Len(s) : Chars(s)[i] = s[i].char
<1>1. Len(s) \in Nat /\ DOMAIN s = 1 .. Len(s) /\ \A i \in 1 .. Len(s) : s[i] \in EncodedByte
    BY LenProperties, ElementOfSeq
<1>2. Chars(s) = [i \in 1 .. Len(s) |-> s[i].char]
    BY <1>1 DEF Chars
<1>3. \A i \in 1 .. Len(s) : s[i].char \in Char
    BY <1>1 DEF EncodedByte
<1>4. Chars(s) \in [1 .. Len(s) -> Char]
    BY <1>2, <1>3
<1>5. Chars(s) \in Seq(Char) /\ Len(Chars(s)) = Len(s)
    BY <1>1, <1>4, FunctionIsSeq
<1>. QED  BY <1>2, <1>5

LEMMA CharsCat ==
    ASSUME NEW s \in Seq(EncodedByte), NEW t \in Seq(EncodedByte)
    PROVE  Chars(s \o t) = Chars(s) \o Chars(t)
<1>. DEFINE u == s \o t
            c == Chars(s)
            d == Chars(t)
            l == Chars(u)
            r == c \o d
<1>0. Len(s) \in Nat /\ Len(t) \in Nat
    BY LenProperties
<1>1. /\ u \in Seq(EncodedByte) /\ Len(u) = Len(s) + Len(t)
      /\ \A i \in 1 .. Len(s) + Len(t) : u[i] = IF i <= Len(s) THEN s[i] ELSE t[i - Len(s)]
    BY ConcatProperties
<1>2. /\ c \in Seq(Char) /\ Len(c) = Len(s) /\ \A i \in 1 .. Len(s) : c[i] = s[i].char
      /\ d \in Seq(Char) /\ Len(d) = Len(t) /\ \A i \in 1 .. Len(t) : d[i] = t[i].char
    BY CharsIs
<1>. HIDE DEF u
<1>3. l \in Seq(Char) /\ Len(l) = Len(u) /\ \A i \in 1 .. Len(u) : l[i] = u[i].char
    BY <1>1, CharsIs
<1>. HIDE DEF c, d
<1>4. /\ r \in Seq(Char) /\ Len(r) = Len(c) + Len(d)
      /\ \A i \in 1 .. Len(c) + Len(d) : r[i] = IF i <= Len(c) THEN c[i] ELSE d[i - Len(c)]
    BY <1>2, ConcatProperties
<1>. HIDE DEF l, r
<1>5. Len(l) = Len(r)
    BY <1>1, <1>2, <1>3, <1>4
<1>6. ASSUME NEW i \in 1 .. Len(l) PROVE l[i] = r[i]
    <2>1. i \in 1 .. Len(s) + Len(t) /\ i \in 1 .. Len(c) + Len(d) /\ i \in 1 .. Len(u)
        BY <1>1, <1>2, <1>3
    <2>2. CASE i <= Len(s)
        <3>1. i \in 1 .. Len(s)
            BY <1>0, <2>1, <2>2
        <3>. QED  BY <1>1, <1>2, <1>3, <1>4, <2>1, <2>2, <3>1
    <2>3. CASE ~(i <= Len(s))
        <3>1. i - Len(s) \in 1 .. Len(t)
            BY <1>0, <2>1, <2>3
        <3>. QED  BY <1>1, <1>2, <1>3, <1>4, <2>1, <2>3, <3>1
    <2>. QED  BY <2>2, <2>3
<1>7. l = r
    BY <1>3, <1>4, <1>5, <1>6, SeqEqual
<1>. QED  BY <1>7 DEF l, r, u, c, d

\* Sent text keeps its characters.
LEMMA CharsSent ==
    ASSUME NEW s \in Seq(Char)
    PROVE  /\ Raw(s) \in Seq(EncodedByte) /\ Chars(Raw(s)) = s
           /\ Frame(s) \in Seq(EncodedByte) /\ Chars(Frame(s)) = s
<1>1. Len(s) \in Nat /\ DOMAIN s = 1 .. Len(s) /\ \A i \in 1 .. Len(s) : s[i] \in Char
    BY LenProperties, ElementOfSeq
<1>2. ASSUME NEW b \in [1 .. Len(s) -> EncodedByte], \A i \in 1 .. Len(s) : b[i].char = s[i]
      PROVE  b \in Seq(EncodedByte) /\ Chars(b) = s
    <2>1. b \in Seq(EncodedByte) /\ Len(b) = Len(s)
        BY <1>1, FunctionIsSeq
    <2>2. Chars(b) \in Seq(Char) /\ Len(Chars(b)) = Len(b) /\ \A i \in 1 .. Len(b) : Chars(b)[i] = b[i].char
        BY <2>1, CharsIs
    <2>3. \A i \in 1 .. Len(Chars(b)) : Chars(b)[i] = s[i]
        BY <1>2, <2>1, <2>2
    <2>4. Len(Chars(b)) = Len(s)
        BY <2>1, <2>2
    <2>. QED  BY <2>1, <2>2, <2>3, <2>4, SeqEqual
<1>3. Raw(s) \in [1 .. Len(s) -> EncodedByte] /\ \A i \in 1 .. Len(s) : Raw(s)[i].char = s[i]
    BY <1>1 DEF Raw, EncodedByte
<1>4. Frame(s) \in [1 .. Len(s) -> EncodedByte] /\ \A i \in 1 .. Len(s) : Frame(s)[i].char = s[i]
    <2>1. Frame(s) = [i \in 1 .. Len(s) |-> [char |-> s[i], last |-> i = Len(s)]]
        BY <1>1 DEF Frame
    <2>2. \A i \in 1 .. Len(s) : [char |-> s[i], last |-> i = Len(s)] \in EncodedByte
        BY <1>1 DEF EncodedByte
    <2>. QED  BY <2>1, <2>2
<1>. QED  BY <1>2, <1>3, <1>4

\* Bytes cut in two keep their characters.
LEMMA CharsCut ==
    ASSUME NEW s \in Seq(EncodedByte), NEW n \in 0 .. Len(s)
    PROVE  /\ SubSeq(s, 1, n) \in Seq(EncodedByte) /\ From(s, n + 1) \in Seq(EncodedByte)
           /\ Len(SubSeq(s, 1, n)) = n
           /\ Chars(s) = Chars(SubSeq(s, 1, n)) \o Chars(From(s, n + 1))
<1>1. Len(s) \in Nat /\ \A i \in 1 .. Len(s) : s[i] \in EncodedByte
    BY LenProperties, ElementOfSeq
<1>2. 1 \in Int /\ n \in Int /\ n + 1 \in Int /\ Len(s) \in Int
    BY <1>1
<1>3. (\A i \in 1 .. n : s[i] \in EncodedByte) /\ (\A i \in n + 1 .. Len(s) : s[i] \in EncodedByte)
    BY <1>1
<1>4. SubSeq(s, 1, n) \in Seq(EncodedByte) /\ Len(SubSeq(s, 1, n)) = n
    BY <1>1, <1>2, <1>3, SubSeqProperties
<1>5. From(s, n + 1) \in Seq(EncodedByte)
    BY <1>2, <1>3, SubSeqProperties DEF From
<1>6. SubSeq(s, 1, n) \o From(s, n + 1) = s
    <2>1. 1 \in 1 .. Len(s) + 1 /\ n \in 1 - 1 .. Len(s) /\ Len(s) \in n .. Len(s)
        BY <1>1
    <2>2. SubSeq(s, 1, n) \o SubSeq(s, n + 1, Len(s)) = SubSeq(s, 1, Len(s))
        BY <2>1, ConcatAdjacentSubSeq
    <2>3. SubSeq(s, 1, Len(s)) = s
        BY SubSeqFull
    <2>. QED  BY <2>2, <2>3 DEF From
<1>7. Chars(SubSeq(s, 1, n) \o From(s, n + 1)) = Chars(SubSeq(s, 1, n)) \o Chars(From(s, n + 1))
    BY <1>4, <1>5, CharsCat
<1>. QED  BY <1>4, <1>5, <1>6, <1>7

-----------------------------------------------------------------------------
(* Names and texts of blocks.                                              *)

\* A block has a name without an end of line; name and data give it back.
LEMMA NamedIs ==
    ASSUME NEW b \in Seq(Char)
    PROVE  /\ Named(b) \in [name : Seq(Char), data : Seq(Char)]
           /\ At(EndLine, Named(b).name) = {}
<1>. DEFINE ends == At(EndLine, b)
            m == Min(ends)
<1>0. Len(b) \in Nat /\ \A i \in 1 .. Len(b) : b[i] \in Char
    BY LenProperties, ElementOfSeq
<1>1. CASE ends = {}
    <2>1. Named(b) = [name |-> b, data |-> <<>>]
        BY <1>1 DEF Named
    <2>. QED  BY <1>1, <2>1, EmptySeq
<1>2. CASE ends # {}
    <2>1. ends \in SUBSET Nat
        BY <1>0, EndBlockIs DEF At
    <2>2. m \in ends /\ \A i \in ends : m <= i
        <3>. HIDE DEF ends
        <3>. QED  BY <1>2, <2>1, MinOf
    <2>3. m \in 1 .. Len(b) - 1
        BY <1>0, <2>2, EndBlockIs DEF At
    <2>. HIDE DEF m
    <2>. DEFINE s == SubSeq(b, 1, m - 1)
                t == SubSeq(b, m + 2, Len(b))
    <2>4. Named(b) = [name |-> s, data |-> t]
        BY <1>2 DEF Named, From, m
    <2>5. m - 1 \in Int /\ (\A i \in 1 .. m - 1 : b[i] \in Char)
        BY <1>0, <2>3
    <2>6. m + 2 \in Int /\ (\A i \in m + 2 .. Len(b) : b[i] \in Char)
        BY <1>0, <2>3
    <2>7. s \in Seq(Char) /\ Len(s) = m - 1 /\ \A i \in 1 .. m - 1 : s[i] = b[i]
        <3>1. /\ s \in Seq(Char) /\ Len(s) = IF 1 <= m - 1 THEN (m - 1) - 1 + 1 ELSE 0
              /\ \A i \in 1 .. (m - 1) - 1 + 1 : s[i] = b[1 + i - 1]
            BY <2>5, SubSeqProperties
        <3>. HIDE DEF s
        <3>2. Len(s) = m - 1
            BY <2>3, <3>1
        <3>3. ASSUME NEW i \in 1 .. m - 1 PROVE s[i] = b[i]
            <4>1. i \in 1 .. (m - 1) - 1 + 1 /\ 1 + i - 1 = i
                BY <2>3
            <4>. QED  BY <3>1, <4>1
        <3>. QED  BY <3>1, <3>2, <3>3
    <2>8. t \in Seq(Char)
        BY <1>0, <2>6, SubSeqProperties
    <2>. HIDE DEF s, t
    <2>9. ASSUME NEW i \in At(EndLine, s) PROVE FALSE
        <3>1. i \in Int
            BY <2>5, <2>7, EndBlockIs DEF At
        <3>2. i \in 1 .. Len(s) - 1 /\ s[i] = "CR" /\ s[i + 1] = "LF"
            BY <2>7, <2>9, <3>1, EndLineAt
        <3>3. i \in 1 .. m - 1 /\ i + 1 \in 1 .. m - 1 /\ i \in 1 .. Len(b) - 1 /\ i < m
            BY <1>0, <2>3, <2>7, <3>2
        <3>4. b[i] = "CR" /\ b[i + 1] = "LF"
            BY <2>7, <3>2, <3>3
        <3>5. i \in ends
            BY <3>1, <3>3, <3>4, EndLineAt
        <3>. HIDE DEF ends
        <3>. QED  BY <2>2, <2>3, <3>1, <3>3, <3>5
    <2>. QED  BY <2>4, <2>7, <2>8, <2>9
<1>. QED  BY <1>1, <1>2

LEMMA TextOfNamed ==
    ASSUME NEW b \in Seq(Char), b # <<>>, b[Len(b)] \in Letters
    PROVE  TextOf(Named(b)) = b \o EndBlock
<1>. DEFINE ends == At(EndLine, b)
            m == Min(ends)
            n == Len(b)
<1>0. n \in Nat /\ n # 0
    BY LenProperties, EmptySeq
<1>1. CASE ends = {}
    <2>1. Named(b) = [name |-> b, data |-> <<>>]
        BY <1>1 DEF Named
    <2>2. b \o <<>> = b
        BY ConcatEmptySeq
    <2>. QED  BY <2>1, <2>2 DEF TextOf
<1>2. CASE ends # {}
    <2>1. ends \in SUBSET Nat
        BY <1>0, EndBlockIs DEF At
    <2>2. m \in ends /\ m \in Int
        <3>. HIDE DEF ends
        <3>1. m \in ends
            BY <1>2, <2>1, MinOf
        <3>. HIDE DEF m
        <3>2. m \in Nat
            BY <2>1, <3>1
        <3>. QED  BY <3>1, <3>2
    <2>3. m \in 1 .. n - 1 /\ b[m] = "CR" /\ b[m + 1] = "LF"
        <3>. HIDE DEF m
        <3>. QED  BY <2>2, EndLineAt
    <2>4. SubSeq(b, m, m + 1) = EndLine
        <3>. HIDE DEF m
        <3>1. SubSeq(b, m, m + Len(EndLine) - 1) = EndLine
            BY <2>2 DEF At
        <3>2. m + Len(EndLine) - 1 = m + 1
            BY <2>2, EndBlockIs
        <3>. QED  BY <3>1, <3>2
    <2>5. m + 1 # n
        BY <2>3, FramingAssumption
    <2>. HIDE DEF m
    <2>6. m + 1 < n
        BY <1>0, <2>3, <2>5
    <2>7. Named(b) = [name |-> Piece(b, 0, m - 1), data |-> Piece(b, m + 1, n)]
        <3>1. Named(b) = [name |-> SubSeq(b, 1, m - 1), data |-> SubSeq(b, m + 2, n)]
            BY <1>2 DEF Named, From, m
        <3>2. 0 + 1 = 1 /\ m + 1 + 1 = m + 2
            BY <2>3
        <3>. QED  BY <3>1, <3>2 DEF Piece
    <2>8. Piece(b, m - 1, m + 1) = EndLine
        <3>1. m - 1 + 1 = m
            BY <2>3
        <3>. QED  BY <2>4, <3>1 DEF Piece
    <2>. DEFINE i == m - 1
                j == m + 1
    <2>9. i \in 0 .. n /\ j \in i .. n /\ j < n /\ j \in 0 .. n /\ n \in j .. n /\ n \in i .. n
        BY <1>0, <2>3, <2>6
    <2>. HIDE DEF i, j
    <2>10. Piece(b, i, j) \o Piece(b, j, n) = Piece(b, i, n)
        BY <2>9, PieceJoin
    <2>11. Piece(b, 0, i) \o Piece(b, i, n) = Piece(b, 0, n)
        <3>1. PICK z \in 0 .. n : z = 0
            BY <1>0
        <3>2. i \in z .. n
            BY <2>9, <3>1
        <3>3. Piece(b, z, i) \o Piece(b, i, n) = Piece(b, z, n)
            BY <2>9, <3>1, <3>2, PieceJoin
        <3>. QED  BY <3>1, <3>3
    <2>12. Piece(b, 0, n) = b
        BY PieceAll
    <2>13. Piece(b, j, n) # <<>>
        <3>1. Piece(b, j, n) \in Seq(Char) /\ Len(Piece(b, j, n)) = n - j
            BY <2>9, PieceIs
        <3>2. n - j # 0
            BY <2>9
        <3>. QED  BY <3>1, <3>2, EmptySeq
    <2>. HIDE DEF n
    <2>14. TextOf(Named(b)) = (Piece(b, 0, i) \o (EndLine \o Piece(b, j, n))) \o EndBlock
        BY <2>7, <2>13 DEF TextOf, i, j
    <2>15. EndLine = Piece(b, i, j)
        BY <2>8 DEF i, j
    <2>. QED  BY <2>10, <2>11, <2>12, <2>14, <2>15
<1>. QED  BY <1>1, <1>2

-----------------------------------------------------------------------------
(* The texts of the model.                                                 *)

LEMMA TextIs == Stream \in Streams /\ Text = Whole(Stream)
<1>1. Stream \in Seq(Seq(Char) \ {<<>>})
    BY FramingAssumption
<1>2. Stream \in Streams
    BY <1>1, FramingAssumption DEF Streams
<1>3. DOMAIN Stream = 1 .. Len(Stream)
    BY <1>1, LenProperties
<1>. QED  BY <1>2, <1>3 DEF Text, Whole, Upto

\* The answer to the login is a text of one block.
LEMMA AnswerIs ==
    ASSUME NEW answer \in {Accepted, Refused}
    PROVE  /\ answer \in Seq(Char)
           /\ <<answer>> \in Streams /\ Len(<<answer>>) = 1
           /\ Whole(<<answer>>) = answer \o EndBlock
           /\ Bound(<<answer>>, 1) = Len(answer \o EndBlock)
<1>1. /\ answer \in Seq(Char) /\ Len(answer) = 4
      /\ answer[1] = "authresult" /\ (answer[4] = "OK" \/ answer[4] = "wrong")
    <2>1. "authresult" \in Char /\ "OK" \in Char /\ "wrong" \in Char /\ "CR" \in Char /\ "LF" \in Char
        BY FramingAssumption DEF Char
    <2>2. CASE answer = Accepted
        BY <2>1, <2>2 DEF Accepted
    <2>3. CASE answer = Refused
        BY <2>1, <2>3 DEF Refused
    <2>. QED  BY <2>2, <2>3
<1>2. answer[1] \in Letters /\ answer[4] \in Letters /\ answer[1] # "CR"
    BY <1>1, FramingAssumption
<1>3. At(EndBlock, answer) = {}
    <2>1. ASSUME NEW i \in At(EndBlock, answer) PROVE FALSE
        <3>1. i \in Int
            BY <1>1, <2>1, EndBlockIs DEF At
        <3>2. i \in 1 .. 4 - 3 /\ answer[i] = "CR"
            BY <1>1, <2>1, <3>1, EndBlockAt
        <3>3. i = 1
            BY <3>2
        <3>. QED  BY <1>2, <3>2, <3>3
    <2>. QED  BY <2>1
<1>. DEFINE R == <<answer>>
<1>4. answer # <<>>
    BY <1>1, EmptySeq
<1>5. R \in Seq(Seq(Char) \ {<<>>}) /\ Len(R) = 1 /\ R[1] = answer /\ DOMAIN R = 1 .. 1
    BY <1>1, <1>4
<1>6. Head(answer) = answer[1] /\ Last(answer) = answer[4]
    BY <1>1 DEF Last
<1>. HIDE DEF R
<1>7. R \in Streams
    <2>1. ASSUME NEW k \in DOMAIN R PROVE R[k] = answer
        <3>1. k = 1
            BY <1>5
        <3>. QED  BY <1>5, <3>1
    <2>. QED  BY <1>2, <1>3, <1>5, <1>6, <2>1 DEF Streams
<1>8. Whole(R) = answer \o EndBlock
    <2>1. R \in Seq(Seq(Char)) /\ 1 \in 1 .. Len(R) /\ 1 - 1 = 0
        BY <1>5, <1>7, StreamIs
    <2>2. Upto(R, 1) = Upto(R, 1 - 1) \o (R[1] \o EndBlock) /\ Upto(R, 0) = <<>>
        BY <2>1, UptoIs
    <2>3. Upto(R, 1) = <<>> \o (answer \o EndBlock)
        BY <1>5, <2>1, <2>2
    <2>4. answer \o EndBlock \in Seq(Char)
        BY <1>1, EndedIs
    <2>. DEFINE s == answer \o EndBlock
    <2>5. <<>> \o s = s
        BY <2>4, ConcatEmptySeq
    <2>. QED  BY <1>5, <2>3, <2>5 DEF Whole
<1>9. Bound(R, 1) = Len(answer \o EndBlock)
    BY <1>5, <1>8 DEF Bound, Whole
<1>. QED  BY <1>1, <1>5, <1>7, <1>8, <1>9 DEF R

-----------------------------------------------------------------------------
(* The invariant.                                                          *)

\* What was handed over are the first blocks of the stream.
GotBegins ==
    /\ Len(got) <= Len(Stream)
    /\ \A i \in 1 .. Len(got) : got[i] = Named(Stream[i])

\* Nothing but the answer to the login is under way.
Login ==
    /\ got = <<>> /\ sent = 0 /\ encBuffer = <<>>
    /\ \E answer \in {Accepted, Refused} : sockBuffer \o Chars(wire) = answer \o EndBlock

\* The buffers and the wire hold the text from the first block on that was not
\* handed over.
Flow ==
    /\ Bound(Stream, Len(got)) <= sent
    /\ (sockBuffer \o Chars(encBuffer)) \o Chars(wire) = Piece(Text, Bound(Stream, Len(got)), sent)

StreamInv ==
    /\ GotBegins
    /\ phase = "connecting" => Login
    /\ phase = "online" => Flow

FramingInv == FramingTypeOK /\ StreamInv

Block == [name : Seq(Char), data : Seq(Char)]

LEMMA StreamNames ==
    \A i \in 1 .. Len(Stream) : Named(Stream[i]) \in Block /\ At(EndLine, Named(Stream[i]).name) = {}
BY TextIs, StreamIs, NamedIs DEF Block

-----------------------------------------------------------------------------
(* Its steps.                                                              *)

LEMMA FramingInvInit == FramingInit => FramingInv
<1>. SUFFICES ASSUME FramingInit PROVE FramingInv
    OBVIOUS
<1>1. FramingTypeOK
    <2>1. Len(Text) \in Nat
        BY TextIs, WholeIs, LenProperties
    <2>2. got \in Seq(Block)
        BY EmptySeq DEF FramingInit
    <2>3. wire \in Seq(EncodedByte) /\ encBuffer \in Seq(EncodedByte) /\ sockBuffer \in Seq(Char)
        BY EmptySeq DEF FramingInit
    <2>4. \A i \in DOMAIN got : At(EndLine, got[i].name) = {}
        BY DEF FramingInit
    <2>. QED  BY <2>1, <2>2, <2>3, <2>4 DEF FramingInit, FramingTypeOK, Block
<1>2. GotBegins
    <2>1. Len(Stream) \in Nat
        BY TextIs, StreamIs
    <2>2. Len(got) = 0
        BY EmptySeq DEF FramingInit
    <2>. QED  BY <2>1, <2>2 DEF GotBegins
<1>. QED  BY <1>1, <1>2 DEF FramingInv, StreamInv, FramingInit

LEMMA ConnectStep == FramingInv /\ Connect => FramingInv'
<1>. SUFFICES ASSUME FramingInv, Connect PROVE FramingInv'
    OBVIOUS
<1>1. PICK answer \in {Accepted, Refused} : wire' = Raw(answer \o EndBlock)
    BY DEF Connect
<1>2. answer \o EndBlock \in Seq(Char)
    BY AnswerIs, EndedIs
<1>3. wire' \in Seq(EncodedByte) /\ Chars(wire') = answer \o EndBlock
    BY <1>1, <1>2, CharsSent
<1>4. phase' = "connecting" /\ encBuffer' = <<>> /\ sockBuffer' = <<>> /\ sent' = 0 /\ got' = <<>>
    BY DEF Connect
<1>5. FramingTypeOK'
    <2>1. Len(Text) \in Nat
        BY TextIs, WholeIs, LenProperties
    <2>2. got' \in Seq(Block) /\ encBuffer' \in Seq(EncodedByte) /\ sockBuffer' \in Seq(Char)
        BY <1>4, EmptySeq
    <2>3. \A i \in DOMAIN got' : At(EndLine, got'[i].name) = {}
        BY <1>4
    <2>. QED  BY <1>3, <1>4, <2>1, <2>2, <2>3 DEF FramingTypeOK, Block
<1>6. GotBegins'
    <2>1. Len(Stream) \in Nat
        BY TextIs, StreamIs
    <2>2. Len(got') = 0
        BY <1>4, EmptySeq
    <2>. QED  BY <2>1, <2>2 DEF GotBegins
<1>7. Login'
    <2>1. sockBuffer' \o Chars(wire') = answer \o EndBlock
        BY <1>2, <1>3, <1>4, ConcatEmptySeq
    <2>. QED  BY <1>4, <2>1 DEF Login
<1>. QED  BY <1>4, <1>5, <1>6, <1>7 DEF FramingInv, StreamInv

\* A step that closes the session leaves only the types to check.
LEMMA QuitStep == FramingInv /\ Quit => FramingInv'
<1>. SUFFICES ASSUME FramingInv, Quit PROVE FramingInv'
    OBVIOUS
<1>1. phase' = "off" /\ UNCHANGED <<sent, wire, encBuffer, sockBuffer, got>>
    BY DEF Quit
<1>2. FramingTypeOK'
    BY <1>1 DEF FramingInv, FramingTypeOK
<1>3. GotBegins'
    BY <1>1 DEF FramingInv, StreamInv, GotBegins
<1>. QED  BY <1>1, <1>2, <1>3 DEF FramingInv, StreamInv

LEMMA SendFrameStep ==
    ASSUME FramingInv, NEW size \in FrameSizes, SendFrame(size)
    PROVE  FramingInv'
<1>. DEFINE end == Min({sent + size, Len(Text)})
            f == Piece(Text, sent, end)
            g == Bound(Stream, Len(got))
            s == sockBuffer \o Chars(encBuffer)
<1>1. /\ Text \in Seq(Char) /\ Len(Text) \in Nat /\ size \in Nat \ {0}
      /\ sent \in 0 .. Len(Text) /\ sent < Len(Text)
      /\ wire \in Seq(EncodedByte) /\ encBuffer \in Seq(EncodedByte) /\ sockBuffer \in Seq(Char)
    BY TextIs, WholeIs, LenProperties, FramingAssumption DEF FramingInv, FramingTypeOK, SendFrame
<1>2. end \in sent .. Len(Text) /\ end \in 0 .. Len(Text)
    <2>1. end = IF sent + size <= Len(Text) THEN sent + size ELSE Len(Text)
        <3>1. sent + size \in Int /\ Len(Text) \in Int
            BY <1>1
        <3>. QED  BY <3>1, MinOfTwo
    <2>. HIDE DEF end
    <2>. QED  BY <1>1, <2>1
<1>3. /\ phase = "online" /\ sent' = end /\ wire' = wire \o Frame(f)
      /\ UNCHANGED <<phase, encBuffer, sockBuffer, got>>
    BY DEF SendFrame, Piece
<1>. HIDE DEF end
<1>4. f \in Seq(Char)
    BY <1>1, <1>2, PieceIs
<1>. HIDE DEF f
<1>5. Frame(f) \in Seq(EncodedByte) /\ Chars(Frame(f)) = f
    BY <1>4, CharsSent
<1>6. wire' \in Seq(EncodedByte) /\ Chars(wire') = Chars(wire) \o f
    BY <1>1, <1>3, <1>5, ConcatProperties, CharsCat
<1>7. FramingTypeOK'
    BY <1>2, <1>3, <1>6 DEF FramingInv, FramingTypeOK
<1>8. GotBegins'
    BY <1>3 DEF FramingInv, StreamInv, GotBegins
<1>9. g <= sent /\ s \o Chars(wire) = Piece(Text, g, sent)
    BY <1>3 DEF FramingInv, StreamInv, Flow
<1>10. g \in Nat
    <2>1. Len(got) \in Nat /\ Len(got) <= Len(Stream)
        BY LenProperties DEF FramingInv, FramingTypeOK, StreamInv, GotBegins
    <2>2. Len(got) \in 0 .. Len(Stream)
        BY <2>1, TextIs, StreamIs
    <2>. QED  BY <2>2, TextIs, BoundStep
<1>11. Chars(wire) \in Seq(Char) /\ s \in Seq(Char)
    BY <1>1, CharsIs, ConcatProperties
<1>. HIDE DEF g, s
<1>12. s \o Chars(wire') = Piece(Text, g, end)
    <2>1. s \o (Chars(wire) \o f) = (s \o Chars(wire)) \o f
        BY <1>4, <1>11, ConcatAssociative
    <2>2. g \in 0 .. Len(Text) /\ sent \in g .. Len(Text)
        BY <1>1, <1>9, <1>10
    <2>3. Piece(Text, g, sent) \o Piece(Text, sent, end) = Piece(Text, g, end)
        BY <1>1, <1>2, <2>2, PieceJoin
    <2>. QED  BY <1>6, <1>9, <2>1, <2>3 DEF f
<1>13. Flow'
    <2>1. g <= end
        BY <1>1, <1>2, <1>9, <1>10
    <2>. QED  BY <1>3, <1>12, <2>1 DEF Flow, g, s
<1>. QED  BY <1>3, <1>7, <1>8, <1>13 DEF FramingInv, StreamInv

LEMMA DecodeFailsStep ==
    ASSUME FramingInv, NEW n \in 1 .. Len(wire), DecodeFails(n)
    PROVE  FramingInv'
<1>1. /\ phase' = "off" /\ wire' = From(wire, n + 1) /\ encBuffer' = <<>>
      /\ UNCHANGED <<sent, sockBuffer, got>>
    BY DEF DecodeFails
<1>2. wire \in Seq(EncodedByte) /\ n \in 0 .. Len(wire)
    BY LenProperties DEF FramingInv, FramingTypeOK
<1>3. wire' \in Seq(EncodedByte) /\ encBuffer' \in Seq(EncodedByte)
    BY <1>1, <1>2, CharsCut, EmptySeq
<1>4. FramingTypeOK'
    BY <1>1, <1>3 DEF FramingInv, FramingTypeOK
<1>5. GotBegins'
    BY <1>1 DEF FramingInv, StreamInv, GotBegins
<1>. QED  BY <1>1, <1>4, <1>5 DEF FramingInv, StreamInv

\* A read before the login is part of the answer: it completes it or leaves it
\* in the buffer.
LEMMA ReadPlainStep ==
    ASSUME FramingInv, NEW n \in 1 .. Len(wire), ReadPlain(n)
    PROVE  FramingInv'
<1>. DEFINE text == Chars(SubSeq(wire, 1, n))
            buf == sockBuffer \o text
            rest == Chars(wire')
            e == Len(buf)
<1>1. /\ phase = "connecting" /\ wire' = From(wire, n + 1) /\ Receive(text)
      /\ UNCHANGED <<sent, encBuffer>>
    BY DEF ReadPlain
<1>2. /\ wire \in Seq(EncodedByte) /\ n \in 0 .. Len(wire) /\ sockBuffer \in Seq(Char)
      /\ encBuffer \in Seq(EncodedByte)
    BY LenProperties DEF FramingInv, FramingTypeOK
<1>3. /\ SubSeq(wire, 1, n) \in Seq(EncodedByte) /\ wire' \in Seq(EncodedByte)
      /\ Chars(wire) = text \o rest
    BY <1>1, <1>2, CharsCut
<1>4. text \in Seq(Char) /\ rest \in Seq(Char)
    BY <1>3, CharsIs
<1>5. PICK answer \in {Accepted, Refused} : sockBuffer \o Chars(wire) = answer \o EndBlock
    BY <1>1 DEF FramingInv, StreamInv, Login
<1>6. got = <<>> /\ sent = 0 /\ encBuffer = <<>>
    BY <1>1 DEF FramingInv, StreamInv, Login
<1>. DEFINE R == <<answer>>
            w == Whole(R)
<1>7. /\ answer \in Seq(Char) /\ R \in Streams /\ Len(R) = 1
      /\ w = answer \o EndBlock /\ Bound(R, 1) = Len(w)
    BY AnswerIs
<1>. HIDE DEF R, text, rest
<1>8. w \in Seq(Char) /\ Len(w) \in Nat
    BY <1>7, WholeIs, LenProperties
<1>9. buf \in Seq(Char) /\ e \in Nat
    BY <1>2, <1>4, ConcatProperties, LenProperties
<1>10. buf \o rest = w
    <2>1. (sockBuffer \o text) \o rest = sockBuffer \o (text \o rest)
        BY <1>2, <1>4, ConcatAssociative
    <2>. QED  BY <1>3, <1>5, <1>7, <2>1
<1>. HIDE DEF buf, w
<1>11. /\ e \in 0 .. Len(w)
       /\ buf = Piece(w, 0, e) /\ rest = Piece(w, e, Len(w))
    <2>1. w = Piece(w, 0, Len(w))
        BY <1>8, PieceAll
    <2>2. PICK z \in 0 .. Len(w) : z = 0
        BY <1>8
    <2>3. buf \o rest = Piece(w, z, Len(w)) /\ Len(w) \in z .. Len(w)
        BY <1>8, <1>10, <2>1, <2>2
    <2>4. buf = Piece(w, z, z + Len(buf)) /\ rest = Piece(w, z + Len(buf), Len(w))
        BY <1>4, <1>8, <1>9, <2>3, PieceCut
    <2>5. z + Len(buf) \in z .. Len(w)
        BY <1>4, <1>8, <1>9, <2>3, PieceCutEnd
    <2>6. z + Len(buf) = e
        BY <1>9, <2>2
    <2>. QED  BY <2>2, <2>4, <2>5, <2>6
<1>. HIDE DEF e
<1>12. PICK j \in 0 .. Len(R) : Full(R, j, e)
    BY <1>7, <1>11, FullExists DEF w
<1>13. Bound(R, 0) = 0
    BY <1>7, BoundStep
<1>14. /\ Rest(buf) = Piece(w, Bound(R, j), e)
       /\ Blocks(buf) = Parsed(R, 0, j)
    <2>1. PICK z \in 0 .. j : z = 0
        BY <1>7, <1>12
    <2>2. buf = Piece(Whole(R), Bound(R, z), e)
        BY <1>11, <1>13, <2>1 DEF w
    <2>3. /\ Rest(Piece(Whole(R), Bound(R, z), e)) = Piece(Whole(R), Bound(R, j), e)
          /\ Blocks(Piece(Whole(R), Bound(R, z), e)) = Parsed(R, z, j)
        BY <1>7, <1>11, <1>12, <2>1, ParsePiece DEF w
    <2>. QED  BY <2>1, <2>2, <2>3 DEF w
<1>15. /\ sockBuffer' = Rest(buf)
       /\ IF Blocks(buf) = <<>> THEN UNCHANGED <<phase, got>>
          ELSE /\ phase' = IF Blocks(buf)[1] = Named(Accepted) THEN "online" ELSE "off"
               /\ UNCHANGED got
    BY <1>1 DEF Receive, buf
<1>16. /\ got' = <<>> /\ sent' = 0 /\ encBuffer' = <<>>
       /\ phase' \in {"connecting", "online", "off"}
    BY <1>1, <1>6, <1>15
<1>17. j = 0 \/ j = 1
    BY <1>7, <1>12
<1>18. sockBuffer' \in Seq(Char)
    <2>1. Bound(R, j) \in 0 .. Len(w) /\ e \in Bound(R, j) .. Len(w)
        BY <1>7, <1>8, <1>11, <1>12, WholeIs DEF Full, w
    <2>. QED  BY <1>8, <1>14, <1>15, <2>1, PieceIs
<1>19. FramingTypeOK'
    <2>1. Len(Text) \in Nat
        BY TextIs, WholeIs, LenProperties
    <2>2. got' \in Seq(Block) /\ encBuffer' \in Seq(EncodedByte)
        BY <1>16, EmptySeq
    <2>3. \A i \in DOMAIN got' : At(EndLine, got'[i].name) = {}
        BY <1>16
    <2>. QED  BY <1>3, <1>16, <1>18, <2>1, <2>2, <2>3 DEF FramingTypeOK, Block
<1>20. Len(got') = 0 /\ Len(Stream) \in Nat
    BY <1>16, TextIs, StreamIs, EmptySeq
<1>21. GotBegins'
    BY <1>20 DEF GotBegins
<1>22. CASE j = 0
    <2>1. Blocks(buf) = <<>>
        BY <1>14, <1>22 DEF Parsed
    <2>2. phase' = "connecting" /\ sockBuffer' = buf
        BY <1>1, <1>11, <1>13, <1>14, <1>15, <1>22, <2>1
    <2>3. Login'
        BY <1>7, <1>10, <1>16, <2>2 DEF Login, rest
    <2>. QED  BY <1>19, <1>21, <2>2, <2>3 DEF FramingInv, StreamInv
<1>23. CASE j = 1
    <2>1. e = Len(w)
        <3>1. Bound(R, j) <= e
            BY <1>12 DEF Full
        <3>2. Bound(R, j) = Len(w)
            BY <1>7, <1>23
        <3>. QED  BY <1>8, <1>11, <3>1, <3>2
    <2>2. sockBuffer' = <<>> /\ Chars(wire') = <<>>
        BY <1>7, <1>8, <1>11, <1>14, <1>15, <1>23, <2>1, PieceNone DEF rest
    <2>3. Blocks(buf) # <<>>
        <3>1. 1 \in DOMAIN Blocks(buf)
            BY <1>14, <1>23 DEF Parsed
        <3>2. DOMAIN <<>> = {}
            OBVIOUS
        <3>. QED  BY <3>1, <3>2
    <2>4. phase' # "connecting"
        BY <1>15, <2>3
    <2>5. Flow'
        <3>1. Chars(encBuffer') = <<>>
            BY <1>16 DEF Chars
        <3>2. (<<>> \o <<>>) \o <<>> = <<>>
            BY EmptySeq, ConcatEmptySeq
        <3>3. Piece(Text, 0, 0) = <<>> /\ Bound(Stream, 0) = 0
            BY PieceNone, TextIs, BoundStep
        <3>. QED  BY <1>16, <1>20, <2>2, <3>1, <3>2, <3>3 DEF Flow
    <2>. QED  BY <1>19, <1>21, <2>4, <2>5 DEF FramingInv, StreamInv
<1>. QED  BY <1>17, <1>22, <1>23

LEMMA TextAssociative ==
    ASSUME NEW s \in Seq(Char), NEW t \in Seq(Char), NEW u \in Seq(Char)
    PROVE  (s \o t) \o u = s \o (t \o u)
BY ConcatAssociative

LEMMA DecodedIs ==
    ASSUME NEW all \in Seq(EncodedByte), NEW parsed \in Decoded(all)
    PROVE  parsed \in 0 .. Len(all)
<1>. DEFINE l == Len(all) % Width
            s == Marshalled(all)
<1>1. Len(all) \in Nat /\ Width \in Nat \ {0}
    BY LenProperties, FramingAssumption
<1>2. l \in Nat /\ l <= Len(all)
    BY <1>1
<1>3. \A i \in 1 .. l : all[i] \in EncodedByte
    BY <1>1, <1>2, ElementOfSeq
<1>. HIDE DEF l
<1>4. s = SubSeq(all, 1, l)
    BY DEF Marshalled, l
<1>5. s \in Seq(EncodedByte) /\ Len(s) = l
    <2>1. /\ SubSeq(all, 1, l) \in Seq(EncodedByte)
          /\ Len(SubSeq(all, 1, l)) = IF 1 <= l THEN l - 1 + 1 ELSE 0
        BY <1>2, <1>3, SubSeqProperties
    <2>. QED  BY <1>2, <1>4, <2>1
<1>. HIDE DEF s
<1>6. FrameEnds(s) \subseteq 1 .. l
    BY <1>5, LenProperties DEF FrameEnds
<1>7. parsed = 0 \/ parsed \in FrameEnds(s)
    BY DEF Decoded, s
<1>. QED  BY <1>1, <1>2, <1>6, <1>7

\* The blocks handed over, when there are k of them and then those up to j.
LEMMA GotMore ==
    ASSUME NEW g \in Seq(Block), Len(g) <= Len(Stream), \A i \in 1 .. Len(g) : g[i] = Named(Stream[i]),
           NEW j \in 0 .. Len(Stream), Len(g) <= j
    PROVE  LET h == g \o Parsed(Stream, Len(g), j)
           IN  /\ h \in Seq(Block) /\ Len(h) = j
               /\ \A i \in 1 .. j : h[i] = Named(Stream[i])
<1>. DEFINE n == Len(g)
            r == Parsed(Stream, n, j)
            d == j - n
            h == g \o r
<1>1. n \in Nat /\ Len(Stream) \in Nat /\ d \in Nat /\ j \in Nat
    BY LenProperties, TextIs, StreamIs
<1>2. ASSUME NEW i \in 1 .. d PROVE r[i] = Named(Stream[n + i]) /\ r[i] \in Block
    <2>1. r[i] = Named(Stream[n + i])
        BY DEF Parsed
    <2>2. n + i \in 1 .. Len(Stream)
        BY <1>1
    <2>. HIDE DEF n, r
    <2>. QED  BY <2>1, <2>2, StreamNames
<1>3. r \in [1 .. d -> Block]
    BY <1>2 DEF Parsed
<1>. HIDE DEF n, r, d, h
<1>4. r \in Seq(Block) /\ Len(r) = d
    BY <1>1, <1>3, FunctionIsSeq
<1>5. /\ h \in Seq(Block) /\ Len(h) = Len(g) + Len(r)
      /\ \A i \in 1 .. Len(g) + Len(r) : h[i] = IF i <= Len(g) THEN g[i] ELSE r[i - Len(g)]
    BY <1>4, ConcatProperties DEF h
<1>6. Len(h) = j
    BY <1>1, <1>4, <1>5 DEF n, d
<1>7. ASSUME NEW i \in 1 .. j PROVE h[i] = Named(Stream[i])
    <2>1. h[i] = IF i <= Len(g) THEN g[i] ELSE r[i - Len(g)]
        BY <1>5, <1>6
    <2>2. CASE i <= n
        <3>1. i \in 1 .. n
            BY <1>1, <2>2
        <3>. QED  BY <2>1, <2>2, <3>1 DEF n
    <2>3. CASE ~(i <= n)
        <3>1. i - n \in 1 .. d /\ n + (i - n) = i
            BY <1>1, <2>3 DEF d
        <3>2. r[i - n] = Named(Stream[n + (i - n)])
            BY <1>2, <3>1
        <3>. QED  BY <2>1, <2>3, <3>1, <3>2 DEF n
    <2>. QED  BY <2>2, <2>3
<1>. QED  BY <1>5, <1>6, <1>7 DEF h, r, n

\* A read of the encoded stream moves bytes from the wire to the buffers, and
\* the whole blocks from the buffer to the handlers.
LEMMA ReadEncodedStep ==
    ASSUME FramingInv, NEW n \in 1 .. Len(wire), ReadEncoded(n)
    PROVE  FramingInv'
<1>. DEFINE head == SubSeq(wire, 1, n)
            all == encBuffer \o head
            g == Len(got)
            a == Bound(Stream, g)
<1>1. phase = "online" /\ wire' = From(wire, n + 1) /\ sent' = sent
    BY DEF ReadEncoded
<1>2. PICK parsed \in Decoded(all) :
            /\ encBuffer' = From(all, parsed + 1)
            /\ IF parsed = 0 THEN UNCHANGED <<phase, sockBuffer, got>>
               ELSE Receive(Chars(SubSeq(all, 1, parsed)))
    BY DEF ReadEncoded
<1>3. /\ wire \in Seq(EncodedByte) /\ n \in 0 .. Len(wire) /\ sockBuffer \in Seq(Char)
      /\ encBuffer \in Seq(EncodedByte) /\ got \in Seq(Block) /\ g \in Nat
      /\ sent \in 0 .. Len(Text)
      /\ \A i \in DOMAIN got : At(EndLine, got[i].name) = {}
    <2>1. /\ wire \in Seq(EncodedByte) /\ sockBuffer \in Seq(Char)
          /\ encBuffer \in Seq(EncodedByte) /\ got \in Seq(Block)
          /\ sent \in 0 .. Len(Text)
          /\ \A i \in DOMAIN got : At(EndLine, got[i].name) = {}
        BY DEF FramingInv, FramingTypeOK, Block
    <2>2. Len(wire) \in Nat /\ g \in Nat
        BY <2>1, LenProperties
    <2>. HIDE DEF g
    <2>3. n \in 0 .. Len(wire)
        BY <2>2
    <2>. QED  BY <2>1, <2>2, <2>3
<1>4. /\ head \in Seq(EncodedByte) /\ wire' \in Seq(EncodedByte)
      /\ Chars(wire) = Chars(head) \o Chars(wire')
    BY <1>1, <1>3, CharsCut
<1>. HIDE DEF head
<1>5. all \in Seq(EncodedByte) /\ Chars(all) = Chars(encBuffer) \o Chars(head)
    BY <1>3, <1>4, ConcatProperties, CharsCat
<1>. HIDE DEF all
<1>6. parsed \in 0 .. Len(all)
    BY <1>5, DecodedIs
<1>. DEFINE t == Chars(SubSeq(all, 1, parsed))
            u == Chars(encBuffer')
            v == Chars(wire')
            buf == sockBuffer \o t
            rest == u \o v
<1>7. /\ SubSeq(all, 1, parsed) \in Seq(EncodedByte) /\ encBuffer' \in Seq(EncodedByte)
      /\ Len(SubSeq(all, 1, parsed)) = parsed
      /\ Chars(all) = t \o u
    BY <1>2, <1>5, <1>6, CharsCut
<1>8. t \in Seq(Char) /\ Len(t) = parsed /\ u \in Seq(Char) /\ v \in Seq(Char)
    BY <1>4, <1>7, CharsIs
<1>9. Chars(encBuffer) \in Seq(Char) /\ Chars(head) \in Seq(Char)
    BY <1>3, <1>4, CharsIs
<1>10. /\ g <= Len(Stream) /\ \A i \in 1 .. g : got[i] = Named(Stream[i])
       /\ a <= sent
       /\ (sockBuffer \o Chars(encBuffer)) \o Chars(wire) = Piece(Text, a, sent)
    BY <1>1 DEF FramingInv, StreamInv, GotBegins, Flow
<1>11. /\ Text \in Seq(Char) /\ Len(Text) \in Nat /\ Len(Stream) \in Nat
       /\ a \in 0 .. Len(Text) /\ sent \in a .. Len(Text)
    <2>1. Text \in Seq(Char) /\ Len(Text) \in Nat /\ Len(Stream) \in Nat
        BY TextIs, WholeIs, StreamIs, LenProperties
    <2>2. g \in 0 .. Len(Stream)
        BY <1>3, <1>10, <2>1
    <2>3. a \in 0 .. Len(Text)
        BY <2>2, TextIs, WholeIs
    <2>. HIDE DEF a
    <2>. QED  BY <1>3, <1>10, <2>1, <2>3
<1>. HIDE DEF t, u, v, a, g
<1>12. buf \in Seq(Char) /\ rest \in Seq(Char)
    BY <1>3, <1>8, ConcatProperties
<1>13. buf \o rest = Piece(Text, a, sent)
    <2>. DEFINE s == sockBuffer
                x == Chars(encBuffer)
                y == Chars(head)
    <2>1. (s \o x) \o (y \o v) = ((s \o x) \o y) \o v
        <3>1. s \o x \in Seq(Char) /\ y \in Seq(Char)
            BY <1>3, <1>9, ConcatProperties
        <3>. DEFINE z == s \o x
        <3>. HIDE DEF z, y
        <3>. QED  BY <1>8, <3>1, TextAssociative DEF z
    <2>2. (s \o x) \o y = s \o (x \o y)
        <3>. HIDE DEF x, y
        <3>. QED  BY <1>3, <1>9, TextAssociative DEF x, y
    <2>3. x \o y = t \o u
        BY <1>5, <1>7
    <2>4. s \o (t \o u) = (s \o t) \o u
        BY <1>3, <1>8, TextAssociative
    <2>5. ((s \o t) \o u) \o v = (s \o t) \o (u \o v)
        BY <1>8, <1>12, TextAssociative
    <2>6. (s \o x) \o (y \o v) = Piece(Text, a, sent)
        BY <1>4, <1>10 DEF v
    <2>. HIDE DEF s, x, y
    <2>7. (s \o t) \o (u \o v) = Piece(Text, a, sent)
        BY <2>1, <2>2, <2>3, <2>4, <2>5, <2>6
    <2>. QED  BY <2>7 DEF s
<1>14. CASE parsed = 0
    <2>1. phase' = "online" /\ sockBuffer' = sockBuffer /\ got' = got
        BY <1>1, <1>2, <1>14
    <2>2. FramingTypeOK'
        BY <1>1, <1>3, <1>4, <1>7, <2>1 DEF FramingTypeOK, Block
    <2>3. GotBegins'
        BY <1>10, <2>1 DEF GotBegins, g
    <2>4. Flow'
        <3>1. t = <<>>
            BY <1>8, <1>14, EmptySeq
        <3>2. buf = sockBuffer
            BY <1>3, <3>1, ConcatEmptySeq
        <3>3. (sockBuffer \o u) \o v = sockBuffer \o (u \o v)
            BY <1>3, <1>8, TextAssociative
        <3>4. (sockBuffer \o u) \o v = Piece(Text, a, sent)
            BY <1>13, <3>2, <3>3
        <3>. QED  BY <1>1, <1>10, <2>1, <3>4 DEF Flow, a, g, u, v
    <2>. QED  BY <2>1, <2>2, <2>3, <2>4 DEF FramingInv, StreamInv
<1>15. CASE parsed # 0
    <2>. DEFINE e == a + Len(buf)
    <2>1. buf = Piece(Text, a, e) /\ rest = Piece(Text, e, sent)
        <3>. HIDE DEF buf, rest
        <3>. QED  BY <1>11, <1>12, <1>13, PieceCut
    <2>2. e \in a .. sent
        <3>. HIDE DEF buf, rest
        <3>. QED  BY <1>11, <1>12, <1>13, PieceCutEnd
    <2>. HIDE DEF buf, rest, e
    <2>3. e \in 0 .. Len(Text) /\ e \in a .. Len(Text) /\ a <= e
        BY <1>3, <1>11, <2>2
    <2>4. PICK j \in 0 .. Len(Stream) : Full(Stream, j, e)
        BY <2>3, TextIs, FullExists
    <2>. DEFINE b == Bound(Stream, j)
    <2>5. g \in 0 .. j /\ b <= e /\ b \in 0 .. Len(Text)
        <3>1. g \in 0 .. Len(Stream) /\ Bound(Stream, g) <= e
            BY <1>3, <1>10, <1>11, <2>3 DEF a
        <3>2. g <= j /\ b <= e
            BY <2>4, <3>1 DEF Full
        <3>3. b \in 0 .. Len(Text)
            BY TextIs, WholeIs
        <3>. QED  BY <3>1, <3>2, <3>3
    <2>6. Rest(buf) = Piece(Text, b, e) /\ Blocks(buf) = Parsed(Stream, g, j)
        BY <2>1, <2>3, <2>4, <2>5, TextIs, ParsePiece DEF a
    <2>7. /\ sockBuffer' = Rest(buf)
          /\ IF Blocks(buf) = <<>> THEN UNCHANGED <<phase, got>>
             ELSE got' = got \o Blocks(buf) /\ UNCHANGED phase
        BY <1>1, <1>2, <1>15 DEF Receive, buf, t
    <2>8. phase' = "online" /\ got' = got \o Parsed(Stream, g, j)
        <3>1. CASE Blocks(buf) = <<>>
            BY <1>1, <1>3, <2>6, <2>7, <3>1, ConcatEmptySeq
        <3>2. CASE Blocks(buf) # <<>>
            BY <1>1, <2>6, <2>7, <3>2
        <3>. QED  BY <3>1, <3>2
    <2>. DEFINE h == got \o Parsed(Stream, Len(got), j)
    <2>9. got' = h
        BY <2>8 DEF g
    <2>10. h \in Seq(Block) /\ Len(h) = j /\ \A i \in 1 .. j : h[i] = Named(Stream[i])
        <3>1. /\ got \in Seq(Block) /\ Len(got) <= Len(Stream)
              /\ \A i \in 1 .. Len(got) : got[i] = Named(Stream[i])
              /\ Len(got) <= j
            BY <1>3, <1>10, <2>5 DEF g
        <3>. QED  BY <2>4, <3>1, GotMore
    <2>. HIDE DEF h, b
    <2>11. e \in b .. Len(Text) /\ e \in b .. sent /\ sent \in e .. Len(Text)
        BY <1>3, <1>11, <2>2, <2>3, <2>5
    <2>12. sockBuffer' \in Seq(Char)
        BY <1>11, <2>5, <2>6, <2>7, <2>11, PieceIs
    <2>13. DOMAIN h = 1 .. j
        BY <2>10, LenProperties
    <2>14. \A i \in DOMAIN got' : At(EndLine, got'[i].name) = {}
        <3>1. \A i \in 1 .. j : i \in 1 .. Len(Stream)
            BY <1>11, <2>4
        <3>. QED  BY <2>9, <2>10, <2>13, <3>1, StreamNames
    <2>15. FramingTypeOK'
        BY <1>1, <1>3, <1>4, <1>7, <2>8, <2>9, <2>10, <2>12, <2>14 DEF FramingTypeOK, Block
    <2>16. GotBegins'
        BY <1>11, <2>4, <2>9, <2>10 DEF GotBegins
    <2>17. Flow'
        <3>1. (sockBuffer' \o u) \o v = sockBuffer' \o (u \o v)
            BY <1>8, <2>12, TextAssociative
        <3>2. sockBuffer' \o (u \o v) = Piece(Text, b, e) \o Piece(Text, e, sent)
            BY <2>1, <2>6, <2>7 DEF rest, b
        <3>3. Piece(Text, b, e) \o Piece(Text, e, sent) = Piece(Text, b, sent)
            BY <1>11, <2>5, <2>11, PieceJoin DEF b
        <3>4. b <= sent /\ b = Bound(Stream, Len(got'))
            BY <1>3, <2>5, <2>9, <2>10, <2>11 DEF b
        <3>. QED  BY <1>1, <3>1, <3>2, <3>3, <3>4 DEF Flow, u, v
    <2>. QED  BY <2>8, <2>15, <2>16, <2>17 DEF FramingInv, StreamInv
<1>. QED  BY <1>14, <1>15

LEMMA FramingInvStep == FramingInv /\ [FramingNext]_framingVars => FramingInv'
<1>. SUFFICES ASSUME FramingInv, [FramingNext]_framingVars PROVE FramingInv'
    OBVIOUS
<1>1. CASE Connect
    BY <1>1, ConnectStep
<1>2. CASE Quit
    BY <1>2, QuitStep
<1>3. ASSUME NEW size \in FrameSizes, SendFrame(size) PROVE FramingInv'
    BY <1>3, SendFrameStep
<1>4. ASSUME NEW n \in 1 .. Len(wire), ReadPlain(n) PROVE FramingInv'
    BY <1>4, ReadPlainStep
<1>5. ASSUME NEW n \in 1 .. Len(wire), ReadEncoded(n) PROVE FramingInv'
    BY <1>5, ReadEncodedStep
<1>6. ASSUME NEW n \in 1 .. Len(wire), DecodeFails(n) PROVE FramingInv'
    BY <1>6, DecodeFailsStep
<1>7. CASE UNCHANGED framingVars
    <2>1. UNCHANGED <<phase, sent, wire, encBuffer, sockBuffer, got>>
        BY <1>7 DEF framingVars
    <2>2. FramingTypeOK'
        BY <2>1 DEF FramingInv, FramingTypeOK
    <2>3. GotBegins' /\ (phase' = "connecting" => Login') /\ (phase' = "online" => Flow')
        BY <2>1 DEF FramingInv, StreamInv, GotBegins, Login, Flow
    <2>. QED  BY <2>2, <2>3 DEF FramingInv, StreamInv
<1>. QED  BY <1>1, <1>2, <1>3, <1>4, <1>5, <1>6, <1>7 DEF FramingNext

-----------------------------------------------------------------------------
\* However frames and reads cut the text, at each moment of each session the
\* buffers begin with a block and, with the wire, hold all that is to come
\* (run, readFromSock, tcpReadyRead, parseReceivedData).
THEOREM FramingInvariant == FramingSpec => []FramingInv
<1>1. FramingInit => FramingInv
    BY FramingInvInit
<1>2. FramingInv /\ [FramingNext]_framingVars => FramingInv'
    BY FramingInvStep
<1>. QED  BY <1>1, <1>2, PTL DEF FramingSpec

\* The buffers hold text, and the name of a block is a line
\* (parseReceivedData).
THEOREM FramingTypeCorrect == FramingSpec => []FramingTypeOK
<1>1. FramingInv => FramingTypeOK
    BY DEF FramingInv
<1>. QED  BY <1>1, FramingInvariant, PTL

\* The blocks handed over are the text of the first blocks.
LEMMA GotText ==
    ASSUME FramingInv
    PROVE  FlattenSeq([i \in DOMAIN got |-> TextOf(got[i])]) = Upto(Stream, Len(got))
<1>1. /\ got \in Seq(Block) /\ Len(got) \in Nat /\ DOMAIN got = 1 .. Len(got)
      /\ Len(got) <= Len(Stream)
      /\ \A i \in 1 .. Len(got) : got[i] = Named(Stream[i])
    BY LenProperties DEF FramingInv, FramingTypeOK, Block, StreamInv, GotBegins
<1>2. ASSUME NEW i \in 1 .. Len(got) PROVE TextOf(got[i]) = Stream[i] \o EndBlock
    <2>1. i \in 1 .. Len(Stream)
        BY <1>1, TextIs, StreamIs
    <2>2. Stream[i] \in Seq(Char) /\ Len(Stream[i]) # 0 /\ Stream[i][Len(Stream[i])] \in Letters
        BY <2>1, TextIs, StreamIs
    <2>3. Stream[i] # <<>>
        BY <2>2, EmptySeq
    <2>4. TextOf(Named(Stream[i])) = Stream[i] \o EndBlock
        <3>. DEFINE s == Stream[i]
        <3>. HIDE DEF s
        <3>. QED  BY <2>2, <2>3, TextOfNamed DEF s
    <2>. QED  BY <1>1, <2>4
<1>3. [i \in DOMAIN got |-> TextOf(got[i])] = [i \in 1 .. Len(got) |-> Stream[i] \o EndBlock]
    BY <1>1, <1>2
<1>. QED  BY <1>3 DEF Upto

\* No character of the server is lost or seen twice: what was handed over, the
\* buffers and the wire make up all that it sent in this session
\* (parseReceivedData, tcpReadyRead, run).  The buffer for the decoder may be
\* longer than its size can tell, the text that the decoder returns may not.
THEOREM TextKept == FramingSpec => []NothingLost
<1>1. FramingInv => NothingLost
    <2>. SUFFICES ASSUME FramingInv, phase = "online"
         PROVE  FlattenSeq([i \in DOMAIN got |-> TextOf(got[i])])
                    \o sockBuffer \o Chars(encBuffer) \o Chars(wire)
                = SubSeq(Text, 1, sent)
        BY DEF NothingLost
    <2>. DEFINE p == FlattenSeq([i \in DOMAIN got |-> TextOf(got[i])])
                s == sockBuffer
                x == Chars(encBuffer)
                y == Chars(wire)
                a == Bound(Stream, Len(got))
    <2>1. /\ s \in Seq(Char) /\ x \in Seq(Char) /\ y \in Seq(Char)
          /\ sent \in 0 .. Len(Text) /\ Len(got) \in Nat /\ Len(got) <= Len(Stream)
          /\ a <= sent
          /\ (s \o x) \o y = Piece(Text, a, sent)
        BY CharsIs, LenProperties DEF FramingInv, FramingTypeOK, StreamInv, GotBegins, Flow
    <2>2. p = Upto(Stream, Len(got))
        BY GotText
    <2>3. Stream \in Streams /\ Len(Stream) \in Nat /\ Len(Stream) \in Len(got) .. Len(Stream) /\ Len(got) \in 0 .. Len(Stream)
        BY <2>1, TextIs, StreamIs
    <2>4. Upto(Stream, Len(got)) = Piece(Upto(Stream, Len(Stream)), 0, a)
        BY <2>3, UptoPiece
    <2>5. p = Piece(Text, 0, a)
        BY <2>2, <2>4, TextIs DEF Whole
    <2>6. p \in Seq(Char)
        BY <2>2, <2>3, UptoIs, StreamIs
    <2>7. Text \in Seq(Char) /\ Len(Text) \in Nat /\ a \in 0 .. Len(Text)
        BY <2>3, TextIs, WholeIs, LenProperties
    <2>. HIDE DEF p, s, x, y, a
    <2>8. a \in 0 .. Len(Text) /\ sent \in a .. Len(Text)
        BY <2>1, <2>7
    <2>9. Piece(Text, 0, a) \o Piece(Text, a, sent) = Piece(Text, 0, sent)
        <3>1. PICK z \in 0 .. Len(Text) : z = 0
            BY <2>7
        <3>2. a \in z .. Len(Text)
            BY <2>8, <3>1
        <3>3. Piece(Text, z, a) \o Piece(Text, a, sent) = Piece(Text, z, sent)
            BY <2>7, <2>8, <3>2, PieceJoin
        <3>. QED  BY <3>1, <3>3
    <2>10. ((p \o s) \o x) \o y = p \o ((s \o x) \o y)
        <3>1. (p \o s) \o x = p \o (s \o x)
            BY <2>1, <2>6, TextAssociative
        <3>2. s \o x \in Seq(Char)
            BY <2>1, ConcatProperties
        <3>3. (p \o (s \o x)) \o y = p \o ((s \o x) \o y)
            BY <2>1, <2>6, <3>2, TextAssociative
        <3>. QED  BY <3>1, <3>3
    <2>11. ((p \o s) \o x) \o y = Piece(Text, 0, sent)
        BY <2>1, <2>5, <2>9, <2>10
    <2>12. Piece(Text, 0, sent) = SubSeq(Text, 1, sent)
        <3>1. 0 + 1 = 1
            OBVIOUS
        <3>. QED  BY <3>1 DEF Piece
    <2>. QED  BY <2>11, <2>12 DEF p, s, x, y
<1>. QED  BY <1>1, FramingInvariant, PTL

\* Handlers get the server's blocks from the first one on, whole, each once and
\* in order, whatever the cuts of frames and reads, and whenever the session
\* or the decoder fails (parseReceivedData).
THEOREM BlocksInOrder == FramingSpec => []InOrder
<1>1. FramingInv => InOrder
    <2>. SUFFICES ASSUME FramingInv PROVE InOrder
        OBVIOUS
    <2>. DEFINE t == [k \in DOMAIN Stream |-> Named(Stream[k])]
                g == Len(got)
                x == SubSeq(got, 1, g)
                y == SubSeq(t, 1, g)
    <2>1. /\ got \in Seq(Block) /\ g \in Nat /\ g <= Len(Stream)
          /\ \A i \in 1 .. g : got[i] = Named(Stream[i])
        BY LenProperties DEF FramingInv, FramingTypeOK, Block, StreamInv, GotBegins
    <2>2. Len(Stream) \in Nat /\ DOMAIN Stream = 1 .. Len(Stream)
        BY TextIs, StreamIs
    <2>3. t \in [1 .. Len(Stream) -> Block]
        BY <2>2, StreamNames
    <2>4. \A i \in 1 .. g : t[i] = got[i]
        BY <2>1, <2>2
    <2>. HIDE DEF t
    <2>5. t \in Seq(Block) /\ Len(t) = Len(Stream)
        BY <2>2, <2>3, FunctionIsSeq
    <2>6. x = got
        BY <2>1, SubSeqFull
    <2>7. g \in Int /\ 1 \in Int /\ \A i \in 1 .. g : t[i] \in Block
        BY <2>1, <2>2, <2>3
    <2>. HIDE DEF g
    <2>8. /\ y \in Seq(Block) /\ Len(y) = IF 1 <= g THEN g - 1 + 1 ELSE 0
          /\ \A i \in 1 .. g - 1 + 1 : y[i] = t[1 + i - 1]
        BY <2>7, SubSeqProperties
    <2>. HIDE DEF x, y
    <2>9. Len(y) = g
        BY <2>1, <2>8
    <2>10. ASSUME NEW i \in 1 .. g PROVE y[i] = got[i]
        <3>1. i \in 1 .. g - 1 + 1 /\ 1 + i - 1 = i
            BY <2>1
        <3>. QED  BY <2>4, <2>8, <3>1
    <2>11. y = got
        <3>1. Len(y) = Len(got) /\ \A i \in 1 .. Len(y) : y[i] = got[i]
            BY <2>9, <2>10 DEF g
        <3>. QED  BY <2>1, <2>8, <3>1, SeqEqual
    <2>. QED  BY <2>1, <2>5, <2>6, <2>11 DEF InOrder, IsPrefix, g, x, y, t
<1>. QED  BY <1>1, FramingInvariant, PTL
=============================================================================
