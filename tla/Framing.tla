------------------------------- MODULE Framing -------------------------------
(***************************************************************************)
(* From the socket to the blocks.  The server writes blocks of text, each  *)
(* ended by an empty line; after the login the text comes in encoded       *)
(* frames.  A read of the socket gets any number of bytes.  The connection *)
(* collects them until the decoder knows a whole frame, and collects the   *)
(* text until it has the end of a block.                                   *)
(*                                                                         *)
(* The decoder lives in another process (ADRemoteLibrary, ADRPC); a call   *)
(* carries the size of the data in 16 bits, so that it sees only           *)
(* size % Width bytes of a longer buffer.                                  *)
(*                                                                         *)
(* External: the server, which sends nothing but the answer to the login   *)
(* before the client, then online, has set its filters; and the decoder,   *)
(* which decodes some of the whole frames it is given, or fails.  A byte   *)
(* stands for a character, encoded or not.                                 *)
(***************************************************************************)
EXTENDS Integers, Sequences, SequencesExt

CONSTANTS
    Letters,    \* characters other than those of a line end
    Stream,     \* the blocks the server sends after the login
    FrameSizes, \* sizes of the frames it cuts the text into
    Width       \* sizes are counted modulo this number; 2^16 in the code

Char == Letters \cup {"CR", "LF"}
EndLine == <<"CR", "LF">>
EndBlock == EndLine \o EndLine

\* The positions in s at which t starts.
At(t, s) == {i \in 1 .. Len(s) - Len(t) + 1 : SubSeq(s, i, i + Len(t) - 1) = t}

\* A block has a name, so does not begin with an end of line; and none ends
\* with one, which could not be told from the end of the block.
ASSUME FramingAssumption ==
    /\ {"CR", "LF"} \cap Letters = {}
    /\ {"authresult", "OK", "wrong"} \subseteq Letters
    /\ Stream \in Seq(Seq(Char) \ {<<>>})
    /\ \A k \in DOMAIN Stream :
        /\ At(EndBlock, Stream[k]) = {}
        /\ Head(Stream[k]) \in Letters /\ Last(Stream[k]) \in Letters
    /\ FrameSizes \subseteq Nat \ {0}
    /\ Width \in Nat \ {0}

VARIABLES
    phase,      \* "off", "connecting", "online" (m_authed, and the encoding
                \* is known)
    sent,       \* external: characters of the stream the server has sent
    wire,       \* external: what has been sent and not read
    encBuffer,  \* m_sockEncBuffer
    sockBuffer, \* m_sockBuffer
    got         \* history: the blocks of this session handed to their handlers

framingVars == <<phase, sent, wire, encBuffer, sockBuffer, got>>

-----------------------------------------------------------------------------
(* The texts of the server.  A byte on the wire knows whether it ends a    *)
(* frame.                                                                  *)

Text == FlattenSeq([k \in DOMAIN Stream |-> Stream[k] \o EndBlock])

Raw(s) == [i \in DOMAIN s |-> [char |-> s[i], last |-> FALSE]]
Frame(s) == [i \in DOMAIN s |-> [char |-> s[i], last |-> i = Len(s)]]
Chars(bytes) == [i \in DOMAIN bytes |-> bytes[i].char]
FrameEnds(bytes) == {i \in DOMAIN bytes : bytes[i].last}

Accepted == <<"authresult", "CR", "LF", "OK">>
Refused == <<"authresult", "CR", "LF", "wrong">>

-----------------------------------------------------------------------------
(* parseReceivedData.                                                      *)

From(s, i) == SubSeq(s, i, Len(s))

\* The first line is the name of the block.
Named(block) ==
    LET ends == At(EndLine, block)
    IN  IF ends = {} THEN [name |-> block, data |-> <<>>]
        ELSE [name |-> SubSeq(block, 1, Min(ends) - 1), data |-> From(block, Min(ends) + 2)]

\* QString::split.
Split[s \in Seq(Char)] ==
    IF At(EndBlock, s) = {} THEN <<s>>
    ELSE LET i == Min(At(EndBlock, s))
         IN  <<SubSeq(s, 1, i - 1)>> \o Split[From(s, i + Len(EndBlock))]

\* With SkipEmptyParts.
NonEmpty(parts) ==
    FlattenSeq([k \in DOMAIN parts |-> IF parts[k] = <<>> THEN <<>> ELSE <<parts[k]>>])

LastEnd(buf) == Max(At(EndBlock, buf))

\* The blocks in the buffer up to the last end of a block.
Blocks(buf) ==
    IF At(EndBlock, buf) = {} THEN <<>>
    ELSE LET recv == IF LastEnd(buf) + Len(EndBlock) > Len(buf)
                     THEN NonEmpty(Split[buf])
                     ELSE Split[SubSeq(buf, 1, LastEnd(buf) - 1)]
         IN  [i \in DOMAIN recv |-> Named(recv[i])]

\* Mutant: the buffer is emptied with every block.
RestDropped(buf) == IF At(EndBlock, buf) = {} THEN buf ELSE <<>>

\* What stays in the buffer.
Rest(buf) ==
    IF At(EndBlock, buf) = {} THEN buf ELSE From(buf, LastEnd(buf) + Len(EndBlock))

-----------------------------------------------------------------------------
FramingInit ==
    /\ phase = "off"
    /\ sent = 0
    /\ wire = <<>>
    /\ encBuffer = <<>> /\ sockBuffer = <<>>
    /\ got = <<>>

\* Mutant: the bytes of the last session stay in the buffer.
ConnectKeeping ==
    /\ phase = "off"
    /\ phase' = "connecting"
    /\ sockBuffer' = <<>>
    /\ UNCHANGED encBuffer
    /\ sent' = 0
    /\ got' = <<>>
    /\ \E answer \in {Accepted, Refused} : wire' = Raw(answer \o EndBlock)

\* connect: run starts with empty buffers; the login is sent and answered.
Connect ==
    /\ phase = "off"
    /\ phase' = "connecting"
    /\ encBuffer' = <<>> /\ sockBuffer' = <<>>
    /\ sent' = 0
    /\ got' = <<>>
    /\ \E answer \in {Accepted, Refused} : wire' = Raw(answer \o EndBlock)

\* disconnect or an error of the socket, at any time.
Quit ==
    /\ phase # "off"
    /\ phase' = "off"
    /\ UNCHANGED <<sent, wire, encBuffer, sockBuffer, got>>

SendFrame(size) ==
    /\ phase = "online"
    /\ sent < Len(Text)
    /\ LET end == Min({sent + size, Len(Text)})
       IN  /\ sent' = end
           /\ wire' = wire \o Frame(SubSeq(Text, sent + 1, end))
    /\ UNCHANGED <<phase, encBuffer, sockBuffer, got>>

-----------------------------------------------------------------------------
(* tcpReadyRead.                                                           *)

\* What the decoder is given.
Marshalled(bytes) == SubSeq(bytes, 1, Len(bytes) % Width)

\* How many bytes it decodes; 0 when it has not enough.
Decoded(bytes) ==
    LET ends == FrameEnds(Marshalled(bytes))
    IN  IF ends = {} THEN {0} ELSE ends

\* Before the login only the first block counts; it is the answer.
Receive(text) ==
    LET recv == Blocks(sockBuffer \o text)
    IN  /\ sockBuffer' = Rest(sockBuffer \o text)
        /\ IF recv = <<>> THEN UNCHANGED <<phase, got>>
           ELSE IF phase = "connecting"
           THEN /\ phase' = IF recv[1] = Named(Accepted) THEN "online" ELSE "off"
                /\ UNCHANGED got
           ELSE /\ got' = got \o recv
                /\ UNCHANGED phase

\* A read of n bytes; without an encoding they are the text.
ReadPlain(n) ==
    /\ phase = "connecting"
    /\ wire' = From(wire, n + 1)
    /\ Receive(Chars(SubSeq(wire, 1, n)))
    /\ UNCHANGED <<sent, encBuffer>>

ReadEncoded(n) ==
    /\ phase = "online"
    /\ wire' = From(wire, n + 1)
    /\ LET bytes == encBuffer \o SubSeq(wire, 1, n)
       IN  \E parsed \in Decoded(bytes) :
            /\ encBuffer' = From(bytes, parsed + 1)
            /\ IF parsed = 0 THEN UNCHANGED <<phase, sockBuffer, got>>
               ELSE Receive(Chars(SubSeq(bytes, 1, parsed)))
    /\ UNCHANGED sent

\* The decoder or the call of it fails.
DecodeFails(n) ==
    /\ phase = "online"
    /\ wire' = From(wire, n + 1)
    /\ encBuffer' = <<>>
    /\ phase' = "off"
    /\ UNCHANGED <<sent, sockBuffer, got>>

FramingNext ==
    \/ Connect \/ Quit
    \/ \E size \in FrameSizes : SendFrame(size)
    \/ \E n \in 1 .. Len(wire) : ReadPlain(n) \/ ReadEncoded(n) \/ DecodeFails(n)

FramingSpec == FramingInit /\ [][FramingNext]_framingVars

-----------------------------------------------------------------------------
EncodedByte == [char : Char, last : BOOLEAN]

\* Block names are lines.
FramingTypeOK ==
    /\ phase \in {"off", "connecting", "online"}
    /\ sent \in 0 .. Len(Text)
    /\ wire \in Seq(EncodedByte) /\ encBuffer \in Seq(EncodedByte)
    /\ sockBuffer \in Seq(Char)
    /\ got \in Seq([name : Seq(Char), data : Seq(Char)])
    /\ \A i \in DOMAIN got : At(EndLine, got[i].name) = {}

TextOf(block) ==
    block.name \o (IF block.data = <<>> THEN <<>> ELSE EndLine \o block.data) \o EndBlock

\* What was sent is with the handlers, in the buffers or on the wire, in this
\* order: no cut of the bytes, no buffer for the decoder longer than Width and no
\* leftover of an earlier session loses or doubles a character (parseReceivedData,
\* readFromSock, run).  What the decoder returns is taken to be whole: ADRPC.cpp:46
\* cuts a text longer than 65535 bytes too, and its end is lost.
NothingLost ==
    phase = "online" =>
        FlattenSeq([i \in DOMAIN got |-> TextOf(got[i])])
            \o sockBuffer \o Chars(encBuffer) \o Chars(wire)
        = SubSeq(Text, 1, sent)

\* The handlers get the blocks of the stream, from the first one on, whole,
\* each once and in order.
InOrder == IsPrefix(got, [k \in DOMAIN Stream |-> Named(Stream[k])])
=============================================================================
