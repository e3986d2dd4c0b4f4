------------------------------- MODULE Framing -------------------------------
(***************************************************************************)
(* How the reading thread of a TCP session finds the messages in a stream  *)
(* of bytes (network/tcpsession.cpp, qyhbuffer.cpp).  TCP cuts the stream  *)
(* where it likes, so a read may end in the middle of anything.  A session *)
(* of a client reads packets, |0x88|length|json| (packageProcess); that of *)
(* a forklift reads frames, *time length body# (ProtocolProcess).  The     *)
(* connection to the WMS brings tasks, *length task#, to the task maker of *)
(* Dongyao (DyTaskMaker::msgProcess, dytaskmaker.cpp).                     *)
(***************************************************************************)
EXTENDS Integers, Sequences, FiniteSets, SequencesExt

CONSTANTS
    Stream,                 \* what may be sent: records [reader, parts]
    MSG_READ_BUFFER_LENGTH  \* a read takes at most so many bytes

Byte == 0..255
Part == UNION {Range(s.parts) : s \in Stream}

ASSUME StreamAssumption ==
    /\ \A s \in Stream :
         s.reader \in {"client", "forklift", "wms"} /\ s.parts \in Seq(Part)
    /\ \A p \in Part : p.bytes \in Seq(Byte) /\ p.message \in Seq(Byte)
    /\ MSG_READ_BUFFER_LENGTH \in Nat \ {0}

HEAD == 136                 \* MSG_MSG_HEAD, 0x88
STAR == 42
HASH == 35
Digit(n) == 48 + n
Broken == 63                \* first byte of what is no JSON object of a request
Prefix == 5                 \* the head and the four bytes of the length

(***************************************************************************)
(* What the other side writes.  A part has its bytes, the message in it    *)
(* (<<>> if there is none to deliver) and how many bytes its head has.     *)
(***************************************************************************)
Packet(json) ==
    [bytes   |-> <<HEAD, Len(json) % 256, Len(json) \div 256, 0, 0>> \o json,
     message |-> IF json # <<>> /\ Head(json) # Broken THEN json ELSE <<>>,
     head    |-> Prefix]
Inner(body, length) ==
    [i \in 1..6 |-> Digit(0)]
        \o <<Digit(0), Digit(0), Digit(length \div 10), Digit(length % 10)>> \o body
Frame(body) ==
    LET inner == Inner(body, 10 + Len(body))
    IN  [bytes |-> <<STAR>> \o inner \o <<HASH>>, message |-> inner, head |-> 0]
\* A task of the WMS: the length counts its own four digits.
Task(body) ==
    LET inner == <<Digit(0), Digit(0), Digit((4 + Len(body)) \div 10),
                   Digit((4 + Len(body)) % 10)>> \o body
    IN  [bytes |-> <<STAR>> \o inner \o <<HASH>>, message |-> body, head |-> 0]
Junk(bytes) == [bytes |-> bytes, message |-> <<>>, head |-> 0]

\* What the readers accept between the last * and the first #.
FrameLength(d) == 10 * (d[9] - 48) + d[10] - 48
GoodFrame(d) == Len(d) >= 10 /\ FrameLength(d) = Len(d)
GoodTask(d) == Len(d) > 4 /\ 10 * (d[3] - 48) + d[4] - 48 = Len(d)
MessageIn(d, kind) ==
    CASE kind = "forklift" /\ GoodFrame(d) -> d
      [] kind = "wms" /\ GoodTask(d) -> SubSeq(d, 5, Len(d))
      [] OTHER -> <<>>

\* A packet, and a frame, with a body or not, with the right length or not.
\* Every frame of a vehicle has a body: one of 12 bytes waits for the next.
IsPacket(p) ==
    LET json == SubSeq(p.bytes, Prefix + 1, Len(p.bytes))
    IN  p = Packet(json) /\ Len(json) < 256 * 256
IsFrame(p, kind) ==
    LET d == SubSeq(p.bytes, 2, Len(p.bytes) - 1)
    IN  /\ p.bytes = <<STAR>> \o d \o <<HASH>> /\ Range(d) \cap {STAR, HASH} = {}
        /\ Len(d) > IF kind = "forklift" THEN 10 ELSE 0
        /\ p.message = MessageIn(d, kind)

\* Anything else has no message and nothing that looks like the beginning of a
\* packet, or like the end of a frame that was begun.
IsJunk(s, i) ==
    LET has(b) == b \in Range(s.parts[i].bytes)
    IN  /\ s.parts[i].message = <<>> /\ s.parts[i].bytes # <<>>
        /\ s.reader = "client" => ~has(HEAD)
        /\ s.reader # "client" /\ has(HASH) =>
             ~has(STAR) /\ (i = 1 \/ IsFrame(s.parts[i - 1], s.reader))
IsMarked(s, i) == IF s.reader = "client" THEN IsPacket(s.parts[i])
                                         ELSE IsFrame(s.parts[i], s.reader)
ASSUME PartsAssumption ==
    \A s \in Stream : \A i \in DOMAIN s.parts : IsMarked(s, i) \/ IsJunk(s, i)

VARIABLES
    stream,   \* what this session is sent
    fed,      \* how many bytes of it have been read
    buffer,   \* TcpSession::buffer
    json_len, \* TcpSession::json_len
    crowded,  \* history: a read has brought the ends of two parts
    pc,       \* "read", or "loop" while packets or frames are looked for
    out       \* what was given to processOneMsg, or to the forklift's onRead

frameVars == <<stream, fed, crowded, buffer, json_len, pc, out>>

\* The first parts of a stream: their bytes, and the messages in them.
And(f, p) ==
    [bytes    |-> f.bytes \o p.bytes,
     messages |-> IF p.message = <<>> THEN f.messages ELSE Append(f.messages, p.message)]
Firsts == [s \in Stream |->
            LET first[i \in 0..Len(s.parts)] ==
                    IF i = 0 THEN [bytes |-> <<>>, messages |-> <<>>]
                    ELSE And(first[i - 1], s.parts[i])
            IN  first]
Bytes == [s \in Stream |-> Firsts[s][Len(s.parts)].bytes]
\* Where the parts of a stream begin and end.
EndOf == [s \in Stream |-> [i \in 0..Len(s.parts) |-> Len(Firsts[s][i].bytes)]]
InHead == [s \in Stream |->
             UNION {EndOf[s][i - 1] + 1 .. EndOf[s][i - 1] + s.parts[i].head - 1 :
                       i \in DOMAIN s.parts}]
\* The messages of the parts of s that end within its first n bytes.
Came(s, n) == Firsts[s][Max({i \in 0..Len(s.parts) : EndOf[s][i] <= n})].messages
\* The parts of the stream that end within a read.
Ended(n, m) == {i \in DOMAIN stream.parts : EndOf[stream][i] \in n + 1 .. m}

\* Broken variants: a packet waits although its last byte has come, two bytes
\* more must be left in the buffer.
IncompleteYet(b) == stream.reader = "client" /\ Len(b) <= json_len + Prefix
GoesLater(b) == Len(b) > 14

FramesInit ==
    /\ stream \in Stream
    /\ fed = 0 /\ crowded = FALSE /\ buffer = <<>> /\ json_len = 0 /\ pc = "read" /\ out = <<>>

(***************************************************************************)
(* QyhBuffer.  Offsets count from 0, as in the code.                       *)
(***************************************************************************)
Find(key) == LET at == {i \in DOMAIN buffer : buffer[i] = key}
             IN  IF at = {} THEN -1 ELSE Min(at) - 1
RemoveFront(b, n) == IF n > Len(b) THEN <<>> ELSE SubSeq(b, n + 1, Len(b))
\* -1 when the buffer does not hold four bytes from there.
GetInt32(b, start) ==
    IF start + 4 > Len(b) THEN -1 ELSE b[start + 1] + 256 * b[start + 2]

\* read_some, and what calls the two processors (102-132): packageProcess does
\* nothing while the packet it waits for cannot be whole, ProtocolProcess is
\* tried at least once.
Incomplete(b) == stream.reader = "client" /\ Len(b) <= json_len
Read ==
    /\ pc = "read"
    /\ \E n \in 1..MSG_READ_BUFFER_LENGTH :
         /\ fed + n <= Len(Bytes[stream])
         /\ fed' = fed + n
         /\ buffer' = buffer \o SubSeq(Bytes[stream], fed + 1, fed + n)
    /\ crowded' = (crowded \/ Cardinality(Ended(fed, fed')) > 1)
    /\ pc' = IF Incomplete(buffer') THEN "read" ELSE "loop"
    /\ UNCHANGED <<stream, json_len, out>>

(***************************************************************************)
(* packageProcess, one turn of its loop per step                           *)
(***************************************************************************)
Package == pc = "loop" /\ stream.reader = "client" /\ UNCHANGED <<stream, fed, crowded>>

\* The buffer is empty, or there is no head in it.
NoHead ==
    /\ Package /\ Find(HEAD) = -1
    /\ buffer' = <<>> /\ pc' = "read"
    /\ UNCHANGED <<json_len, out>>

Trimmed == RemoveFront(buffer, Find(HEAD))

EmptyPacket ==
    /\ Package /\ Find(HEAD) >= 0 /\ GetInt32(Trimmed, 1) = 0
    /\ json_len' = 0
    /\ buffer' = RemoveFront(Trimmed, Prefix)
    /\ UNCHANGED <<pc, out>>

Accepted(json) == Head(json) # Broken
Whole(len) == len > 0 /\ len <= Len(Trimmed) - Prefix
WholePacket ==
    /\ Package /\ Find(HEAD) >= 0 /\ Whole(GetInt32(Trimmed, 1))
    /\ LET len  == GetInt32(Trimmed, 1)
           json == SubSeq(Trimmed, Prefix + 1, Prefix + len)
       IN  /\ out' = IF Accepted(json) THEN Append(out, json) ELSE out
           /\ buffer' = RemoveFront(Trimmed, Prefix + len)
    /\ json_len' = 0
    /\ UNCHANGED pc

\* "包不完整，继续接收": the packet is incomplete, go on receiving (234).
PartOfPacket ==
    /\ Package /\ Find(HEAD) >= 0
    /\ LET len == GetInt32(Trimmed, 1) IN len > 0 /\ len > Len(Trimmed) - Prefix
    /\ json_len' = GetInt32(Trimmed, 1)
    /\ buffer' = Trimmed /\ pc' = "read"
    /\ UNCHANGED out

\* The length is not there: it is -1, and neither branch leaves the loop.
PartOfHead ==
    /\ Package /\ Find(HEAD) >= 0 /\ GetInt32(Trimmed, 1) < 0
    /\ json_len' = -1
    /\ buffer' = Trimmed
    /\ UNCHANGED <<pc, out>>

(***************************************************************************)
(* ProtocolProcess, one call per step, and the loop around it: it goes on  *)
(* after a frame, good or bad, or junk, while more than 12 bytes are left. *)
(***************************************************************************)
Goes(b) == Len(b) > 12
Protocol ==
    /\ pc = "loop" /\ stream.reader = "forklift"
    /\ UNCHANGED <<stream, fed, crowded, json_len>>

NoStar ==
    /\ Protocol /\ Find(STAR) = -1
    /\ buffer' = <<>> /\ pc' = "read" /\ UNCHANGED out

PartOfFrame ==
    /\ Protocol /\ Find(STAR) >= 0 /\ Find(HASH) = -1
    /\ buffer' = RemoveFront(buffer, Find(STAR)) /\ pc' = "read" /\ UNCHANGED out

HashFirst ==
    /\ Protocol /\ Find(STAR) >= 0 /\ Find(HASH) >= 0 /\ Find(HASH) <= Find(STAR) + 1
    /\ buffer' = RemoveFront(buffer, Find(STAR))
    /\ pc' = IF Goes(buffer') THEN "loop" ELSE "read"
    /\ UNCHANGED out

\* What is between the first * and the first #, from its last * on.
AfterLastStar(s) == LET at == {i \in DOMAIN s : s[i] = STAR}
                    IN  IF at = {} THEN s ELSE SubSeq(s, Max(at) + 1, Len(s))
FrameData == AfterLastStar(SubSeq(buffer, Find(STAR) + 2, Find(HASH)))
TakeFrame ==
    /\ Protocol /\ Find(STAR) >= 0 /\ Find(HASH) > Find(STAR) + 1
    /\ out' = IF GoodFrame(FrameData) THEN Append(out, FrameData) ELSE out
    /\ buffer' = RemoveFront(buffer, Find(HASH) + 1)
    /\ pc' = IF Goes(buffer') THEN "loop" ELSE "read"

(***************************************************************************)
(* DyTaskMaker::msgProcess, once for each read, whatever is left           *)
(***************************************************************************)
TakeTask ==
    /\ out' = IF GoodTask(FrameData) THEN Append(out, SubSeq(FrameData, 5, Len(FrameData)))
              ELSE out
    /\ buffer' = RemoveFront(buffer, Find(HASH) + 1)
MsgProcess ==
    /\ pc = "loop" /\ stream.reader = "wms" /\ pc' = "read"
    /\ UNCHANGED <<stream, fed, crowded, json_len>>
    /\ CASE Find(STAR) = -1 -> buffer' = <<>> /\ UNCHANGED out
         [] Find(STAR) >= 0 /\ Find(HASH) > Find(STAR) + 1 -> TakeTask
         [] OTHER -> buffer' = RemoveFront(buffer, Find(STAR)) /\ UNCHANGED out

Process ==
    \/ NoHead
    \/ EmptyPacket
    \/ WholePacket
    \/ PartOfPacket
    \/ PartOfHead
    \/ NoStar
    \/ PartOfFrame
    \/ HashFirst
    \/ TakeFrame
    \/ MsgProcess

\* Everything was sent and read: the thread waits in read_some.
AllRead == pc = "read" /\ fed = Len(Bytes[stream]) /\ UNCHANGED frameVars

FramesNext == Read \/ Process \/ AllRead
FramesSpec == FramesInit /\ [][FramesNext]_frameVars /\ WF_frameVars(Read) /\ WF_frameVars(Process)

-----------------------------------------------------------------------------
(***************************************************************************)
(* Properties                                                              *)
(***************************************************************************)
\* However the stream is cut: when the thread goes back to read, exactly the
\* messages that have wholly come have been handed on, once each and in order;
\* none waits in the buffer for bytes that come after it.  Only tasks of the
\* WMS do, once a read has brought more than one: then those that were handed
\* on are still the first, in order.
TakesOne == stream.reader = "wms" /\ crowded
HandsOnWhatCame ==
    pc = "read" => IF TakesOne THEN IsPrefix(out, Came(stream, fed))
                   ELSE out = Came(stream, fed)

\* Every message of the stream is handed on in the end: "包不完整，继续接收"
\* (the packet is incomplete, go on receiving, tcpsession.cpp:234), if no read
\* ends inside the head of a packet: then the thread never reads again; and if
\* no read brings two tasks of the WMS (dytaskmaker.cpp:78-82).
AllHandedOn == <>[](out = Came(stream, Len(Bytes[stream])))
HandedOnUnlessHeadIsCut ==
    []~(fed \in InHead[stream] \/ TakesOne) => AllHandedOn
=============================================================================
