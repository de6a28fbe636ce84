------------------------------ MODULE RecvAll ------------------------------
(***************************************************************************)
(* recvAll of pckData.c: the reassembly of messages from the byte streams  *)
(* of TCP connections.  Each message begins with its length.  The bytes    *)
(* received so far are kept in a recvHolder, a ring buffer with a pointer  *)
(* to the message being assembled.  One thread calls recvAll for all its   *)
(* sockets (the node's socket thread, the server's epoll thread).          *)
(*                                                                         *)
(* A byte is the socket it came in on, a tag and the length of its message *)
(* and its position in the message, so a delivered message can be compared *)
(* with the one sent.  A message is delivered by processingMsgCallback,    *)
(* the subject of module Session.  The bytes of a message that has been    *)
(* delivered stay in the buffer but are not told apart from junk: reading  *)
(* either yields arbitrary values.                                         *)
(***************************************************************************)
EXTENDS Integers, Sequences

CONSTANTS
    Sockets,    \* file descriptors the thread receives from
    HeaderLen,  \* size of the length field (4, a uint32_t)
    Lens,       \* the lengths of messages
    BufSize,    \* size of a recvQueue (MAXDEVMSGLEN * 3)
    Tags,       \* number of tags; messages of a socket are tagged in turn
    Garbage,    \* values a length may have when read where no length is
    MaxWire,    \* bound: no message is sent with more bytes in flight
    MaxStray,   \* bound: chunks received by a holder from the first one out of frame
    MaxHolders, \* bound on the number of recvHolders
    Free,       \* the socket field of a holder nobody uses (-1)
    Junk        \* a byte never received, or left over from an earlier message

NoPtr == -1     \* firstMsgPtr = NULL

ASSUME SizesAssumption ==
    /\ {BufSize, HeaderLen} \subseteq Nat \ {0}
    /\ Lens \subseteq (HeaderLen + 1) .. (BufSize \div 3)
    /\ Lens \subseteq Garbage /\ Garbage \subseteq Nat
ASSUME NamesAssumption ==
    /\ Free \notin Sockets
    /\ Junk \notin [sock : Sockets, tag : 0 .. (Tags - 1), len : Lens, pos : Nat]
ASSUME CountsAssumption ==
    {Tags, MaxStray, MaxHolders} \subseteq Nat \ {0} /\ MaxWire \in Nat

VARIABLES
    open,      \* the sockets that are connected
    peerGone,  \* the sockets whose peer has closed
    wire,      \* bytes of a socket sent and not yet received
    sendTag,   \* the tag of the next message sent
    holders,   \* recvHoldersList
    call,      \* the call of handleMsgData in progress: socket, holder, rs
    overrun,   \* memory outside of a recvQueue has been written
    \* History, read by no action.
    astray,    \* sockets on which a chunk out of frame has arrived
    expectTag, \* the tag of the next message to deliver
    last       \* the last delivery: was the holder in frame, the message intact

vars == <<open, peerGone, wire, sendTag, holders, call, overrun, astray, expectTag, last>>

Byte(s, t, l, k) == [sock |-> s, tag |-> t, len |-> l, pos |-> k]
Bytes == [sock : Sockets, tag : 0 .. (Tags - 1), len : Lens,
          pos : Nat \ {0}] \cup {Junk}
Message(s, t, l) == [k \in 1 .. l |-> Byte(s, t, l, k)]

NoCall == [sock |-> Free, holder |-> 0, rs |-> 0]

-----------------------------------------------------------------------------
(***************************************************************************)
(* recvHolders.  stray is history: it counts the chunks received from the  *)
(* first one that recvAll does not handle (see Handled).                   *)
(***************************************************************************)
NoBytes == [a \in 0 .. (BufSize - 1) |-> Junk]

initRecvHolder(s) ==
    [socket |-> s, recvQueue |-> NoBytes,
     sizeUsed |-> 0, firstMsgPtr |-> NoPtr, firstMsgSize |-> 0,
     firstMsgSizeUsed |-> 0, stray |-> 0]

\* resetRecvHolder, and a wrong version that forgets the size of the message.
ResetKeepsSize(h, s) ==
    [h EXCEPT !.socket = s, !.recvQueue = NoBytes, !.sizeUsed = 0,
              !.firstMsgPtr = NoPtr, !.firstMsgSizeUsed = 0, !.stray = 0]
resetRecvHolder(h, s) ==
    [h EXCEPT !.socket = s, !.recvQueue = NoBytes, !.sizeUsed = 0, !.firstMsgPtr = NoPtr,
              !.firstMsgSize = 0, !.firstMsgSizeUsed = 0, !.stray = 0]

InFrame(h) == h.stray = 0

\* The holders that a socket may use: the ones with its number or else the free
\* ones.  Of the first kind recvAll takes the last, of the second the first.
\* (Its socket field stays free when a free one is taken.)
Owned(s) == {i \in DOMAIN holders : holders[i].socket = s}
FreeHolders == {i \in DOMAIN holders : holders[i].socket = Free}
HolderIndex(s) ==
    IF Owned(s) # {} THEN CHOOSE i \in Owned(s) : \A j \in Owned(s) : j <= i
    ELSE IF FreeHolders # {} THEN CHOOSE i \in FreeHolders : \A j \in FreeHolders : i <= j
    ELSE Len(holders) + 1
HoldersWith(s) ==
    IF HolderIndex(s) \in DOMAIN holders THEN holders
    ELSE Append(holders, initRecvHolder(s))

\* A byte of memory at an offset from the start of a recvQueue.
Memory(h, a) == IF a \in DOMAIN h.recvQueue THEN h.recvQueue[a] ELSE Junk

\* The value of the length field at offset a, a set: arbitrary bytes are read
\* if there is none.
LengthAt(h, a) ==
    LET first == Memory(h, a)
    IN  IF first # Junk
           /\ \A k \in 1 .. HeaderLen : Memory(h, a + k - 1) = [first EXCEPT !.pos = k]
        THEN {first.len}
        ELSE Garbage

\* The holders that handleMsgLen may leave behind.
handleMsgLen(h, rs) ==
    LET g == [h EXCEPT !.firstMsgPtr = IF h.firstMsgSize = 0 THEN h.sizeUsed ELSE @]
        n == h.firstMsgSize + rs
    IN  {[g EXCEPT !.firstMsgSize = l] :
            l \in IF n >= HeaderLen THEN LengthAt(g, g.firstMsgPtr) ELSE {n}}

\* (CirculateNoWrap is a wrong version.)
CirculateNoWrap(h, rs) == [h EXCEPT !.sizeUsed = @ + rs]
circulateBuffer(h, rs) ==
    [h EXCEPT !.sizeUsed = IF @ + rs = BufSize THEN 0 ELSE @ + rs]

\* The message in the ring buffer is complete.  (In the wrong version a message
\* is complete only when the next one has begun.)
CompleteStrict(h) == h.firstMsgSizeUsed > h.firstMsgSize /\ h.firstMsgSize > HeaderLen
Complete(h) == h.firstMsgSizeUsed >= h.firstMsgSize /\ h.firstMsgSize > HeaderLen

\* The message copied to processMsgBuffer.  When what was received reaches the
\* end of the buffer, the copy is made in two parts.  (The wrong version is off
\* by one.)
TillLastByte(h) == BufSize - 1 - (h.firstMsgPtr + h.firstMsgSizeUsed)
TillBufferEnd(h) == BufSize - (h.firstMsgPtr + h.firstMsgSizeUsed)
FirstPart(h) ==
    IF TillBufferEnd(h) <= 0 THEN h.firstMsgSize + TillBufferEnd(h)
    ELSE h.firstMsgSize
Copied(h) ==
    [k \in 1 .. h.firstMsgSize |->
        IF k <= FirstPart(h) THEN Memory(h, h.firstMsgPtr + k - 1)
        ELSE Memory(h, k - FirstPart(h) - 1)]

\* A chunk of bytes that recvAll handles when it arrives in a holder: it
\* continues the message being assembled or starts one, and
\*  - it holds bytes of one message, whose length field, if it starts here,
\*    fits before the end of the buffer, or
\*  - it holds two complete messages and the buffer has room for the second
\*    advance of sizeUsed that they cause.
Handled(h, b) ==
    LET rs == Len(b)
        first == b[1]
    IN  /\ first.pos = h.firstMsgSizeUsed + 1
        /\ first.pos > 1 => h.recvQueue[h.firstMsgPtr].sock = first.sock
        /\ first.pos = 1 => h.sizeUsed + HeaderLen <= BufSize
        /\ \/ first.pos + rs - 1 <= first.len
           \/ /\ first.pos = 1
              /\ b[rs].pos = b[rs].len /\ rs = first.len + b[rs].len
              /\ h.sizeUsed + rs = BufSize \/ h.sizeUsed + 2 * rs <= BufSize

-----------------------------------------------------------------------------
Init ==
    /\ open = {}
    /\ peerGone = {}
    /\ wire = [s \in Sockets |-> <<>>]
    /\ sendTag = [s \in Sockets |-> 0]
    /\ holders = <<>>
    /\ call = NoCall
    /\ overrun = FALSE
    /\ astray = {}
    /\ expectTag = [s \in Sockets |-> 0]
    /\ last = [inFrame |-> TRUE, intact |-> TRUE]

\* A connection is set up; the kernel gives it a free descriptor.
Connect(s) ==
    /\ s \notin open
    /\ call = NoCall
    /\ open' = open \cup {s}
    /\ UNCHANGED <<peerGone, wire, sendTag, holders, call, overrun, astray, expectTag, last>>

\* The peer sends a message of length l.
PeerSend(s, l) ==
    /\ s \in open \ peerGone
    /\ Len(wire[s]) <= MaxWire
    /\ wire' = [wire EXCEPT ![s] = @ \o Message(s, sendTag[s], l)]
    /\ sendTag' = [sendTag EXCEPT ![s] = (@ + 1) % Tags]
    /\ UNCHANGED <<open, peerGone, holders, call, overrun, astray, expectTag, last>>

PeerClose(s) ==
    /\ s \in open \ peerGone
    /\ peerGone' = peerGone \cup {s}
    /\ UNCHANGED <<open, wire, sendTag, holders, call, overrun, astray, expectTag, last>>

\* What a closed connection leaves behind: nothing but its holder.  (In the
\* wrong version the end of the stream is not forgotten.)
DisconnectedHalf(s) ==
    /\ open' = open \ {s}
    /\ wire' = [wire EXCEPT ![s] = <<>>]
    /\ sendTag' = [sendTag EXCEPT ![s] = 0]
    /\ expectTag' = [expectTag EXCEPT ![s] = 0]
    /\ astray' = astray \ {s}
    /\ UNCHANGED peerGone
Disconnected(s) ==
    /\ open' = open \ {s}
    /\ peerGone' = peerGone \ {s}
    /\ wire' = [wire EXCEPT ![s] = <<>>]
    /\ sendTag' = [sendTag EXCEPT ![s] = 0]
    /\ expectTag' = [expectTag EXCEPT ![s] = 0]
    /\ astray' = astray \ {s}

\* The thread closes the socket outside of recvAll: the node at the end of a
\* cycle, the server on EPOLLHUP or EPOLLERR (close1).  The holder stays as is.
LocalClose(s) ==
    /\ s \in open
    /\ call = NoCall
    /\ Disconnected(s)
    /\ UNCHANGED <<holders, call, overrun, last>>

\* recv() returns 0: the peer has closed.
RecvEnd(s) ==
    /\ call = NoCall /\ ~overrun
    /\ s \in peerGone /\ wire[s] = <<>>
    /\ HolderIndex(s) <= MaxHolders
    /\ LET i == HolderIndex(s)
       IN  holders' = [HoldersWith(s) EXCEPT ![i] = resetRecvHolder(@, Free)]
    /\ Disconnected(s)
    /\ UNCHANGED <<call, overrun, last>>

\* recv() returns -1: nothing has arrived (in time).  The socket has a holder.
RecvNothing(s) ==
    /\ call = NoCall /\ ~overrun
    /\ s \in open /\ wire[s] = <<>>
    /\ HolderIndex(s) <= MaxHolders
    /\ holders' = HoldersWith(s)
    /\ UNCHANGED <<open, peerGone, wire, sendTag, call, overrun, astray, expectTag, last>>

\* recv() returns a chunk b, which is stored behind the bytes in use; then the
\* length is read if it is not known yet.
Stored(h, b) ==
    [h EXCEPT !.recvQueue =
                [a \in DOMAIN @ |-> IF a - h.sizeUsed \in 0 .. (Len(b) - 1)
                                    THEN b[a - h.sizeUsed + 1] ELSE @[a]],
              !.stray = IF @ = 0 /\ Handled(h, b) THEN 0 ELSE @ + 1]
NeedsLength(h) == h.firstMsgPtr = NoPtr \/ h.firstMsgSize < HeaderLen

Recv(s, rs) ==
    /\ call = NoCall /\ ~overrun
    /\ s \in open /\ rs <= Len(wire[s])
    /\ HolderIndex(s) <= MaxHolders
    /\ LET i == HolderIndex(s)
           h == HoldersWith(s)[i]
           g == Stored(h, SubSeq(wire[s], 1, rs))
       IN  /\ rs <= BufSize - h.sizeUsed
           /\ h.stray < MaxStray
           /\ \E k \in IF NeedsLength(h) THEN handleMsgLen(g, rs) ELSE {g} :
                 holders' = [HoldersWith(s) EXCEPT
                                ![i] = [k EXCEPT !.firstMsgSizeUsed = @ + rs]]
           /\ call' = [sock |-> s, holder |-> i, rs |-> rs]
           /\ astray' = IF InFrame(g) THEN astray ELSE astray \cup {s}
    /\ wire' = [wire EXCEPT ![s] = SubSeq(@, rs + 1, Len(@))]
    /\ UNCHANGED <<open, peerGone, sendTag, overrun, expectTag, last>>

\* recv() is called with sizeUsed beyond the end of the buffer: the room left,
\* a negative number, becomes a huge size_t and the bytes are written outside
\* of the buffer.  What the program does from here on is undefined.
RecvOutside(s) ==
    /\ call = NoCall /\ ~overrun
    /\ s \in open /\ wire[s] # <<>>
    /\ HolderIndex(s) \in DOMAIN holders
    /\ holders[HolderIndex(s)].sizeUsed > BufSize
    /\ overrun' = TRUE
    /\ UNCHANGED <<open, peerGone, wire, sendTag, holders, call, astray,
                   expectTag, last>>

\* One call of handleMsgData.  A complete message is delivered; if bytes are
\* left the buffer circulates, the length of the next message is read, and
\* handleMsgData is called again for it with the same rs.
DataStep(h) ==
    IF ~Complete(h)
    THEN [next |-> {circulateBuffer(h, call.rs)}, again |-> FALSE]
    ELSE IF h.firstMsgSizeUsed > h.firstMsgSize
    THEN LET rest == h.firstMsgSizeUsed - h.firstMsgSize
             g == [h EXCEPT !.firstMsgPtr = h.sizeUsed + h.firstMsgSize,
                            !.firstMsgSizeUsed = rest,
                            !.firstMsgSize = HeaderLen + 1]
         IN  [next |-> handleMsgLen(circulateBuffer(g, call.rs), rest), again |-> TRUE]
    ELSE [next |-> {circulateBuffer([h EXCEPT !.recvQueue = NoBytes,
                                              !.firstMsgPtr = NoPtr,
                                              !.firstMsgSize = 0,
                                              !.firstMsgSizeUsed = 0], call.rs)},
          again |-> FALSE]

handleMsgData ==
    /\ call # NoCall /\ ~overrun
    /\ LET h == holders[call.holder]
           s == call.sock
           step == DataStep(h)
       IN  /\ \E g \in step.next : holders' = [holders EXCEPT ![call.holder] = g]
           /\ call' = IF step.again THEN call ELSE NoCall
           /\ overrun' = (Complete(h) /\ FirstPart(h) < 0)
           /\ IF Complete(h)
              THEN /\ last' = [inFrame |-> InFrame(h) /\ s \notin astray,
                               intact |-> Copied(h) = Message(s, expectTag[s],
                                                              h.firstMsgSize)]
                   /\ expectTag' = [expectTag EXCEPT ![s] = (@ + 1) % Tags]
              ELSE UNCHANGED <<last, expectTag>>
    /\ UNCHANGED <<open, peerGone, wire, sendTag, astray>>

\* A process that has overwritten its heap crashes and is started again.
Restart ==
    /\ overrun
    /\ open' = {} /\ peerGone' = {}
    /\ wire' = [s \in Sockets |-> <<>>]
    /\ sendTag' = [s \in Sockets |-> 0]
    /\ astray' = {}
    /\ expectTag' = [s \in Sockets |-> 0]
    /\ holders' = <<>>
    /\ call' = NoCall
    /\ overrun' = FALSE
    /\ UNCHANGED last

Next ==
    \/ \E s \in Sockets :
          \/ Connect(s) \/ PeerClose(s) \/ LocalClose(s) \/ RecvEnd(s)
          \/ RecvNothing(s) \/ RecvOutside(s)
          \/ \E l \in Lens : PeerSend(s, l)
          \/ \E rs \in 1 .. BufSize : Recv(s, rs)
    \/ handleMsgData
    \/ Restart

Spec == Init /\ [][Next]_vars

-----------------------------------------------------------------------------
(***************************************************************************)
(* Properties.                                                             *)
(***************************************************************************)
Holder == [socket : Sockets \cup {Free}, recvQueue : [0 .. (BufSize - 1) -> Bytes],
           sizeUsed : Nat, firstMsgPtr : Nat \cup {NoPtr}, firstMsgSize : Nat,
           firstMsgSizeUsed : Nat, stray : 0 .. MaxStray]

\* Type correctness of every variable.
TypeOK ==
    /\ open \subseteq Sockets
    /\ peerGone \subseteq open
    /\ wire \in [Sockets -> Seq(Bytes)]
    /\ {sendTag, expectTag} \subseteq [Sockets -> 0 .. (Tags - 1)]
    /\ holders \in Seq(Holder)
    /\ \/ call = NoCall
       \/ /\ call.sock \in open
          /\ call.holder \in DOMAIN holders
          /\ call.rs \in 1 .. BufSize
    /\ overrun \in BOOLEAN
    /\ astray \subseteq open
    /\ last \in [inFrame : BOOLEAN, intact : BOOLEAN]

\* As long as every chunk of a holder and of a socket was one that Handled
\* describes, each message delivered from it is the next one sent on that
\* socket, byte for byte, however it was split and wherever it lies in the ring
\* buffer (recvAll, handleMsgLen, handleMsgData).
IntactWhenInFrame == last.inFrame => last.intact

\* A holder in frame keeps its write position and the start of the message it
\* assembles inside its buffer (circulateBuffer).
InFrameInBounds ==
    \A i \in DOMAIN holders :
        LET h == holders[i]
        IN  (InFrame(h) /\ call = NoCall)
            => /\ h.sizeUsed < BufSize
               /\ h.firstMsgPtr < BufSize
               /\ h.firstMsgSizeUsed > 0 =>
                    (h.firstMsgPtr + h.firstMsgSizeUsed) % BufSize = h.sizeUsed

\* With a holder in frame no message is held back: once the bytes sent on its
\* socket have been received, all their messages have been delivered.
NothingHeldBack ==
    \A i \in DOMAIN holders :
        LET h == holders[i]
            s == h.socket
        IN  (InFrame(h) /\ call = NoCall /\ s \in open \ astray /\ wire[s] = <<>>
             /\ HolderIndex(s) = i)
            => expectTag[s] = sendTag[s]

-----------------------------------------------------------------------------
(***************************************************************************)
(* What a comment of the code says and the code does not do.               *)
(***************************************************************************)

\* pckData.c:927: recvHolders allow "us to recieve defragmented TCP messages":
\* whatever the chunks, what is delivered is what was sent.
DefragmentsMessages == last.intact
=============================================================================
