--------------------------- MODULE RecvAllProofs ---------------------------
(***************************************************************************)
(* Proofs about module RecvAll: types, and that reassembly is correct for  *)
(* every size of the buffer, set of lengths and split of the streams.      *)
(*                                                                         *)
(* The argument.  A stream consists of whole messages whose tags follow    *)
(* each other (Streams).  A holder in frame is described by RecvInv up to  *)
(* its last byte: between two calls it is idle or has the first bytes of   *)
(* one message of one socket, in their places around the end of the ring   *)
(* buffer, and if the socket it belongs to is still that of the message,   *)
(* the stream goes on with the next byte (Settled); during a call it has   *)
(* one message, the chunk's last bytes included, or exactly two complete   *)
(* ones (InCall).  recvAll reads the length of a message only where all    *)
(* of its length field has been stored (LengthRead), so what it copies is  *)
(* the message (DataOne, DataTwo), and it is the next of its socket,       *)
(* because tags in the stream and the tag expected agree (TagsInStep).     *)
(*                                                                         *)
(* Holders are found by number of socket.  That a step for one socket      *)
(* cannot take another's message apart needs that no two holders have one  *)
(* number (OneOwner) and that a free holder is used by one socket only     *)
(* (Others, ServesChosen).                                                 *)
(***************************************************************************)
EXTENDS RecvAll, NaturalsInduction, WellFoundedInduction, TLAPS

\* The offset of the byte j behind offset p in the ring buffer.
At(p, j) == IF p + j < BufSize THEN p + j ELSE p + j - BufSize
\* The tag of the message after t.
NextTag(t) == (t + 1) % Tags

-----------------------------------------------------------------------------
(***************************************************************************)
(* Streams.                                                                *)
(***************************************************************************)

\* The tag of the next message of s to arrive, and whether nothing of it has arrived.
HeadTag(s) == IF wire[s] = <<>> THEN sendTag[s] ELSE wire[s][1].tag
AtStart(s) == wire[s] = <<>> \/ wire[s][1].pos = 1

\* What arrives on s after byte u of the message t of length l.
Follows(s, t, l, u) ==
    IF u < l THEN wire[s] # <<>> /\ wire[s][1] = Byte(s, t, l, u + 1)
    ELSE AtStart(s) /\ HeadTag(s) = NextTag(t)

\* The byte j of a wire w belongs to a message on it: those before and after it are
\* there as far as they have not been received, and the next message follows,
\* which has the tag n if it has not been sent.
InMessage(s, w, n, j) ==
    LET b == w[j]
        e == j + (b.len - b.pos)
    IN  /\ b = Byte(s, b.tag, b.len, b.pos)
        /\ b.len \in Lens /\ b.tag \in 0 .. (Tags - 1)
        /\ b.pos \in 1 .. b.len
        /\ e <= Len(w)
        /\ \A i \in DOMAIN w : (i <= e /\ j < i + b.pos)
              => w[i] = Byte(s, b.tag, b.len, b.pos + (i - j))
        /\ IF e = Len(w) THEN n = NextTag(b.tag)
           ELSE w[e + 1].pos = 1 /\ w[e + 1].tag = NextTag(b.tag)
Messages(s, w, n) == \A j \in DOMAIN w : InMessage(s, w, n, j)

-----------------------------------------------------------------------------
(***************************************************************************)
(* Holders in frame.                                                       *)
(***************************************************************************)

\* The holder has no bytes.
Idle(h) ==
    /\ h.firstMsgPtr = NoPtr /\ h.firstMsgSize = 0 /\ h.firstMsgSizeUsed = 0
    /\ h.sizeUsed < BufSize

\* It has the first bytes of message t of socket s, with length l.
Assembled(h, s, t, l) ==
    /\ h.firstMsgPtr # NoPtr /\ h.firstMsgPtr + HeaderLen <= BufSize
    /\ h.firstMsgSizeUsed \in 1 .. l
    /\ h.firstMsgSize = IF h.firstMsgSizeUsed < HeaderLen THEN h.firstMsgSizeUsed ELSE l
    /\ \A k \in 1 .. h.firstMsgSizeUsed :
          h.recvQueue[At(h.firstMsgPtr, k - 1)] = Byte(s, t, l, k)
Partial(h, s, t, l) ==
    /\ Assembled(h, s, t, l)
    /\ h.firstMsgSizeUsed < l
    /\ h.sizeUsed = At(h.firstMsgPtr, h.firstMsgSizeUsed)

\* A chunk of rs bytes has been stored that ends in message t ...
OneStored(h, s, t, l, rs) ==
    /\ Assembled(h, s, t, l)
    /\ h.sizeUsed + rs <= BufSize
    /\ h.firstMsgSizeUsed < l =>
          At(h.firstMsgPtr, h.firstMsgSizeUsed) = At(h.sizeUsed, rs)
\* ... or that is the messages t and the next one, of lengths l and m.
TwoStored(h, s, t, l, m, rs) ==
    /\ rs = l + m
    /\ h.firstMsgPtr = h.sizeUsed
    /\ h.firstMsgSizeUsed = rs /\ h.firstMsgSize = l
    /\ h.sizeUsed + rs = BufSize \/ h.sizeUsed + 2 * rs <= BufSize
    /\ \A k \in 1 .. l : h.recvQueue[h.sizeUsed + k - 1] = Byte(s, t, l, k)
    /\ \A k \in 1 .. m :
          h.recvQueue[h.sizeUsed + l + k - 1] = Byte(s, NextTag(t), m, k)

\* The socket whose bytes holder i has is its own, or the holder is free and the
\* socket has none of its own.
MayUse(i, s) ==
    \/ holders[i].socket = s
    \/ holders[i].socket = Free /\ Owned(s) = {}
\* recvAll stores the next bytes of s in holder i.
Serves(i, s) ==
    \/ holders[i].socket = s
    \/ holders[i].socket = Free /\ \A j \in FreeHolders : i <= j

\* A holder between two calls: the message it has begun goes on in the stream, or
\* the stream is another connection's and starts with a message.
Between(i, s, t, l) ==
    /\ Partial(holders[i], s, t, l)
    /\ MayUse(i, s)
    /\ Serves(i, s) =>
          AtStart(s) \/ Follows(s, t, l, holders[i].firstMsgSizeUsed)
Settled(i) ==
    \/ Idle(holders[i])
    \/ \E s \in Sockets, t \in 0 .. (Tags - 1), l \in Lens : Between(i, s, t, l)

\* The holder of the call in progress.
AfterOne(i, s, t, l) ==
    /\ OneStored(holders[i], s, t, l, call.rs)
    /\ MayUse(i, s)
    /\ Follows(s, t, l, holders[i].firstMsgSizeUsed)
    /\ s \notin astray => expectTag[s] = t
AfterTwo(i, s, t, l, m) ==
    /\ TwoStored(holders[i], s, t, l, m, call.rs)
    /\ MayUse(i, s)
    /\ Follows(s, NextTag(t), m, m)
    /\ s \notin astray => expectTag[s] = t
InCall(i, s) ==
    \E t \in 0 .. (Tags - 1), l \in Lens :
        AfterOne(i, s, t, l) \/ \E m \in Lens : AfterTwo(i, s, t, l, m)

-----------------------------------------------------------------------------
(***************************************************************************)
(* The invariant.                                                          *)
(***************************************************************************)
\* A socket has one holder at most.
OneOwner ==
    \A i, j \in DOMAIN holders :
        (holders[i].socket = holders[j].socket /\ holders[i].socket # Free) => i = j
TypeInv == TypeOK /\ OneOwner

\* What has been sent and not received is whole messages, but for the first one's
\* beginning.
Streams == \A s \in Sockets : Messages(s, wire[s], sendTag[s])
\* Holders in frame are as described, the one of the call in progress as during it.
HoldersInFrame ==
    \A i \in DOMAIN holders : InFrame(holders[i]) =>
        IF call # NoCall /\ call.holder = i THEN InCall(i, call.sock) ELSE Settled(i)
\* The next message to arrive is the next to deliver; during a call on a socket that
\* is not astray its holder is in frame.
TagsInStep ==
    \A s \in Sockets \ astray :
        IF call # NoCall /\ call.sock = s THEN InFrame(holders[call.holder])
        ELSE HeadTag(s) = expectTag[s]

RecvInv ==
    /\ TypeInv
    /\ Streams
    /\ HoldersInFrame
    /\ TagsInStep
    /\ IntactWhenInFrame
-----------------------------------------------------------------------------
(***************************************************************************)
(* Numbers.                                                                *)
(***************************************************************************)

\* A message has more bytes than its length field, and the buffer has room for
\* three messages.
LEMMA Lengths ==
    /\ BufSize \in Nat /\ BufSize > 0 /\ HeaderLen \in Nat /\ HeaderLen > 0
    /\ \A l \in Lens : l \in Nat /\ HeaderLen < l /\ 3 * l <= BufSize
<1>1. BufSize \in Nat \ {0} /\ HeaderLen \in Nat \ {0}
  BY SizesAssumption
<1>2. ASSUME NEW l \in Lens
      PROVE  l \in Nat /\ HeaderLen < l /\ 3 * l <= BufSize
  <2>1. l \in (HeaderLen + 1) .. (BufSize \div 3)
    BY SizesAssumption
  <2>2. BufSize \div 3 \in Nat /\ 3 * (BufSize \div 3) <= BufSize
    BY <1>1
  <2> QED
    BY <1>1, <2>1, <2>2
<1> QED
  BY <1>1, <1>2

\* Tags are followed by tags.
LEMMA NextTagType ==
    ASSUME NEW t \in 0 .. (Tags - 1)
    PROVE  NextTag(t) \in 0 .. (Tags - 1)
BY CountsAssumption DEF NextTag

\* Offsets in the ring buffer: bytes stored at offset w = At(p, u) are the ones
\* from byte u on of what begins at p, and none of those before; the offset
\* behind them is that of the byte u + r.
LEMMA Offsets ==
    ASSUME NEW p \in Nat, p < BufSize, NEW u \in Nat, NEW r \in Nat, u + r <= BufSize,
           NEW w \in Nat, w = At(p, u), w + r <= BufSize
    PROVE  /\ \A j \in Nat : j < u + r => At(p, j) \in 0 .. (BufSize - 1)
           /\ \A j \in u .. (u + r - 1) : At(p, j) - w = j - u
           /\ \A j \in Nat : j < u => At(p, j) - w \notin 0 .. (r - 1)
           /\ r > 0 => At(w, r) = At(p, u + r)
           /\ u + r < BufSize /\ r > 0 => At(w, r) \in 0 .. (BufSize - 1)
BY Lengths DEF At

\* The position behind the last byte is where the buffer goes on.
LEMMA Wrapped ==
    ASSUME NEW p \in Nat, p < BufSize, NEW u \in Nat, u <= BufSize
    PROVE  (p + u) % BufSize = At(p, u)
<1>1. CASE p + u < BufSize
  BY <1>1, Lengths DEF At
<1>2. CASE p + u >= BufSize
  BY <1>2, Lengths DEF At
<1> QED
  BY <1>1, <1>2, Lengths

-----------------------------------------------------------------------------
(***************************************************************************)
(* The holder that recvAll takes.                                          *)
(***************************************************************************)

\* A set of numbers that is not empty has a least element.
LEMMA LeastNat ==
    ASSUME NEW S \in SUBSET Nat, S # {}
    PROVE  \E i \in S : \A j \in S : i <= j
<1> DEFINE R == {ss \in Nat \X Nat : ss[1] < ss[2]}
<1>1. IsWellFoundedOn(R, Nat)
  BY NatLessThanWellFounded DEF OpToRel
<1> HIDE DEF R
<1>2. PICK i \in S : \A j \in S : ~ (<<j, i>> \in R)
  BY <1>1, WFMin
<1>3. ASSUME NEW j \in S
      PROVE  i <= j
  <2>1. ~ (<<j, i>> \in R)
    BY <1>2
  <2>2. <<j, i>> \in Nat \X Nat
    OBVIOUS
  <2>3. ~ (j < i)
    BY <2>1, <2>2 DEF R
  <2> QED
    BY <2>3
<1> QED
  BY <1>3

\* It is the one with the socket's number, or the first that is free, or a new one.
LEMMA Chosen ==
    ASSUME NEW s \in Sockets, holders \in Seq(Holder), OneOwner
    PROVE  \/ HolderIndex(s) \in Owned(s)
           \/ /\ Owned(s) = {}
              /\ HolderIndex(s) \in FreeHolders
              /\ \A j \in FreeHolders : HolderIndex(s) <= j
           \/ /\ Owned(s) = {} /\ FreeHolders = {}
              /\ HolderIndex(s) = Len(holders) + 1
<1>1. DOMAIN holders = 1 .. Len(holders) /\ Len(holders) \in Nat
  OBVIOUS
<1>2. CASE Owned(s) # {}
  <2>1. PICK i \in Owned(s) : TRUE
    BY <1>2
  <2>2. ASSUME NEW j \in Owned(s)
        PROVE  j = i
    BY <2>1, NamesAssumption DEF Owned, OneOwner
  <2>3. \A j \in Owned(s) : j <= i
    BY <2>2, <1>1 DEF Owned
  <2> QED
    BY <1>2, <2>1, <2>3 DEF HolderIndex
<1>3. CASE Owned(s) = {} /\ FreeHolders # {}
  <2>1. FreeHolders \in SUBSET Nat
    BY <1>1 DEF FreeHolders
  <2>2. \E i \in FreeHolders : \A j \in FreeHolders : i <= j
    BY <1>3, <2>1, LeastNat
  <2> QED
    BY <1>3, <2>2 DEF HolderIndex
<1>4. CASE Owned(s) = {} /\ FreeHolders = {}
  BY <1>4 DEF HolderIndex
<1> QED
  BY <1>2, <1>3, <1>4

-----------------------------------------------------------------------------
(***************************************************************************)
(* Types.                                                                  *)
(***************************************************************************)

\* Memory holds bytes, and what is read as a length is a number.
LEMMA LengthType ==
    ASSUME NEW h \in Holder, NEW a \in Int
    PROVE  Memory(h, a) \in Bytes /\ LengthAt(h, a) \subseteq Nat
<1>1. h.recvQueue \in [0 .. (BufSize - 1) -> Bytes]
  BY DEF Holder
<1>2. Memory(h, a) \in Bytes
  BY <1>1 DEF Memory, Bytes
<1> DEFINE first == Memory(h, a)
           C == first # Junk /\ \A k \in 1 .. HeaderLen :
                                   Memory(h, a + k - 1) = [first EXCEPT !.pos = k]
<1>3. LengthAt(h, a) = IF C THEN {first.len} ELSE Garbage
  BY DEF LengthAt
<1>4. C => first # Junk
  OBVIOUS
<1> HIDE DEF C
<1>5. first # Junk => first.len \in Nat
  BY <1>2, Lengths DEF Bytes
<1> QED
  BY <1>2, <1>3, <1>4, <1>5, SizesAssumption

\* A new holder, and one that is reset.
LEMMA NewHolderType ==
    /\ \A s \in Sockets : initRecvHolder(s) \in Holder
    /\ \A h \in Holder : resetRecvHolder(h, Free) \in Holder
<1>1. NoBytes \in [0 .. (BufSize - 1) -> Bytes]
  BY DEF NoBytes, Bytes
<1>2. 0 \in 0 .. MaxStray
  BY CountsAssumption
<1> QED
  BY <1>1, <1>2 DEF initRecvHolder, resetRecvHolder, Holder

\* handleMsgLen sets the start and the size of the message and nothing else.
LEMMA LenType ==
    ASSUME NEW h \in Holder, NEW rs \in Nat, NEW g \in handleMsgLen(h, rs)
    PROVE  /\ g \in Holder
           /\ g.firstMsgPtr = IF h.firstMsgSize = 0 THEN h.sizeUsed ELSE h.firstMsgPtr
           /\ g.socket = h.socket /\ g.recvQueue = h.recvQueue /\ g.stray = h.stray
           /\ g.sizeUsed = h.sizeUsed /\ g.firstMsgSizeUsed = h.firstMsgSizeUsed
<1> DEFINE f == [h EXCEPT !.firstMsgPtr = IF h.firstMsgSize = 0 THEN h.sizeUsed ELSE @]
           n == h.firstMsgSize + rs
           L == IF n >= HeaderLen THEN LengthAt(f, f.firstMsgPtr) ELSE {n}
<1>1. f \in Holder /\ f.firstMsgPtr \in Int
  BY DEF Holder, NoPtr
<1>2. n \in Nat
  BY DEF Holder
<1>3. L \subseteq Nat
  BY <1>1, <1>2, LengthType
<1> HIDE DEF L
<1>4. PICK l \in L : g = [f EXCEPT !.firstMsgSize = l]
  BY DEF handleMsgLen, L
<1> QED
  BY <1>1, <1>3, <1>4 DEF Holder

\* circulateBuffer moves the write position and nothing else.
LEMMA CirculateType ==
    ASSUME NEW h \in Holder, NEW rs \in Nat
    PROVE  /\ circulateBuffer(h, rs) \in Holder
           /\ circulateBuffer(h, rs) =
                [h EXCEPT !.sizeUsed = IF h.sizeUsed + rs = BufSize THEN 0
                                       ELSE h.sizeUsed + rs]
BY DEF circulateBuffer, Holder

\* A chunk is stored behind the bytes in use.
LEMMA StoredType ==
    ASSUME NEW h \in Holder, NEW b \in Seq(Bytes), h.stray < MaxStray
    PROVE  /\ Stored(h, b) \in Holder
           /\ Stored(h, b).socket = h.socket /\ Stored(h, b).sizeUsed = h.sizeUsed
           /\ Stored(h, b).firstMsgPtr = h.firstMsgPtr
           /\ Stored(h, b).firstMsgSize = h.firstMsgSize
           /\ Stored(h, b).firstMsgSizeUsed = h.firstMsgSizeUsed
           /\ InFrame(Stored(h, b)) <=> InFrame(h) /\ Handled(h, b)
           /\ \A a \in 0 .. (BufSize - 1) :
                 Stored(h, b).recvQueue[a] = IF a - h.sizeUsed \in 0 .. (Len(b) - 1)
                                             THEN b[a - h.sizeUsed + 1]
                                             ELSE h.recvQueue[a]
<1> DEFINE q == [a \in DOMAIN h.recvQueue |->
                    IF a - h.sizeUsed \in 0 .. (Len(b) - 1)
                    THEN b[a - h.sizeUsed + 1] ELSE h.recvQueue[a]]
           x == IF h.stray = 0 /\ Handled(h, b) THEN 0 ELSE h.stray + 1
<1>1. h.recvQueue \in [0 .. (BufSize - 1) -> Bytes] /\ h.sizeUsed \in Nat
  BY DEF Holder
<1>2. q \in [0 .. (BufSize - 1) -> Bytes]
  <2>1. ASSUME NEW a \in 0 .. (BufSize - 1), a - h.sizeUsed \in 0 .. (Len(b) - 1)
        PROVE  b[a - h.sizeUsed + 1] \in Bytes
    BY <1>1, <2>1, Lengths
  <2> QED
    BY <1>1, <2>1
<1>3. x \in 0 .. MaxStray /\ (x = 0 <=> h.stray = 0 /\ Handled(h, b))
  BY CountsAssumption DEF Holder
<1>4. Stored(h, b) = [h EXCEPT !.recvQueue = q, !.stray = x]
  BY DEF Stored
<1> HIDE DEF q, x
<1>5. /\ Stored(h, b) \in Holder
      /\ Stored(h, b).recvQueue = q /\ Stored(h, b).stray = x
      /\ Stored(h, b).socket = h.socket /\ Stored(h, b).sizeUsed = h.sizeUsed
      /\ Stored(h, b).firstMsgPtr = h.firstMsgPtr
      /\ Stored(h, b).firstMsgSize = h.firstMsgSize
      /\ Stored(h, b).firstMsgSizeUsed = h.firstMsgSizeUsed
  BY <1>2, <1>3, <1>4 DEF Holder
<1> QED
  BY <1>1, <1>3, <1>5 DEF InFrame, q

\* What a call of handleMsgData leaves is a holder of the same socket.
LEMMA DataType ==
    ASSUME NEW h \in Holder, call.rs \in Nat, NEW g \in DataStep(h).next
    PROVE  g \in Holder /\ g.socket = h.socket /\ g.stray = h.stray
<1>1. CASE ~Complete(h)
  BY <1>1, CirculateType DEF DataStep, Holder
<1>2. CASE Complete(h) /\ h.firstMsgSizeUsed > h.firstMsgSize
  <2> DEFINE rest == h.firstMsgSizeUsed - h.firstMsgSize
             f == [h EXCEPT !.firstMsgPtr = h.sizeUsed + h.firstMsgSize,
                            !.firstMsgSizeUsed = rest,
                            !.firstMsgSize = HeaderLen + 1]
             c == circulateBuffer(f, call.rs)
  <2>1. rest \in Nat /\ HeaderLen + 1 \in Nat /\ h.sizeUsed + h.firstMsgSize \in Nat
    BY <1>2, Lengths DEF Holder
  <2> HIDE DEF rest
  <2>4. f \in Holder /\ f.socket = h.socket /\ f.stray = h.stray
    BY <2>1 DEF Holder
  <2>5. c \in Holder /\ c = [f EXCEPT !.sizeUsed = IF f.sizeUsed + call.rs = BufSize THEN 0
                                                 ELSE f.sizeUsed + call.rs]
    BY <2>4, CirculateType
  <2>2. c \in Holder /\ c.socket = h.socket /\ c.stray = h.stray
    BY <2>4, <2>5 DEF Holder
  <2>3. g \in handleMsgLen(c, rest)
    BY <1>2 DEF DataStep, rest
  <2> HIDE DEF f, c
  <2> QED
    BY <2>1, <2>2, <2>3, LenType
<1>3. CASE Complete(h) /\ ~(h.firstMsgSizeUsed > h.firstMsgSize)
  <2> DEFINE f == [h EXCEPT !.recvQueue = NoBytes, !.firstMsgPtr = NoPtr,
                            !.firstMsgSize = 0, !.firstMsgSizeUsed = 0]
  <2>1. f \in Holder /\ f.socket = h.socket /\ f.stray = h.stray
    BY DEF Holder, NoBytes, Bytes
  <2>2. g = circulateBuffer(f, call.rs)
    BY <1>3 DEF DataStep
  <2> HIDE DEF f
  <2>3. g = [f EXCEPT !.sizeUsed = IF f.sizeUsed + call.rs = BufSize THEN 0
                                       ELSE f.sizeUsed + call.rs]
    BY <2>1, <2>2, CirculateType
  <2>4. g \in Holder
    BY <2>1, <2>2, CirculateType
  <2> QED
    BY <2>1, <2>3, <2>4 DEF Holder
<1> QED
  BY <1>1, <1>2, <1>3

-----------------------------------------------------------------------------
(***************************************************************************)
(* Holders of the other sockets.                                           *)
(***************************************************************************)

\* The holder for s is among the holders that there are then.
LEMMA WithHolder ==
    ASSUME TypeInv, NEW s \in Sockets
    PROVE  /\ HoldersWith(s) \in Seq(Holder)
           /\ HolderIndex(s) \in 1 .. Len(HoldersWith(s))
           /\ \A i \in 1 .. Len(HoldersWith(s)) :
                 \/ i \in 1 .. Len(holders) /\ HoldersWith(s)[i] = holders[i]
                 \/ /\ i = HolderIndex(s) /\ HoldersWith(s)[i] = initRecvHolder(s)
                    /\ Owned(s) = {} /\ FreeHolders = {} /\ i = Len(holders) + 1
           /\ 1 .. Len(holders) \subseteq 1 .. Len(HoldersWith(s))
           /\ \A i \in 1 .. Len(holders) : HoldersWith(s)[i] = holders[i]
<1>1. holders \in Seq(Holder) /\ OneOwner
  BY DEF TypeInv, TypeOK
<1>2. CASE HolderIndex(s) \in DOMAIN holders
  BY <1>1, <1>2 DEF HoldersWith
<1>3. CASE HolderIndex(s) \notin DOMAIN holders
  <2>1. Owned(s) = {} /\ FreeHolders = {} /\ HolderIndex(s) = Len(holders) + 1
    BY <1>1, <1>3, Chosen DEF Owned, FreeHolders
  <2>2. HoldersWith(s) = Append(holders, initRecvHolder(s))
    BY <1>3 DEF HoldersWith
  <2>3. initRecvHolder(s) \in Holder
    BY NewHolderType
  <2> QED
    BY <1>1, <2>1, <2>2, <2>3
<1> QED
  BY <1>2, <1>3

\* The holder that may be used for s and serves it is the one that recvAll takes.
LEMMA ServesChosen ==
    ASSUME TypeInv, NEW s \in Sockets, NEW i \in 1 .. Len(holders)
    PROVE  /\ MayUse(i, s) /\ Serves(i, s) => i = HolderIndex(s)
           /\ i = HolderIndex(s) => Serves(i, s)
<1>1. holders \in Seq(Holder) /\ OneOwner
  BY DEF TypeInv, TypeOK
<1>2. DOMAIN holders = 1 .. Len(holders) /\ Len(holders) \in Nat
  BY <1>1
<1>3. i = HolderIndex(s) => Serves(i, s)
  BY <1>1, <1>2, Chosen DEF Serves, Owned, FreeHolders
<1>4. ASSUME MayUse(i, s), Serves(i, s)
      PROVE  i = HolderIndex(s)
  <2>1. CASE holders[i].socket = s
    <3>1. i \in Owned(s)
      BY <1>2, <2>1 DEF Owned
    <3>2. HolderIndex(s) \in Owned(s)
      BY <1>1, <3>1, Chosen
    <3> QED
      BY <1>1, <3>1, <3>2, NamesAssumption DEF Owned, OneOwner
  <2>2. CASE holders[i].socket # s
    <3>1. /\ Owned(s) = {} /\ i \in FreeHolders
          /\ \A j \in FreeHolders : i <= j
      BY <1>2, <1>4, <2>2 DEF MayUse, Serves, FreeHolders
    <3>2. /\ HolderIndex(s) \in FreeHolders
          /\ \A j \in FreeHolders : HolderIndex(s) <= j
      BY <1>1, <3>1, Chosen
    <3>3. HolderIndex(s) \in 1 .. Len(holders)
      BY <1>2, <3>2 DEF FreeHolders
    <3> QED
      BY <1>2, <3>1, <3>2, <3>3
  <2> QED
    BY <2>1, <2>2
<1> QED
  BY <1>3, <1>4

\* A change of the holder that recvAll takes for s leaves the others alone, and what
\* each of them is used for.
LEMMA Others ==
    ASSUME TypeInv, NEW s \in Sockets, NEW c, c = HolderIndex(s), holders' \in Seq(Holder),
           Len(holders') = Len(HoldersWith(s)),
           \A i \in 1 .. Len(holders') : i # c => holders'[i] = HoldersWith(s)[i],
           holders'[c].socket \in {HoldersWith(s)[c].socket, Free}
    PROVE  /\ OneOwner'
           /\ \A i \in 1 .. Len(holders') : i # c =>
                 /\ i \in 1 .. Len(holders) /\ holders'[i] = holders[i]
                 /\ \A u \in Sockets : MayUse(i, u) =>
                       MayUse(i, u)' /\ (Serves(i, u)' => Serves(i, u))
           /\ holders'[c].socket = HoldersWith(s)[c].socket => MayUse(c, s)'
<1> DEFINE H == HoldersWith(s)
<1>1. holders \in Seq(Holder) /\ OneOwner
  BY DEF TypeInv, TypeOK
<1>2. /\ DOMAIN holders = 1 .. Len(holders) /\ Len(holders) \in Nat
      /\ DOMAIN holders' = 1 .. Len(holders') /\ Len(holders') \in Nat
  BY <1>1
<1>3. /\ H \in Seq(Holder) /\ c \in 1 .. Len(H)
      /\ \A i \in 1 .. Len(H) :
            \/ i \in 1 .. Len(holders) /\ H[i] = holders[i]
            \/ /\ i = c /\ H[i] = initRecvHolder(s)
               /\ Owned(s) = {} /\ FreeHolders = {} /\ i = Len(holders) + 1
      /\ 1 .. Len(holders) \subseteq 1 .. Len(H)
      /\ \A i \in 1 .. Len(holders) : H[i] = holders[i]
  BY WithHolder
<1>4. initRecvHolder(s).socket = s
  BY DEF initRecvHolder
<1>5. HolderIndex(s) \in Owned(s)
      \/ /\ Owned(s) = {} /\ HolderIndex(s) \in FreeHolders
         /\ \A j \in FreeHolders : HolderIndex(s) <= j
      \/ /\ Owned(s) = {} /\ FreeHolders = {} /\ HolderIndex(s) = Len(holders) + 1
  BY <1>1, Chosen
<1> HIDE DEF H
\* What the new sockets are.
<1>6. ASSUME NEW i \in 1 .. Len(holders'), holders'[i].socket # Free
      PROVE  \/ i \in 1 .. Len(holders) /\ holders'[i].socket = holders[i].socket
             \/ i = c /\ holders'[i].socket = s /\ Owned(s) = {} /\ FreeHolders = {}
  <2>1. i \in 1 .. Len(H)
    BY DEF H
  <2>2. holders'[i].socket = H[i].socket
    BY <1>6 DEF H
  <2> QED
    BY <1>3, <1>4, <2>1, <2>2
<1>7. OneOwner'
  <2> SUFFICES ASSUME NEW i \in 1 .. Len(holders'), NEW j \in 1 .. Len(holders'),
                      holders'[i].socket = holders'[j].socket, holders'[i].socket # Free
               PROVE  i = j
    BY <1>2 DEF OneOwner
  <2>1. CASE i \in 1 .. Len(holders) /\ holders'[i].socket = holders[i].socket
             /\ j \in 1 .. Len(holders) /\ holders'[j].socket = holders[j].socket
    BY <1>1, <1>2, <2>1 DEF OneOwner
  <2>2. CASE i \in 1 .. Len(holders) /\ holders'[i].socket = holders[i].socket
             /\ ~(j \in 1 .. Len(holders) /\ holders'[j].socket = holders[j].socket)
    BY <1>2, <1>6, <2>2 DEF Owned
  <2>3. CASE j \in 1 .. Len(holders) /\ holders'[j].socket = holders[j].socket
             /\ ~(i \in 1 .. Len(holders) /\ holders'[i].socket = holders[i].socket)
    BY <1>2, <1>6, <2>3 DEF Owned
  <2>4. CASE ~(j \in 1 .. Len(holders) /\ holders'[j].socket = holders[j].socket)
             /\ ~(i \in 1 .. Len(holders) /\ holders'[i].socket = holders[i].socket)
    BY <1>6, <2>4
  <2> QED
    BY <2>1, <2>2, <2>3, <2>4
<1>8. ASSUME NEW u \in Sockets, Owned(u) = {}, FreeHolders # {} \/ u # s
      PROVE  Owned(u)' = {}
  <2> SUFFICES ASSUME NEW i \in 1 .. Len(holders'), holders'[i].socket = u
               PROVE  FALSE
    BY <1>2 DEF Owned
  <2>1. holders'[i].socket # Free
    BY NamesAssumption
  <2> QED
    BY <1>2, <1>6, <1>8, <2>1 DEF Owned
<1>9. \A i \in FreeHolders : i \in FreeHolders'
  <2> SUFFICES ASSUME NEW i \in 1 .. Len(holders), holders[i].socket = Free
               PROVE  i \in 1 .. Len(holders') /\ holders'[i].socket = Free
    BY <1>2 DEF FreeHolders
  <2>1. i \in 1 .. Len(holders') /\ H[i].socket = Free
    BY <1>3 DEF H
  <2> QED
    BY <2>1 DEF H
<1>10. ASSUME NEW i \in 1 .. Len(holders'), i # c
       PROVE  /\ i \in 1 .. Len(holders) /\ holders'[i] = holders[i]
              /\ \A u \in Sockets : MayUse(i, u) =>
                    MayUse(i, u)' /\ (Serves(i, u)' => Serves(i, u))
  <2>1. i \in 1 .. Len(holders) /\ holders'[i] = holders[i]
    BY <1>3, <1>10 DEF H
  <2>2. ASSUME NEW u \in Sockets, MayUse(i, u)
        PROVE  MayUse(i, u)'
    <3>1. CASE holders[i].socket = u
      BY <2>1, <3>1 DEF MayUse
    <3>2. CASE holders[i].socket = Free /\ Owned(u) = {}
      <4>1. FreeHolders # {}
        BY <1>2, <2>1, <3>2 DEF FreeHolders
      <4>2. Owned(u)' = {}
        BY <1>8, <3>2, <4>1
      <4> QED
        BY <2>1, <3>2, <4>2 DEF MayUse
    <3> QED
      BY <2>2, <3>1, <3>2 DEF MayUse
  <2>3. ASSUME NEW u \in Sockets, Serves(i, u)'
        PROVE  Serves(i, u)
    BY <1>9, <2>1, <2>3 DEF Serves
  <2> QED
    BY <2>1, <2>2, <2>3
<1>11. c \in 1 .. Len(holders') /\ c = HolderIndex(s)
  BY <1>3 DEF H
<1>12. ASSUME holders'[c].socket = H[c].socket
       PROVE  MayUse(c, s)'
  <2>1. CASE c \in Owned(s)
    <3>1. H[c].socket = s
      BY <1>2, <1>3, <2>1 DEF Owned
    <3> QED
      BY <1>12, <3>1 DEF MayUse
  <2>2. CASE Owned(s) = {} /\ c \in FreeHolders
    <3>1. Owned(s)' = {}
      BY <1>8, <2>2
    <3>2. H[c].socket = Free
      BY <1>2, <1>3, <2>2 DEF FreeHolders
    <3> QED
      BY <1>12, <3>1, <3>2 DEF MayUse
  <2>3. CASE Owned(s) = {} /\ FreeHolders = {} /\ c = Len(holders) + 1
    <3>1. H[c].socket = s
      BY <1>2, <1>3, <1>4, <2>3
    <3> QED
      BY <1>12, <3>1 DEF MayUse
  <2> QED
    BY <1>5, <1>11, <2>1, <2>2, <2>3
<1>13. \A i \in 1 .. Len(holders') : i # c =>
                 /\ i \in 1 .. Len(holders) /\ holders'[i] = holders[i]
                 /\ \A u \in Sockets : MayUse(i, u) =>
                       MayUse(i, u)' /\ (Serves(i, u)' => Serves(i, u))
  BY <1>10
<1>14. holders'[c].socket = HoldersWith(s)[c].socket => MayUse(c, s)'
  BY <1>12 DEF H
<1> QED
  BY <1>7, <1>13, <1>14

-----------------------------------------------------------------------------
(***************************************************************************)
(* Type correctness.                                                       *)
(***************************************************************************)

\* The first bytes of a stream, and the rest.
LEMMA Cut ==
    ASSUME NEW S, NEW w \in Seq(S), NEW n \in 1 .. Len(w)
    PROVE  /\ SubSeq(w, 1, n) \in Seq(S) /\ Len(SubSeq(w, 1, n)) = n
           /\ \A j \in 1 .. n : SubSeq(w, 1, n)[j] = w[j]
           /\ SubSeq(w, n + 1, Len(w)) \in Seq(S)
           /\ Len(SubSeq(w, n + 1, Len(w))) = Len(w) - n
           /\ \A j \in 1 .. (Len(w) - n) : SubSeq(w, n + 1, Len(w))[j] = w[n + j]
OBVIOUS

\* A message is a sequence of its bytes.
LEMMA MessageType ==
    ASSUME NEW s \in Sockets, NEW t \in 0 .. (Tags - 1), NEW l \in Lens
    PROVE  /\ Message(s, t, l) \in Seq(Bytes) /\ Len(Message(s, t, l)) = l
           /\ \A k \in 1 .. l : Message(s, t, l)[k] = Byte(s, t, l, k)
<1>1. l \in Nat
  BY Lengths
<1>2. \A k \in 1 .. l : Byte(s, t, l, k) \in Bytes
  BY <1>1 DEF Byte, Bytes
<1> QED
  BY <1>1, <1>2 DEF Message

\* What a step of recvAll does to the holder that it takes: the chunk b is stored (g),
\* the length is read if it is not known (k), and the bytes are counted.
RecvInto(s, rs, k) ==
    LET c == HolderIndex(s)
        h == HoldersWith(s)[c]
        g == Stored(h, SubSeq(wire[s], 1, rs))
    IN  /\ rs <= BufSize - h.sizeUsed /\ h.stray < MaxStray
        /\ k \in IF NeedsLength(h) THEN handleMsgLen(g, rs) ELSE {g}
        /\ holders' = [HoldersWith(s) EXCEPT ![c] = [k EXCEPT !.firstMsgSizeUsed = @ + rs]]
        /\ astray' = IF InFrame(g) THEN astray ELSE astray \cup {s}

\* What recvAll stores the chunk in stays a holder of the same socket.
LEMMA RecvTypes ==
    ASSUME TypeInv, NEW s \in Sockets, NEW rs \in 1 .. BufSize, Recv(s, rs), NEW k,
           RecvInto(s, rs, k)
    PROVE  /\ holders' \in Seq(Holder) /\ Len(holders') = Len(HoldersWith(s))
           /\ \A i \in 1 .. Len(holders') :
                 i # HolderIndex(s) => holders'[i] = HoldersWith(s)[i]
           /\ HolderIndex(s) \in 1 .. Len(holders')
           /\ HoldersWith(s)[HolderIndex(s)] \in Holder
           /\ Stored(HoldersWith(s)[HolderIndex(s)], SubSeq(wire[s], 1, rs)) \in Holder
           /\ k \in Holder
           /\ holders'[HolderIndex(s)] = [k EXCEPT !.firstMsgSizeUsed = @ + rs]
           /\ k.socket = HoldersWith(s)[HolderIndex(s)].socket
           /\ k.stray = Stored(HoldersWith(s)[HolderIndex(s)], SubSeq(wire[s], 1, rs)).stray
<1> DEFINE H == HoldersWith(s)
           c == HolderIndex(s)
           b == SubSeq(wire[s], 1, rs)
           g == Stored(H[c], b)
<1>1. H \in Seq(Holder) /\ c \in 1 .. Len(H)
  BY WithHolder
<1>2. b \in Seq(Bytes)
  <2>1. wire[s] \in Seq(Bytes) /\ rs \in 1 .. Len(wire[s])
    BY DEF Recv, TypeInv, TypeOK
  <2> QED
    BY <2>1, Cut
<1>3. H[c] \in Holder /\ H[c].stray < MaxStray
  BY <1>1 DEF RecvInto
<1>4. g \in Holder /\ g.socket = H[c].socket
  BY <1>2, <1>3, StoredType
<1>5. rs \in Nat
  OBVIOUS
<1>6. \/ k = g
      \/ k \in handleMsgLen(g, rs)
  BY DEF RecvInto
<1>7. k \in Holder /\ k.socket = H[c].socket /\ k.stray = g.stray
  BY <1>4, <1>5, <1>6, LenType
<1>8. [k EXCEPT !.firstMsgSizeUsed = @ + rs] \in Holder
  BY <1>5, <1>7 DEF Holder
<1>9. holders' = [H EXCEPT ![c] = [k EXCEPT !.firstMsgSizeUsed = @ + rs]]
  BY DEF RecvInto
<1> HIDE DEF H, c, g
<1>10. /\ holders' \in Seq(Holder) /\ Len(holders') = Len(H)
       /\ \A i \in 1 .. Len(holders') : i # c => holders'[i] = H[i]
       /\ c \in 1 .. Len(holders')
       /\ holders'[c] = [k EXCEPT !.firstMsgSizeUsed = @ + rs]
  BY <1>1, <1>8, <1>9
<1> QED
  BY <1>3, <1>4, <1>7, <1>10 DEF H, c, g

\* Recv takes a holder in that way.
LEMMA RecvTakes ==
    ASSUME NEW s \in Sockets, NEW rs \in 1 .. BufSize, Recv(s, rs)
    PROVE  \E k : RecvInto(s, rs, k)
BY DEF Recv, RecvInto

\* A holder takes part in no other change: RecvEnd resets the one of its socket,
\* RecvNothing at most adds one.
LEMMA EndTypes ==
    ASSUME TypeInv, NEW s \in Sockets, RecvEnd(s)
    PROVE  /\ holders' \in Seq(Holder) /\ Len(holders') = Len(HoldersWith(s))
           /\ \A i \in 1 .. Len(holders') :
                 i # HolderIndex(s) => holders'[i] = HoldersWith(s)[i]
           /\ HolderIndex(s) \in 1 .. Len(holders')
           /\ HoldersWith(s)[HolderIndex(s)] \in Holder
           /\ holders'[HolderIndex(s)] =
                 resetRecvHolder(HoldersWith(s)[HolderIndex(s)], Free)
           /\ holders'[HolderIndex(s)].socket = Free
<1> DEFINE H == HoldersWith(s)
           c == HolderIndex(s)
<1>1. H \in Seq(Holder) /\ c \in 1 .. Len(H)
  BY WithHolder
<1>2. H[c] \in Holder
  BY <1>1
<1>3. resetRecvHolder(H[c], Free) \in Holder /\ resetRecvHolder(H[c], Free).socket = Free
  BY <1>2, NewHolderType DEF resetRecvHolder, Holder
<1>4. holders' = [H EXCEPT ![c] = resetRecvHolder(H[c], Free)]
  BY DEF RecvEnd
<1> HIDE DEF H, c
<1>5. /\ holders' \in Seq(Holder) /\ Len(holders') = Len(H)
      /\ \A i \in 1 .. Len(holders') : i # c => holders'[i] = H[i]
      /\ c \in 1 .. Len(holders')
      /\ holders'[c] = resetRecvHolder(H[c], Free)
  BY <1>1, <1>3, <1>4
<1> QED
  BY <1>2, <1>3, <1>5 DEF H, c

\* handleMsgData changes the holder of the call and keeps its socket.
LEMMA DataTypes ==
    ASSUME TypeInv, handleMsgData
    PROVE  /\ holders' \in Seq(Holder) /\ Len(holders') = Len(holders)
           /\ call.holder \in 1 .. Len(holders) /\ holders[call.holder] \in Holder
           /\ call.sock \in open /\ call.sock \in Sockets
           /\ call.rs \in 1 .. BufSize
           /\ \A i \in 1 .. Len(holders) : i # call.holder => holders'[i] = holders[i]
           /\ holders'[call.holder] \in DataStep(holders[call.holder]).next
           /\ \A i \in 1 .. Len(holders) : /\ holders'[i].socket = holders[i].socket
                                           /\ holders'[i].stray = holders[i].stray
<1> DEFINE c == call.holder
<1>1. /\ holders \in Seq(Holder) /\ c \in 1 .. Len(holders)
      /\ call.sock \in open /\ call.sock \in Sockets
      /\ call.rs \in 1 .. BufSize
  BY DEF TypeInv, TypeOK, handleMsgData
<1>2. PICK g \in DataStep(holders[c]).next : holders' = [holders EXCEPT ![c] = g]
  BY DEF handleMsgData
<1>3. holders[c] \in Holder /\ call.rs \in Nat
  BY <1>1
<1>4. g \in Holder /\ g.socket = holders[c].socket /\ g.stray = holders[c].stray
  BY <1>2, <1>3, DataType
<1> HIDE DEF c
<1>5. /\ holders' \in Seq(Holder) /\ Len(holders') = Len(holders)
      /\ \A i \in 1 .. Len(holders) : i # c => holders'[i] = holders[i]
      /\ holders'[c] = g
  BY <1>1, <1>2, <1>4
<1>6. \A i \in 1 .. Len(holders) : /\ holders'[i].socket = holders[i].socket
                                   /\ holders'[i].stray = holders[i].stray
  BY <1>4, <1>5
<1> QED
  BY <1>1, <1>2, <1>3, <1>5, <1>6 DEF c

\* Disconnected leaves streams and tags typed.
LEMMA DisconnectedTypes ==
    ASSUME TypeOK, NEW s \in Sockets, Disconnected(s)
    PROVE  /\ open' \subseteq Sockets /\ peerGone' \subseteq open' /\ astray' \subseteq open'
           /\ wire' \in [Sockets -> Seq(Bytes)]
           /\ {sendTag', expectTag'} \subseteq [Sockets -> 0 .. (Tags - 1)]
<1>1. 0 \in 0 .. (Tags - 1) /\ <<>> \in Seq(Bytes)
  BY CountsAssumption
<1> QED
  BY <1>1 DEF TypeOK, Disconnected

\* Init and every action keep the types, and a socket has one holder at most.
LEMMA InitTypes == Init => TypeInv
<1> SUFFICES ASSUME Init PROVE TypeInv
  OBVIOUS
<1>1. 0 \in 0 .. (Tags - 1) /\ <<>> \in Seq(Bytes) /\ holders \in Seq(Holder)
  BY CountsAssumption DEF Init
<1>2. TypeOK
  BY <1>1 DEF Init, TypeOK
<1> QED
  BY <1>2 DEF TypeInv, OneOwner, Init

\* No action leaves the types.
LEMMA TypesKept == TypeInv /\ [Next]_vars => TypeInv'
<1> SUFFICES ASSUME TypeInv, [Next]_vars PROVE TypeInv'
  OBVIOUS
<1>1. TypeOK /\ OneOwner
  BY DEF TypeInv
<1>2. 0 \in 0 .. (Tags - 1) /\ <<>> \in Seq(Bytes)
  BY CountsAssumption
<1>3. ASSUME NEW s \in Sockets, Connect(s)
      PROVE  TypeInv'
  BY <1>1, <1>3 DEF Connect, TypeInv, TypeOK, OneOwner
<1>4. ASSUME NEW s \in Sockets, PeerClose(s)
      PROVE  TypeInv'
  BY <1>1, <1>4 DEF PeerClose, TypeInv, TypeOK, OneOwner
<1>5. ASSUME NEW s \in Sockets, LocalClose(s)
      PROVE  TypeInv'
  <2>1. /\ open' \subseteq Sockets /\ peerGone' \subseteq open' /\ astray' \subseteq open'
        /\ wire' \in [Sockets -> Seq(Bytes)]
        /\ {sendTag', expectTag'} \subseteq [Sockets -> 0 .. (Tags - 1)]
    BY <1>1, <1>5, DisconnectedTypes DEF LocalClose
  <2> QED
    BY <1>1, <1>5, <2>1 DEF LocalClose, TypeInv, TypeOK, OneOwner
<1>6. ASSUME NEW s \in Sockets, RecvEnd(s)
      PROVE  TypeInv'
  <2>1. /\ open' \subseteq Sockets /\ peerGone' \subseteq open' /\ astray' \subseteq open'
        /\ wire' \in [Sockets -> Seq(Bytes)]
        /\ {sendTag', expectTag'} \subseteq [Sockets -> 0 .. (Tags - 1)]
    BY <1>1, <1>6, DisconnectedTypes DEF RecvEnd
  <2>2. /\ holders' \in Seq(Holder) /\ Len(holders') = Len(HoldersWith(s))
        /\ \A i \in 1 .. Len(holders') :
              i # HolderIndex(s) => holders'[i] = HoldersWith(s)[i]
        /\ holders'[HolderIndex(s)].socket = Free
    BY <1>6, EndTypes
  <2>3. OneOwner'
    BY <2>2, Others
  <2> QED
    BY <1>1, <1>6, <2>1, <2>2, <2>3 DEF RecvEnd, TypeInv, TypeOK
<1>7. ASSUME NEW s \in Sockets, RecvNothing(s)
      PROVE  TypeInv'
  <2>1. holders' \in Seq(Holder) /\ holders' = HoldersWith(s)
    BY <1>7, WithHolder DEF RecvNothing
  <2>2. OneOwner'
    BY <2>1, Others
  <2> QED
    BY <1>1, <1>7, <2>1, <2>2 DEF RecvNothing, TypeInv, TypeOK
<1>8. ASSUME NEW s \in Sockets, RecvOutside(s)
      PROVE  TypeInv'
  BY <1>1, <1>8 DEF RecvOutside, TypeInv, TypeOK, OneOwner
<1>9. ASSUME NEW s \in Sockets, NEW l \in Lens, PeerSend(s, l)
      PROVE  TypeInv'
  <2>1. wire[s] \in Seq(Bytes) /\ sendTag[s] \in 0 .. (Tags - 1)
    BY <1>1 DEF TypeOK
  <2>2. wire[s] \o Message(s, sendTag[s], l) \in Seq(Bytes)
    BY <2>1, MessageType
  <2>3. wire' \in [Sockets -> Seq(Bytes)]
    BY <1>1, <1>9, <2>2 DEF PeerSend, TypeOK
  <2>4. (sendTag[s] + 1) % Tags \in 0 .. (Tags - 1)
    BY <2>1, NextTagType DEF NextTag
  <2>5. sendTag' \in [Sockets -> 0 .. (Tags - 1)]
    BY <1>1, <1>9, <2>4 DEF PeerSend, TypeOK
  <2> QED
    BY <1>1, <1>9, <2>3, <2>5 DEF PeerSend, TypeInv, TypeOK, OneOwner
<1>10. ASSUME NEW s \in Sockets, NEW rs \in 1 .. BufSize, Recv(s, rs)
       PROVE  TypeInv'
  <2> DEFINE c == HolderIndex(s)
  <2>1. PICK k : RecvInto(s, rs, k)
    BY <1>10, RecvTakes
  <2>2. /\ holders' \in Seq(Holder) /\ Len(holders') = Len(HoldersWith(s))
        /\ \A i \in 1 .. Len(holders') : i # c => holders'[i] = HoldersWith(s)[i]
        /\ c \in 1 .. Len(holders')
        /\ k \in Holder
        /\ holders'[c] = [k EXCEPT !.firstMsgSizeUsed = @ + rs]
        /\ k.socket = HoldersWith(s)[c].socket
    BY <1>10, <2>1, RecvTypes
  <2>3. holders'[c].socket = HoldersWith(s)[c].socket
    BY <2>2 DEF Holder
  <2>4. OneOwner'
    BY <2>2, <2>3, Others
  <2>5. wire[s] \in Seq(Bytes) /\ rs \in 1 .. Len(wire[s]) /\ s \in open
    BY <1>1, <1>10 DEF Recv, TypeOK
  <2>6. wire' \in [Sockets -> Seq(Bytes)]
    <3>1. SubSeq(wire[s], rs + 1, Len(wire[s])) \in Seq(Bytes)
      BY <2>5, Cut
    <3> QED
      BY <1>1, <1>10, <3>1 DEF Recv, TypeOK
  <2>7. astray' \subseteq open
    BY <1>1, <2>1, <2>5 DEF RecvInto, TypeOK
  <2>8. call' = [sock |-> s, holder |-> c, rs |-> rs]
    BY <1>10 DEF Recv
  <2>9. c \in DOMAIN holders'
    BY <2>2
  <2> HIDE DEF c
  <2>10. /\ open' \subseteq Sockets /\ peerGone' \subseteq open'
         /\ sendTag' \in [Sockets -> 0 .. (Tags - 1)]
         /\ expectTag' \in [Sockets -> 0 .. (Tags - 1)]
         /\ overrun' \in BOOLEAN /\ open' = open
         /\ last' \in [inFrame : BOOLEAN, intact : BOOLEAN]
    BY <1>1, <1>10 DEF Recv, TypeOK
  <2> QED
    BY <2>2, <2>4, <2>5, <2>6, <2>7, <2>8, <2>9, <2>10 DEF TypeInv, TypeOK
<1>11. ASSUME handleMsgData
       PROVE  TypeInv'
  <2>1. /\ holders' \in Seq(Holder) /\ Len(holders') = Len(holders)
        /\ call.holder \in 1 .. Len(holders)
        /\ call.sock \in open /\ call.sock \in Sockets
        /\ call.rs \in 1 .. BufSize
        /\ \A i \in 1 .. Len(holders) : holders'[i].socket = holders[i].socket
    BY <1>11, DataTypes
  <2>2. OneOwner'
    BY <1>1, <2>1 DEF OneOwner
  <2>3. call' \in {call, NoCall} /\ overrun' \in BOOLEAN
    BY <1>11 DEF handleMsgData
  <2>4. /\ last' \in [inFrame : BOOLEAN, intact : BOOLEAN]
        /\ expectTag' \in [Sockets -> 0 .. (Tags - 1)]
    <3>1. CASE Complete(holders[call.holder])
      <4>1. (expectTag[call.sock] + 1) % Tags \in 0 .. (Tags - 1)
        BY <1>1, <2>1, NextTagType DEF NextTag, TypeOK
      <4>2. \E x, y \in BOOLEAN : last' = [inFrame |-> x, intact |-> y]
        BY <1>11, <3>1 DEF handleMsgData, InFrame
      <4>3. expectTag' = [expectTag EXCEPT ![call.sock] = (@ + 1) % Tags]
        BY <1>11, <3>1 DEF handleMsgData
      <4>4. expectTag' \in [Sockets -> 0 .. (Tags - 1)]
        BY <1>1, <4>1, <4>3 DEF TypeOK
      <4>5. last' \in [inFrame : BOOLEAN, intact : BOOLEAN]
        BY <4>2
      <4> QED
        BY <4>4, <4>5
    <3>2. CASE ~Complete(holders[call.holder])
      BY <1>1, <1>11, <3>2 DEF handleMsgData, TypeOK
    <3> QED
      BY <3>1, <3>2
  <2>5. call' = NoCall \/ (call'.sock \in open /\ call'.holder \in DOMAIN holders'
                              /\ call'.rs \in 1 .. BufSize)
    BY <2>1, <2>3
  <2>6. /\ open' \subseteq Sockets /\ peerGone' \subseteq open' /\ open' = open
        /\ wire' \in [Sockets -> Seq(Bytes)]
        /\ sendTag' \in [Sockets -> 0 .. (Tags - 1)] /\ astray' \subseteq open'
    BY <1>1, <1>11 DEF handleMsgData, TypeOK
  <2> QED
    BY <2>1, <2>2, <2>3, <2>4, <2>5, <2>6 DEF TypeInv, TypeOK
<1>12. ASSUME Restart
       PROVE  TypeInv'
  <2>1. holders' \in Seq(Holder)
    BY <1>12 DEF Restart
  <2>2. TypeOK'
    BY <1>1, <1>2, <1>12, <2>1 DEF Restart, TypeOK
  <2> QED
    BY <1>12, <2>2 DEF Restart, TypeInv, OneOwner
<1>13. CASE UNCHANGED vars
  BY <1>1, <1>13 DEF vars, TypeInv, TypeOK, OneOwner
<1> QED
  BY <1>3, <1>4, <1>5, <1>6, <1>7, <1>8, <1>9, <1>10, <1>11, <1>12, <1>13 DEF Next

\* Every variable keeps its type (recvAll and what it calls).
THEOREM RecvAllTypes == Spec => []TypeOK
<1>1. TypeInv => TypeOK
  BY DEF TypeInv
<1> QED
  BY InitTypes, TypesKept, <1>1, PTL DEF Spec

-----------------------------------------------------------------------------
(***************************************************************************)
(* Streams consist of messages, also when the first has been received in   *)
(* part.                                                                   *)
(***************************************************************************)

\* The fields of a byte on a stream.
LEMMA ByteFields ==
    ASSUME NEW s \in Sockets, NEW w \in Seq(Bytes), NEW n, NEW j \in 1 .. Len(w),
           Messages(s, w, n)
    PROVE  /\ InMessage(s, w, n, j)
           /\ w[j].len \in Lens /\ w[j].len \in Nat
           /\ w[j].tag \in 0 .. (Tags - 1)
           /\ w[j].pos \in 1 .. w[j].len /\ w[j].pos \in Nat
           /\ w[j] = Byte(s, w[j].tag, w[j].len, w[j].pos)
           /\ w[j].sock = s
<1>1. InMessage(s, w, n, j)
  BY DEF Messages
<1>2. w[j].len \in Lens /\ w[j].tag \in 0 .. (Tags - 1) /\ w[j].pos \in 1 .. w[j].len
      /\ w[j] = Byte(s, w[j].tag, w[j].len, w[j].pos)
  BY <1>1 DEF InMessage
<1>3. w[j].len \in Nat
  BY <1>2, Lengths
<1>4. w[j].sock = s
  BY <1>2 DEF Byte
<1> QED
  BY <1>1, <1>2, <1>3, <1>4

\* Two bytes are the same if their fields are.
LEMMA SameByte ==
    ASSUME NEW s, NEW t, NEW l, NEW k
    PROVE  /\ Byte(s, t, l, k).sock = s /\ Byte(s, t, l, k).tag = t
           /\ Byte(s, t, l, k).len = l /\ Byte(s, t, l, k).pos = k
BY DEF Byte

\* v is what is left of w without its first r bytes.
Behind(v, w, r) ==
    /\ v \in Seq(Bytes) /\ Len(v) = Len(w) - r
    /\ \A j \in 1 .. Len(v) : v[j] = w[r + j]

\* v begins with what follows the byte b of s in a stream; the next message to be
\* sent has tag n.
GoesOn(s, v, n, b) ==
    /\ b.pos < b.len => v # <<>> /\ v[1] = Byte(s, b.tag, b.len, b.pos + 1)
    /\ b.pos = b.len =>
         \/ v = <<>> /\ n = NextTag(b.tag)
         \/ v # <<>> /\ v[1].pos = 1 /\ v[1].tag = NextTag(b.tag)

\* What is left of a stream once its first r bytes have been received.
LEMMA CutStream ==
    ASSUME NEW s \in Sockets, NEW w \in Seq(Bytes), NEW n, Messages(s, w, n),
           NEW r \in 1 .. Len(w), NEW v, Behind(v, w, r)
    PROVE  Messages(s, v, n) /\ GoesOn(s, v, n, w[r])
<1> DEFINE V == Len(v)
           W == Len(w)
<1>1. /\ \A j \in 1 .. V : v[j] = w[r + j]
      /\ W \in Nat /\ V \in Nat /\ r \in Nat /\ r > 0 /\ r <= W
      /\ V = W - r
      /\ DOMAIN v = 1 .. V /\ DOMAIN w = 1 .. W
  BY DEF V, W, Behind
<1> HIDE DEF V, W
<1>2. ASSUME NEW j \in 1 .. V
      PROVE  InMessage(s, v, n, j)
  <2> DEFINE b == v[j]
             e == (r + j) + (b.len - b.pos)
             f == j + (b.len - b.pos)
  <2>1. b = w[r + j] /\ r + j \in 1 .. W
    BY <1>1
  <2>2. /\ InMessage(s, w, n, r + j)
        /\ b.len \in Nat /\ b.pos \in Nat /\ b.pos \in 1 .. b.len
    <3> DEFINE a == r + j
    <3>1. a \in 1 .. Len(w) /\ b = w[a]
      BY <2>1 DEF W
    <3> HIDE DEF a, b
    <3>2. /\ InMessage(s, w, n, a)
          /\ w[a].len \in Nat /\ w[a].pos \in Nat /\ w[a].pos \in 1 .. w[a].len
      BY <3>1, ByteFields
    <3> QED
      BY <3>1, <3>2 DEF a
  <2>3. /\ b = Byte(s, b.tag, b.len, b.pos)
        /\ b.len \in Lens /\ b.tag \in 0 .. (Tags - 1) /\ b.pos \in 1 .. b.len
        /\ e <= W
        /\ \A i \in DOMAIN w : (i <= e /\ r + j < i + b.pos)
              => w[i] = Byte(s, b.tag, b.len, b.pos + (i - (r + j)))
        /\ IF e = W THEN n = NextTag(b.tag)
           ELSE w[e + 1].pos = 1 /\ w[e + 1].tag = NextTag(b.tag)
    BY <2>1, <2>2 DEF InMessage, W
  <2>4. f = e - r /\ e \in Nat /\ f \in Nat /\ f >= j
    BY <1>1, <2>2
  <2> HIDE DEF b, e, f
  <2>5. f <= V
    BY <1>1, <2>3, <2>4
  <2>6. ASSUME NEW i \in 1 .. V, i <= f, j < i + b.pos
        PROVE  v[i] = Byte(s, b.tag, b.len, b.pos + (i - j))
    <3>1. r + i \in 1 .. W /\ r + i <= e /\ r + j < (r + i) + b.pos
      BY <1>1, <2>2, <2>4, <2>6
    <3>2. w[r + i] = Byte(s, b.tag, b.len, b.pos + ((r + i) - (r + j)))
      BY <1>1, <2>3, <3>1
    <3>3. (r + i) - (r + j) = i - j
      BY <1>1
    <3> QED
      BY <1>1, <3>2, <3>3
  <2>7. IF f = V THEN n = NextTag(b.tag)
        ELSE v[f + 1].pos = 1 /\ v[f + 1].tag = NextTag(b.tag)
    <3>1. CASE f = V
      BY <1>1, <2>3, <2>4, <3>1
    <3>2. CASE f # V
      <4>1. f + 1 \in 1 .. V /\ r + (f + 1) = e + 1 /\ e # W
        BY <1>1, <2>4, <2>5, <3>2
      <4> QED
        BY <1>1, <2>3, <3>2, <4>1
    <3> QED
      BY <3>1, <3>2
  <2> QED
    BY <1>1, <2>3, <2>5, <2>6, <2>7 DEF InMessage, V, b, f
<1>3. Messages(s, v, n)
  BY <1>1, <1>2 DEF Messages
<1>4. PICK b, p, l, e : b = w[r] /\ p = b.pos /\ l = b.len /\ e = r + (l - p)
  OBVIOUS
<1>5. /\ p \in Nat /\ l \in Nat /\ e <= W
      /\ \A i \in 1 .. W : (i <= e /\ r < i + p) => w[i] = Byte(s, b.tag, l, p + (i - r))
      /\ IF e = W THEN n = NextTag(b.tag)
         ELSE w[e + 1].pos = 1 /\ w[e + 1].tag = NextTag(b.tag)
  <2>1. InMessage(s, w, n, r) /\ w[r].len \in Nat /\ w[r].pos \in Nat
    BY ByteFields DEF W
  <2> QED
    BY <1>1, <1>4, <2>1 DEF InMessage, W
<1>6. ASSUME p < l
      PROVE  v # <<>> /\ v[1] = Byte(s, b.tag, l, p + 1)
  <2>1. /\ r + 1 \in 1 .. W /\ r + 1 <= e /\ r < (r + 1) + p
        /\ p + ((r + 1) - r) = p + 1 /\ 1 \in 1 .. V
    <3>1. /\ p \in Nat /\ l \in Nat /\ p < l /\ e = r + (l - p) /\ e <= W
          /\ r \in Nat /\ r > 0 /\ W \in Nat /\ V = W - r
      BY <1>1, <1>4, <1>5, <1>6
    <3> HIDE DEF W, V
    <3> QED
      BY <3>1
  <2>2. w[r + 1] = Byte(s, b.tag, l, p + 1)
    BY <1>5, <2>1
  <2> QED
    BY <1>1, <2>1, <2>2
<1>7. ASSUME p = l
      PROVE  \/ v = <<>> /\ n = NextTag(b.tag)
             \/ v # <<>> /\ v[1].pos = 1 /\ v[1].tag = NextTag(b.tag)
  <2>1. e = r
    BY <1>1, <1>4, <1>5, <1>7
  <2>2. CASE r = W
    <3>1. V = 0
      BY <1>1, <2>2
    <3>2. v = <<>>
      BY <1>1, <3>1 DEF Behind, V
    <3> QED
      BY <1>5, <2>1, <2>2, <3>2
  <2>3. CASE r # W
    <3>1. 1 \in 1 .. V
      BY <1>1, <2>3
    <3>2. v[1] = w[e + 1] /\ v # <<>>
      BY <1>1, <2>1, <3>1
    <3> QED
      BY <1>5, <2>1, <2>3, <3>2
  <2> QED
    BY <2>2, <2>3
<1>8. GoesOn(s, v, n, w[r])
  BY <1>4, <1>6, <1>7 DEF GoesOn
<1> QED
  BY <1>3, <1>8

\* A stream to which the peer appends a message.
LEMMA SendStream ==
    ASSUME NEW s \in Sockets, NEW w \in Seq(Bytes), NEW n \in 0 .. (Tags - 1),
           Messages(s, w, n), NEW l \in Lens, NEW v \in Seq(Bytes), Len(v) = Len(w) + l,
           \A j \in 1 .. Len(w) : v[j] = w[j],
           \A j \in 1 .. Len(v) : j > Len(w) => v[j] = Byte(s, n, l, j - Len(w))
    PROVE  /\ Messages(s, v, NextTag(n))
           /\ v # <<>>
           /\ w # <<>> => v[1] = w[1]
           /\ w = <<>> => v[1].pos = 1 /\ v[1].tag = n
<1> DEFINE V == Len(v)
           W == Len(w)
<1>1. l \in Nat /\ l > 0
  BY Lengths
<1>2. /\ DOMAIN v = 1 .. V /\ DOMAIN w = 1 .. W
      /\ W \in Nat /\ V \in Nat /\ V = W + l
      /\ \A j \in 1 .. W : v[j] = w[j]
  BY DEF V, W
<1>3. \A j \in 1 .. V : j > W => v[j] = Byte(s, n, l, j - W)
  BY DEF V, W
<1> HIDE DEF V, W
<1>4. ASSUME NEW j \in 1 .. V, j > W
      PROVE  InMessage(s, v, NextTag(n), j)
  <2> DEFINE b == v[j]
             e == j + (b.len - b.pos)
  <2>1. b = Byte(s, n, l, j - W) /\ b.tag = n /\ b.len = l /\ b.pos = j - W
    BY <1>3, <1>4, SameByte
  <2>2. b.pos \in 1 .. l /\ e = V
    BY <1>1, <1>2, <1>4, <2>1
  <2> HIDE DEF b, e
  <2>3. ASSUME NEW i \in 1 .. V, j < i + b.pos
        PROVE  v[i] = Byte(s, b.tag, b.len, b.pos + (i - j))
    <3>1. i > W /\ b.pos + (i - j) = i - W
      BY <1>2, <2>1, <2>3
    <3> QED
      BY <1>3, <2>1, <3>1
  <2> QED
    BY <1>2, <2>1, <2>2, <2>3 DEF InMessage, V, b, e
<1>5. ASSUME NEW j \in 1 .. W
      PROVE  InMessage(s, v, NextTag(n), j)
  <2> DEFINE b == w[j]
             e == j + (b.len - b.pos)
  <2>1. /\ b = v[j] /\ InMessage(s, w, n, j) /\ b.len \in Nat /\ b.pos \in Nat
        /\ b.pos \in 1 .. b.len
    BY <1>2, ByteFields DEF W
  <2>2. /\ b = Byte(s, b.tag, b.len, b.pos)
        /\ b.len \in Lens /\ b.tag \in 0 .. (Tags - 1) /\ b.pos \in 1 .. b.len
        /\ e <= W
        /\ \A i \in DOMAIN w : (i <= e /\ j < i + b.pos)
              => w[i] = Byte(s, b.tag, b.len, b.pos + (i - j))
        /\ IF e = W THEN n = NextTag(b.tag)
           ELSE w[e + 1].pos = 1 /\ w[e + 1].tag = NextTag(b.tag)
    BY <2>1 DEF InMessage, W
  <2>3. e \in Nat
    BY <1>2, <2>1
  <2> HIDE DEF b, e
  <2>4. ASSUME NEW i \in 1 .. V, i <= e, j < i + b.pos
        PROVE  v[i] = Byte(s, b.tag, b.len, b.pos + (i - j))
    <3>1. i \in 1 .. W
      BY <1>2, <2>2, <2>3, <2>4
    <3> QED
      BY <1>2, <2>2, <2>4, <3>1
  <2>5. e + 1 \in 1 .. V /\ e # V
    BY <1>1, <1>2, <2>2, <2>3
  <2>6. v[e + 1].pos = 1 /\ v[e + 1].tag = NextTag(b.tag)
    <3>1. CASE e = W
      <4>1. v[e + 1] = Byte(s, n, l, 1)
        <5>1. (e + 1) - W = 1 /\ e + 1 > W
          BY <1>2, <3>1
        <5> QED
          BY <1>3, <2>5, <5>1
      <4> QED
        BY <2>2, <3>1, <4>1, SameByte
    <3>2. CASE e # W
      <4>1. e + 1 \in 1 .. W
        BY <1>2, <2>2, <2>3, <3>2
      <4> QED
        BY <1>2, <2>2, <3>2, <4>1
    <3> QED
      BY <3>1, <3>2
  <2>7. e <= V
    BY <1>1, <1>2, <2>2, <2>3
  <2> QED
    BY <1>2, <2>1, <2>2, <2>4, <2>5, <2>6, <2>7 DEF InMessage, V, b, e
<1>6. Messages(s, v, NextTag(n))
  BY <1>2, <1>4, <1>5 DEF Messages
<1>7. v # <<>> /\ 1 \in 1 .. V
  BY <1>1, <1>2 DEF V
<1>8. w # <<>> => v[1] = w[1]
  BY <1>2 DEF W
<1>9. w = <<>> => v[1].pos = 1 /\ v[1].tag = n
  <2> SUFFICES ASSUME w = <<>> PROVE v[1].pos = 1 /\ v[1].tag = n
    OBVIOUS
  <2>1. v[1] = Byte(s, n, l, 1)
    <3>1. 1 - W = 1 /\ 1 > W
      BY DEF W
    <3> QED
      BY <1>3, <1>7, <3>1
  <2> QED
    BY <2>1, SameByte
<1> QED
  BY <1>6, <1>7, <1>8, <1>9

\* The bytes of a chunk that stays within a message.
LEMMA OneMessage ==
    ASSUME NEW s \in Sockets, NEW w \in Seq(Bytes), NEW n, Messages(s, w, n),
           NEW r \in 1 .. Len(w), w[1].pos + r - 1 <= w[1].len
    PROVE  \A j \in 1 .. r : w[j] = Byte(s, w[1].tag, w[1].len, w[1].pos + (j - 1))
<1>1. 1 \in 1 .. Len(w) /\ Len(w) \in Nat /\ DOMAIN w = 1 .. Len(w)
  OBVIOUS
<1>2. /\ InMessage(s, w, n, 1) /\ w[1].len \in Nat /\ w[1].pos \in Nat
      /\ w[1].pos \in 1 .. w[1].len
  BY <1>1, ByteFields
<1> SUFFICES ASSUME NEW j \in 1 .. r
             PROVE  w[j] = Byte(s, w[1].tag, w[1].len, w[1].pos + (j - 1))
  OBVIOUS
<1>3. j \in 1 .. Len(w) /\ j <= 1 + (w[1].len - w[1].pos) /\ 1 < j + w[1].pos
  BY <1>1, <1>2
<1> QED
  BY <1>1, <1>2, <1>3 DEF InMessage

\* The bytes of a chunk that consists of two messages.
LEMMA TwoMessages ==
    ASSUME NEW s \in Sockets, NEW w \in Seq(Bytes), NEW n, Messages(s, w, n),
           NEW r \in 1 .. Len(w), w[1].pos = 1,
           w[r].pos = w[r].len, r = w[1].len + w[r].len
    PROVE  /\ \A k \in 1 .. w[1].len : w[k] = Byte(s, w[1].tag, w[1].len, k)
           /\ \A k \in 1 .. w[r].len :
                 w[w[1].len + k] = Byte(s, NextTag(w[1].tag), w[r].len, k)
           /\ w[r].tag = NextTag(w[1].tag)
<1> DEFINE l == w[1].len
           m == w[r].len
           W == Len(w)
<1>1. /\ 1 \in 1 .. W /\ W \in Nat /\ DOMAIN w = 1 .. W
      /\ r \in Nat /\ r <= W
  BY DEF W
<1>2. /\ InMessage(s, w, n, 1) /\ l \in Nat /\ l \in Lens
      /\ InMessage(s, w, n, r) /\ m \in Nat /\ m \in Lens
  BY <1>1, ByteFields DEF W
<1>3. l > 0 /\ m > 0
  BY <1>2, Lengths
<1> HIDE DEF l, m, W
<1>4. w[r].len = m /\ w[r].pos = m /\ w[1].len = l /\ r = l + m
  BY DEF l, m
<1>5. ASSUME NEW k \in 1 .. l
      PROVE  w[k] = Byte(s, w[1].tag, l, k)
  <2>1. \A i \in 1 .. W : (i <= 1 + (l - 1) /\ 1 < i + 1)
                            => w[i] = Byte(s, w[1].tag, l, 1 + (i - 1))
    BY <1>1, <1>2, <1>4 DEF InMessage
  <2>2. k \in 1 .. W /\ k <= 1 + (l - 1) /\ 1 < k + 1 /\ 1 + (k - 1) = k
    BY <1>1, <1>2, <1>4
  <2>3. w[k] = Byte(s, w[1].tag, l, 1 + (k - 1))
    BY <2>1, <2>2
  <2> QED
    BY <2>2, <2>3
<1>6. ASSUME NEW k \in 1 .. m
      PROVE  w[l + k] = Byte(s, w[r].tag, m, k)
  <2>1. \A i \in 1 .. W : (i <= r + (m - m) /\ r < i + m)
                            => w[i] = Byte(s, w[r].tag, m, m + (i - r))
    BY <1>1, <1>2, <1>4 DEF InMessage
  <2>2. /\ l + k \in 1 .. W /\ l + k <= r + (m - m) /\ r < (l + k) + m
        /\ m + ((l + k) - r) = k
    BY <1>1, <1>2, <1>4
  <2>3. w[l + k] = Byte(s, w[r].tag, m, m + ((l + k) - r))
    BY <2>1, <2>2
  <2> QED
    BY <2>2, <2>3
<1>7. w[l + 1].tag = NextTag(w[1].tag)
  <2>1. 1 + (l - 1) = l /\ l # W
    BY <1>1, <1>2, <1>3, <1>4
  <2> QED
    BY <1>2, <1>4, <2>1 DEF InMessage, W
<1>8. w[l + 1].tag = w[r].tag
  <2>1. 1 \in 1 .. m
    BY <1>2, <1>3
  <2>2. w[l + 1] = Byte(s, w[r].tag, m, 1)
    BY <1>6, <2>1
  <2> QED
    BY <2>2, SameByte
<1>9. \A k \in 1 .. l : w[k] = Byte(s, w[1].tag, l, k)
  BY <1>5
<1>10. \A k \in 1 .. m : w[l + k] = Byte(s, NextTag(w[1].tag), m, k)
  BY <1>6, <1>7, <1>8
<1> QED
  BY <1>7, <1>8, <1>9, <1>10 DEF l, m

-----------------------------------------------------------------------------
(***************************************************************************)
(* What recvAll does to a holder in frame.                                 *)
(***************************************************************************)

\* A length field is read where there is one.
LEMMA LengthRead ==
    ASSUME NEW h \in Holder, NEW a \in Nat, a + HeaderLen <= BufSize,
           NEW s \in Sockets, NEW t \in 0 .. (Tags - 1), NEW l \in Lens,
           \A k \in 1 .. HeaderLen : h.recvQueue[a + k - 1] = Byte(s, t, l, k)
    PROVE  LengthAt(h, a) = {l}
<1> DEFINE first == Memory(h, a)
<1>1. DOMAIN h.recvQueue = 0 .. (BufSize - 1)
  BY DEF Holder
<1>2. ASSUME NEW k \in 1 .. HeaderLen
      PROVE  Memory(h, a + k - 1) = Byte(s, t, l, k)
  <2>1. a + k - 1 \in 0 .. (BufSize - 1)
    BY Lengths
  <2> QED
    BY <1>1, <2>1 DEF Memory
<1>3. first = Byte(s, t, l, 1)
  <2>1. 1 \in 1 .. HeaderLen /\ a + 1 - 1 = a
    BY Lengths
  <2> QED
    BY <1>2, <2>1
<1>4. first # Junk /\ first.len = l
  <2>1. Byte(s, t, l, 1) \in [sock : Sockets, tag : 0 .. (Tags - 1), len : Lens, pos : Nat]
    BY DEF Byte
  <2> QED
    BY <1>3, <2>1, NamesAssumption, SameByte
<1>5. \A k \in 1 .. HeaderLen : Byte(s, t, l, k) = [first EXCEPT !.pos = k]
  BY <1>3 DEF Byte
<1>6. \A k \in 1 .. HeaderLen : Memory(h, a + k - 1) = [first EXCEPT !.pos = k]
  BY <1>2, <1>5
<1>7. LengthAt(h, a) = {first.len}
  BY <1>4, <1>6 DEF LengthAt
<1> QED
  BY <1>4, <1>7

\* The chunk b of rs bytes is stored in a holder h, which becomes x.
Takes(h, b, rs, x) ==
    /\ h \in Holder /\ h.stray < MaxStray
    /\ b \in Seq(Bytes) /\ rs = Len(b) /\ rs > 0 /\ rs <= BufSize - h.sizeUsed
    /\ \E k \in IF NeedsLength(h) THEN handleMsgLen(Stored(h, b), rs) ELSE {Stored(h, b)} :
          x = [k EXCEPT !.firstMsgSizeUsed = @ + rs]

\* A chunk that begins or continues message t is stored in its place, and the length
\* of the message is read as soon as its field is complete.
LEMMA OneInto ==
    ASSUME NEW h, NEW b, NEW rs, NEW x, Takes(h, b, rs, x),
           NEW s \in Sockets, NEW t \in 0 .. (Tags - 1), NEW l \in Lens,
           (Idle(h) /\ h.sizeUsed + HeaderLen <= BufSize) \/ Partial(h, s, t, l),
           \A j \in 1 .. rs : b[j] = Byte(s, t, l, h.firstMsgSizeUsed + j),
           h.firstMsgSizeUsed + rs <= l
    PROVE  /\ OneStored(x, s, t, l, rs)
           /\ x.firstMsgSizeUsed = h.firstMsgSizeUsed + rs
<1>1. /\ h \in Holder /\ h.stray < MaxStray
      /\ rs \in Nat /\ rs > 0 /\ rs <= BufSize - h.sizeUsed
  BY DEF Takes
<1>2. PICK k \in IF NeedsLength(h) THEN handleMsgLen(Stored(h, b), rs) ELSE {Stored(h, b)} :
         x = [k EXCEPT !.firstMsgSizeUsed = @ + rs]
  BY DEF Takes
<1> DEFINE g == Stored(h, b)
           u == h.firstMsgSizeUsed
           w == h.sizeUsed
           n == h.firstMsgSize
           p == IF Idle(h) THEN w ELSE h.firstMsgPtr
<1>3. /\ g \in Holder /\ g.sizeUsed = w
      /\ g.firstMsgPtr = h.firstMsgPtr /\ g.firstMsgSize = n /\ g.firstMsgSizeUsed = u
      /\ \A a \in 0 .. (BufSize - 1) :
            g.recvQueue[a] = IF a - w \in 0 .. (rs - 1) THEN b[a - w + 1] ELSE h.recvQueue[a]
  BY <1>1, StoredType DEF Takes
<1>4. l \in Nat /\ HeaderLen \in Nat /\ BufSize \in Nat /\ HeaderLen > 0 /\ HeaderLen < l
      /\ 3 * l <= BufSize
  BY <1>1, Lengths
<1>5. u \in Nat /\ w \in Nat /\ n \in Nat /\ h.firstMsgPtr \in Nat \cup {NoPtr} /\ NoPtr \notin Nat
  BY <1>1 DEF Holder, NoPtr
\* Where the message begins, and how far the buffer holds it.
<1>6. /\ p \in Nat /\ p + HeaderLen <= BufSize /\ w = At(p, u)
      /\ n = IF u < HeaderLen THEN u ELSE l
      /\ n = 0 <=> u = 0
      /\ (n # 0 => h.firstMsgPtr = p) /\ (n = 0 => w = p)
      /\ \A j \in 1 .. u : h.recvQueue[At(p, j - 1)] = Byte(s, t, l, j)
  <2>1. CASE Idle(h)
    <3>1. u = 0 /\ n = 0 /\ p = w /\ w < BufSize
      BY <1>1, <2>1 DEF Idle
    <3>2. w + HeaderLen <= BufSize
      <4>1. ~Partial(h, s, t, l)
        BY <1>1, <2>1 DEF Idle, Partial, Assembled
      <4> QED
        BY <1>1, <4>1
    <3>3. At(w, 0) = w
      BY <1>1, <1>4, <1>5, <3>1 DEF At
    <3> QED
      BY <1>1, <1>4, <1>5, <3>1, <3>2, <3>3
  <2>2. CASE ~Idle(h)
    <3>1. Partial(h, s, t, l) /\ p = h.firstMsgPtr
      BY <1>1, <2>2
    <3> QED
      BY <1>1, <1>4, <1>5, <3>1 DEF Partial, Assembled
  <2> QED
    BY <1>1, <2>1, <2>2
<1> HIDE DEF g, u, w, n, p
<1>7. p < BufSize /\ u + rs <= BufSize /\ w + rs <= BufSize
  BY <1>1, <1>4, <1>5, <1>6 DEF u, w
<1>8. /\ \A j \in Nat : j < u + rs => At(p, j) \in 0 .. (BufSize - 1)
      /\ \A j \in u .. (u + rs - 1) : At(p, j) - w = j - u
      /\ \A j \in Nat : j < u => At(p, j) - w \notin 0 .. (rs - 1)
      /\ At(w, rs) = At(p, u + rs)
  <2>1. p \in Nat /\ u \in Nat /\ w \in Nat /\ rs > 0
    BY <1>1, <1>5, <1>6
  <2> QED
    BY <1>1, <2>1, <1>6, <1>7, Offsets
<1>9. ASSUME NEW j \in 1 .. (u + rs)
      PROVE  g.recvQueue[At(p, j - 1)] = Byte(s, t, l, j)
  <2>1. j - 1 \in Nat /\ j - 1 < u + rs
    BY <1>1, <1>5
  <2>2. At(p, j - 1) \in 0 .. (BufSize - 1)
    BY <1>1, <1>8, <2>1
  <2>3. CASE j <= u
    <3>1. At(p, j - 1) - w \notin 0 .. (rs - 1) /\ j \in 1 .. u
      BY <1>1, <1>5, <1>8, <2>1, <2>3
    <3> QED
      BY <1>1, <1>3, <1>6, <2>2, <3>1
  <2>4. CASE j > u
    <3>1. j - 1 \in u .. (u + rs - 1)
      BY <1>1, <1>5, <2>4
    <3>2. At(p, j - 1) - w = (j - 1) - u
      BY <1>1, <1>8, <3>1
    <3>3. (j - 1) - u \in 0 .. (rs - 1) /\ (j - 1) - u + 1 = j - u /\ j - u \in 1 .. rs
          /\ u + (j - u) = j
      BY <1>1, <1>5, <2>4
    <3>4. g.recvQueue[At(p, j - 1)] = b[j - u]
      BY <1>1, <1>3, <2>2, <3>2, <3>3
    <3>5. b[j - u] = Byte(s, t, l, u + (j - u))
      BY <1>1, <3>3 DEF u
    <3> QED
      BY <1>1, <3>3, <3>4, <3>5
  <2> QED
    BY <1>1, <1>5, <2>3, <2>4
<1>10. NeedsLength(h) <=> n < HeaderLen
  BY <1>1, <1>4, <1>5, <1>6 DEF NeedsLength, n
\* The start and the size of the message.
<1>11. /\ k \in Holder
       /\ k.firstMsgPtr = p
       /\ k.firstMsgSize = IF u + rs < HeaderLen THEN u + rs ELSE l
       /\ k.recvQueue = g.recvQueue /\ k.sizeUsed = w /\ k.firstMsgSizeUsed = u
  <2>1. CASE n < HeaderLen
    <3>1. n = u
      BY <1>1, <1>4, <1>6, <2>1
    <3> DEFINE f == [g EXCEPT !.firstMsgPtr = IF g.firstMsgSize = 0 THEN g.sizeUsed ELSE @]
    <3>2. k \in handleMsgLen(g, rs)
      BY <1>2, <1>10, <2>1 DEF g
    <3>3. /\ k \in Holder /\ k.recvQueue = g.recvQueue /\ k.sizeUsed = w
          /\ k.firstMsgSizeUsed = u
          /\ k.firstMsgPtr = IF g.firstMsgSize = 0 THEN g.sizeUsed ELSE g.firstMsgPtr
      BY <1>1, <1>3, <3>2, LenType
    <3>4. k.firstMsgPtr = p
      BY <1>1, <1>3, <1>6, <3>3
    <3>5. f \in Holder /\ f.firstMsgPtr = p /\ f.recvQueue = g.recvQueue /\ f.firstMsgSize = n
      BY <1>1, <1>3, <1>6 DEF Holder
    <3>6. \E z \in IF n + rs >= HeaderLen THEN LengthAt(f, p) ELSE {n + rs} :
             k = [f EXCEPT !.firstMsgSize = z]
      <4>1. f.firstMsgPtr = p /\ g.firstMsgSize + rs = n + rs
        BY <1>1, <1>3, <3>5
      <4> QED
        BY <1>1, <3>2, <4>1 DEF handleMsgLen
    <3> HIDE DEF f
    <3>7. CASE n + rs < HeaderLen
      <4>1. k = [f EXCEPT !.firstMsgSize = n + rs]
        BY <1>1, <1>4, <1>5, <3>6, <3>7
      <4>2. k.firstMsgSize = n + rs
        BY <1>1, <3>5, <4>1 DEF Holder
      <4> QED
        BY <1>1, <3>1, <3>3, <3>4, <3>7, <4>2
    <3>8. CASE ~(n + rs < HeaderLen)
      <4>1. ASSUME NEW j \in 1 .. HeaderLen
            PROVE  f.recvQueue[p + j - 1] = Byte(s, t, l, j)
        <5>1. j \in 1 .. (u + rs) /\ At(p, j - 1) = p + j - 1
          BY <1>1, <1>4, <1>5, <1>6, <3>1, <3>8 DEF At
        <5> QED
          BY <1>1, <1>9, <3>5, <5>1
      <4>2. LengthAt(f, p) = {l}
        BY <1>1, <1>6, <3>5, <4>1, LengthRead
      <4>3. n + rs >= HeaderLen
        BY <1>1, <1>4, <1>5, <3>8
      <4>4. k = [f EXCEPT !.firstMsgSize = l]
        BY <1>1, <3>6, <4>2, <4>3
      <4>5. k.firstMsgSize = l
        BY <1>1, <3>5, <4>4 DEF Holder
      <4>6. ~(u + rs < HeaderLen)
        BY <3>1, <3>8
      <4>7. k.firstMsgSize = IF u + rs < HeaderLen THEN u + rs ELSE l
        BY <4>5, <4>6
      <4> QED
        BY <3>3, <3>4, <4>7
    <3> QED
      BY <1>1, <3>7, <3>8
  <2>2. CASE ~(n < HeaderLen)
    <3>1. k = g
      BY <1>2, <1>10, <2>2 DEF g
    <3>2. n = l /\ n # 0 /\ ~(u < HeaderLen) /\ ~(u + rs < HeaderLen)
      BY <1>1, <1>4, <1>5, <1>6, <2>2
    <3>3. g.firstMsgPtr = p /\ g.firstMsgSize = IF u + rs < HeaderLen THEN u + rs ELSE l
      BY <1>3, <1>6, <3>2
    <3> QED
      BY <1>3, <3>1, <3>3
  <2> QED
    BY <1>1, <2>1, <2>2
<1>12. /\ x.firstMsgPtr = p /\ x.firstMsgSizeUsed = u + rs /\ x.sizeUsed = w
       /\ x.recvQueue = g.recvQueue
       /\ x.firstMsgSize = IF u + rs < HeaderLen THEN u + rs ELSE l
  <2>1. x = [k EXCEPT !.firstMsgSizeUsed = k.firstMsgSizeUsed + rs]
    BY <1>2
  <2> QED
    <3>1. k \in Holder
      BY <1>11
    <3>2. /\ x.firstMsgPtr = k.firstMsgPtr /\ x.firstMsgSizeUsed = k.firstMsgSizeUsed + rs
          /\ x.sizeUsed = k.sizeUsed /\ x.recvQueue = k.recvQueue
          /\ x.firstMsgSize = k.firstMsgSize
      BY <2>1, <3>1 DEF Holder
    <3> QED
      BY <1>11, <3>2
<1>13. u + rs \in 1 .. l
  BY <1>1, <1>4, <1>5 DEF u
<1>14. p # NoPtr
  BY <1>1, <1>5, <1>6
<1>15. Assembled(x, s, t, l)
  BY <1>1, <1>6, <1>9, <1>12, <1>13, <1>14 DEF Assembled
<1>16. OneStored(x, s, t, l, rs)
  BY <1>1, <1>7, <1>8, <1>12, <1>15 DEF OneStored
<1> QED
  BY <1>1, <1>12, <1>16 DEF u

\* A chunk of two messages is stored, and the length of the first is read.
LEMMA TwoInto ==
    ASSUME NEW h, NEW b, NEW rs, NEW x, Takes(h, b, rs, x), Idle(h),
           NEW s \in Sockets, NEW t \in 0 .. (Tags - 1), NEW l \in Lens, NEW m \in Lens,
           rs = l + m,
           \A j \in 1 .. l : b[j] = Byte(s, t, l, j),
           \A j \in 1 .. m : b[l + j] = Byte(s, NextTag(t), m, j),
           h.sizeUsed + rs = BufSize \/ h.sizeUsed + 2 * rs <= BufSize
    PROVE  TwoStored(x, s, t, l, m, rs) /\ x.firstMsgSizeUsed = rs
<1>1. h \in Holder /\ h.stray < MaxStray /\ rs \in Nat
  <2>1. h \in Holder /\ h.stray < MaxStray /\ b \in Seq(Bytes) /\ rs = Len(b)
    BY DEF Takes
  <2>2. Len(b) \in Nat
    BY <2>1
  <2> QED
    BY <2>1, <2>2
<1>2. PICK k \in IF NeedsLength(h) THEN handleMsgLen(Stored(h, b), rs) ELSE {Stored(h, b)} :
         x = [k EXCEPT !.firstMsgSizeUsed = @ + rs]
  BY DEF Takes
<1> DEFINE g == Stored(h, b)
           w == h.sizeUsed
           f == [g EXCEPT !.firstMsgPtr = IF g.firstMsgSize = 0 THEN g.sizeUsed ELSE @]
<1>3. /\ g \in Holder /\ g.sizeUsed = w
      /\ g.firstMsgPtr = NoPtr /\ g.firstMsgSize = 0 /\ g.firstMsgSizeUsed = 0
      /\ \A a \in 0 .. (BufSize - 1) :
            g.recvQueue[a] = IF a - w \in 0 .. (rs - 1) THEN b[a - w + 1] ELSE h.recvQueue[a]
  BY <1>1, StoredType DEF Idle, Takes
<1>4. /\ l \in Nat /\ m \in Nat /\ HeaderLen \in Nat /\ BufSize \in Nat
      /\ HeaderLen > 0 /\ HeaderLen < l /\ HeaderLen < m
  BY <1>1, Lengths
<1>5. w \in Nat
  BY <1>1 DEF Holder
<1>6. NeedsLength(h)
  BY <1>1 DEF NeedsLength, Idle
<1>7. k \in handleMsgLen(g, rs)
  BY <1>2, <1>6
<1> HIDE DEF g, w
<1>8. w + rs <= BufSize
  BY <1>1, <1>4, <1>5 DEF w
<1>9. ASSUME NEW j \in 1 .. l
      PROVE  g.recvQueue[w + j - 1] = Byte(s, t, l, j)
  <2>1. j \in Nat /\ j > 0 /\ j <= rs
    BY <1>1, <1>4
  <2>2. w + j - 1 \in 0 .. (BufSize - 1)
    BY <1>1, <1>4, <1>5, <1>8, <2>1
  <2>3. (w + j - 1) - w \in 0 .. (rs - 1) /\ (w + j - 1) - w + 1 = j
    BY <1>1, <1>5, <2>1
  <2> QED
    BY <1>1, <1>3, <2>2, <2>3
<1>10. ASSUME NEW j \in 1 .. m
      PROVE  g.recvQueue[w + l + j - 1] = Byte(s, NextTag(t), m, j)
  <2>1. j \in Nat /\ j > 0 /\ l + j <= rs
    BY <1>1, <1>4
  <2>2. w + l + j - 1 \in 0 .. (BufSize - 1)
    BY <1>1, <1>4, <1>5, <1>8, <2>1
  <2>3. (w + l + j - 1) - w \in 0 .. (rs - 1) /\ (w + l + j - 1) - w + 1 = l + j
    BY <1>1, <1>4, <1>5, <2>1
  <2> QED
    BY <1>1, <1>3, <2>2, <2>3
<1>11. f \in Holder /\ f.firstMsgPtr = w /\ f.recvQueue = g.recvQueue /\ f.firstMsgSize = 0
  BY <1>1, <1>3, <1>5 DEF Holder
<1>12. /\ k \in Holder /\ k.recvQueue = g.recvQueue /\ k.sizeUsed = w
       /\ k.firstMsgSizeUsed = 0 /\ k.firstMsgPtr = w
  <2>1. /\ k \in Holder /\ k.recvQueue = g.recvQueue /\ k.sizeUsed = g.sizeUsed
        /\ k.firstMsgSizeUsed = g.firstMsgSizeUsed
        /\ k.firstMsgPtr = IF g.firstMsgSize = 0 THEN g.sizeUsed ELSE g.firstMsgPtr
    BY <1>1, <1>3, <1>7, LenType
  <2> QED
    BY <1>1, <1>3, <2>1
<1>13. k.firstMsgSize = l
  <2>1. \E z \in IF 0 + rs >= HeaderLen THEN LengthAt(f, w) ELSE {0 + rs} :
           k = [f EXCEPT !.firstMsgSize = z]
    <3>1. f.firstMsgPtr = w /\ g.firstMsgSize + rs = 0 + rs
      BY <1>1, <1>3, <1>11
    <3> QED
      BY <1>1, <1>7, <3>1 DEF handleMsgLen
  <2> HIDE DEF f
  <2>2. \A j \in 1 .. HeaderLen : f.recvQueue[w + j - 1] = Byte(s, t, l, j)
    BY <1>1, <1>4, <1>9, <1>11
  <2>3. w + HeaderLen <= BufSize /\ 0 + rs >= HeaderLen
    BY <1>1, <1>4, <1>5, <1>8
  <2>4. LengthAt(f, w) = {l}
    BY <1>1, <1>5, <1>11, <2>2, <2>3, LengthRead
  <2>5. k = [f EXCEPT !.firstMsgSize = l]
    BY <1>1, <2>1, <2>3, <2>4
  <2> QED
    BY <1>1, <1>11, <2>5 DEF Holder
<1>14. /\ x.firstMsgPtr = w /\ x.firstMsgSizeUsed = rs /\ x.firstMsgSize = l
       /\ x.sizeUsed = w /\ x.recvQueue = g.recvQueue
  BY <1>1, <1>2, <1>12, <1>13 DEF Holder
<1> QED
  BY <1>1, <1>9, <1>10, <1>14 DEF TwoStored, w

\* handleMsgData, called when a chunk has been stored that ends in message t: the
\* message stays if it is incomplete, and is delivered as it was sent otherwise,
\* wherever it lies in the buffer.
LEMMA DataOne ==
    ASSUME NEW h \in Holder, NEW s \in Sockets, NEW t \in 0 .. (Tags - 1), NEW l \in Lens,
           call.rs \in Nat, call.rs > 0, OneStored(h, s, t, l, call.rs)
    PROVE  /\ ~DataStep(h).again
           /\ h.firstMsgSizeUsed < l =>
                /\ ~Complete(h)
                /\ \A g \in DataStep(h).next :
                      Partial(g, s, t, l) /\ g.firstMsgSizeUsed = h.firstMsgSizeUsed
           /\ h.firstMsgSizeUsed = l =>
                /\ Complete(h) /\ h.firstMsgSize = l
                /\ Copied(h) = Message(s, t, l)
                /\ \A g \in DataStep(h).next : Idle(g)
<1> DEFINE p == h.firstMsgPtr
           u == h.firstMsgSizeUsed
           w == h.sizeUsed
           n == h.firstMsgSize
           rs == call.rs
<1>1. l \in Nat /\ HeaderLen \in Nat /\ BufSize \in Nat /\ HeaderLen > 0 /\ HeaderLen < l
      /\ 3 * l <= BufSize
  BY Lengths
<1>2. /\ p \in Nat /\ p # NoPtr /\ p + HeaderLen <= BufSize /\ p < BufSize
      /\ u \in Nat /\ u \in 1 .. l /\ w \in Nat /\ n \in Nat
      /\ n = IF u < HeaderLen THEN u ELSE l
      /\ \A j \in 1 .. u : h.recvQueue[At(p, j - 1)] = Byte(s, t, l, j)
      /\ w + rs <= BufSize /\ rs \in Nat /\ rs > 0
      /\ u < l => At(p, u) = At(w, rs)
  <2>1. Assembled(h, s, t, l) /\ w + rs <= BufSize /\ (u < l => At(p, u) = At(w, rs))
    BY DEF OneStored
  <2>2. /\ p # NoPtr /\ p + HeaderLen <= BufSize /\ u \in 1 .. l
        /\ n = IF u < HeaderLen THEN u ELSE l
        /\ \A j \in 1 .. u : h.recvQueue[At(p, j - 1)] = Byte(s, t, l, j)
    BY <2>1 DEF Assembled
  <2>3. p \in Nat /\ u \in Nat /\ w \in Nat /\ n \in Nat
    BY <2>2 DEF Holder
  <2>4. p < BufSize
    BY <1>1, <2>2, <2>3
  <2> QED
    BY <2>1, <2>2, <2>3, <2>4
<1>3. DOMAIN h.recvQueue = 0 .. (BufSize - 1)
  BY DEF Holder
<1>4. Complete(h) <=> u >= n /\ n > HeaderLen
  BY DEF Complete
<1> HIDE DEF p, u, w, n, rs
<1>5. /\ w + rs = BufSize => At(w, rs) = 0
      /\ w + rs # BufSize => At(w, rs) = w + rs
  <2>1. w \in Nat /\ rs \in Nat /\ BufSize \in Nat /\ w + rs <= BufSize
    BY <1>1, <1>2
  <2> QED
    BY <2>1 DEF At
<1>6. ASSUME u < l
      PROVE  /\ ~Complete(h) /\ ~DataStep(h).again
             /\ \A g \in DataStep(h).next :
                   Partial(g, s, t, l) /\ g.firstMsgSizeUsed = u
  <2>1. ~Complete(h)
    BY <1>1, <1>2, <1>4, <1>6
  <2>2. DataStep(h) = [next |-> {circulateBuffer(h, rs)}, again |-> FALSE]
    BY <2>1 DEF DataStep, rs
  <2>3. circulateBuffer(h, rs) = [h EXCEPT !.sizeUsed = IF w + rs = BufSize THEN 0 ELSE w + rs]
    BY <1>2, CirculateType DEF w
  <2> DEFINE g == circulateBuffer(h, rs)
  <2>4. /\ g.firstMsgPtr = p /\ g.firstMsgSizeUsed = u /\ g.firstMsgSize = n
        /\ g.recvQueue = h.recvQueue
        /\ g.sizeUsed = IF w + rs = BufSize THEN 0 ELSE w + rs
    BY <2>3 DEF Holder, p, u, n
  <2>5. g.sizeUsed = At(p, u)
    BY <1>2, <1>5, <1>6, <2>4
  <2> HIDE DEF g
  <2>6. Partial(g, s, t, l)
    BY <1>2, <1>6, <2>4, <2>5 DEF Partial, Assembled
  <2> QED
    BY <2>1, <2>2, <2>4, <2>6 DEF g
<1>7. ASSUME u = l
      PROVE  /\ Complete(h) /\ ~DataStep(h).again /\ n = l
             /\ Copied(h) = Message(s, t, l)
             /\ \A g \in DataStep(h).next : Idle(g)
  <2>1. n = l /\ Complete(h) /\ ~(u > n)
    BY <1>1, <1>2, <1>4, <1>7
  <2> DEFINE q == FirstPart(h)
             f == [h EXCEPT !.recvQueue = NoBytes, !.firstMsgPtr = NoPtr,
                            !.firstMsgSize = 0, !.firstMsgSizeUsed = 0]
  <2>2. q = IF BufSize - (p + l) <= 0 THEN l + (BufSize - (p + l)) ELSE l
    BY <1>7, <2>1 DEF FirstPart, TillBufferEnd, p, u, n
  <2> HIDE DEF q
  <2>3. ASSUME NEW j \in 1 .. l
        PROVE  (IF j <= q THEN Memory(h, p + j - 1) ELSE Memory(h, j - q - 1))
                  = Byte(s, t, l, j)
    <3>1. At(p, j - 1) = IF j <= q THEN p + j - 1 ELSE j - q - 1
      BY <1>1, <1>2, <2>2 DEF At
    <3>2. At(p, j - 1) \in 0 .. (BufSize - 1)
      BY <1>1, <1>2 DEF At
    <3>3. Memory(h, At(p, j - 1)) = Byte(s, t, l, j)
      BY <1>2, <1>3, <1>7, <3>2 DEF Memory
    <3> QED
      BY <3>1, <3>3
  <2>4. Copied(h) = [j \in 1 .. l |-> IF j <= q THEN Memory(h, p + j - 1)
                                      ELSE Memory(h, j - q - 1)]
    BY <2>1 DEF Copied, n, p, q
  <2>5. Copied(h) = Message(s, t, l)
    BY <2>3, <2>4 DEF Message
  <2>6. DataStep(h) = [next |-> {circulateBuffer(f, rs)}, again |-> FALSE]
    BY <2>1 DEF DataStep, rs, u, n
  <2>7. /\ f \in Holder /\ f.sizeUsed = w
        /\ f.firstMsgPtr = NoPtr /\ f.firstMsgSize = 0 /\ f.firstMsgSizeUsed = 0
    BY DEF Holder, NoBytes, Bytes, w
  <2> HIDE DEF f
  <2>8. circulateBuffer(f, rs) = [f EXCEPT !.sizeUsed = IF w + rs = BufSize THEN 0 ELSE w + rs]
    BY <1>2, <2>7, CirculateType
  <2>9. (IF w + rs = BufSize THEN 0 ELSE w + rs) < BufSize
    BY <1>1, <1>2
  <2>10. Idle(circulateBuffer(f, rs))
    BY <2>7, <2>8, <2>9 DEF Idle, Holder
  <2> QED
    BY <2>1, <2>5, <2>6, <2>10
<1>8. u < l \/ u = l
  BY <1>1, <1>2
<1> QED
  BY <1>6, <1>7, <1>8 DEF u, n

\* handleMsgData, called when two messages have been stored: the first is delivered,
\* and the second is what the next call finds.
LEMMA DataTwo ==
    ASSUME NEW h \in Holder, NEW s \in Sockets, NEW t \in 0 .. (Tags - 1),
           NEW l \in Lens, NEW m \in Lens,
           call.rs \in Nat, TwoStored(h, s, t, l, m, call.rs)
    PROVE  /\ DataStep(h).again
           /\ Complete(h) /\ h.firstMsgSize = l
           /\ Copied(h) = Message(s, t, l)
           /\ \A g \in DataStep(h).next :
                 OneStored(g, s, NextTag(t), m, call.rs) /\ g.firstMsgSizeUsed = m
<1> DEFINE w == h.sizeUsed
           rs == call.rs
           v == IF w + rs = BufSize THEN 0 ELSE w + rs
           f == [h EXCEPT !.firstMsgPtr = w + l, !.firstMsgSizeUsed = m,
                          !.firstMsgSize = HeaderLen + 1]
           c == circulateBuffer(f, rs)
<1>1. /\ l \in Nat /\ m \in Nat /\ HeaderLen \in Nat /\ BufSize \in Nat
      /\ HeaderLen > 0 /\ HeaderLen < l /\ HeaderLen < m
      /\ NextTag(t) \in 0 .. (Tags - 1)
  BY Lengths, NextTagType
<1>2. /\ rs = l + m /\ h.firstMsgPtr = w
      /\ h.firstMsgSizeUsed = rs /\ h.firstMsgSize = l
      /\ w + rs = BufSize \/ w + 2 * rs <= BufSize
      /\ \A k \in 1 .. l : h.recvQueue[w + k - 1] = Byte(s, t, l, k)
      /\ \A k \in 1 .. m : h.recvQueue[w + l + k - 1] = Byte(s, NextTag(t), m, k)
  BY DEF TwoStored
<1>3. w \in Nat /\ DOMAIN h.recvQueue = 0 .. (BufSize - 1)
  BY DEF Holder
<1> HIDE DEF w, rs
<1>4. w + rs <= BufSize /\ rs \in Nat
  <2>1. w \in Nat /\ l \in Nat /\ m \in Nat /\ BufSize \in Nat /\ rs = l + m
    BY <1>1, <1>2, <1>3
  <2>2. w + rs = BufSize \/ w + 2 * rs <= BufSize
    BY <1>2
  <2> QED
    BY <2>1, <2>2
<1>13. /\ w \in Nat /\ l \in Nat /\ m \in Nat /\ BufSize \in Nat
       /\ HeaderLen \in Nat /\ HeaderLen < m /\ rs = l + m /\ w + rs <= BufSize
  BY <1>1, <1>2, <1>3, <1>4
<1>5. Complete(h) /\ h.firstMsgSizeUsed > h.firstMsgSize
      /\ h.firstMsgSizeUsed - h.firstMsgSize = m /\ h.sizeUsed + h.firstMsgSize = w + l
  BY <1>1, <1>2 DEF Complete, w
<1>6. DataStep(h) = [next |-> handleMsgLen(c, m), again |-> TRUE]
  BY <1>5 DEF DataStep, rs
<1>7. Copied(h) = Message(s, t, l)
  <2>1. FirstPart(h) = l
    <3>1. TillBufferEnd(h) = BufSize - (w + rs)
      BY <1>2 DEF TillBufferEnd
    <3> QED
      BY <1>1, <1>2, <1>3, <1>4, <3>1 DEF FirstPart
  <2>2. ASSUME NEW j \in 1 .. l
        PROVE  j <= FirstPart(h) /\ Memory(h, w + j - 1) = Byte(s, t, l, j)
    <3>1. w + j - 1 \in 0 .. (BufSize - 1) /\ j <= l
      BY <1>13
    <3> QED
      BY <1>2, <1>3, <2>1, <3>1 DEF Memory
  <2>3. Copied(h) = [j \in 1 .. l |-> IF j <= FirstPart(h) THEN Memory(h, w + j - 1)
                                      ELSE Memory(h, j - FirstPart(h) - 1)]
    BY <1>2 DEF Copied
  <2> QED
    BY <2>2, <2>3 DEF Message
<1>8. /\ f \in Holder /\ f.sizeUsed = w /\ f.firstMsgPtr = w + l
      /\ f.firstMsgSizeUsed = m /\ f.firstMsgSize = HeaderLen + 1
      /\ f.recvQueue = h.recvQueue
  <2>1. w + l \in Nat /\ HeaderLen + 1 \in Nat
    BY <1>1, <1>3
  <2> QED
    BY <1>1, <2>1 DEF Holder, w
<1> HIDE DEF f
<1>9. c \in Holder /\ c = [f EXCEPT !.sizeUsed = v]
  BY <1>4, <1>8, CirculateType
<1> HIDE DEF v
<1>10. /\ c.sizeUsed = v /\ c.firstMsgPtr = w + l /\ c.firstMsgSizeUsed = m
       /\ c.firstMsgSize = HeaderLen + 1 /\ c.recvQueue = h.recvQueue
  BY <1>8, <1>9 DEF Holder
<1> HIDE DEF c
<1>11. v \in Nat /\ v + rs <= BufSize
  <2>1. CASE w + rs = BufSize
    BY <1>1, <1>3, <1>4, <2>1 DEF v
  <2>2. CASE w + rs # BufSize
    <3>1. w + 2 * rs <= BufSize /\ v = w + rs
      BY <1>2, <2>2 DEF v
    <3> QED
      BY <1>1, <1>3, <1>4, <3>1
  <2> QED
    BY <2>1, <2>2
<1>12. ASSUME NEW g \in handleMsgLen(c, m)
       PROVE  OneStored(g, s, NextTag(t), m, rs) /\ g.firstMsgSizeUsed = m
  <2> DEFINE d == [c EXCEPT !.firstMsgPtr = IF c.firstMsgSize = 0 THEN c.sizeUsed ELSE @]
  <2>1. c.firstMsgSize # 0 /\ c.firstMsgSize + m >= HeaderLen
    BY <1>1, <1>10
  <2>2. /\ g \in Holder /\ g.firstMsgPtr = w + l /\ g.recvQueue = h.recvQueue
        /\ g.sizeUsed = v /\ g.firstMsgSizeUsed = m
    <3>1. c \in Holder /\ m \in Nat /\ g \in handleMsgLen(c, m)
      BY <1>1, <1>9, <1>12
    <3>2. /\ g \in Holder /\ g.recvQueue = c.recvQueue
          /\ g.firstMsgPtr = IF c.firstMsgSize = 0 THEN c.sizeUsed ELSE c.firstMsgPtr
          /\ g.sizeUsed = c.sizeUsed /\ g.firstMsgSizeUsed = c.firstMsgSizeUsed
      BY <3>1, LenType
    <3> QED
      BY <1>10, <2>1, <3>2
  <2>3. d \in Holder /\ d.firstMsgPtr = w + l /\ d.recvQueue = h.recvQueue
    BY <1>9, <1>10, <2>1 DEF Holder
  <2>4. \E z \in LengthAt(d, w + l) : g = [d EXCEPT !.firstMsgSize = z]
    BY <1>12, <2>1, <2>3 DEF handleMsgLen
  <2> HIDE DEF d
  <2>5. \A j \in 1 .. HeaderLen : d.recvQueue[w + l + j - 1] = Byte(s, NextTag(t), m, j)
    BY <1>1, <1>2, <2>3
  <2>6. w + l \in Nat /\ w + l + HeaderLen <= BufSize
    BY <1>13
  <2>7. LengthAt(d, w + l) = {m}
    <3> DEFINE a == w + l
               z == NextTag(t)
    <3>1. /\ a \in Nat /\ a + HeaderLen <= BufSize /\ z \in 0 .. (Tags - 1) /\ d \in Holder
          /\ \A j \in 1 .. HeaderLen : d.recvQueue[a + j - 1] = Byte(s, z, m, j)
      BY <1>1, <2>3, <2>5, <2>6
    <3> HIDE DEF a, z
    <3>2. LengthAt(d, a) = {m}
      BY <3>1, LengthRead
    <3> QED
      BY <3>2 DEF a
  <2>8. g.firstMsgSize = m
    BY <2>3, <2>4, <2>7 DEF Holder
  <2>9. ASSUME NEW j \in 1 .. m
        PROVE  g.recvQueue[At(w + l, j - 1)] = Byte(s, NextTag(t), m, j)
    <3>1. At(w + l, j - 1) = w + l + j - 1
      BY <1>13 DEF At
    <3> QED
      BY <1>2, <2>2, <3>1
  <2>10. w + l # NoPtr /\ m \in 1 .. m /\ ~(m < HeaderLen) /\ ~(m < m)
    BY <1>1, <1>3, <2>6 DEF NoPtr
  <2>11. Assembled(g, s, NextTag(t), m)
    BY <2>2, <2>6, <2>8, <2>9, <2>10 DEF Assembled
  <2> QED
    BY <1>11, <2>2, <2>10, <2>11 DEF OneStored
<1> QED
  BY <1>2, <1>5, <1>6, <1>7, <1>12 DEF rs

-----------------------------------------------------------------------------
(***************************************************************************)
(* The invariant is kept.                                                  *)
(***************************************************************************)
StateInv == Streams /\ HoldersInFrame /\ TagsInStep /\ IntactWhenInFrame

\* What is received next on s is the same, although more may have been sent.
SameHead(s) ==
    \/ wire'[s] = wire[s] /\ sendTag'[s] = sendTag[s]
    \/ wire[s] # <<>> /\ wire'[s] # <<>> /\ wire'[s][1] = wire[s][1]
    \/ /\ wire[s] = <<>> /\ wire'[s] # <<>>
       /\ wire'[s][1].pos = 1 /\ wire'[s][1].tag = sendTag[s]

\* Then what follows a byte on s is the same as well.
LEMMA HeadKept ==
    ASSUME NEW s \in Sockets, SameHead(s)
    PROVE  /\ HeadTag(s)' = HeadTag(s)
           /\ AtStart(s)' <=> AtStart(s)
           /\ \A t, l, u : Follows(s, t, l, u) => Follows(s, t, l, u)'
<1>1. HeadTag(s)' = HeadTag(s) /\ (AtStart(s)' <=> AtStart(s))
  BY DEF SameHead, HeadTag, AtStart
<1>2. ASSUME NEW t, NEW l, NEW u, Follows(s, t, l, u)
      PROVE  Follows(s, t, l, u)'
  BY <1>1, <1>2 DEF SameHead, Follows
<1> QED
  BY <1>1, <1>2

\* A holder that is left alone between calls stays as it was described, if nothing
\* was received on the socket it serves.
LEMMA SettledKept ==
    ASSUME NEW i \in 1 .. Len(holders), Settled(i), holders'[i] = holders[i],
           \A u \in Sockets : MayUse(i, u) => MayUse(i, u)' /\ (Serves(i, u)' => Serves(i, u)),
           \A u \in Sockets : MayUse(i, u) /\ Serves(i, u) =>
              SameHead(u) \/ wire'[u] = <<>>
    PROVE  Settled(i)'
<1>1. CASE Idle(holders[i])
  <2>1. Idle(holders'[i])
    BY <1>1
  <2> QED
    BY <2>1 DEF Settled, Idle
<1>2. CASE \E s \in Sockets, t \in 0 .. (Tags - 1), l \in Lens : Between(i, s, t, l)
  <2>1. PICK s \in Sockets, t \in 0 .. (Tags - 1), l \in Lens : Between(i, s, t, l)
    BY <1>2
  <2>2. Partial(holders'[i], s, t, l) /\ MayUse(i, s) /\ MayUse(i, s)'
    BY <2>1 DEF Between
  <2>3. ASSUME Serves(i, s)'
        PROVE  AtStart(s)' \/ Follows(s, t, l, holders[i].firstMsgSizeUsed)'
    <3>1. Serves(i, s)
      BY <2>2, <2>3
    <3>2. AtStart(s) \/ Follows(s, t, l, holders[i].firstMsgSizeUsed)
      BY <2>1, <3>1 DEF Between
    <3>3. CASE SameHead(s)
      BY <3>2, <3>3, HeadKept
    <3>4. CASE wire'[s] = <<>>
      BY <3>4 DEF AtStart
    <3> QED
      BY <2>2, <3>1, <3>3, <3>4
  <2>4. Between(i, s, t, l)'
    BY <2>2, <2>3 DEF Between, Partial, Assembled, Follows, AtStart, HeadTag
  <2> QED
    BY <2>4 DEF Settled
<1> QED
  BY <1>1, <1>2 DEF Settled

\* Steps of the peers and the kernel that leave holders, the call and what was
\* received alone.
LEMMA SendersKeep ==
    ASSUME TypeInv, StateInv, Streams', \A s \in Sockets : SameHead(s),
           UNCHANGED <<holders, call, astray, expectTag, last>>
    PROVE  StateInv'
<1>1. holders' = holders /\ call' = call /\ astray' = astray /\ expectTag' = expectTag
      /\ last' = last /\ DOMAIN holders = 1 .. Len(holders)
  BY DEF TypeInv, TypeOK
<1>2. \A i \in 1 .. Len(holders), u \in Sockets :
         (MayUse(i, u)' <=> MayUse(i, u)) /\ (Serves(i, u)' <=> Serves(i, u))
  BY <1>1 DEF MayUse, Serves, Owned, FreeHolders
<1>3. ASSUME NEW i \in 1 .. Len(holders), Settled(i)
      PROVE  Settled(i)'
  BY <1>1, <1>2, <1>3, SettledKept
<1>4. ASSUME NEW i \in 1 .. Len(holders), NEW s \in Sockets, InCall(i, s)
      PROVE  InCall(i, s)'
  <2>1. PICK t \in 0 .. (Tags - 1), l \in Lens :
           AfterOne(i, s, t, l) \/ \E m \in Lens : AfterTwo(i, s, t, l, m)
    BY <1>4 DEF InCall
  <2>2. \A x, y, z : Follows(s, x, y, z) => Follows(s, x, y, z)'
    BY HeadKept
  <2>3. CASE AfterOne(i, s, t, l)
    <3>1. /\ OneStored(holders'[i], s, t, l, call'.rs)
          /\ MayUse(i, s)' /\ Follows(s, t, l, holders[i].firstMsgSizeUsed)'
          /\ s \notin astray' => expectTag'[s] = t
      BY <1>1, <1>2, <2>2, <2>3 DEF AfterOne
    <3>2. AfterOne(i, s, t, l)'
      BY <1>1, <3>1 DEF AfterOne, Follows, HeadTag, AtStart
    <3> QED
      BY <3>2 DEF InCall
  <2>4. CASE \E m \in Lens : AfterTwo(i, s, t, l, m)
    <3>1. PICK m \in Lens : AfterTwo(i, s, t, l, m)
      BY <2>4
    <3>2. /\ TwoStored(holders'[i], s, t, l, m, call'.rs)
          /\ MayUse(i, s)' /\ Follows(s, NextTag(t), m, m)'
          /\ s \notin astray' => expectTag'[s] = t
      BY <1>1, <1>2, <2>2, <3>1 DEF AfterTwo
    <3>3. AfterTwo(i, s, t, l, m)'
      BY <3>2 DEF AfterTwo
    <3> QED
      BY <3>3 DEF InCall
  <2> QED
    BY <2>1, <2>3, <2>4
<1>5. HoldersInFrame'
  <2> SUFFICES ASSUME NEW i \in 1 .. Len(holders), InFrame(holders[i])
               PROVE  IF call # NoCall /\ call.holder = i THEN InCall(i, call.sock)'
                      ELSE Settled(i)'
    BY <1>1 DEF HoldersInFrame
  <2>1. IF call # NoCall /\ call.holder = i THEN InCall(i, call.sock) ELSE Settled(i)
    BY <1>1 DEF StateInv, HoldersInFrame
  <2>2. call # NoCall => call.sock \in Sockets
    BY DEF TypeInv, TypeOK
  <2> QED
    BY <1>3, <1>4, <2>1, <2>2
<1>6. TagsInStep'
  <2>1. \A s \in Sockets : HeadTag(s)' = HeadTag(s)
    BY HeadKept
  <2> QED
    BY <1>1, <2>1 DEF StateInv, TagsInStep
<1> QED
  BY <1>1, <1>5, <1>6 DEF StateInv, IntactWhenInFrame

\* A stream on which nothing is on the way.
LEMMA NoStream ==
    ASSUME NEW s \in Sockets, NEW n
    PROVE  Messages(s, <<>>, n)
BY DEF Messages

\* Between two calls the holder that s is given may be replaced by an idle one and
\* the connection of s be closed.
LEMMA EndsKeep ==
    ASSUME TypeInv, StateInv, NEW s \in Sockets, call = NoCall, call' = call, last' = last,
           \/ UNCHANGED <<wire, sendTag, expectTag, astray>>
           \/ Disconnected(s),
           \/ holders' = holders
           \/ /\ holders' \in Seq(Holder) /\ Len(holders') = Len(HoldersWith(s))
              /\ \A i \in 1 .. Len(holders') :
                    i # HolderIndex(s) => holders'[i] = HoldersWith(s)[i]
              /\ holders'[HolderIndex(s)].socket \in
                    {HoldersWith(s)[HolderIndex(s)].socket, Free}
              /\ Idle(holders'[HolderIndex(s)])
    PROVE  StateInv'
<1>1. /\ holders \in Seq(Holder) /\ DOMAIN holders = 1 .. Len(holders)
      /\ wire \in [Sockets -> Seq(Bytes)] /\ sendTag \in [Sockets -> 0 .. (Tags - 1)]
      /\ expectTag \in [Sockets -> 0 .. (Tags - 1)]
  BY DEF TypeInv, TypeOK
<1>2. ASSUME NEW u \in Sockets
      PROVE  \/ /\ wire'[u] = wire[u] /\ sendTag'[u] = sendTag[u]
                /\ expectTag'[u] = expectTag[u] /\ (u \in astray' <=> u \in astray)
             \/ wire'[u] = <<>> /\ sendTag'[u] = expectTag'[u]
  BY <1>1 DEF Disconnected
<1>3. Streams'
  <2> SUFFICES ASSUME NEW u \in Sockets
               PROVE  Messages(u, wire'[u], sendTag'[u])
    BY DEF Streams
  <2> QED
    BY <1>2, NoStream DEF StateInv, Streams
<1>4. \A i \in 1 .. Len(holders) : InFrame(holders[i]) => Settled(i)
  BY <1>1 DEF StateInv, HoldersInFrame
<1>5. \A u \in Sockets : SameHead(u) \/ wire'[u] = <<>>
  BY <1>2 DEF SameHead
<1>6. ASSUME NEW i \in 1 .. Len(holders'), InFrame(holders'[i]), i \in DOMAIN holders'
      PROVE  Settled(i)'
  <2>1. CASE holders' = holders
    <3>1. \A u \in Sockets : (MayUse(i, u)' <=> MayUse(i, u)) /\ (Serves(i, u)' <=> Serves(i, u))
      BY <2>1 DEF MayUse, Serves, Owned, FreeHolders
    <3>2. i \in 1 .. Len(holders) /\ Settled(i)
      BY <1>4, <1>6, <2>1
    <3> QED
      BY <1>5, <2>1, <3>1, <3>2, SettledKept
  <2>2. CASE holders' # holders /\ i # HolderIndex(s)
    <3>1. /\ i \in 1 .. Len(holders) /\ holders'[i] = holders[i]
          /\ \A u \in Sockets : MayUse(i, u) => MayUse(i, u)' /\ (Serves(i, u)' => Serves(i, u))
      BY <2>2, Others
    <3>2. Settled(i)
      BY <1>4, <1>6, <3>1
    <3> QED
      BY <1>5, <3>1, <3>2, SettledKept
  <2>3. CASE holders' # holders /\ i = HolderIndex(s)
    BY <2>3 DEF Settled, Idle
  <2> QED
    BY <2>1, <2>2, <2>3
<1>7. HoldersInFrame'
  <2>1. DOMAIN holders' = 1 .. Len(holders')
    BY <1>1
  <2> QED
    BY <1>6, <2>1 DEF HoldersInFrame
<1>8. TagsInStep'
  <2> SUFFICES ASSUME NEW u \in Sockets, u \notin astray'
               PROVE  HeadTag(u)' = expectTag'[u]
    BY DEF TagsInStep
  <2>1. CASE /\ wire'[u] = wire[u] /\ sendTag'[u] = sendTag[u]
             /\ expectTag'[u] = expectTag[u] /\ (u \in astray' <=> u \in astray)
    <3>1. HeadTag(u) = expectTag[u]
      BY <2>1 DEF StateInv, TagsInStep
    <3> QED
      BY <2>1, <3>1 DEF HeadTag
  <2>2. CASE wire'[u] = <<>> /\ sendTag'[u] = expectTag'[u]
    BY <2>2 DEF HeadTag
  <2> QED
    BY <1>2, <2>1, <2>2
<1> QED
  BY <1>3, <1>7, <1>8 DEF StateInv, IntactWhenInFrame

\* The holder into which a chunk was received in frame.
LEMMA RecvInCall ==
    ASSUME TypeInv, StateInv, NEW s \in Sockets, NEW rs \in 1 .. BufSize, Recv(s, rs),
           NEW k, RecvInto(s, rs, k), InFrame(k), NEW c, c = HolderIndex(s)
    PROVE  InCall(c, s)'
<1>1. PICK h, w, n : h = HoldersWith(s)[c] /\ w = wire[s] /\ n = sendTag[s]
  OBVIOUS
<1>2. PICK b, v, g, x, first :
         /\ b = SubSeq(w, 1, rs) /\ v = SubSeq(w, rs + 1, Len(w)) /\ g = Stored(h, b)
         /\ x = [k EXCEPT !.firstMsgSizeUsed = @ + rs] /\ first = w[1]
  OBVIOUS
<1>3. /\ call = NoCall /\ w \in Seq(Bytes) /\ rs \in 1 .. Len(w) /\ rs \in Nat /\ rs > 0
      /\ call' = [sock |-> s, holder |-> c, rs |-> rs]
      /\ wire'[s] = v /\ sendTag' = sendTag /\ expectTag' = expectTag
      /\ Messages(s, w, n)
  <2>1. wire[s] \in Seq(Bytes) /\ wire \in [Sockets -> Seq(Bytes)]
        /\ Messages(s, wire[s], sendTag[s])
    BY DEF TypeInv, TypeOK, StateInv, Streams
  <2>2. /\ call = NoCall /\ rs \in Nat /\ rs > 0 /\ rs <= Len(wire[s])
        /\ call' = [sock |-> s, holder |-> c, rs |-> rs]
        /\ wire' = [wire EXCEPT ![s] = SubSeq(@, rs + 1, Len(@))]
        /\ sendTag' = sendTag /\ expectTag' = expectTag
    BY DEF Recv
  <2>3. wire'[s] = v
    BY <1>1, <1>2, <2>1, <2>2
  <2> QED
    BY <1>1, <2>1, <2>2, <2>3
<1>4. /\ b \in Seq(Bytes) /\ Len(b) = rs /\ \A j \in 1 .. rs : b[j] = w[j]
      /\ v \in Seq(Bytes) /\ Len(v) = Len(w) - rs /\ \A j \in 1 .. Len(v) : v[j] = w[rs + j]
  <2>1. /\ SubSeq(w, 1, rs) \in Seq(Bytes) /\ Len(SubSeq(w, 1, rs)) = rs
        /\ \A j \in 1 .. rs : SubSeq(w, 1, rs)[j] = w[j]
        /\ SubSeq(w, rs + 1, Len(w)) \in Seq(Bytes)
        /\ Len(SubSeq(w, rs + 1, Len(w))) = Len(w) - rs
        /\ \A j \in 1 .. (Len(w) - rs) : SubSeq(w, rs + 1, Len(w))[j] = w[rs + j]
    BY <1>3, Cut
  <2> QED
    BY <1>2, <2>1
<1>5. /\ h \in Holder /\ g \in Holder /\ k \in Holder /\ holders'[c] = x
      /\ k.socket = h.socket /\ k.stray = g.stray
      /\ holders' \in Seq(Holder) /\ Len(holders') = Len(HoldersWith(s))
      /\ \A i \in 1 .. Len(holders') : i # c => holders'[i] = HoldersWith(s)[i]
  BY <1>1, <1>2, RecvTypes
<1>6. /\ rs <= BufSize - h.sizeUsed /\ h.stray < MaxStray
      /\ k \in IF NeedsLength(h) THEN handleMsgLen(g, rs) ELSE {g}
      /\ astray' = IF InFrame(g) THEN astray ELSE astray \cup {s}
  BY <1>1, <1>2 DEF RecvInto
<1>7. InFrame(g) /\ InFrame(h) /\ Handled(h, b) /\ astray' = astray
  <2>1. InFrame(g)
    BY <1>5 DEF InFrame
  <2> QED
    BY <1>2, <1>4, <1>5, <1>6, <2>1, StoredType
<1>8. MayUse(c, s)'
  <2>1. holders'[c].socket = HoldersWith(s)[c].socket
    BY <1>1, <1>2, <1>5 DEF Holder
  <2> QED
    BY <1>5, <2>1, Others
\* What the holder had before.
<1>9. \/ Idle(h)
      \/ \E u \in Sockets, t \in 0 .. (Tags - 1), l \in Lens :
            Partial(h, u, t, l) /\ (u = s => AtStart(s) \/ Follows(s, t, l, h.firstMsgSizeUsed))
  <2>1. c \in 1 .. Len(HoldersWith(s))
        /\ ((c \in 1 .. Len(holders) /\ h = holders[c]) \/ h = initRecvHolder(s))
    BY <1>1, WithHolder
  <2>2. CASE h = initRecvHolder(s)
    BY <2>2, Lengths DEF initRecvHolder, Idle
  <2>3. CASE c \in 1 .. Len(holders) /\ h = holders[c]
    <3>1. Settled(c)
      <4>1. c \in DOMAIN holders
        BY <2>3 DEF TypeInv, TypeOK
      <4> QED
        BY <1>3, <1>7, <2>3, <4>1 DEF StateInv, HoldersInFrame
    <3>2. Serves(c, s)
      BY <2>3, ServesChosen
    <3> QED
      BY <2>3, <3>1, <3>2 DEF Settled, Between
  <2> QED
    BY <2>1, <2>2, <2>3
<1>10. 1 \in 1 .. Len(w) /\ 1 \in 1 .. rs /\ rs \in 1 .. rs /\ w # <<>>
  BY <1>3
<1>11. /\ first.len \in Lens /\ first.tag \in 0 .. (Tags - 1) /\ first.len \in Nat
       /\ first.pos \in 1 .. first.len /\ first.pos \in Nat
       /\ first = Byte(s, first.tag, first.len, first.pos) /\ first.sock = s
  <2>1. w \in Seq(Bytes) /\ 1 \in 1 .. Len(w) /\ Messages(s, w, n)
    BY <1>3, <1>10
  <2>2. /\ w[1].len \in Lens /\ w[1].tag \in 0 .. (Tags - 1) /\ w[1].len \in Nat
        /\ w[1].pos \in 1 .. w[1].len /\ w[1].pos \in Nat
        /\ w[1] = Byte(s, w[1].tag, w[1].len, w[1].pos) /\ w[1].sock = s
    BY <2>1, ByteFields
  <2>3. first = w[1]
    BY <1>2
  <2> QED
    BY <2>2, <2>3
<1>12. s \notin astray' => expectTag'[s] = first.tag
  <2>1. s \notin astray => HeadTag(s) = expectTag[s]
    BY <1>3 DEF StateInv, TagsInStep
  <2> QED
    BY <1>1, <1>2, <1>3, <1>7, <1>10, <2>1 DEF HeadTag
<1>13. /\ first.pos = h.firstMsgSizeUsed + 1
       /\ first.pos > 1 => h.recvQueue[h.firstMsgPtr].sock = first.sock
       /\ first.pos = 1 => h.sizeUsed + HeaderLen <= BufSize
       /\ \/ first.pos + rs - 1 <= first.len
          \/ /\ first.pos = 1
             /\ w[rs].pos = w[rs].len /\ rs = first.len + w[rs].len
             /\ h.sizeUsed + rs = BufSize \/ h.sizeUsed + 2 * rs <= BufSize
  BY <1>2, <1>4, <1>7, <1>10 DEF Handled
<1>14. h.firstMsgSizeUsed \in Nat /\ h.sizeUsed \in Nat
  BY <1>5 DEF Holder
<1>15. /\ w[rs].len \in Lens /\ w[rs].len \in Nat /\ w[rs].pos \in Nat /\ w[rs].pos \in 1 .. w[rs].len
       /\ w[rs].pos < w[rs].len =>
             v # <<>> /\ v[1] = Byte(s, w[rs].tag, w[rs].len, w[rs].pos + 1)
       /\ w[rs].pos = w[rs].len =>
             \/ v = <<>> /\ n = NextTag(w[rs].tag)
             \/ v # <<>> /\ v[1].pos = 1 /\ v[1].tag = NextTag(w[rs].tag)
  <2>1. /\ w[rs].len \in Lens /\ w[rs].len \in Nat /\ w[rs].pos \in Nat
        /\ w[rs].pos \in 1 .. w[rs].len
    BY <1>3, ByteFields
  <2>2. \A j \in 1 .. Len(v) : v[j] = w[rs + j]
    BY <1>4
  <2>3. /\ w[rs].pos < w[rs].len =>
             v # <<>> /\ v[1] = Byte(s, w[rs].tag, w[rs].len, w[rs].pos + 1)
        /\ w[rs].pos = w[rs].len =>
             \/ v = <<>> /\ n = NextTag(w[rs].tag)
             \/ v # <<>> /\ v[1].pos = 1 /\ v[1].tag = NextTag(w[rs].tag)
    <3>1. Behind(v, w, rs)
      BY <1>4, <2>2 DEF Behind
    <3>2. w \in Seq(Bytes) /\ Messages(s, w, n) /\ rs \in 1 .. Len(w)
      BY <1>3
    <3>3. GoesOn(s, v, n, w[rs])
      BY <3>1, <3>2, CutStream
    <3> QED
      BY <3>3 DEF GoesOn
  <2> QED
    BY <2>1, <2>3
<1>18. Takes(h, b, rs, x)
  BY <1>2, <1>3, <1>4, <1>5, <1>6 DEF Takes
<1>16. CASE first.pos + rs - 1 <= first.len
  <2>11. PICK t, l, u, q : /\ t = first.tag /\ l = first.len /\ q = first.pos
                           /\ u = h.firstMsgSizeUsed
    OBVIOUS
  <2>1. \A j \in 1 .. rs : w[j] = Byte(s, t, l, first.pos + (j - 1))
    BY <1>3, <1>16, <1>2, <2>11, OneMessage
  <2>2. u + rs <= l /\ \A j \in 1 .. rs : first.pos + (j - 1) = u + j
    <3>1. u \in Nat /\ l \in Nat /\ q \in Nat /\ q = u + 1 /\ q + rs - 1 <= l
      BY <1>11, <1>13, <1>14, <1>16, <2>11
    <3>2. u + rs <= l /\ \A j \in 1 .. rs : q + (j - 1) = u + j
      BY <1>3, <3>1
    <3> QED
      BY <2>11, <3>2
  <2>3. \A j \in 1 .. rs : b[j] = Byte(s, t, l, u + j)
    BY <1>4, <2>1, <2>2
  <2>4. (Idle(h) /\ h.sizeUsed + HeaderLen <= BufSize) \/ Partial(h, s, t, l)
    <3>1. CASE Idle(h)
      <4>1. first.pos = 1
        BY <1>13, <3>1 DEF Idle
      <4> QED
        BY <1>13, <3>1, <4>1
    <3>2. CASE ~Idle(h)
      <4>1. PICK z \in Sockets, tt \in 0 .. (Tags - 1), ll \in Lens :
               /\ Partial(h, z, tt, ll)
               /\ z = s => AtStart(s) \/ Follows(s, tt, ll, u)
        BY <1>9, <2>11, <3>2
      <4>2. /\ u \in 1 .. ll /\ u < ll /\ h.firstMsgPtr # NoPtr
            /\ h.firstMsgPtr + HeaderLen <= BufSize
            /\ \A j \in 1 .. u : h.recvQueue[At(h.firstMsgPtr, j - 1)] = Byte(z, tt, ll, j)
        BY <2>11, <4>1 DEF Partial, Assembled
      <4>3. first.pos > 1 /\ first.pos # 1
        BY <1>13, <1>14, <2>11, <4>2
      <4>4. z = s
        <5>1. h.firstMsgPtr \in Nat
          BY <1>5, <4>2 DEF Holder
        <5>2. At(h.firstMsgPtr, 0) = h.firstMsgPtr /\ 1 \in 1 .. u
          BY <1>14, <4>2, <5>1, Lengths DEF At
        <5>3. h.recvQueue[h.firstMsgPtr] = Byte(z, tt, ll, 1)
          <6>1. 1 - 1 = 0
            OBVIOUS
          <6> QED
            BY <4>2, <5>2, <6>1
        <5> QED
          BY <1>11, <1>13, <4>3, <5>3, SameByte
      <4>5. Follows(s, tt, ll, u)
        <5>1. wire[s] # <<>> /\ wire[s][1].pos # 1
          BY <1>1, <1>2, <1>10, <4>3
        <5> QED
          BY <4>1, <4>4, <5>1 DEF AtStart
      <4>6. first = Byte(s, tt, ll, u + 1)
        BY <1>1, <1>2, <4>2, <4>5 DEF Follows
      <4>7. tt = t /\ ll = l
        BY <2>11, <4>6, SameByte
      <4> QED
        BY <4>1, <4>4, <4>7
    <3> QED
      BY <3>1, <3>2
  <2>5. t \in 0 .. (Tags - 1) /\ l \in Lens
    BY <1>11, <2>11
  <2>6. OneStored(x, s, t, l, rs) /\ x.firstMsgSizeUsed = u + rs
    <3>2. /\ \A j \in 1 .. rs : b[j] = Byte(s, t, l, h.firstMsgSizeUsed + j)
          /\ h.firstMsgSizeUsed + rs <= l
      BY <2>2, <2>3, <2>11
    <3>3. OneStored(x, s, t, l, rs) /\ x.firstMsgSizeUsed = h.firstMsgSizeUsed + rs
      BY <1>18, <2>4, <2>5, <3>2, OneInto
    <3> QED
      BY <2>11, <3>3
  <2>7. w[rs] = Byte(s, t, l, u + rs)
    BY <1>4, <1>10, <2>3
  <2>8. w[rs].tag = t /\ w[rs].len = l /\ w[rs].pos = u + rs
    BY <2>7, SameByte
  <2>9. Follows(s, t, l, u + rs)'
    <3>1. CASE u + rs < l
      BY <1>3, <1>15, <2>8, <3>1 DEF Follows
    <3>2. CASE ~(u + rs < l)
      <4>1. w[rs].pos = w[rs].len
        BY <1>3, <1>14, <1>15, <2>2, <2>8, <3>2
      <4>2. \/ v = <<>> /\ sendTag'[s] = NextTag(t)
            \/ v # <<>> /\ v[1].pos = 1 /\ v[1].tag = NextTag(t)
        BY <1>3, <1>15, <2>8, <4>1, <1>1
      <4> QED
        BY <1>3, <3>2, <4>2 DEF Follows, AtStart, HeadTag
    <3> QED
      BY <3>1, <3>2
  <2>10. AfterOne(c, s, t, l)'
    <3>1. OneStored(holders'[c], s, t, l, call'.rs)
      BY <1>3, <1>5, <2>6
    <3>2. Follows(s, t, l, holders[c].firstMsgSizeUsed)'
      <4>1. holders'[c].firstMsgSizeUsed = u + rs
        BY <1>5, <2>6
      <4> QED
        BY <2>9, <4>1 DEF Follows, AtStart, HeadTag
    <3>3. s \notin astray' => expectTag'[s] = t
      BY <1>12, <2>11
    <3> QED
      BY <1>8, <3>1, <3>2, <3>3 DEF AfterOne
  <2> QED
    BY <2>5, <2>10 DEF InCall
<1>17. CASE ~(first.pos + rs - 1 <= first.len)
  <2>10. PICK t, l, m : t = first.tag /\ l = first.len /\ m = w[rs].len
    OBVIOUS
  <2>1. /\ first.pos = 1 /\ w[rs].pos = m /\ rs = l + m
        /\ h.sizeUsed + rs = BufSize \/ h.sizeUsed + 2 * rs <= BufSize
    BY <1>13, <1>17, <2>10
  <2>2. /\ \A j \in 1 .. l : w[j] = Byte(s, t, l, j)
        /\ \A j \in 1 .. m : w[l + j] = Byte(s, NextTag(t), m, j)
        /\ w[rs].tag = NextTag(t)
    <3>1. /\ w \in Seq(Bytes) /\ Messages(s, w, n) /\ rs \in 1 .. Len(w)
          /\ w[1].pos = 1 /\ w[rs].pos = w[rs].len /\ rs = w[1].len + w[rs].len
      BY <1>2, <1>3, <2>1, <2>10
    <3>2. /\ \A j \in 1 .. w[1].len : w[j] = Byte(s, w[1].tag, w[1].len, j)
          /\ \A j \in 1 .. w[rs].len :
                w[w[1].len + j] = Byte(s, NextTag(w[1].tag), w[rs].len, j)
          /\ w[rs].tag = NextTag(w[1].tag)
      BY <3>1, TwoMessages
    <3> QED
      BY <1>2, <2>10, <3>2
  <2>3. t \in 0 .. (Tags - 1) /\ l \in Lens /\ m \in Lens /\ l \in Nat /\ m \in Nat
    BY <1>11, <1>15, <2>10
  <2>4. Idle(h)
    <3>1. h.firstMsgSizeUsed = 0
      BY <1>13, <1>14, <2>1
    <3> QED
      BY <1>9, <3>1 DEF Partial, Assembled
  <2>5. \A j \in 1 .. l : b[j] = Byte(s, t, l, j)
    <3>1. \A j \in 1 .. l : j \in 1 .. rs
      BY <2>1, <2>3
    <3> QED
      BY <1>4, <2>2, <3>1
  <2>6. \A j \in 1 .. m : b[l + j] = Byte(s, NextTag(t), m, j)
    <3>1. \A j \in 1 .. m : l + j \in 1 .. rs
      BY <2>1, <2>3
    <3> QED
      BY <1>4, <2>2, <3>1
  <2>7. TwoStored(x, s, t, l, m, rs)
    BY <1>18, <2>1, <2>3, <2>4, <2>5, <2>6, TwoInto
  <2>8. Follows(s, NextTag(t), m, m)'
    <3>1. \/ v = <<>> /\ sendTag'[s] = NextTag(NextTag(t))
          \/ v # <<>> /\ v[1].pos = 1 /\ v[1].tag = NextTag(NextTag(t))
      BY <1>3, <1>15, <2>1, <2>2, <2>10, <1>1
    <3>2. ~(m < m)
      BY <2>3
    <3> QED
      BY <1>3, <3>1, <3>2 DEF Follows, AtStart, HeadTag
  <2>9. AfterTwo(c, s, t, l, m)'
    <3>1. TwoStored(holders'[c], s, t, l, m, call'.rs)
      BY <1>3, <1>5, <2>7
    <3>2. s \notin astray' => expectTag'[s] = t
      BY <1>12, <2>10
    <3> QED
      BY <1>8, <2>8, <3>1, <3>2 DEF AfterTwo
  <2> QED
    BY <2>3, <2>9 DEF InCall
<1> QED
  BY <1>16, <1>17

\* A chunk received on s goes into the holder that recvAll takes for it, and the other
\* holders and streams stay as they were.
LEMMA RecvKeeps ==
    ASSUME TypeInv, StateInv, NEW s \in Sockets, NEW rs \in 1 .. BufSize, Recv(s, rs)
    PROVE  StateInv'
<1>1. PICK k : RecvInto(s, rs, k)
  BY RecvTakes
<1>2. PICK c, w, v, h : /\ c = HolderIndex(s) /\ w = wire[s]
                        /\ v = SubSeq(w, rs + 1, Len(w)) /\ h = HoldersWith(s)[c]
  OBVIOUS
<1>3. /\ holders' \in Seq(Holder) /\ Len(holders') = Len(HoldersWith(s))
      /\ \A i \in 1 .. Len(holders') : i # c => holders'[i] = HoldersWith(s)[i]
      /\ c \in 1 .. Len(holders') /\ k \in Holder
      /\ holders'[c] = [k EXCEPT !.firstMsgSizeUsed = @ + rs]
      /\ k.socket = h.socket
      /\ k.stray = Stored(h, SubSeq(w, 1, rs)).stray
  BY <1>1, <1>2, RecvTypes
<1>4. /\ holders'[c].socket = HoldersWith(s)[c].socket
      /\ InFrame(holders'[c]) <=> InFrame(k)
      /\ DOMAIN holders' = 1 .. Len(holders')
  <2>1. holders'[c].socket = k.socket /\ holders'[c].stray = k.stray
    BY <1>3 DEF Holder
  <2>2. DOMAIN holders' = 1 .. Len(holders')
    BY <1>3
  <2> QED
    BY <1>2, <1>3, <2>1, <2>2 DEF InFrame
<1>5. /\ call = NoCall /\ w \in Seq(Bytes) /\ rs \in 1 .. Len(w)
      /\ call' = [sock |-> s, holder |-> c, rs |-> rs] /\ call' # NoCall
      /\ wire' = [wire EXCEPT ![s] = v] /\ wire \in [Sockets -> Seq(Bytes)]
      /\ sendTag' = sendTag /\ expectTag' = expectTag /\ last' = last
      /\ Messages(s, w, sendTag[s])
      /\ DOMAIN holders = 1 .. Len(holders)
  BY <1>2, NamesAssumption DEF Recv, TypeInv, TypeOK, StateInv, Streams, NoCall
<1>6. /\ astray' = IF InFrame(k) THEN astray ELSE astray \cup {s}
  BY <1>1, <1>2, <1>3 DEF RecvInto, InFrame
<1>7. \A i \in 1 .. Len(holders') : i # c =>
         /\ i \in 1 .. Len(holders) /\ holders'[i] = holders[i]
         /\ \A u \in Sockets : MayUse(i, u) =>
               MayUse(i, u)' /\ (Serves(i, u)' => Serves(i, u))
  <2>1. /\ c = HolderIndex(s) /\ holders' \in Seq(Holder)
        /\ Len(holders') = Len(HoldersWith(s))
        /\ \A i \in 1 .. Len(holders') : i # c => holders'[i] = HoldersWith(s)[i]
    BY <1>2, <1>3
  <2>2. holders'[c].socket \in {HoldersWith(s)[c].socket, Free}
    BY <1>4
  <2> QED
    BY <2>1, <2>2, Others
<1>8. \A u \in Sockets : u # s => wire'[u] = wire[u] /\ SameHead(u)
  BY <1>5 DEF SameHead
<1>9. Streams'
  <2>1. Messages(s, v, sendTag[s])
    <3>1. /\ v \in Seq(Bytes) /\ Len(v) = Len(w) - rs
          /\ \A j \in 1 .. (Len(w) - rs) : v[j] = w[rs + j]
      BY <1>2, <1>5, Cut
    <3>2. Behind(v, w, rs)
      BY <1>5, <3>1 DEF Behind
    <3> QED
      BY <1>5, <3>2, CutStream
  <2>2. wire'[s] = v
    BY <1>5
  <2> QED
    BY <1>5, <1>8, <2>1, <2>2 DEF StateInv, Streams
<1>10. ASSUME NEW i \in 1 .. Len(holders'), i # c, InFrame(holders'[i])
       PROVE  Settled(i)'
  <2>1. i \in 1 .. Len(holders) /\ holders'[i] = holders[i]
    BY <1>7, <1>10
  <2>2. Settled(i)
    BY <1>5, <1>10, <2>1 DEF StateInv, HoldersInFrame
  <2>3. \A u \in Sockets : MayUse(i, u) /\ Serves(i, u) => SameHead(u) \/ wire'[u] = <<>>
    BY <1>2, <1>8, <1>10, <2>1, ServesChosen
  <2>4. \A u \in Sockets : MayUse(i, u) => MayUse(i, u)' /\ (Serves(i, u)' => Serves(i, u))
    BY <1>7, <1>10
  <2> QED
    BY <2>1, <2>2, <2>3, <2>4, SettledKept
<1>11. InFrame(holders'[c]) => InCall(c, s)'
  BY <1>1, <1>2, <1>4, RecvInCall
<1>12. HoldersInFrame'
  <2>1. call'.holder = c /\ call'.sock = s
    BY <1>5
  <2>2. InFrame(holders'[c]) => InCall(c, call.sock)'
    BY <1>11, <2>1 DEF InCall, AfterOne, AfterTwo
  <2> QED
    BY <1>4, <1>5, <1>10, <2>1, <2>2 DEF HoldersInFrame
<1>13. TagsInStep'
  <2> SUFFICES ASSUME NEW u \in Sockets, u \notin astray'
               PROVE  IF call' # NoCall /\ call'.sock = u THEN InFrame(holders'[call'.holder])
                      ELSE HeadTag(u)' = expectTag'[u]
    BY DEF TagsInStep
  <2>1. CASE u = s
    BY <1>4, <1>5, <1>6, <2>1
  <2>2. CASE u # s
    <3>1. HeadTag(u) = expectTag[u]
      BY <1>5, <1>6 DEF StateInv, TagsInStep
    <3>2. HeadTag(u)' = HeadTag(u)
      BY <1>8, <2>2, HeadKept
    <3> QED
      BY <1>5, <2>2, <3>1, <3>2
  <2> QED
    BY <2>1, <2>2
<1> QED
  BY <1>5, <1>9, <1>12, <1>13 DEF StateInv, IntactWhenInFrame

\* A call of handleMsgData delivers the message that its holder has, if it is complete,
\* and leaves the holder as it is between calls or with the second message of the chunk.
LEMMA DataKeeps ==
    ASSUME TypeInv, StateInv, handleMsgData
    PROVE  StateInv'
<1>1. PICK c, s, h, g, rs : /\ c = call.holder /\ s = call.sock /\ rs = call.rs
                            /\ h = holders[c] /\ g = holders'[c]
  OBVIOUS
<1>2. /\ holders' \in Seq(Holder) /\ Len(holders') = Len(holders)
      /\ c \in 1 .. Len(holders) /\ h \in Holder /\ s \in Sockets /\ rs \in 1 .. BufSize
      /\ \A i \in 1 .. Len(holders) : i # c => holders'[i] = holders[i]
      /\ g \in DataStep(h).next
      /\ \A i \in 1 .. Len(holders) : /\ holders'[i].socket = holders[i].socket
                                      /\ holders'[i].stray = holders[i].stray
  BY <1>1, DataTypes
<1>3. /\ wire' = wire /\ sendTag' = sendTag /\ astray' = astray /\ call # NoCall
      /\ call' = IF DataStep(h).again THEN call ELSE NoCall
      /\ DOMAIN holders = 1 .. Len(holders) /\ DOMAIN holders' = 1 .. Len(holders)
      /\ expectTag \in [Sockets -> 0 .. (Tags - 1)]
  BY <1>1, <1>2 DEF handleMsgData, TypeInv, TypeOK
<1>4. \A i \in 1 .. Len(holders), u \in Sockets :
         (MayUse(i, u)' <=> MayUse(i, u)) /\ (Serves(i, u)' <=> Serves(i, u))
  BY <1>2, <1>3 DEF MayUse, Serves, Owned, FreeHolders
<1>5. \A u \in Sockets : SameHead(u)
  BY <1>3 DEF SameHead
<1>6. /\ ~Complete(h) => last' = last /\ expectTag' = expectTag
      /\ Complete(h) =>
            /\ last'.inFrame => InFrame(h) /\ s \notin astray
            /\ last'.intact <=> Copied(h) = Message(s, expectTag[s], h.firstMsgSize)
            /\ expectTag' = [expectTag EXCEPT ![s] = NextTag(@)]
  <2>1. CASE ~Complete(h)
    BY <1>1, <2>1 DEF handleMsgData
  <2>2. CASE Complete(h)
    <3>1. /\ last' = [inFrame |-> InFrame(h) /\ s \notin astray,
                      intact |-> Copied(h) = Message(s, expectTag[s], h.firstMsgSize)]
          /\ expectTag' = [expectTag EXCEPT ![s] = (@ + 1) % Tags]
      BY <1>1, <2>2 DEF handleMsgData
    <3>2. /\ last'.inFrame = (InFrame(h) /\ s \notin astray)
          /\ last'.intact = (Copied(h) = Message(s, expectTag[s], h.firstMsgSize))
      BY <3>1
    <3> QED
      BY <2>2, <3>1, <3>2 DEF NextTag
  <2> QED
    BY <2>1, <2>2
\* The other holders and the other sockets.
<1>7. ASSUME NEW i \in 1 .. Len(holders), i # c, InFrame(holders'[i])
      PROVE  Settled(i)'
  <2>1. holders'[i] = holders[i]
    BY <1>2, <1>7
  <2>2. Settled(i)
    BY <1>1, <1>3, <1>7, <2>1 DEF StateInv, HoldersInFrame
  <2> QED
    BY <1>4, <1>5, <2>1, <2>2, SettledKept
<1>8. ASSUME NEW u \in Sockets, u # s, u \notin astray
      PROVE  HeadTag(u)' = expectTag'[u]
  <2>1. HeadTag(u) = expectTag[u]
    BY <1>1, <1>8 DEF StateInv, TagsInStep
  <2>2. expectTag'[u] = expectTag[u]
    BY <1>2, <1>3, <1>6, <1>8
  <2> QED
    BY <1>5, <2>1, <2>2, HeadKept
\* The holder of the call.
<1>9. InFrame(h) => InCall(c, s)
  BY <1>1, <1>2, <1>3 DEF StateInv, HoldersInFrame
<1>10. s \notin astray => InFrame(h)
  BY <1>1, <1>2, <1>3 DEF StateInv, TagsInStep
<1>11. InFrame(holders'[c]) <=> InFrame(h)
  BY <1>1, <1>2 DEF InFrame
<1>12. SUFFICES
         ASSUME InFrame(h)
         PROVE  /\ IF DataStep(h).again THEN InCall(c, s)' ELSE Settled(c)'
                /\ s \notin astray /\ ~DataStep(h).again => HeadTag(s)' = expectTag'[s]
                /\ Complete(h) /\ s \notin astray =>
                      Copied(h) = Message(s, expectTag[s], h.firstMsgSize)
  <2>1. HoldersInFrame'
    <3>1. CASE DataStep(h).again
      <4>1. call'.holder = c /\ call'.sock = s /\ call' # NoCall
        BY <1>1, <1>3, <3>1
      <4>2. InFrame(holders'[c]) => InCall(c, call.sock)'
        BY <1>11, <1>12, <3>1, <4>1 DEF InCall, AfterOne, AfterTwo
      <4> QED
        BY <1>3, <1>7, <4>1, <4>2 DEF HoldersInFrame
    <3>2. CASE ~DataStep(h).again
      <4>1. call' = NoCall
        BY <1>3, <3>2
      <4>2. \A i \in 1 .. Len(holders) : InFrame(holders'[i]) => Settled(i)'
        BY <1>7, <1>11, <1>12, <3>2
      <4> QED
        BY <1>3, <4>1, <4>2 DEF HoldersInFrame
    <3> QED
      BY <3>1, <3>2
  <2>2. TagsInStep'
    <3> SUFFICES ASSUME NEW u \in Sockets, u \notin astray'
                 PROVE  IF call' # NoCall /\ call'.sock = u
                        THEN InFrame(holders'[call'.holder])
                        ELSE HeadTag(u)' = expectTag'[u]
      BY DEF TagsInStep
    <3>1. CASE u # s
      BY <1>1, <1>3, <1>8, <3>1
    <3>2. CASE u = s
      BY <1>1, <1>3, <1>10, <1>11, <1>12, <3>2
    <3> QED
      BY <3>1, <3>2
  <2>3. Streams'
    BY <1>3 DEF StateInv, Streams
  <2>4. IntactWhenInFrame'
    BY <1>6, <1>12 DEF StateInv, IntactWhenInFrame
  <2> QED
    BY <2>1, <2>2, <2>3, <2>4 DEF StateInv
<1>13. PICK t \in 0 .. (Tags - 1), l \in Lens :
          AfterOne(c, s, t, l) \/ \E m \in Lens : AfterTwo(c, s, t, l, m)
  BY <1>9, <1>12 DEF InCall
<1>14. Complete(h) /\ s \notin astray /\ expectTag[s] = t => expectTag'[s] = NextTag(t)
  BY <1>2, <1>3, <1>6
<1>15. rs \in Nat /\ rs > 0 /\ NextTag(t) \in 0 .. (Tags - 1)
  BY <1>2, NextTagType
<1>16. CASE AfterOne(c, s, t, l)
  <2>1. /\ OneStored(h, s, t, l, call.rs) /\ MayUse(c, s)'
        /\ Follows(s, t, l, h.firstMsgSizeUsed)
        /\ s \notin astray => expectTag[s] = t
    BY <1>1, <1>2, <1>4, <1>16 DEF AfterOne
  <2>2. /\ ~DataStep(h).again
        /\ h.firstMsgSizeUsed < l =>
             /\ ~Complete(h)
             /\ Partial(g, s, t, l) /\ g.firstMsgSizeUsed = h.firstMsgSizeUsed
        /\ h.firstMsgSizeUsed = l =>
             /\ Complete(h) /\ h.firstMsgSize = l
             /\ Copied(h) = Message(s, t, l)
             /\ Idle(g)
    BY <1>1, <1>2, <1>15, <2>1, DataOne
  <2>3. h.firstMsgSizeUsed < l \/ h.firstMsgSizeUsed = l
    <3>1. h.firstMsgSizeUsed \in 1 .. l
      BY <2>1 DEF OneStored, Assembled
    <3> QED
      BY <3>1, Lengths
  <2>4. CASE h.firstMsgSizeUsed < l
    <3>1. /\ Partial(holders'[c], s, t, l)
          /\ holders'[c].firstMsgSizeUsed = h.firstMsgSizeUsed
      BY <1>1, <2>2, <2>4
    <3>2. wire[s] # <<>> /\ wire[s][1] = Byte(s, t, l, h.firstMsgSizeUsed + 1)
      BY <2>1, <2>4 DEF Follows
    <3>3. Between(c, s, t, l)'
      <4>1. wire'[s] # <<>> /\ wire'[s][1] = Byte(s, t, l, holders'[c].firstMsgSizeUsed + 1)
            /\ holders'[c].firstMsgSizeUsed < l
        BY <1>3, <2>4, <3>1, <3>2
      <4> QED
        BY <2>1, <3>1, <4>1 DEF Between, Follows
    <3>4. s \notin astray => HeadTag(s)' = expectTag'[s]
      <4>1. wire[s][1].tag = t /\ expectTag' = expectTag
        BY <1>6, <2>2, <2>4, <3>2, SameByte
      <4> QED
        BY <1>3, <2>1, <3>2, <4>1 DEF HeadTag
    <3> QED
      BY <1>2, <2>2, <2>4, <3>3, <3>4, <1>13 DEF Settled
  <2>5. CASE h.firstMsgSizeUsed = l
    <3>1. Settled(c)'
      <4>1. Idle(holders'[c])
        BY <1>1, <2>2, <2>5
      <4> QED
        BY <4>1 DEF Settled, Idle
    <3>2. s \notin astray => HeadTag(s)' = expectTag'[s]
      <4>1. HeadTag(s) = NextTag(t)
        BY <2>1, <2>5, Lengths DEF Follows
      <4> QED
        BY <1>3, <1>14, <2>1, <2>2, <2>5, <4>1 DEF HeadTag
    <3> QED
      BY <2>1, <2>2, <2>5, <3>1, <3>2
  <2> QED
    BY <2>3, <2>4, <2>5
<1>17. CASE \E m \in Lens : AfterTwo(c, s, t, l, m)
  <2>1. PICK m \in Lens : AfterTwo(c, s, t, l, m)
    BY <1>17
  <2>2. /\ TwoStored(h, s, t, l, m, call.rs) /\ MayUse(c, s)'
        /\ Follows(s, NextTag(t), m, m)
        /\ s \notin astray => expectTag[s] = t
    BY <1>1, <1>2, <1>4, <2>1 DEF AfterTwo
  <2>3. /\ DataStep(h).again /\ Complete(h) /\ h.firstMsgSize = l
        /\ Copied(h) = Message(s, t, l)
        /\ OneStored(g, s, NextTag(t), m, call.rs) /\ g.firstMsgSizeUsed = m
    BY <1>1, <1>2, <1>15, <2>2, DataTwo
  <2>4. AfterOne(c, s, NextTag(t), m)'
    <3>1. /\ OneStored(holders'[c], s, NextTag(t), m, call'.rs)
          /\ holders'[c].firstMsgSizeUsed = m
      BY <1>1, <1>3, <2>3
    <3>2. Follows(s, NextTag(t), m, holders[c].firstMsgSizeUsed)'
      BY <1>3, <2>2, <3>1 DEF Follows, AtStart, HeadTag
    <3>3. s \notin astray' => expectTag'[s] = NextTag(t)
      BY <1>3, <1>14, <2>2, <2>3
    <3> QED
      BY <2>2, <3>1, <3>2, <3>3 DEF AfterOne
  <2>5. InCall(c, s)'
    BY <1>15, <2>1, <2>4 DEF InCall
  <2> QED
    BY <2>2, <2>3, <2>5
<1> QED
  BY <1>13, <1>16, <1>17

\* Init satisfies the invariant.
LEMMA InitState == Init => StateInv
<1> SUFFICES ASSUME Init PROVE StateInv
  OBVIOUS
<1>1. Streams
  BY NoStream DEF Init, Streams
<1>2. HoldersInFrame
  BY DEF Init, HoldersInFrame
<1>3. TagsInStep
  BY DEF Init, TagsInStep, HeadTag
<1>4. IntactWhenInFrame
  BY DEF Init, IntactWhenInFrame
<1> QED
  BY <1>1, <1>2, <1>3, <1>4 DEF StateInv

\* Every action keeps it.
LEMMA StateKept == TypeInv /\ StateInv /\ [Next]_vars => StateInv'
<1> SUFFICES ASSUME TypeInv, StateInv, [Next]_vars PROVE StateInv'
  OBVIOUS
\* Steps outside of the program leave what is received next alone.
<1>1. ASSUME UNCHANGED <<wire, sendTag, holders, call, astray, expectTag, last>>
      PROVE  StateInv'
  <2>1. Streams' /\ \A s \in Sockets : SameHead(s)
    BY <1>1 DEF StateInv, Streams, SameHead
  <2> QED
    BY <1>1, <2>1, SendersKeep
<1>2. ASSUME NEW s \in Sockets, Connect(s) \/ PeerClose(s) \/ RecvOutside(s)
      PROVE  StateInv'
  BY <1>1, <1>2 DEF Connect, PeerClose, RecvOutside
<1>3. ASSUME NEW s \in Sockets, NEW l \in Lens, PeerSend(s, l)
      PROVE  StateInv'
  <2>1. PICK w, n, v : /\ w = wire[s] /\ n = sendTag[s]
                       /\ v = w \o Message(s, n, l)
    OBVIOUS
  <2>2. /\ w \in Seq(Bytes) /\ n \in 0 .. (Tags - 1) /\ Messages(s, w, n)
        /\ wire \in [Sockets -> Seq(Bytes)] /\ sendTag \in [Sockets -> 0 .. (Tags - 1)]
    BY <2>1 DEF TypeInv, TypeOK, StateInv, Streams
  <2>3. wire' = [wire EXCEPT ![s] = v] /\ sendTag' = [sendTag EXCEPT ![s] = NextTag(n)]
    BY <1>3, <2>1, <2>2 DEF PeerSend, NextTag
  <2>4. /\ v \in Seq(Bytes) /\ Len(v) = Len(w) + l
        /\ \A j \in 1 .. Len(w) : v[j] = w[j]
        /\ \A j \in 1 .. Len(v) : j > Len(w) => v[j] = Byte(s, n, l, j - Len(w))
    <3>1. PICK x : x = Message(s, n, l)
      OBVIOUS
    <3>2. x \in Seq(Bytes) /\ Len(x) = l /\ \A k \in 1 .. l : x[k] = Byte(s, n, l, k)
      BY <2>2, <3>1, MessageType
    <3>3. /\ v = w \o x /\ v \in Seq(Bytes) /\ Len(v) = Len(w) + l
          /\ \A j \in 1 .. Len(w) : v[j] = w[j]
          /\ \A j \in 1 .. Len(v) : j > Len(w) =>
                v[j] = x[j - Len(w)] /\ j - Len(w) \in 1 .. l
      BY <2>1, <2>2, <3>1, <3>2, Lengths
    <3> QED
      BY <3>2, <3>3
  <2>5. /\ Messages(s, v, NextTag(n)) /\ v # <<>>
        /\ w # <<>> => v[1] = w[1]
        /\ w = <<>> => v[1].pos = 1 /\ v[1].tag = n
    <3>1. /\ w \in Seq(Bytes) /\ n \in 0 .. (Tags - 1) /\ Messages(s, w, n)
          /\ v \in Seq(Bytes) /\ Len(v) = Len(w) + l
      BY <2>2, <2>4
    <3>2. \A j \in 1 .. Len(w) : v[j] = w[j]
      BY <2>4
    <3>3. \A j \in 1 .. Len(v) : j > Len(w) => v[j] = Byte(s, n, l, j - Len(w))
      BY <2>4
    <3> QED
      BY <3>1, <3>2, <3>3, SendStream
  <2>6. SameHead(s)
    BY <2>1, <2>2, <2>3, <2>5 DEF SameHead
  <2>7. \A u \in Sockets : u # s => wire'[u] = wire[u] /\ sendTag'[u] = sendTag[u]
    BY <2>2, <2>3
  <2>8. \A u \in Sockets : SameHead(u)
    BY <2>6, <2>7 DEF SameHead
  <2>9. Streams'
    BY <2>2, <2>3, <2>5, <2>7 DEF StateInv, Streams
  <2>10. UNCHANGED <<holders, call, astray, expectTag, last>>
    BY <1>3 DEF PeerSend
  <2> QED
    BY <2>8, <2>9, <2>10, SendersKeep
\* The end of a connection.
<1>4. ASSUME NEW s \in Sockets, LocalClose(s)
      PROVE  StateInv'
  BY <1>4, EndsKeep DEF LocalClose
<1>5. ASSUME NEW s \in Sockets, RecvEnd(s)
      PROVE  StateInv'
  <2>1. PICK c, h : c = HolderIndex(s) /\ h = HoldersWith(s)[c]
    OBVIOUS
  <2>2. /\ holders' \in Seq(Holder) /\ Len(holders') = Len(HoldersWith(s))
        /\ \A i \in 1 .. Len(holders') :
              i # HolderIndex(s) => holders'[i] = HoldersWith(s)[i]
        /\ holders'[c] = resetRecvHolder(h, Free) /\ h \in Holder
        /\ holders'[HolderIndex(s)].socket = Free
    BY <1>5, <2>1, EndTypes
  <2>3. Idle(resetRecvHolder(h, Free))
    BY <2>2, Lengths DEF resetRecvHolder, Idle, Holder
  <2>4. Idle(holders'[HolderIndex(s)])
    BY <2>1, <2>2, <2>3
  <2>5. call = NoCall /\ call' = call /\ last' = last /\ Disconnected(s)
    BY <1>5 DEF RecvEnd
  <2> QED
    BY <2>2, <2>4, <2>5, EndsKeep
<1>6. ASSUME NEW s \in Sockets, RecvNothing(s)
      PROVE  StateInv'
  <2>1. /\ call = NoCall /\ call' = call /\ last' = last /\ holders' = HoldersWith(s)
        /\ UNCHANGED <<wire, sendTag, expectTag, astray>>
    BY <1>6 DEF RecvNothing
  <2>2. CASE HolderIndex(s) \in DOMAIN holders
    <3>1. holders' = holders
      BY <2>1, <2>2 DEF HoldersWith
    <3> QED
      BY <2>1, <3>1, EndsKeep
  <2>3. CASE HolderIndex(s) \notin DOMAIN holders
    <3>1. PICK c : c = HolderIndex(s)
      OBVIOUS
    <3>2. /\ holders' \in Seq(Holder)
          /\ holders'[c] = initRecvHolder(s)
      <4>1. DOMAIN holders = 1 .. Len(holders)
        BY DEF TypeInv, TypeOK
      <4> QED
        BY <2>1, <2>3, <3>1, <4>1, WithHolder
    <3>3. Idle(initRecvHolder(s))
      BY Lengths DEF initRecvHolder, Idle
    <3>4. Idle(holders'[HolderIndex(s)])
      BY <3>1, <3>2, <3>3
    <3> QED
      BY <2>1, <3>2, <3>4, EndsKeep
  <2> QED
    BY <2>2, <2>3
\* recvAll.
<1>7. ASSUME NEW s \in Sockets, NEW rs \in 1 .. BufSize, Recv(s, rs)
      PROVE  StateInv'
  BY <1>7, RecvKeeps
<1>8. CASE handleMsgData
  BY <1>8, DataKeeps
<1>9. CASE Restart
  <2>1. Streams'
    BY <1>9, NoStream DEF Restart, Streams
  <2>2. HoldersInFrame'
    BY <1>9 DEF Restart, HoldersInFrame
  <2>3. TagsInStep'
    BY <1>9 DEF Restart, TagsInStep, HeadTag
  <2>4. IntactWhenInFrame'
    BY <1>9 DEF Restart, StateInv, IntactWhenInFrame
  <2> QED
    BY <2>1, <2>2, <2>3, <2>4 DEF StateInv
<1>10. CASE UNCHANGED vars
  BY <1>1, <1>10 DEF vars
<1> QED
  BY <1>2, <1>3, <1>4, <1>5, <1>6, <1>7, <1>8, <1>9, <1>10 DEF Next

-----------------------------------------------------------------------------
(***************************************************************************)
(* Theorems.                                                               *)
(***************************************************************************)

\* Reassembly is correct (recvAll, handleMsgLen, handleMsgData): streams consist of
\* whole messages, a holder in frame has exactly the bytes of its message that have
\* arrived, and messages are delivered in the order of their tags.
THEOREM RecvAllCorrect == Spec => []RecvInv
<1>1. Init => TypeInv /\ StateInv
  BY InitTypes, InitState
<1>2. TypeInv /\ StateInv /\ [Next]_vars => (TypeInv /\ StateInv)'
  BY TypesKept, StateKept
<1>3. TypeInv /\ StateInv => RecvInv
  BY DEF StateInv, RecvInv
<1> QED
  BY <1>1, <1>2, <1>3, PTL DEF Spec

\* A message delivered by handleMsgData from a holder in frame is the one sent, byte
\* for byte, and none is lost, repeated or out of turn, for every split of the stream
\* and every position in the ring buffer.
THEOREM ReassemblyIntact == Spec => []IntactWhenInFrame
<1>1. RecvInv => IntactWhenInFrame
  BY DEF RecvInv
<1> QED
  BY RecvAllCorrect, <1>1, PTL

\* circulateBuffer keeps the write position of a holder in frame in its buffer, where
\* the message being assembled goes on.
THEOREM BoundsKept == Spec => []InFrameInBounds
<1>1. RecvInv => InFrameInBounds
  <2> SUFFICES ASSUME RecvInv, NEW i \in DOMAIN holders, InFrame(holders[i]), call = NoCall,
                      NEW h, h = holders[i]
               PROVE  /\ h.sizeUsed < BufSize
                      /\ h.firstMsgPtr < BufSize
                      /\ h.firstMsgSizeUsed > 0 =>
                           (h.firstMsgPtr + h.firstMsgSizeUsed) % BufSize = h.sizeUsed
    BY DEF InFrameInBounds
  <2>1. h \in Holder /\ Settled(i)
    BY DEF RecvInv, TypeInv, TypeOK, HoldersInFrame
  <2>2. CASE Idle(h)
    BY <2>2, Lengths DEF Idle, NoPtr
  <2>3. CASE ~Idle(h)
    <3>1. PICK s \in Sockets, t \in 0 .. (Tags - 1), l \in Lens : Partial(h, s, t, l)
      BY <2>1, <2>3 DEF Settled, Between
    <3>2. PICK p, u, w : p = h.firstMsgPtr /\ u = h.firstMsgSizeUsed /\ w = h.sizeUsed
      OBVIOUS
    <3>3. /\ p \in Nat /\ p + HeaderLen <= BufSize
          /\ u \in Nat /\ u < l /\ w \in Nat /\ w = At(p, u)
      BY <2>1, <3>1, <3>2 DEF Partial, Assembled, Holder
    <3>4. p < BufSize /\ u < BufSize
      BY <3>3, Lengths
    <3>5. (p + u) % BufSize = w
      <4>1. p \in Nat /\ p < BufSize /\ u \in Nat /\ u <= BufSize /\ w = At(p, u)
        BY <3>3, <3>4, Lengths
      <4> QED
        BY <4>1, Wrapped
    <3>6. w < BufSize
      BY <3>3, <3>4, Lengths DEF At
    <3> QED
      BY <3>2, <3>4, <3>5, <3>6
  <2> QED
    BY <2>2, <2>3
<1> QED
  BY RecvAllCorrect, <1>1, PTL

\* When everything sent on a socket has been received, all its messages have been
\* delivered, as long as its holder was in frame: recvAll holds none back until more
\* bytes arrive.
THEOREM NothingHeld == Spec => []NothingHeldBack
<1>1. RecvInv => NothingHeldBack
  <2> SUFFICES ASSUME RecvInv, call = NoCall, NEW s \in open \ astray, wire[s] = <<>>
               PROVE  expectTag[s] = sendTag[s]
    BY DEF NothingHeldBack
  <2>1. s \in Sockets \ astray
    BY DEF RecvInv, TypeInv, TypeOK
  <2> QED
    BY <2>1 DEF RecvInv, TagsInStep, HeadTag
<1> QED
  BY RecvAllCorrect, <1>1, PTL
=============================================================================
