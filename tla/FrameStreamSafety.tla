--------------------------- MODULE FrameStreamSafety ---------------------------
(***************************************************************************)
(* Bytes and frames of one descriptor number, for all values of the        *)
(* constants of FrameStream but two: clients wait until a move is over,    *)
(* and no connection but the last to get the number switches.  Then        *)
(* nothing a client sends is lost, mixed up, read twice or left behind,    *)
(* whatever pieces recv returns and whoever has the number.                *)
(*                                                                         *)
(* The argument.  Two servers deal with the number only while there is     *)
(* nothing to read (OverlapInv): a client that has sent a join is silent   *)
(* until it is answered (SilentInv), so that the join is the last of its   *)
(* frames, and once it is handled all buffers and both directions of the   *)
(* network are empty.  While there is something to read, one server has    *)
(* all of it, and the frames handed on, the bytes in its buffer, in the    *)
(* socket and under way are what the client has sent (StreamInv); so each  *)
(* header is read where a frame begins.                                    *)
(***************************************************************************)
EXTENDS FrameStream, SequenceFacts, FiniteSetTheorems

\* No connection but the last one switches, and clients wait for a move to be over.
LastSwitches == Awaits = "move" /\ \A x \in Conns : x < Count => Moves[x] <= 1

\* The last connection has had its turn, or has it.
LastTurn == peer[Count] # "new"

\* The servers that deal with the number.
Dealing == watch \cup condemned \cup taking \cup dropping

\* The servers that are to have the number.
Keepers == (watch \ dropping) \cup taking

\* No byte and no frame is anywhere.
Quiet ==
    /\ \A s \in Servers : rbuf[s] = <<>> /\ batch[s] = <<>>
    /\ \A x \in Conns : rx[x] = <<>> /\ net[x] = <<>>

\* The connections come one after the other, and each is new when its turn comes.
PeerInv ==
    /\ \A x \in Conns : x = holder <=> peer[x] \in {"up", "closed", "reset"}
    /\ \A x \in Conns : peer[x] \notin {"up", "closed"} => rx[x] = <<>> /\ net[x] = <<>>
    /\ \A x \in Conns : peer[x] = "new" =>
           sent[x] = <<>> /\ answered[x] = 0 /\ handled[x] = <<>> /\ ended[x] = "no"
    /\ \A x, y \in Conns : y < x /\ peer[x] # "new" => peer[y] = "over"

\* Where the number is known, and bytes and frames with it.
PlaceInv ==
    /\ holder = NoConn => watch = {} /\ Quiet
    /\ \A s \in Servers :
           /\ rbuf[s] # <<>> => s \in watch
           /\ batch[s] # <<>> => s \in watch /\ pc[s] \in {"parse", "frames"}
           /\ pc[s] \in {"recv", "parse"} /\ (holder # NoConn \/ s = Lobby) => s \in watch
           /\ pc[s] # "wait" => s \notin condemned

\* Before the last connection nothing of an earlier one is left behind.
EarlyInv ==
    /\ dropping # {} => LastTurn
    /\ holder = NoConn /\ ~LastTurn => taking = {} /\ condemned = {}
    /\ ~LastTurn => \A c \in Channels : pc[c] # "wait" => c \in watch

\* Who has the number besides: two servers deal with it only while nothing is
\* to be read.
OverlapInv ==
    /\ Lobby \in condemned => Lobby \in watch
    /\ Lobby \in watch => Dealing = {Lobby}
    /\ \A s, t \in Keepers : s = t
    /\ taking # {} \/ dropping # {} => Quiet
    /\ holder # NoConn => taking \cap (watch \cup condemned) = {}
    /\ holder # NoConn => \A s, t \in Dealing : s # t =>
           Quiet /\ LastTurn /\ (condemned # {} => peer[holder] # "up")

\* The frame k of the holder is a join that has not been handed on.
Pending(k) ==
    /\ sent[holder][k].move
    /\ \A i \in DOMAIN handled[holder] : handled[holder][i] # [con |-> holder, frame |-> k]

\* A client that has sent a join is silent until it has been answered.
SilentInv == holder # NoConn =>
    /\ MovesOf(holder) \in {answered[holder], answered[holder] + 1}
    /\ MovesOf(holder) <= Moves[holder]
    /\ taking # {} => MovesOf(holder) = answered[holder] + 1
    /\ watch \cap Channels # {} => answered[holder] > 0
    /\ \A k \in DOMAIN sent[holder] : Pending(k) =>
           /\ k = Len(sent[holder]) /\ MovesOf(holder) = answered[holder] + 1
           /\ taking = {}

\* The bytes on their way to the server.
Coming == rx[holder] \o net[holder]

\* k frames of the holder have been taken out of the bytes.
Taken(k) ==
    /\ Joins(handled[holder], InHand(batch), FramesOf(holder, k))
    /\ StartsWith(BytesAfter(holder, k), InHand(rbuf))
    /\ peer[holder] # "reset" => Joins(InHand(rbuf), Coming, BytesAfter(holder, k))

StreamInv == holder # NoConn /\ condemned = {} =>
    \E k \in 0..Len(sent[holder]) : Taken(k)

EndInv == holder # NoConn => (ended[holder] = "no" <=> condemned = {})

\* Server s has looked at what is in its buffer and has read nothing since.
Looked(s) == pc[s] \in {"wait", "frames"} \/ (pc[s] = "recv" /\ ~filled[s])

WaitInv == \A s \in Servers :
    Looked(s) /\ s \notin condemned /\ Len(rbuf[s]) >= HeaderSize =>
        \A n \in HeaderValues(rbuf[s]) : Len(rbuf[s]) < HeaderSize + n

FrameInv ==
    TypeOK /\ PeerInv /\ PlaceInv /\ EarlyInv /\ OverlapInv /\ SilentInv
    /\ StreamInv /\ EndInv /\ WaitInv /\ BadIsBad

-----------------------------------------------------------------------------
(* What the operators of FrameStream compute.                              *)

\* Where sequences of bytes are joined makes no difference.
LEMMA BytesAssociate ==
    \A p, q, r \in Seq(Bytes) : (p \o q) \o r = p \o (q \o r)
<1>1. ASSUME NEW p \in Seq(Bytes), NEW q \in Seq(Bytes), NEW r \in Seq(Bytes)
      PROVE  (p \o q) \o r = p \o (q \o r)
  BY ConcatAssociative
<1> QED BY <1>1, Zenon

\* What the assumption says of the sizes.
LEMMA Sizes == /\ HeaderSize \in Nat /\ HeaderSize > 0 /\ MaxFrame \in Nat /\ MaxFrame > 0
               /\ Count \in Nat /\ Count > 0 /\ BufSize \in Nat /\ BufSize > 0
               /\ Lengths \subseteq Nat /\ \A l \in Lengths : l <= MaxFrame + 1
               /\ Conns \subseteq Nat /\ NoConn \notin Conns
  BY FrameAssumption DEF Conns, NoConn

\* The bytes of one frame.
LEMMA BytesOfOne ==
    ASSUME NEW x \in Conns, NEW k \in Nat \ {0}, NEW f, f.len \in Lengths
    PROVE  /\ BytesOf(x, k, f) \in Seq(Bytes)
           /\ Len(BytesOf(x, k, f)) = HeaderSize + f.len
           /\ \A i \in 1..(HeaderSize + f.len) :
                  BytesOf(x, k, f)[i] = [con |-> x, frame |-> k, at |-> i]
<1>1. f.len \in Nat /\ f.len <= MaxFrame + 1 /\ HeaderSize \in Nat /\ MaxFrame \in Nat
  BY Sizes
<1>2. \A i \in 1..(HeaderSize + f.len) : i \in 1..(HeaderSize + MaxFrame + 1)
  BY <1>1
<1>3. \A i \in 1..(HeaderSize + f.len) : [con |-> x, frame |-> k, at |-> i] \in Bytes
  BY <1>2 DEF Bytes
<1>4. HeaderSize + f.len \in Nat
  BY <1>1
<1>5. BytesOf(x, k, f) \in [1..(HeaderSize + f.len) -> Bytes]
  BY <1>3 DEF BytesOf
<1> QED BY <1>4, <1>5, SeqOfFun DEF BytesOf

LEMMA BytesLength ==
    \A x \in Conns, k \in Nat \ {0} : \A f :
        f.len \in Lengths => Len(BytesOf(x, k, f)) = HeaderSize + f.len
  BY BytesOfOne

\* A frame that has been sent.
LEMMA SentFrame ==
    ASSUME sent \in [Conns -> Seq(Frames)], NEW x \in Conns, NEW i \in 1..Len(sent[x])
    PROVE  /\ sent[x][i] \in Frames /\ sent[x][i].len \in Lengths
           /\ sent[x][i].len \in Nat
<1>1. sent[x] \in Seq(Frames)
  OBVIOUS
<1>2. sent[x][i] \in Frames
  BY <1>1, ElementOfSeq
<1> QED BY <1>2, Sizes DEF Frames

\* The frames of x after the k-th, each as bytes.
Pieces(x, k) == [i \in 1..(Len(sent[x]) - k) |-> BytesOf(x, k + i, sent[x][k + i])]

LEMMA PiecesType ==
    ASSUME sent \in [Conns -> Seq(Frames)], NEW x \in Conns, NEW k \in 0..Len(sent[x])
    PROVE  /\ Pieces(x, k) \in Seq(Seq(Bytes))
           /\ Len(Pieces(x, k)) = Len(sent[x]) - k
           /\ Len(sent[x]) \in Nat
<1>1. sent[x] \in Seq(Frames) /\ Len(sent[x]) \in Nat
  OBVIOUS
<1>2. \A i \in 1..(Len(sent[x]) - k) :
          k + i \in Nat \ {0} /\ k + i \in 1..Len(sent[x])
  BY <1>1
<1>3. \A i \in 1..(Len(sent[x]) - k) : sent[x][k + i].len \in Lengths
  BY <1>2, SentFrame
<1>4. \A i \in 1..(Len(sent[x]) - k) : BytesOf(x, k + i, sent[x][k + i]) \in Seq(Bytes)
  BY <1>2, <1>3, BytesOfOne
<1>5. Pieces(x, k) \in [1..(Len(sent[x]) - k) -> Seq(Bytes)]
  BY <1>4 DEF Pieces
<1>6. Len(sent[x]) - k \in Nat
  BY <1>1
<1> HIDE DEF Pieces
<1>7. Pieces(x, k) \in Seq(Seq(Bytes)) /\ Len(Pieces(x, k)) = Len(sent[x]) - k
  BY <1>5, <1>6, SeqOfFun
<1> QED BY <1>1, <1>7

\* BytesAfter is a sequence of bytes, empty after the last frame, and one frame
\* longer before each.
LEMMA AfterType ==
    ASSUME sent \in [Conns -> Seq(Frames)], NEW x \in Conns, NEW k \in 0..Len(sent[x])
    PROVE  BytesAfter(x, k) \in Seq(Bytes)
  BY PiecesType, FlattenType DEF BytesAfter, Pieces

LEMMA AfterEnd ==
    ASSUME sent \in [Conns -> Seq(Frames)], NEW x \in Conns
    PROVE  BytesAfter(x, Len(sent[x])) = <<>>
<1>1. Len(sent[x]) \in 0..Len(sent[x])
  BY LenProperties
<1>2. Pieces(x, Len(sent[x])) = <<>>
  BY <1>1, PiecesType, EmptySeq
<1> QED BY <1>2, FlattenEmpty DEF BytesAfter, Pieces

LEMMA AfterStep ==
    ASSUME sent \in [Conns -> Seq(Frames)], NEW x \in Conns, NEW k \in 0..(Len(sent[x]) - 1)
    PROVE  /\ BytesAfter(x, k) = BytesOf(x, k + 1, sent[x][k + 1]) \o BytesAfter(x, k + 1)
           /\ BytesOf(x, k + 1, sent[x][k + 1]) \in Seq(Bytes)
           /\ k + 1 \in 1..Len(sent[x])
<1>1. sent[x] \in Seq(Frames) /\ Len(sent[x]) \in Nat
  OBVIOUS
<1>2. k \in 0..Len(sent[x]) /\ k + 1 \in 0..Len(sent[x]) /\ k + 1 \in 1..Len(sent[x])
  BY <1>1
<1>3. sent[x][k + 1].len \in Lengths
  BY <1>2, SentFrame
<1> DEFINE e == BytesOf(x, k + 1, sent[x][k + 1])
<1>4. e \in Seq(Bytes)
  <2>1. k + 1 \in Nat \ {0}
    BY <1>1
  <2> QED BY <2>1, <1>3, BytesOfOne
<1>5. Pieces(x, k) = <<e>> \o Pieces(x, k + 1)
  <2>1. /\ Pieces(x, k) \in Seq(Seq(Bytes)) /\ Len(Pieces(x, k)) = Len(sent[x]) - k
        /\ Pieces(x, k + 1) \in Seq(Seq(Bytes)) /\ Len(Pieces(x, k + 1)) = Len(sent[x]) - (k + 1)
    BY <1>2, PiecesType
  <2>2. Len(Pieces(x, k)) = Len(Pieces(x, k + 1)) + 1
    <3>1. \A n \in Nat : n - k = (n - (k + 1)) + 1
      OBVIOUS
    <3> QED BY <1>1, <2>1, <3>1
  <2>3. Pieces(x, k)[1] = e
    BY <1>2 DEF Pieces
  <2>4. ASSUME NEW i \in 1..Len(Pieces(x, k + 1))
        PROVE  Pieces(x, k)[i + 1] = Pieces(x, k + 1)[i]
    <3>1. /\ i \in 1..(Len(sent[x]) - (k + 1)) /\ (k + 1) + i = k + (i + 1)
          /\ i + 1 \in 1..(Len(sent[x]) - k)
      BY <1>1, <2>1
    <3>2. Pieces(x, k)[i + 1] = BytesOf(x, k + (i + 1), sent[x][k + (i + 1)])
      BY <3>1 DEF Pieces
    <3>3. Pieces(x, k + 1)[i] = BytesOf(x, (k + 1) + i, sent[x][(k + 1) + i])
      BY <3>1 DEF Pieces
    <3> QED BY <3>1, <3>2, <3>3
  <2>5. PICK p, q \in Seq(Seq(Bytes)) : p = Pieces(x, k) /\ q = Pieces(x, k + 1)
    BY <2>1
  <2> HIDE DEF e
  <2>6. Len(p) = Len(q) + 1 /\ p[1] = e /\ \A i \in 1..Len(q) : p[i + 1] = q[i]
    BY <2>2, <2>3, <2>4, <2>5
  <2>7. p = <<e>> \o q
    BY <1>4, <2>6, ConsIs
  <2> QED BY <2>5, <2>7
<1>6. Pieces(x, k + 1) \in Seq(Seq(Bytes))
  BY <1>2, PiecesType
<1>7. FlattenSeq(Pieces(x, k)) = e \o FlattenSeq(Pieces(x, k + 1))
  BY <1>4, <1>5, <1>6, FlattenCons
<1> QED BY <1>2, <1>4, <1>7 DEF BytesAfter, Pieces

\* A frame that is sent adds its bytes at the end.
LEMMA AfterSend ==
    ASSUME sent \in [Conns -> Seq(Frames)], NEW x \in Conns, NEW k \in 0..Len(sent[x]),
           NEW f \in Frames, sent' = [sent EXCEPT ![x] = Append(@, f)]
    PROVE  BytesAfter(x, k)' = BytesAfter(x, k) \o BytesOf(x, Len(sent[x]) + 1, f)
<1> DEFINE n == Len(sent[x])
           e == BytesOf(x, n + 1, f)
<1>1. /\ sent[x] \in Seq(Frames) /\ n \in Nat
      /\ sent'[x] = Append(sent[x], f) /\ Len(sent'[x]) = n + 1
      /\ \A i \in 1..n : sent'[x][i] = sent[x][i]
      /\ sent'[x][n + 1] = f
  <2>1. sent[x] \in Seq(Frames)
    OBVIOUS
  <2>2. sent'[x] = Append(sent[x], f)
    OBVIOUS
  <2> QED BY <2>1, <2>2, AppendProperties, LenProperties
<1>2. e \in Seq(Bytes)
  <2>1. f.len \in Lengths /\ n + 1 \in Nat \ {0}
    BY <1>1 DEF Frames
  <2> QED BY <2>1, BytesOfOne
<1>3. Pieces(x, k) \in Seq(Seq(Bytes)) /\ Len(Pieces(x, k)) = n - k
  BY PiecesType
<1>4. Pieces(x, k)' = Append(Pieces(x, k), e)
  <2>1. Pieces(x, k)' = [i \in 1..((n + 1) - k) |-> BytesOf(x, k + i, sent'[x][k + i])]
    BY <1>1 DEF Pieces
  <2>2. ASSUME NEW i \in 1..(n - k) PROVE Pieces(x, k)'[i] = Pieces(x, k)[i]
    <3>1. i \in 1..((n + 1) - k) /\ k + i \in 1..n
      BY <1>1
    <3>2. Pieces(x, k)[i] = BytesOf(x, k + i, sent[x][k + i])
      BY DEF Pieces
    <3> QED BY <1>1, <2>1, <3>1, <3>2
  <2>3. Pieces(x, k)'[(n - k) + 1] = e
    <3>1. (n - k) + 1 \in 1..((n + 1) - k) /\ k + ((n - k) + 1) = n + 1
      BY <1>1
    <3> QED BY <1>1, <2>1, <3>1
  <2>4. Pieces(x, k)' \in Seq(Seq(Bytes)) /\ Len(Pieces(x, k)') = (n - k) + 1
    <3>1. (n + 1) - k \in Nat /\ (n + 1) - k = (n - k) + 1
      BY <1>1
    <3>2. ASSUME NEW i \in 1..((n + 1) - k)
          PROVE  Pieces(x, k)'[i] \in Seq(Bytes)
      <4>1. i \in 1..(n - k) \/ i = (n - k) + 1
        <5>1. n \in Nat /\ k \in Nat
          BY <1>1
        <5> HIDE DEF n
        <5> QED BY <5>1
      <4>2. i \in 1..(n - k) => Pieces(x, k)[i] \in Seq(Bytes)
        BY <1>3, ElementOfSeq
      <4> QED BY <1>2, <2>2, <2>3, <4>1, <4>2
    <3>3. Pieces(x, k)' \in [1..((n + 1) - k) -> Seq(Bytes)]
      BY <2>1, <3>2
    <3>4. PICK l \in Nat : l = (n + 1) - k
      BY <3>1
    <3>5. PICK p \in [1..l -> Seq(Bytes)] : p = Pieces(x, k)'
      BY <3>3, <3>4
    <3>6. p \in Seq(Seq(Bytes)) /\ Len(p) = l
      BY SeqOfFun
    <3> QED BY <3>1, <3>4, <3>5, <3>6
  <2>5. PICK p, q \in Seq(Seq(Bytes)) : p = Pieces(x, k)' /\ q = Pieces(x, k)
    BY <1>3, <2>4
  <2> HIDE DEF e, n
  <2>6. Len(p) = Len(q) + 1 /\ p[Len(q) + 1] = e /\ \A i \in 1..Len(q) : p[i] = q[i]
    BY <1>3, <2>2, <2>3, <2>4, <2>5
  <2>7. p = Append(q, e)
    BY <1>2, <2>6, AppendIs
  <2> QED BY <2>5, <2>7
<1>5. FlattenSeq(Append(Pieces(x, k), e)) = FlattenSeq(Pieces(x, k)) \o e
  BY <1>2, <1>3, FlattenAppend
<1>6. BytesAfter(x, k)' = FlattenSeq(Pieces(x, k)')
  BY DEF BytesAfter, Pieces
<1>7. BytesAfter(x, k) = FlattenSeq(Pieces(x, k))
  BY DEF BytesAfter, Pieces
<1> QED BY <1>4, <1>5, <1>6, <1>7

\* What FramesOf makes of the frame i of x.
Kept(x, i) == IF sent[x][i].len = 0 THEN <<>> ELSE <<[con |-> x, frame |-> i]>>
KeptOf(x, k) == [i \in 1..k |-> Kept(x, i)]
Ids == [con : Conns, frame : Nat]

LEMMA KeptType ==
    ASSUME NEW x \in Conns, NEW k \in Nat
    PROVE  /\ KeptOf(x, k) \in Seq(Seq(Ids)) /\ Len(KeptOf(x, k)) = k
           /\ \A i \in Nat : Kept(x, i) \in Seq(Ids)
<1>1. ASSUME NEW i \in Nat PROVE Kept(x, i) \in Seq(Ids)
  <2>1. [con |-> x, frame |-> i] \in Ids
    BY DEF Ids
  <2>2. <<[con |-> x, frame |-> i]>> \in Seq(Ids) /\ <<>> \in Seq(Ids)
    BY <2>1
  <2> QED BY <2>2 DEF Kept
<1>2. KeptOf(x, k) \in [1..k -> Seq(Ids)]
  BY <1>1 DEF KeptOf
<1>3. KeptOf(x, k) \in Seq(Seq(Ids)) /\ Len(KeptOf(x, k)) = k
  <2> HIDE DEF KeptOf
  <2> QED BY <1>2, SeqOfFun
<1> QED BY <1>1, <1>3

\* FramesOf is a sequence of frames, empty at first, and longer with every frame
\* that is not empty.
LEMMA FramesType ==
    ASSUME NEW x \in Conns, NEW k \in Nat
    PROVE  FramesOf(x, k) \in Seq(Ids)
<1>1. FlattenSeq(KeptOf(x, k)) \in Seq(Ids)
  BY KeptType, FlattenType
<1> QED BY <1>1 DEF FramesOf, KeptOf, Kept

LEMMA FramesNone ==
    ASSUME NEW x \in Conns
    PROVE  FramesOf(x, 0) = <<>>
<1>1. KeptOf(x, 0) = <<>>
  BY KeptType, EmptySeq
<1> QED BY <1>1, FlattenEmpty DEF FramesOf, KeptOf, Kept

LEMMA FramesStep ==
    ASSUME NEW x \in Conns, NEW k \in Nat
    PROVE  FramesOf(x, k + 1) =
               IF sent[x][k + 1].len = 0 THEN FramesOf(x, k)
               ELSE Append(FramesOf(x, k), [con |-> x, frame |-> k + 1])
<1>1. KeptOf(x, k + 1) = Append(KeptOf(x, k), Kept(x, k + 1))
  <2>1. /\ KeptOf(x, k + 1) \in Seq(Seq(Ids)) /\ Len(KeptOf(x, k + 1)) = k + 1
        /\ KeptOf(x, k) \in Seq(Seq(Ids)) /\ Len(KeptOf(x, k)) = k
        /\ Kept(x, k + 1) \in Seq(Ids)
    BY KeptType
  <2>2. \A i \in 1..k : KeptOf(x, k + 1)[i] = KeptOf(x, k)[i]
    BY DEF KeptOf
  <2>3. KeptOf(x, k + 1)[k + 1] = Kept(x, k + 1)
    BY DEF KeptOf
  <2> QED BY <2>1, <2>2, <2>3, AppendIs
<1>2. FlattenSeq(KeptOf(x, k + 1)) = FlattenSeq(KeptOf(x, k)) \o Kept(x, k + 1)
  <2>1. KeptOf(x, k) \in Seq(Seq(Ids)) /\ Kept(x, k + 1) \in Seq(Ids)
    BY KeptType
  <2> QED BY <1>1, <2>1, FlattenAppend
<1>3. /\ FramesOf(x, k + 1) = FlattenSeq(KeptOf(x, k + 1))
      /\ FramesOf(x, k) = FlattenSeq(KeptOf(x, k))
  BY DEF FramesOf, KeptOf, Kept
<1>4. FramesOf(x, k) \in Seq(Ids)
  BY FramesType
<1>5. CASE sent[x][k + 1].len = 0
  <2>1. Kept(x, k + 1) = <<>>
    BY <1>5 DEF Kept
  <2>2. FramesOf(x, k) \o <<>> = FramesOf(x, k)
    BY <1>4, ConcatEmptySeq
  <2> QED BY <1>2, <1>3, <1>5, <2>1, <2>2
<1>6. CASE sent[x][k + 1].len # 0
  <2>1. Kept(x, k + 1) = <<[con |-> x, frame |-> k + 1]>>
    BY <1>6 DEF Kept
  <2>2. [con |-> x, frame |-> k + 1] \in Ids
    BY DEF Ids
  <2>3. Append(FramesOf(x, k), [con |-> x, frame |-> k + 1])
            = FramesOf(x, k) \o <<[con |-> x, frame |-> k + 1]>>
    BY <1>4, <2>2, AppendIsConcat
  <2> QED BY <1>2, <1>3, <1>6, <2>1, <2>3
<1> QED BY <1>5, <1>6

\* The frames are frames of x among the first k, one after the other.
LEMMA FramesSorted ==
    ASSUME NEW x \in Conns
    PROVE  \A k \in Nat :
               /\ \A i \in 1..Len(FramesOf(x, k)) :
                      \E j \in 1..k : /\ FramesOf(x, k)[i] = [con |-> x, frame |-> j]
                                      /\ sent[x][j].len # 0
               /\ \A i, j \in 1..Len(FramesOf(x, k)) : i < j =>
                      FramesOf(x, k)[i].frame < FramesOf(x, k)[j].frame
<1> DEFINE F(k) == FramesOf(x, k)
           Among(k) == \A i \in 1..Len(F(k)) :
                           \E j \in 1..k : /\ F(k)[i] = [con |-> x, frame |-> j]
                                           /\ sent[x][j].len # 0
           Sorted(k) == \A i, j \in 1..Len(F(k)) : i < j => F(k)[i].frame < F(k)[j].frame
           N == {k \in Nat : Among(k) /\ Sorted(k)}
<1>1. 0 \in N
  <2>1. F(0) = <<>> /\ Len(<<>>) = 0
    BY FramesNone
  <2> HIDE DEF F
  <2> QED BY <2>1
<1>2. ASSUME NEW k \in Nat, k \in N PROVE k + 1 \in N
  <2>1. F(k) \in Seq(Ids) /\ F(k + 1) \in Seq(Ids)
    BY FramesType
  <2>2. CASE sent[x][k + 1].len = 0
    <3>1. F(k + 1) = F(k)
      BY <2>2, FramesStep
    <3>2. Among(k) /\ Sorted(k)
      BY <1>2
    <3> HIDE DEF F
    <3> QED BY <3>1, <3>2
  <2>3. CASE sent[x][k + 1].len # 0
    <3>1. F(k + 1) = Append(F(k), [con |-> x, frame |-> k + 1])
      BY <2>3, FramesStep
    <3>2. PICK n \in Nat : n = Len(F(k))
      BY <2>1, LenProperties
    <3>3. [con |-> x, frame |-> k + 1] \in Ids
      BY DEF Ids
    <3> HIDE DEF F
    <3>4. /\ Len(F(k + 1)) = n + 1
          /\ \A i \in 1..n : F(k + 1)[i] = F(k)[i]
          /\ F(k + 1)[n + 1] = [con |-> x, frame |-> k + 1]
      BY <2>1, <3>1, <3>2, <3>3, AppendProperties
    <3>5. \A i \in 1..(n + 1) : i \in 1..n \/ i = n + 1
      BY <3>2
    <3>6. Among(k + 1)
      <4> SUFFICES ASSUME NEW i \in 1..(n + 1)
                   PROVE  \E j \in 1..(k + 1) : /\ F(k + 1)[i] = [con |-> x, frame |-> j]
                                                /\ sent[x][j].len # 0
        BY <3>4
      <4>1. CASE i = n + 1
        BY <2>3, <3>4, <4>1
      <4>2. CASE i \in 1..n
        <5>1. PICK j \in 1..k : F(k)[i] = [con |-> x, frame |-> j] /\ sent[x][j].len # 0
          BY <1>2, <3>2, <4>2
        <5>2. j \in 1..(k + 1)
          OBVIOUS
        <5> QED BY <3>4, <4>2, <5>1, <5>2
      <4> QED BY <3>5, <4>1, <4>2
    <3>7. Sorted(k + 1)
      <4> SUFFICES ASSUME NEW i \in 1..(n + 1), NEW j \in 1..(n + 1), i < j
                   PROVE  F(k + 1)[i].frame < F(k + 1)[j].frame
        BY <3>4
      <4>1. i \in 1..n
        BY <3>2
      <4>2. CASE j = n + 1
        <5>1. PICK m \in 1..k : F(k)[i] = [con |-> x, frame |-> m]
          BY <1>2, <3>2, <4>1
        <5>2. F(k + 1)[i].frame = m /\ F(k + 1)[j].frame = k + 1
          BY <3>4, <4>1, <4>2, <5>1
        <5> QED BY <5>2
      <4>3. CASE j \in 1..n
        BY <1>2, <3>2, <3>4, <4>1, <4>3
      <4> QED BY <3>5, <4>2, <4>3
    <3> HIDE DEF Among, Sorted
    <3> QED BY <3>6, <3>7
  <2> QED BY <2>2, <2>3
<1> HIDE DEF N
<1>3. Nat \subseteq N
  BY <1>1, <1>2, NatInd
<1> QED BY <1>3 DEF N

\* Frames sent later do not change them.
LEMMA FramesSend ==
    ASSUME sent \in [Conns -> Seq(Frames)], NEW x \in Conns, NEW k \in 0..Len(sent[x]),
           NEW f \in Frames, sent' = [sent EXCEPT ![x] = Append(@, f)]
    PROVE  FramesOf(x, k)' = FramesOf(x, k)
<1>1. \A i \in 1..k : sent'[x][i] = sent[x][i]
  OBVIOUS
<1>2. [i \in 1..k |-> IF sent'[x][i].len = 0 THEN <<>> ELSE <<[con |-> x, frame |-> i]>>]
          = [i \in 1..k |-> IF sent[x][i].len = 0 THEN <<>> ELSE <<[con |-> x, frame |-> i]>>]
  BY <1>1
<1> QED BY <1>2 DEF FramesOf

-----------------------------------------------------------------------------
(* The joins of a connection.                                              *)

\* The number of joins: a frame that is sent counts if it is one.
LEMMA MovesType ==
    ASSUME sent \in [Conns -> Seq(Frames)], NEW x \in Conns
    PROVE  /\ MovesOf(x) \in Nat
           /\ sent[x] = <<>> => MovesOf(x) = 0
<1>1. PICK n \in Nat : DOMAIN sent[x] = 1..n /\ n = Len(sent[x])
  <2>1. sent[x] \in Seq(Frames)
    OBVIOUS
  <2> QED BY <2>1, LenProperties
<1>2. IsFiniteSet({k \in DOMAIN sent[x] : sent[x][k].move})
  <2>1. IsFiniteSet(1..n)
    BY FS_Interval
  <2> QED BY <1>1, <2>1, FS_Subset
<1>3. MovesOf(x) \in Nat
  BY <1>2, FS_CardinalityType DEF MovesOf
<1>4. ASSUME sent[x] = <<>> PROVE MovesOf(x) = 0
  <2>1. {k \in DOMAIN sent[x] : sent[x][k].move} = {}
    BY <1>4
  <2> QED BY <2>1, FS_EmptySet DEF MovesOf
<1> QED BY <1>3, <1>4

LEMMA MovesSend ==
    ASSUME sent \in [Conns -> Seq(Frames)], NEW x \in Conns,
           NEW f \in Frames, sent' = [sent EXCEPT ![x] = Append(@, f)]
    PROVE  MovesOf(x)' = MovesOf(x) + (IF f.move THEN 1 ELSE 0)
<1> DEFINE M == {k \in DOMAIN sent[x] : sent[x][k].move}
<1>1. PICK n \in Nat : DOMAIN sent[x] = 1..n /\ n = Len(sent[x])
  <2>1. sent[x] \in Seq(Frames)
    OBVIOUS
  <2> QED BY <2>1, LenProperties
<1>2. IsFiniteSet(M)
  <2>1. IsFiniteSet(1..n)
    BY FS_Interval
  <2> QED BY <1>1, <2>1, FS_Subset
<1>3. /\ DOMAIN sent'[x] = 1..(n + 1)
      /\ \A i \in 1..n : sent'[x][i] = sent[x][i]
      /\ sent'[x][n + 1] = f
  <2>1. sent[x] \in Seq(Frames) /\ sent'[x] = Append(sent[x], f)
    OBVIOUS
  <2>2. /\ Append(sent[x], f) \in Seq(Frames) /\ Len(Append(sent[x], f)) = n + 1
        /\ \A i \in 1..n : Append(sent[x], f)[i] = sent[x][i]
        /\ Append(sent[x], f)[n + 1] = f
    BY <1>1, <2>1, AppendProperties
  <2> QED BY <2>1, <2>2, LenProperties
<1>4. {k \in DOMAIN sent'[x] : sent'[x][k].move}
          = IF f.move THEN M \cup {n + 1} ELSE M
  <2>1. \A i : i \in 1..(n + 1) <=> i \in 1..n \/ i = n + 1
    OBVIOUS
  <2>2. n + 1 \notin 1..n
    OBVIOUS
  <2> QED BY <1>1, <1>3, <2>1, <2>2
<1>5. n + 1 \notin M
  BY <1>1
<1>6. Cardinality(M \cup {n + 1}) = Cardinality(M) + 1
  BY <1>2, <1>5, FS_AddElement
<1>7. Cardinality(M) \in Nat /\ MovesOf(x) = Cardinality(M)
  BY <1>2, FS_CardinalityType DEF MovesOf
<1>8. MovesOf(x)' = Cardinality({k \in DOMAIN sent'[x] : sent'[x][k].move})
  BY DEF MovesOf
<1> HIDE DEF M
<1>9. CASE f.move
  BY <1>4, <1>6, <1>7, <1>8, <1>9
<1>10. CASE ~f.move
  <2>1. {k \in DOMAIN sent'[x] : sent'[x][k].move} = M
    BY <1>4, <1>10
  <2>2. MovesOf(x)' = Cardinality(M)
    BY <1>8, <2>1
  <2>3. (IF f.move THEN 1 ELSE 0) = 0
    BY <1>10
  <2> QED BY <1>7, <2>2, <2>3
<1> QED BY <1>9, <1>10

-----------------------------------------------------------------------------
(* The beginning of what is left to read.                                  *)

\* Bytes that begin with what follows the k-th frame of x, as many as a header
\* has, begin with the header of the next.
LEMMA StartsAligned ==
    ASSUME sent \in [Conns -> Seq(Frames)], NEW x \in Conns, NEW k \in 0..Len(sent[x]),
           NEW b \in Seq(Bytes), StartsWith(BytesAfter(x, k), b), Len(b) >= HeaderSize
    PROVE  /\ k \in 0..(Len(sent[x]) - 1) /\ k + 1 \in DOMAIN sent[x]
           /\ b # <<>> /\ b[1] = [con |-> x, frame |-> k + 1, at |-> 1]
           /\ Aligned(b)
           /\ HeaderValues(b) = {sent[x][k + 1].len}
<1> DEFINE n == Len(sent[x])
           A == BytesAfter(x, k)
<1>1. HeaderSize \in Nat /\ HeaderSize > 0 /\ Len(b) \in Nat /\ n \in Nat
  <2>1. sent[x] \in Seq(Frames)
    OBVIOUS
  <2> QED BY <2>1, Sizes, LenProperties
<1>2. k # n
  <2> SUFFICES ASSUME k = n PROVE FALSE
    OBVIOUS
  <2>1. A = <<>>
    BY AfterEnd
  <2>2. Len(b) <= 0
    BY <2>1 DEF StartsWith
  <2> QED BY <1>1, <2>2
<1>3. k \in 0..(n - 1)
  <2>1. k \in 0..n
    OBVIOUS
  <2> HIDE DEF n
  <2> QED BY <1>1, <1>2, <2>1
<1> DEFINE e == BytesOf(x, k + 1, sent[x][k + 1])
<1>4. /\ A = e \o BytesAfter(x, k + 1) /\ e \in Seq(Bytes) /\ k + 1 \in 1..n
      /\ k + 1 \in 0..n
  BY <1>3, AfterStep
<1>5. BytesAfter(x, k + 1) \in Seq(Bytes)
  BY <1>4, AfterType
<1>6. sent[x][k + 1].len \in Lengths /\ sent[x][k + 1].len \in Nat
  BY <1>4, SentFrame
<1>7. /\ Len(e) = HeaderSize + sent[x][k + 1].len
      /\ \A i \in 1..(HeaderSize + sent[x][k + 1].len) :
             e[i] = [con |-> x, frame |-> k + 1, at |-> i]
  <2>1. k + 1 \in Nat \ {0}
    BY <1>4
  <2>2. \A f : f.len \in Lengths =>
            /\ Len(BytesOf(x, k + 1, f)) = HeaderSize + f.len
            /\ \A i \in 1..(HeaderSize + f.len) :
                   BytesOf(x, k + 1, f)[i] = [con |-> x, frame |-> k + 1, at |-> i]
    <3> SUFFICES ASSUME NEW f, f.len \in Lengths
                 PROVE  /\ Len(BytesOf(x, k + 1, f)) = HeaderSize + f.len
                        /\ \A i \in 1..(HeaderSize + f.len) : BytesOf(x, k + 1, f)[i]
                               = [con |-> x, frame |-> k + 1, at |-> i]
      OBVIOUS
    <3>1. PICK j \in Nat \ {0} : j = k + 1
      BY <2>1
    <3>2. /\ Len(BytesOf(x, j, f)) = HeaderSize + f.len
          /\ \A i \in 1..(HeaderSize + f.len) :
                 BytesOf(x, j, f)[i] = [con |-> x, frame |-> j, at |-> i]
      BY BytesOfOne
    <3> QED BY <3>1, <3>2
  <2> QED BY <1>6, <2>2
<1>8. ASSUME NEW i \in 1..HeaderSize
      PROVE  b[i] = [con |-> x, frame |-> k + 1, at |-> i]
  <2>1. i \in 1..Len(b) /\ i \in 1..(HeaderSize + sent[x][k + 1].len)
    BY <1>1, <1>6
  <2>2. b[i] = A[i]
    BY <2>1 DEF StartsWith
  <2>3. A[i] = e[i]
    <3> HIDE DEF e, A
    <3>1. i \in 1..Len(e)
      BY <1>7, <2>1
    <3>2. \A u \in Seq(Bytes) : (e \o u)[i] = e[i]
      BY <1>4, <3>1
    <3> QED BY <1>4, <1>5, <3>2
  <2> QED BY <1>7, <2>1, <2>2, <2>3
<1>9. b # <<>> /\ 1 \in 1..HeaderSize
  BY <1>1
<1>10. b[1] = [con |-> x, frame |-> k + 1, at |-> 1]
  BY <1>8, <1>9
<1>11. Aligned(b)
  <2>1. ASSUME NEW i \in 1..Len(b), i <= HeaderSize
        PROVE  b[i] = [b[1] EXCEPT !.at = i]
    <3>1. i \in 1..HeaderSize
      BY <1>1, <2>1
    <3>2. b[i] = [con |-> x, frame |-> k + 1, at |-> i]
      BY <1>8, <3>1
    <3>3. [[con |-> x, frame |-> k + 1, at |-> 1] EXCEPT !.at = i]
              = [con |-> x, frame |-> k + 1, at |-> i]
      OBVIOUS
    <3> QED BY <1>10, <3>2, <3>3
  <2> QED BY <1>9, <2>1 DEF Aligned
<1>12. HeaderValues(b) = {sent[x][k + 1].len}
  <2>1. b[1].con = x /\ b[1].frame = k + 1
    BY <1>10
  <2> QED BY <1>11, <2>1 DEF HeaderValues
<1>13. k + 1 \in DOMAIN sent[x]
  <2>1. sent[x] \in Seq(Frames)
    OBVIOUS
  <2> QED BY <1>4, <2>1, LenProperties
<1> QED BY <1>3, <1>9, <1>10, <1>11, <1>12, <1>13

\* When the whole frame is there, taking it off leaves what follows it.
LEMMA StartsFrame ==
    ASSUME sent \in [Conns -> Seq(Frames)], NEW x \in Conns, NEW k \in 0..Len(sent[x]),
           NEW b \in Seq(Bytes), StartsWith(BytesAfter(x, k), b),
           NEW n \in HeaderValues(b),
           Len(b) >= HeaderSize, Len(b) >= HeaderSize + n
    PROVE  /\ k + 1 \in 1..Len(sent[x]) /\ n = sent[x][k + 1].len
           /\ FrameAt(b, n) = [con |-> x, frame |-> k + 1]
           /\ SubSeq(b, HeaderSize + n + 1, Len(b)) \in Seq(Bytes)
           /\ StartsWith(BytesAfter(x, k + 1), SubSeq(b, HeaderSize + n + 1, Len(b)))
           /\ \A r \in Seq(Bytes) : Joins(b, r, BytesAfter(x, k)) =>
                  Joins(SubSeq(b, HeaderSize + n + 1, Len(b)), r, BytesAfter(x, k + 1))
<1> DEFINE f == sent[x][k + 1]
           e == BytesOf(x, k + 1, f)
           A == BytesAfter(x, k + 1)
           c == SubSeq(b, HeaderSize + n + 1, Len(b))
<1>1. /\ k \in 0..(Len(sent[x]) - 1) /\ b[1] = [con |-> x, frame |-> k + 1, at |-> 1]
      /\ HeaderValues(b) = {f.len} /\ k + 1 \in DOMAIN sent[x]
  BY StartsAligned
<1>2. n = f.len
  BY <1>1
<1>3. BytesAfter(x, k) = e \o A /\ e \in Seq(Bytes) /\ k + 1 \in 1..Len(sent[x])
  BY <1>1, AfterStep
<1>4. A \in Seq(Bytes)
  <2>1. k + 1 \in 0..Len(sent[x])
    BY <1>3
  <2> QED BY <2>1, AfterType
<1>5. Len(e) = HeaderSize + n
  <2>1. f.len \in Lengths /\ k + 1 \in Nat \ {0}
    BY <1>3, SentFrame
  <2>2. PICK j \in Nat \ {0} : j = k + 1
    BY <2>1
  <2>3. \A g : g.len \in Lengths => Len(BytesOf(x, j, g)) = HeaderSize + g.len
    BY BytesOfOne
  <2> QED BY <1>2, <2>1, <2>2, <2>3
<1>6. SubSeq(b, 1, HeaderSize + n) = e /\ c \in Seq(Bytes) /\ StartsWith(A, c) /\ Joins(e, c, b)
  <2>1. StartsWith(e \o A, b) /\ Len(b) >= Len(e)
    BY <1>3, <1>5
  <2>2. e \in Seq(Bytes) /\ A \in Seq(Bytes)
    BY <1>3, <1>4
  <2>3. c = SubSeq(b, Len(e) + 1, Len(b))
    BY <1>5
  <2> HIDE DEF e, A, c
  <2>4. \A u, v \in Seq(Bytes) :
            StartsWith(u \o v, b) /\ Len(b) >= Len(u) =>
                /\ SubSeq(b, 1, Len(u)) = u
                /\ SubSeq(b, Len(u) + 1, Len(b)) \in Seq(Bytes)
                /\ StartsWith(v, SubSeq(b, Len(u) + 1, Len(b)))
                /\ Joins(u, SubSeq(b, Len(u) + 1, Len(b)), b)
    BY CutFront
  <2> QED BY <1>5, <2>1, <2>2, <2>3, <2>4
<1>7. FrameAt(b, n) = [con |-> x, frame |-> k + 1]
  <2>1. b[1].con = x /\ b[1].frame = k + 1
    BY <1>1
  <2>2. BytesOf(x, k + 1, [len |-> n]) = e
    BY <1>2 DEF BytesOf
  <2> QED BY <1>6, <2>1, <2>2 DEF FrameAt
<1>8. ASSUME NEW r \in Seq(Bytes), Joins(b, r, BytesAfter(x, k)) PROVE Joins(c, r, A)
  <2>1. Joins(e, A, BytesAfter(x, k))
    BY <1>3, Zenon DEF Joins
  <2>2. e \in Seq(Bytes) /\ A \in Seq(Bytes) /\ c \in Seq(Bytes) /\ Joins(e, c, b)
    BY <1>3, <1>4, <1>6
  <2> HIDE DEF e, A, c
  <2> QED BY <1>8, <2>1, <2>2, JoinsRest
<1> QED BY <1>2, <1>3, <1>6, <1>7, <1>8

-----------------------------------------------------------------------------
(* What one server has in hand.                                            *)

\* If only one server has any, that is what is in hand.
LEMMA InHandOne ==
    ASSUME NEW q, NEW s \in Servers, \A t \in Servers : t # s => q[t] = <<>>
    PROVE  InHand(q) = q[s]
<1> DEFINE has == {t \in Servers : q[t] # <<>>}
<1>1. CASE q[s] = <<>>
  <2>1. has = {}
    BY <1>1
  <2> QED BY <1>1, <2>1 DEF InHand
<1>2. CASE q[s] # <<>>
  <2>1. has = {s}
    BY <1>2
  <2>2. (CHOOSE t \in has : TRUE) = s
    BY <2>1
  <2> QED BY <2>1, <2>2 DEF InHand
<1> QED BY <1>1, <1>2

LEMMA InHandNone ==
    ASSUME NEW q, \A t \in Servers : q[t] = <<>>
    PROVE  InHand(q) = <<>>
<1>1. {t \in Servers : q[t] # <<>>} = {}
  OBVIOUS
<1> QED BY <1>1 DEF InHand

-----------------------------------------------------------------------------
(* Consequences of the invariant.                                          *)

\* A server that has bytes or frames is alone with the number.
LEMMA Alone ==
    ASSUME FrameInv, NEW s \in Servers, rbuf[s] # <<>> \/ batch[s] # <<>>
    PROVE  /\ holder \in Conns /\ s \in watch /\ Dealing = {s} /\ taking = {} /\ dropping = {}
           /\ \A t \in Servers : t # s => rbuf[t] = <<>> /\ batch[t] = <<>>
           /\ InHand(rbuf) = rbuf[s] /\ InHand(batch) = batch[s]
           /\ pc[s] # "wait" => condemned = {}
<1>1. s \in watch /\ holder \in Conns /\ ~Quiet /\ taking = {} /\ dropping = {}
  BY DEF FrameInv, PlaceInv, OverlapInv, Quiet, TypeOK
<1>2. \A t \in Dealing : t = s
  <2>1. \A t \in Dealing : t \in Servers
    BY DEF FrameInv, TypeOK, Dealing, Servers
  <2> QED BY <1>1, <2>1 DEF FrameInv, OverlapInv, Dealing, NoConn, Conns
<1>3. \A t \in Servers : t # s => rbuf[t] = <<>> /\ batch[t] = <<>>
  BY <1>2 DEF FrameInv, PlaceInv, Dealing
<1>4. InHand(rbuf) = rbuf[s] /\ InHand(batch) = batch[s]
  BY <1>3, InHandOne
<1>5. pc[s] # "wait" => condemned = {}
  BY <1>2 DEF FrameInv, PlaceInv, Dealing
<1> QED BY <1>1, <1>2, <1>3, <1>4, <1>5 DEF Dealing

\* What a server that watches the number has is all there is.
LEMMA Watching ==
    ASSUME FrameInv, NEW s \in watch
    PROVE  /\ holder \in Conns /\ s \in Servers
           /\ \A t \in Servers : t # s => rbuf[t] = <<>> /\ batch[t] = <<>>
           /\ InHand(rbuf) = rbuf[s] /\ InHand(batch) = batch[s]
<1>1. holder \in Conns /\ s \in Servers
  BY DEF FrameInv, PlaceInv, TypeOK
<1>2. \A t \in Servers : t # s => rbuf[t] = <<>> /\ batch[t] = <<>>
  <2> SUFFICES ASSUME NEW t \in Servers, t # s, rbuf[t] # <<>> \/ batch[t] # <<>>
               PROVE  FALSE
    OBVIOUS
  <2>1. Dealing = {t}
    BY Alone
  <2> QED BY <2>1 DEF Dealing
<1> QED BY <1>1, <1>2, InHandOne

\* Nothing is anywhere: nobody has anything in hand.
LEMMA QuietHands ==
    ASSUME Quiet
    PROVE  InHand(rbuf) = <<>> /\ InHand(batch) = <<>>
  BY InHandNone DEF Quiet

\* Bytes to be read, or sent: the number is with one server that reads.
LEMMA HolderOnly ==
    ASSUME FrameInv, NEW x \in Conns, rx[x] # <<>> \/ net[x] # <<>>
    PROVE  x = holder /\ peer[x] \in {"up", "closed"} /\ ~Quiet /\ taking = {} /\ dropping = {}
  BY DEF FrameInv, PeerInv, OverlapInv, Quiet, TypeOK

\* A server reads.
LEMMA Reader ==
    ASSUME FrameInv, NEW s \in Servers, pc[s] \in {"recv", "parse"}, holder # NoConn
    PROVE  s \in watch /\ s \notin condemned /\ holder \in Conns
  BY DEF FrameInv, PlaceInv, TypeOK

\* Frames to be handled come from the holder, and the first is not yet handled.
LEMMA FirstFrame ==
    ASSUME FrameInv, NEW s \in Servers, batch[s] # <<>>, pc[s] # "wait"
    PROVE  /\ holder \in Conns /\ condemned = {} /\ Len(handled[holder]) \in Nat
           /\ \E k \in 0..Len(sent[holder]), j \in 1..Len(sent[holder]) :
                  /\ j <= k
                  /\ Head(batch[s]) = [con |-> holder, frame |-> j]
                  /\ j = k => Tail(batch[s]) = <<>>
                  /\ Joins(handled[holder], batch[s], FramesOf(holder, k))
                  /\ StartsWith(BytesAfter(holder, k), rbuf[s])
                  /\ peer[holder] # "reset" => Joins(rbuf[s], Coming, BytesAfter(holder, k))
                  /\ \A i \in DOMAIN handled[holder] :
                         handled[holder][i] # [con |-> holder, frame |-> j]
<1>1. /\ holder \in Conns /\ condemned = {}
      /\ InHand(rbuf) = rbuf[s] /\ InHand(batch) = batch[s]
  BY Alone
<1>2. PICK k \in 0..Len(sent[holder]) : Taken(k)
  BY <1>1 DEF FrameInv, StreamInv, NoConn, Conns
<1> DEFINE h == handled[holder]
           b == batch[s]
           F == FramesOf(holder, k)
<1>3. k \in Nat /\ h \in Seq(Parsed) /\ b \in Seq(Parsed)
  BY <1>1 DEF FrameInv, TypeOK
<1>4. F = h \o b
  BY <1>1, <1>2, Zenon DEF Taken, Joins
<1>5. PICK m \in Nat, n \in Nat : m = Len(h) /\ n = Len(b) /\ n > 0 /\ DOMAIN h = 1..m
  BY <1>3
<1>6. /\ Len(F) = m + n
      /\ \A i \in 1..m : F[i] = h[i]
      /\ \A i \in 1..n : F[m + i] = b[i]
  <2> HIDE DEF h, b, F
  <2>1. \A i \in 1..(m + n) : (h \o b)[i] = IF i <= m THEN h[i] ELSE b[i - m]
    BY <1>3, <1>5, ConcatProperties
  <2>2. Len(h \o b) = m + n
    BY <1>3, <1>5, ConcatProperties
  <2>3. \A i \in 1..m : i \in 1..(m + n)
    OBVIOUS
  <2>4. \A i \in 1..n : m + i \in 1..(m + n) /\ ~(m + i <= m) /\ (m + i) - m = i
    OBVIOUS
  <2> QED BY <1>4, <2>1, <2>2, <2>3, <2>4
<1>7. /\ \A i \in 1..(m + n) : \E j \in 1..k : F[i] = [con |-> holder, frame |-> j]
      /\ \A i, j \in 1..(m + n) : i < j => F[i].frame < F[j].frame
  <2>1. Len(FramesOf(holder, k)) = m + n
    BY <1>6
  <2>2. k \in Nat
    BY <1>3
  <2>3. /\ \A i \in 1..Len(FramesOf(holder, k)) :
               \E j \in 1..k : FramesOf(holder, k)[i] = [con |-> holder, frame |-> j]
        /\ \A i, j \in 1..Len(FramesOf(holder, k)) : i < j =>
               FramesOf(holder, k)[i].frame < FramesOf(holder, k)[j].frame
    BY <1>1, <2>2, FramesSorted
  <2> QED BY <2>1, <2>3
<1> HIDE DEF h, b, F
<1>8. m + 1 \in 1..(m + n) /\ 1 \in 1..n
  BY <1>5
<1>9. PICK j \in 1..k : F[m + 1] = [con |-> holder, frame |-> j]
  BY <1>7, <1>8
<1>10. Head(b) = [con |-> holder, frame |-> j]
  <2>1. Head(b) = b[1]
    OBVIOUS
  <2> QED BY <1>6, <1>8, <1>9, <2>1
<1>11. ASSUME j = k PROVE Tail(b) = <<>>
  <2>1. n = 1
    <3> SUFFICES ASSUME n > 1 PROVE FALSE
      BY <1>5
    <3>1. m + 2 \in 1..(m + n)
      OBVIOUS
    <3>2. PICK i \in 1..k : F[m + 2] = [con |-> holder, frame |-> i]
      BY <1>7, <3>1
    <3>3. F[m + 1].frame < F[m + 2].frame
      BY <1>7, <1>8, <3>1
    <3>4. F[m + 1].frame = j /\ F[m + 2].frame = i
      BY <1>9, <3>2
    <3> QED BY <1>3, <1>11, <3>3, <3>4
  <2>2. b \in Seq(Parsed) /\ Len(b) = 1
    BY <1>3, <1>5, <2>1
  <2> QED BY <2>2
<1>12. ASSUME NEW i \in 1..m PROVE h[i] # [con |-> holder, frame |-> j]
  <2>1. i \in 1..(m + n) /\ i < m + 1
    BY <1>5
  <2>2. F[i].frame < F[m + 1].frame
    BY <1>7, <1>8, <2>1
  <2>3. PICK l \in 1..k : F[i] = [con |-> holder, frame |-> l]
    BY <1>7, <2>1
  <2>4. F[i].frame = l /\ F[m + 1].frame = j
    BY <1>9, <2>3
  <2>5. h[i] = [con |-> holder, frame |-> l]
    BY <1>6, <2>3
  <2> QED BY <2>2, <2>4, <2>5
<1>13. j \in 1..Len(sent[holder]) /\ j <= k
  <2>1. Len(sent[holder]) \in Nat
    BY <1>1 DEF FrameInv, TypeOK
  <2> QED BY <2>1
<1>14. /\ Joins(h, b, F) /\ StartsWith(BytesAfter(holder, k), rbuf[s])
       /\ peer[holder] # "reset" => Joins(rbuf[s], Coming, BytesAfter(holder, k))
  BY <1>1, <1>2, Zenon DEF Taken, h, b, F
<1>15. b # <<>>
  BY DEF b
<1> QED BY <1>1, <1>5, <1>10, <1>11, <1>12, <1>13, <1>14 DEF h, b, F

-----------------------------------------------------------------------------
(* Steps that leave the matter alone.                                      *)

\* The silence of a client, if it is handed nothing and no place is added.
LEMMA SilentSame ==
    ASSUME SilentInv, UNCHANGED <<sent, answered, handled>>, holder' \in {holder, NoConn},
           taking' \subseteq taking, watch' \subseteq watch
    PROVE  SilentInv'
<1>1. CASE holder' = NoConn
  BY <1>1 DEF SilentInv
<1>2. CASE holder' # NoConn
  <2>1. holder' = holder /\ MovesOf(holder)' = MovesOf(holder)
    BY <1>2 DEF MovesOf
  <2>2. \A k : Pending(k)' <=> Pending(k)
    BY <2>1 DEF Pending
  <2> QED BY <1>2, <2>1, <2>2 DEF SilentInv
<1> QED BY <1>1, <1>2

\* The stream, if nothing of it is moved.
LEMMA StreamSame ==
    ASSUME StreamInv, UNCHANGED <<sent, handled, holder, rx, net>>, condemned' = {} => condemned = {},
           InHand(rbuf)' = InHand(rbuf), InHand(batch)' = InHand(batch),
           peer'[holder] # "reset" => peer[holder] # "reset"
    PROVE  StreamInv'
<1> SUFFICES ASSUME holder # NoConn, condemned' = {}
             PROVE  \E k \in 0..Len(sent[holder]) : Taken(k)'
  BY DEF StreamInv
<1>1. PICK k \in 0..Len(sent[holder]) : Taken(k)
  BY DEF StreamInv
<1>2. FramesOf(holder, k)' = FramesOf(holder, k) /\ BytesAfter(holder, k)' = BytesAfter(holder, k)
  BY DEF FramesOf, BytesAfter
<1>3. Coming' = Coming
  BY DEF Coming
<1>4. Taken(k)'
  BY <1>1, <1>2, <1>3 DEF Taken
<1> QED BY <1>4

\* Header values depend on what has been sent only.
LEMMA HeadersSame ==
    ASSUME sent' = sent
    PROVE  \A b : HeaderValues(b)' = HeaderValues(b)
  BY DEF HeaderValues

\* The buffers that have been looked at, if no other joins them.
LEMMA WaitSame ==
    ASSUME WaitInv, sent' = sent,
           \A s \in Servers : Looked(s)' /\ s \notin condemned' =>
               \/ rbuf'[s] = <<>>
               \/ rbuf'[s] = rbuf[s] /\ Looked(s) /\ s \notin condemned
    PROVE  WaitInv'
<1>1. \A b : HeaderValues(b)' = HeaderValues(b)
  BY HeadersSame
<1>2. ASSUME NEW s \in Servers, Looked(s)', s \notin condemned',
             Len(rbuf'[s]) >= HeaderSize
      PROVE  \A n \in HeaderValues(rbuf'[s]) : Len(rbuf'[s]) < HeaderSize + n
  <2>1. Len(<<>>) = 0 /\ HeaderSize \in Nat /\ HeaderSize > 0
    BY Sizes
  <2>2. rbuf'[s] # <<>>
    BY <1>2, <2>1
  <2> QED BY <1>2, <2>2 DEF WaitInv
<1> QED BY <1>1, <1>2 DEF WaitInv

\* Who is thrown out as malformed, if nobody is added.
LEMMA BadSame ==
    ASSUME BadIsBad, sent' = sent,
           \A x \in Conns : ended'[x] = "bad" => ended[x] = "bad"
    PROVE  BadIsBad'
  BY DEF BadIsBad

\* Who deals with the number, if at most a server that has it condemns it.
LEMMA OverlapSame ==
    ASSUME OverlapInv, UNCHANGED <<watch, taking, dropping, holder>>,
           \/ condemned' = condemned
           \/ \E s \in watch : /\ condemned' = condemned \cup {s}
                               /\ s = Lobby \/ peer'[holder] # "up" \/ Dealing = {s},
           Quiet => Quiet', LastTurn => LastTurn', peer[holder] # "up" => peer'[holder] # "up"
    PROVE  OverlapInv'
<1>1. Dealing' = Dealing /\ Keepers' = Keepers
  BY DEF Dealing, Keepers
<1>2. (Lobby \in condemned' => Lobby \in watch) /\ taking \cap (watch \cup condemned') =
          taking \cap (watch \cup condemned)
  BY DEF OverlapInv
<1>3. ASSUME holder # NoConn, NEW s \in Dealing, NEW t \in Dealing, s # t
      PROVE  Quiet' /\ LastTurn' /\ (condemned' # {} => peer'[holder] # "up")
  BY <1>3 DEF OverlapInv
<1> QED BY <1>1, <1>2, <1>3 DEF OverlapInv

\* The turn of the last connection, if one that has come goes on.
LEMMA LastTurnSame ==
    ASSUME TypeOK, NEW x \in Conns, NEW p, p # "new", peer[x] # "new", peer' = [peer EXCEPT ![x] = p]
    PROVE  LastTurn' <=> LastTurn
<1>1. Count \in Conns
  BY Sizes DEF Conns
<1> QED BY <1>1 DEF LastTurn, TypeOK

-----------------------------------------------------------------------------
(* Parse, by what it does with the first bytes of the buffer.              *)

\* A header is read at the beginning of a frame of the holder.
LEMMA ParseAt ==
    ASSUME FrameInv, NEW s \in Servers, pc[s] = "parse", Len(rbuf[s]) >= HeaderSize,
           NEW n \in HeaderValues(rbuf[s])
    PROVE  /\ holder \in Conns /\ holder # NoConn /\ s \in watch /\ Dealing = {s}
           /\ condemned = {} /\ taking = {} /\ dropping = {}
           /\ rbuf[s] \in Seq(Bytes) /\ rbuf[s] # <<>>
           /\ \A t \in Servers : t # s => rbuf[t] = <<>> /\ batch[t] = <<>>
           /\ InHand(rbuf) = rbuf[s] /\ InHand(batch) = batch[s]
           /\ HeaderValues(rbuf[s]) = {n} /\ n \in Nat
           /\ \E k \in 0..Len(sent[holder]) :
                  Taken(k) /\ k + 1 \in 1..Len(sent[holder]) /\ n = sent[holder][k + 1].len
<1>1. rbuf[s] \in Seq(Bytes) /\ sent \in [Conns -> Seq(Frames)]
  BY DEF FrameInv, TypeOK
<1>2. rbuf[s] # <<>>
  BY <1>1, Sizes
<1>3. /\ holder \in Conns /\ s \in watch /\ Dealing = {s} /\ condemned = {}
      /\ taking = {} /\ dropping = {}
      /\ \A t \in Servers : t # s => rbuf[t] = <<>> /\ batch[t] = <<>>
      /\ InHand(rbuf) = rbuf[s] /\ InHand(batch) = batch[s]
  BY <1>2, Alone
<1>4. holder # NoConn
  BY <1>3, Sizes
<1>5. PICK k \in 0..Len(sent[holder]) : Taken(k)
  BY <1>3, <1>4 DEF FrameInv, StreamInv
<1>6. StartsWith(BytesAfter(holder, k), rbuf[s])
  BY <1>3, <1>5, Zenon DEF Taken
<1>7. /\ k \in 0..(Len(sent[holder]) - 1) /\ k + 1 \in DOMAIN sent[holder]
      /\ HeaderValues(rbuf[s]) = {sent[holder][k + 1].len}
  BY <1>1, <1>3, <1>6, StartsAligned
<1>8. k + 1 \in 1..Len(sent[holder]) /\ n = sent[holder][k + 1].len /\ n \in Nat
  <2>1. k + 1 \in 1..Len(sent[holder])
    BY <1>1, <1>3, <1>7
  <2> QED BY <1>1, <1>3, <1>7, <2>1, SentFrame
<1> QED BY <1>1, <1>2, <1>3, <1>4, <1>5, <1>7, <1>8

-----------------------------------------------------------------------------
(* A frame is handled.                                                     *)

\* The first frame of the batch is one that its client has sent, and is handed on for
\* the first time.
LEMMA Handling ==
    ASSUME FrameInv, NEW s \in Servers, NextFrame(s), TakeFrame(s),
           UNCHANGED <<sent, net, peer, rx, holder, rbuf>>
    PROVE  /\ holder \in Conns /\ holder # NoConn /\ s \in watch /\ Dealing = {s}
           /\ condemned = {} /\ taking = {} /\ dropping = {}
           /\ Parsed' = Parsed
           /\ batch' \in [Servers -> Seq(Parsed)] /\ handled' \in [Conns -> Seq(Parsed)]
           /\ \A t \in Servers : t # s => rbuf[t] = <<>> /\ batch'[t] = <<>>
           /\ \A x \in Conns : x # holder => handled'[x] = handled[x]
           /\ \A k : Pending(k)' => Pending(k)
           /\ \E k \in 0..Len(sent[holder]), j \in 1..Len(sent[holder]) :
                  /\ j <= k /\ Taken(k)'
                  /\ IsMove(Head(batch[s])) <=> sent[holder][j].move
                  /\ Pending(j) <=> sent[holder][j].move
                  /\ ~Pending(j)'
                  /\ j = k => batch'[s] = <<>>
<1>1. /\ pc[s] = "frames" /\ batch[s] # <<>> /\ batch' = [batch EXCEPT ![s] = Tail(@)]
      /\ handled' = [x \in Conns |->
             IF x = (IF Head(batch[s]) = Garbage THEN holder ELSE Head(batch[s]).con)
             THEN Append(handled[x], Head(batch[s])) ELSE handled[x]]
  BY DEF NextFrame, TakeFrame
<1>2. /\ batch \in [Servers -> Seq(Parsed)] /\ handled \in [Conns -> Seq(Parsed)]
      /\ sent \in [Conns -> Seq(Frames)]
  BY DEF FrameInv, TypeOK
<1>3. /\ holder \in Conns /\ s \in watch /\ Dealing = {s} /\ taking = {} /\ dropping = {}
      /\ condemned = {}
      /\ \A t \in Servers : t # s => rbuf[t] = <<>> /\ batch[t] = <<>>
      /\ InHand(rbuf) = rbuf[s]
  BY <1>1, Alone
<1>4. holder # NoConn
  BY <1>3, Sizes
<1>5. PICK k \in 0..Len(sent[holder]), j \in 1..Len(sent[holder]) :
          /\ j <= k
          /\ Head(batch[s]) = [con |-> holder, frame |-> j]
          /\ j = k => Tail(batch[s]) = <<>>
          /\ Joins(handled[holder], batch[s], FramesOf(holder, k))
          /\ StartsWith(BytesAfter(holder, k), rbuf[s])
          /\ peer[holder] # "reset" => Joins(rbuf[s], Coming, BytesAfter(holder, k))
          /\ \A i \in DOMAIN handled[holder] :
                 handled[holder][i] # [con |-> holder, frame |-> j]
  BY <1>1, FirstFrame
<1> DEFINE f == [con |-> holder, frame |-> j]
<1>6. f # Garbage /\ f.con = holder
  BY <1>4 DEF Garbage
<1>7. /\ Parsed' = Parsed
      /\ batch'[s] = Tail(batch[s]) /\ \A t \in Servers : t # s => batch'[t] = <<>>
      /\ handled'[holder] = Append(handled[holder], f)
      /\ \A x \in Conns : x # holder => handled'[x] = handled[x]
  BY <1>1, <1>2, <1>3, <1>5, <1>6 DEF Parsed
<1>8. /\ f \in Parsed /\ Tail(batch[s]) \in Seq(Parsed)
      /\ Joins(Append(handled[holder], f), Tail(batch[s]), FramesOf(holder, k))
  <2>1. handled[holder] \in Seq(Parsed) /\ batch[s] \in Seq(Parsed)
    BY <1>2, <1>3
  <2>2. /\ Head(batch[s]) \in Parsed /\ Tail(batch[s]) \in Seq(Parsed)
        /\ Joins(Append(handled[holder], Head(batch[s])), Tail(batch[s]), FramesOf(holder, k))
    BY <1>1, <1>5, <2>1, JoinsPass
  <2> QED BY <1>5, <2>2, Zenon
<1> HIDE DEF f
<1>9. /\ Append(handled[holder], f) \in Seq(Parsed)
      /\ Len(Append(handled[holder], f)) = Len(handled[holder]) + 1
      /\ \A i \in 1..Len(handled[holder]) : Append(handled[holder], f)[i] = handled[holder][i]
      /\ Append(handled[holder], f)[Len(handled[holder]) + 1] = f
  <2>1. handled[holder] \in Seq(Parsed)
    BY <1>2, <1>3
  <2> QED BY <1>8, <2>1, AppendProperties
<1>10. batch' \in [Servers -> Seq(Parsed)] /\ handled' \in [Conns -> Seq(Parsed)]
  <2>1. batch' \in [Servers -> Seq(Parsed)]
    BY <1>1, <1>2, <1>8
  <2>2. \A x \in Conns : handled'[x] \in Seq(Parsed)
    BY <1>2, <1>7, <1>9
  <2> QED BY <1>1, <2>1, <2>2
<1>11. /\ \A i \in DOMAIN handled[holder] : i \in DOMAIN handled'[holder]
                                        /\ handled'[holder][i] = handled[holder][i]
       /\ \E i \in DOMAIN handled'[holder] : handled'[holder][i] = f
  <2>1. handled[holder] \in Seq(Parsed) /\ handled'[holder] \in Seq(Parsed)
    BY <1>2, <1>3, <1>10
  <2>2. PICK m \in Nat : m = Len(handled[holder]) /\ DOMAIN handled[holder] = 1..m
    BY <2>1
  <2>3. DOMAIN handled'[holder] = 1..(m + 1)
    BY <1>7, <1>9, <2>1, <2>2
  <2>4. \A i \in 1..m : i \in 1..(m + 1)
    OBVIOUS
  <2>5. m + 1 \in 1..(m + 1)
    OBVIOUS
  <2> QED BY <1>7, <1>9, <2>2, <2>3, <2>4, <2>5
<1>12. \A i : Pending(i)' => Pending(i)
  BY <1>11 DEF Pending
<1>13. ~Pending(j)' /\ (Pending(j) <=> sent[holder][j].move)
  BY <1>5, <1>11 DEF Pending, f
<1>14. IsMove(Head(batch[s])) <=> sent[holder][j].move
  BY <1>5, <1>6 DEF IsMove, f
<1>15. Taken(k)'
  <2>1. InHand(rbuf)' = rbuf[s] /\ InHand(batch)' = batch'[s]
    <3>1. InHand(batch') = batch'[s]
      BY <1>7, InHandOne
    <3> QED BY <1>3, <3>1 DEF InHand
  <2>2. FramesOf(holder, k)' = FramesOf(holder, k) /\ BytesAfter(holder, k)' = BytesAfter(holder, k)
        /\ Coming' = Coming
    BY DEF FramesOf, BytesAfter, Coming
  <2> QED BY <1>5, <1>7, <1>8, <2>1, <2>2, Zenon DEF Taken
<1> QED BY <1>3, <1>4, <1>5, <1>7, <1>10, <1>12, <1>13, <1>14, <1>15

\* A join is the last frame of a client, and nothing comes after it.
LEMMA Moving ==
    ASSUME FrameInv, NEW s \in Servers, NextFrame(s), TakeFrame(s), IsMove(Head(batch[s])),
           UNCHANGED <<sent, net, peer, rx, holder, rbuf>>
    PROVE  /\ Quiet'
           /\ \A k \in DOMAIN sent[holder] : ~Pending(k)'
           /\ MovesOf(holder) = answered[holder] + 1
           /\ MovesOf(holder) <= Moves[holder]
           /\ watch \cap Channels # {} => answered[holder] > 0
<1>1. /\ holder \in Conns /\ holder # NoConn /\ condemned = {}
      /\ \A t \in Servers : t # s => rbuf[t] = <<>> /\ batch'[t] = <<>>
      /\ \A k : Pending(k)' => Pending(k)
  BY Handling
<1>2. PICK k \in 0..Len(sent[holder]), j \in 1..Len(sent[holder]) :
          /\ j <= k /\ Taken(k)'
          /\ IsMove(Head(batch[s])) <=> sent[holder][j].move
          /\ Pending(j) <=> sent[holder][j].move
          /\ ~Pending(j)'
          /\ j = k => batch'[s] = <<>>
  BY Handling
<1>3. /\ sent \in [Conns -> Seq(Frames)] /\ rbuf \in [Servers -> Seq(Bytes)]
      /\ rx \in [Conns -> Seq(Bytes)] /\ net \in [Conns -> Seq(Bytes)]
  BY DEF FrameInv, TypeOK
<1>4. Len(sent[holder]) \in Nat /\ DOMAIN sent[holder] = 1..Len(sent[holder])
  BY <1>1, <1>3
<1>5. /\ j = Len(sent[holder]) /\ MovesOf(holder) = answered[holder] + 1
      /\ MovesOf(holder) <= Moves[holder]
      /\ watch \cap Channels # {} => answered[holder] > 0
      /\ \A i \in DOMAIN sent[holder] : Pending(i) => i = j
  BY <1>1, <1>2, <1>4 DEF FrameInv, SilentInv
<1>6. k = j /\ batch'[s] = <<>>
  BY <1>2, <1>4, <1>5
<1>7. BytesAfter(holder, k)' = <<>>
  <2>1. BytesAfter(holder, Len(sent[holder])) = <<>>
    BY <1>1, <1>3, AfterEnd
  <2>2. BytesAfter(holder, k)' = BytesAfter(holder, k)
    BY DEF BytesAfter
  <2> QED BY <1>5, <1>6, <2>1, <2>2
<1>8. InHand(rbuf)' = rbuf[s]
  <2>1. InHand(rbuf) = rbuf[s]
    BY <1>1, InHandOne
  <2> QED BY <2>1 DEF InHand
<1>9. rbuf[s] = <<>>
  <2>1. StartsWith(<<>>, rbuf[s])
    BY <1>2, <1>7, <1>8, Zenon DEF Taken
  <2>2. rbuf[s] \in Seq(Bytes) /\ Len(<<>>) = 0
    BY <1>3
  <2> QED BY <2>1, <2>2 DEF StartsWith
<1>10. rx[holder] = <<>> /\ net[holder] = <<>>
  <2>1. CASE peer[holder] = "reset"
    BY <1>1, <2>1 DEF FrameInv, PeerInv
  <2>2. CASE peer[holder] # "reset"
    <3>1. Joins(<<>>, Coming, <<>>)
      <4>1. Coming' = Coming
        BY DEF Coming
      <4> QED BY <1>2, <1>7, <1>8, <1>9, <2>2, <4>1, Zenon DEF Taken
    <3>2. rx[holder] \in Seq(Bytes) /\ net[holder] \in Seq(Bytes)
      BY <1>1, <1>3
    <3>3. Coming \in Seq(Bytes) /\ Len(Coming) = Len(rx[holder]) + Len(net[holder])
      BY <3>2, ConcatProperties DEF Coming
    <3>4. <<>> \o Coming = Coming
      BY <3>3
    <3>5. Coming = <<>>
      BY <3>1, <3>4, Zenon DEF Joins
    <3>6. PICK m \in Nat, n \in Nat : m = Len(rx[holder]) /\ n = Len(net[holder])
      BY <3>2
    <3>7. m + n = 0
      <4>1. Len(Coming) = 0
        BY <3>5
      <4> QED BY <3>3, <3>6, <4>1
    <3>8. m = 0 /\ n = 0
      BY <3>7
    <3>9. \A q \in Seq(Bytes) : Len(q) = 0 => q = <<>>
      OBVIOUS
    <3>10. Len(rx[holder]) = 0 /\ Len(net[holder]) = 0
      BY <3>6, <3>8
    <3> QED BY <3>2, <3>9, <3>10, Zenon
  <2> QED BY <2>1, <2>2
<1>11. \A x \in Conns : rx[x] = <<>> /\ net[x] = <<>>
  BY <1>10 DEF FrameInv, PeerInv
<1>12. Quiet'
  BY <1>1, <1>6, <1>9, <1>11 DEF Quiet
<1>13. \A i \in DOMAIN sent[holder] : ~Pending(i)'
  BY <1>1, <1>2, <1>5
<1> QED BY <1>5, <1>12, <1>13

-----------------------------------------------------------------------------
(* The clients and the network.                                            *)

LEMMA SendKeeps ==
    ASSUME FrameInv, LastSwitches, NEW x \in Conns, Send(x)
    PROVE  FrameInv'
<1>a. PICK f \in Frames :
          /\ f.move => f.len > 0 /\ MovesOf(x) < Moves[x]
          /\ sent' = [sent EXCEPT ![x] = Append(@, f)]
          /\ net' = [net EXCEPT ![x] = @ \o BytesOf(x, Len(sent'[x]), f)]
  BY DEF Send
<1>b. /\ peer[x] = "up" /\ answered[x] = MovesOf(x) /\ dropping = {}
      /\ UNCHANGED <<rx, peer, answered, holder, watch, taking, dropping, condemned, pc, rbuf,
                     filled, batch, handled, ended>>
  BY DEF Send, LastSwitches, places, reading
<1>c. /\ sent \in [Conns -> Seq(Frames)] /\ net \in [Conns -> Seq(Bytes)]
      /\ rx \in [Conns -> Seq(Bytes)] /\ rbuf \in [Servers -> Seq(Bytes)]
      /\ answered[x] \in Nat /\ MovesOf(x) \in Nat /\ Moves[x] \in Nat
  BY MovesType, FrameAssumption DEF FrameInv, TypeOK
<1>d. holder = x /\ holder # NoConn
  BY <1>b, Sizes DEF FrameInv, PeerInv
<1>e. /\ taking = {} /\ \A k \in DOMAIN sent[x] : ~Pending(k)
      /\ watch \cap Channels # {} => answered[x] > 0
  BY <1>b, <1>c, <1>d DEF FrameInv, SilentInv
<1>f. \A s, t \in Dealing : s = t
  <2>1. \A s, t \in watch : s = t
    BY <1>b, <1>e DEF FrameInv, OverlapInv, Keepers
  <2>2. \A s, t \in Dealing : s # t => condemned = {}
    BY <1>b, <1>d DEF FrameInv, OverlapInv
  <2> QED BY <1>b, <1>e, <2>1, <2>2 DEF Dealing
<1> DEFINE n == Len(sent[x])
           e == BytesOf(x, n + 1, f)
<1>g. /\ n \in Nat /\ Len(sent'[x]) = n + 1 /\ DOMAIN sent[x] = 1..n /\ DOMAIN sent'[x] = 1..(n + 1)
      /\ \A k \in 1..n : sent'[x][k] = sent[x][k]
      /\ sent'[x][n + 1] = f
      /\ \A y \in Conns : y # x => sent'[y] = sent[y] /\ net'[y] = net[y]
      /\ sent' \in [Conns -> Seq(Frames)]
  <2>1. sent'[x] = Append(sent[x], f) /\ sent[x] \in Seq(Frames)
    BY <1>a, <1>c
  <2>2. /\ Append(sent[x], f) \in Seq(Frames) /\ Len(Append(sent[x], f)) = Len(sent[x]) + 1
        /\ \A i \in 1..Len(sent[x]) : Append(sent[x], f)[i] = sent[x][i]
        /\ Append(sent[x], f)[Len(sent[x]) + 1] = f
    BY <2>1, AppendProperties
  <2>3. DOMAIN sent[x] = 1..Len(sent[x]) /\ Len(sent[x]) \in Nat
    BY <2>1
  <2>4. \A q \in Seq(Frames) : DOMAIN q = 1..Len(q)
    OBVIOUS
  <2>5. sent'[x] \in Seq(Frames) /\ Len(sent'[x]) = n + 1
    BY <2>1, <2>2
  <2>6. DOMAIN sent'[x] = 1..(n + 1)
    BY <2>4, <2>5
  <2>7. sent' \in [Conns -> Seq(Frames)]
    BY <1>a, <1>c, <2>1, <2>2
  <2> QED BY <1>a, <1>c, <2>1, <2>2, <2>3, <2>5, <2>6, <2>7
<1>h. e \in Seq(Bytes) /\ net'[x] = net[x] \o e
  <2>1. f.len \in Lengths /\ n + 1 \in Nat \ {0}
    BY <1>g DEF Frames
  <2>2. BytesOf(x, n + 1, f) \in Seq(Bytes)
    BY <2>1, BytesOfOne
  <2> QED BY <1>a, <1>c, <1>g, <2>2
<1> HIDE DEF n, e
<1>i. Parsed \subseteq Parsed'
  <2>1. \A y \in Conns : \A k \in DOMAIN sent[y] :
            k \in DOMAIN sent'[y] /\ sent'[y][k] = sent[y][k]
    BY <1>g
  <2> QED BY <2>1 DEF Parsed
<1>1. TypeOK'
  <2>1. net' \in [Conns -> Seq(Bytes)]
    <3>1. net[x] \o e \in Seq(Bytes)
      BY <1>c, <1>h, ConcatProperties
    <3> QED BY <1>a, <1>c, <1>h, <3>1
  <2>2. Seq(Parsed) \subseteq Seq(Parsed')
    BY <1>i
  <2>3. batch' \in [Servers -> Seq(Parsed')] /\ handled' \in [Conns -> Seq(Parsed')]
    BY <1>b, <2>2 DEF FrameInv, TypeOK
  <2> QED BY <1>b, <1>g, <2>1, <2>3 DEF FrameInv, TypeOK
<1>2. PeerInv'
  <2>1. \A y \in Conns : peer[y] # "up" => sent'[y] = sent[y] /\ net'[y] = net[y]
    BY <1>b, <1>g
  <2> QED BY <1>b, <2>1 DEF FrameInv, PeerInv
<1>3. PlaceInv'
  BY <1>b, <1>d DEF FrameInv, PlaceInv
<1>4. EarlyInv'
  BY <1>b DEF FrameInv, EarlyInv, LastTurn
<1>5. OverlapInv'
  <2>1. Dealing' = Dealing /\ Keepers' = Keepers
    BY <1>b DEF Dealing, Keepers
  <2> QED BY <1>b, <1>e, <1>f, <2>1 DEF FrameInv, OverlapInv
<1>6. SilentInv'
  <2>1. MovesOf(x)' = MovesOf(x) + (IF f.move THEN 1 ELSE 0)
    BY <1>a, <1>c, MovesSend
  <2>2. /\ MovesOf(x)' \in {answered[x], answered[x] + 1} /\ MovesOf(x)' <= Moves[x]
        /\ f.move => MovesOf(x)' = answered[x] + 1
    <3>1. f.move \in BOOLEAN /\ MovesOf(x) <= Moves[x]
      BY <1>d DEF Frames, FrameInv, SilentInv
    <3>2. CASE f.move
      BY <1>a, <1>b, <1>c, <2>1, <3>2
    <3>3. CASE ~f.move
      BY <1>b, <1>c, <2>1, <3>1, <3>3
    <3> QED BY <3>2, <3>3
  <2>3. ASSUME NEW k \in DOMAIN sent'[x], Pending(k)'
        PROVE  k = n + 1 /\ f.move
    <3>1. k \in 1..(n + 1)
      BY <1>g
    <3>2. CASE k \in 1..n
      <4>1. Pending(k)
        BY <1>b, <1>d, <1>g, <2>3, <3>2 DEF Pending
      <4> QED BY <1>e, <1>g, <3>2, <4>1
    <3>3. CASE k = n + 1
      BY <1>b, <1>d, <1>g, <2>3, <3>3 DEF Pending
    <3> QED BY <1>g, <3>1, <3>2, <3>3
  <2> QED BY <1>b, <1>d, <1>e, <1>g, <2>2, <2>3 DEF SilentInv
<1>7. StreamInv'
  <2> SUFFICES ASSUME condemned = {} PROVE StreamInv'
    BY <1>b DEF StreamInv
  <2>1. PICK k \in 0..n : Taken(k)
    BY <1>d DEF FrameInv, StreamInv, n
  <2> DEFINE B == BytesAfter(x, k)
             R == InHand(rbuf)
  <2>2. FramesOf(x, k)' = FramesOf(x, k) /\ BytesAfter(x, k)' = B \o e
    BY <1>a, <1>c, FramesSend, AfterSend DEF n, e
  <2>3. B \in Seq(Bytes) /\ R \in Seq(Bytes)
    <3>1. B \in Seq(Bytes)
      BY <1>c, AfterType DEF n
    <3>2. R \in Seq(Bytes)
      <4>1. CASE \E s \in Servers : rbuf[s] # <<>>
        BY <1>c, <4>1, Alone
      <4>2. CASE \A s \in Servers : rbuf[s] = <<>>
        <5>1. InHand(rbuf) = <<>>
          BY <4>2, InHandNone
        <5> QED BY <5>1
      <4> QED BY <4>1, <4>2
    <3> QED BY <3>1, <3>2
  <2>4. rx[x] \in Seq(Bytes) /\ net[x] \in Seq(Bytes) /\ Coming \in Seq(Bytes)
        /\ Coming' = Coming \o e
    <3>1. rx[x] \in Seq(Bytes) /\ net[x] \in Seq(Bytes)
      BY <1>c
    <3>2. \A p, q, r \in Seq(Bytes) : (p \o q) \o r = p \o (q \o r)
      BY BytesAssociate
    <3>3. (rx[x] \o net[x]) \o e = rx[x] \o (net[x] \o e)
      BY <1>h, <3>1, <3>2, Zenon
    <3>4. rx[x] \o net[x] \in Seq(Bytes)
      BY <3>1, ConcatProperties
    <3>5. Coming = rx[x] \o net[x] /\ Coming' = rx[x] \o (net[x] \o e)
      BY <1>b, <1>d, <1>h DEF Coming
    <3> QED BY <3>1, <3>3, <3>4, <3>5, Zenon
  <2>5. R' = R /\ InHand(batch)' = InHand(batch)
    BY <1>b DEF InHand
  <2> HIDE DEF B, R
  <2>6. StartsWith(B \o e, R)
    <3>1. StartsWith(B, R)
      BY <1>d, <2>1, Zenon DEF Taken, B, R
    <3> QED BY <1>h, <2>3, <3>1, StartsLonger
  <2>7. Joins(R, Coming \o e, B \o e)
    <3>1. Joins(R, Coming, B)
      BY <1>b, <1>d, <2>1 DEF Taken, B, R
    <3> QED BY <1>h, <2>3, <2>4, <3>1, JoinsLonger
  <2>8. Taken(k)'
    BY <1>b, <1>d, <2>1, <2>2, <2>4, <2>5, <2>6, <2>7, Zenon DEF Taken, R
  <2>9. k \in 0..Len(sent'[x])
    BY <1>g
  <2> QED BY <1>b, <1>d, <2>8, <2>9 DEF StreamInv
<1>8. EndInv'
  BY <1>b DEF FrameInv, EndInv
<1>9. WaitInv'
  <2> SUFFICES ASSUME NEW s \in Servers, Looked(s), s \notin condemned,
                       Len(rbuf[s]) >= HeaderSize
               PROVE  \A l \in HeaderValues(rbuf[s])' : Len(rbuf[s]) < HeaderSize + l
    BY <1>b DEF WaitInv, Looked
  <2>1. rbuf[s] # <<>> /\ rbuf[s] \in Seq(Bytes)
    BY <1>c, Sizes
  <2>2. condemned = {} /\ InHand(rbuf) = rbuf[s]
    BY <2>1, Alone DEF Dealing
  <2>3. PICK k \in 0..Len(sent[x]) : Taken(k)
    BY <1>d, <2>2 DEF FrameInv, StreamInv
  <2>4. StartsWith(BytesAfter(x, k), rbuf[s])
    BY <1>d, <2>2, <2>3, Zenon DEF Taken
  <2>5. /\ k + 1 \in DOMAIN sent[x] /\ Aligned(rbuf[s])
        /\ rbuf[s][1] = [con |-> x, frame |-> k + 1, at |-> 1]
        /\ HeaderValues(rbuf[s]) = {sent[x][k + 1].len}
    BY <1>c, <2>1, <2>4, StartsAligned
  <2>6. HeaderValues(rbuf[s])' = {sent'[x][k + 1].len}
    BY <1>b, <2>5 DEF HeaderValues, Aligned
  <2>7. HeaderValues(rbuf[s])' = HeaderValues(rbuf[s])
    BY <1>g, <2>5, <2>6
  <2> QED BY <2>7 DEF FrameInv, WaitInv
<1>10. BadIsBad'
  <2>1. \A y \in Conns : \A k \in DOMAIN sent[y] :
            k \in DOMAIN sent'[y] /\ sent'[y][k] = sent[y][k]
    BY <1>g
  <2> QED BY <1>b, <2>1 DEF FrameInv, BadIsBad
<1> QED BY <1>1, <1>2, <1>3, <1>4, <1>5, <1>6, <1>7, <1>8, <1>9, <1>10 DEF FrameInv

LEMMA CloseEndKeeps ==
    ASSUME FrameInv, NEW x \in Conns, CloseEnd(x)
    PROVE  FrameInv'
<1>1. TypeOK'
  <2>1. Parsed' = Parsed
    BY DEF Parsed, CloseEnd, clientSide, places, reading
  <2> QED BY <2>1 DEF FrameInv, TypeOK, CloseEnd, places, reading
<1>2. PeerInv'
  BY DEF FrameInv, PeerInv, CloseEnd, places
<1>3. PlaceInv'
  BY DEF FrameInv, PeerInv, PlaceInv, Conns, NoConn, CloseEnd, places, reading
<1>4. EarlyInv'
  <2>1. LastTurn' <=> LastTurn
    BY LastTurnSame DEF FrameInv, CloseEnd, clientSide, places, reading
  <2> QED BY <2>1 DEF FrameInv, EarlyInv, CloseEnd, clientSide, places, reading
<1>5. OverlapInv'
  <2>1. LastTurn' <=> LastTurn
    BY LastTurnSame DEF FrameInv, CloseEnd, clientSide, places, reading
  <2>2. Quiet => Quiet'
    BY DEF FrameInv, TypeOK, Quiet, CloseEnd, clientSide, places, reading
  <2>3. peer[holder] # "up" => peer'[holder] # "up"
    BY DEF FrameInv, TypeOK, CloseEnd, clientSide, places, reading
  <2> QED BY <2>1, <2>2, <2>3, OverlapSame DEF FrameInv, CloseEnd, places
<1>6. SilentInv'
  BY SilentSame DEF FrameInv, TypeOK, CloseEnd, clientSide, places, reading
<1>7. StreamInv'
  BY StreamSame DEF FrameInv, TypeOK, CloseEnd, clientSide, places, reading
<1>8. EndInv'
  BY DEF FrameInv, EndInv, CloseEnd, places
<1>9. WaitInv'
  BY WaitSame DEF FrameInv, TypeOK, Looked, CloseEnd, clientSide, places, reading
<1>10. BadIsBad'
  BY BadSame DEF FrameInv, TypeOK, CloseEnd, clientSide, places, reading
<1> QED BY <1>1, <1>2, <1>3, <1>4, <1>5, <1>6, <1>7, <1>8, <1>9, <1>10 DEF FrameInv

LEMMA ResetKeeps ==
    ASSUME FrameInv, NEW x \in Conns, Reset(x)
    PROVE  FrameInv'
<1>1. TypeOK'
  <2>1. Parsed' = Parsed
    BY DEF Parsed, Reset, clientSide, places, reading
  <2>2. peer' \in [Conns -> {"new", "up", "closed", "reset", "over"}]
    BY FrameAssumption
    DEF FrameInv, TypeOK, Servers, Reset, clientSide, places, reading
  <2>3. net' \in [Conns -> Seq(Bytes)]
    BY FrameAssumption
    DEF FrameInv, TypeOK, Servers, Reset, clientSide, places, reading
  <2>4. rx' \in [Conns -> Seq(Bytes)]
    BY FrameAssumption
    DEF FrameInv, TypeOK, Servers, Reset, clientSide, places, reading
  <2> QED BY <2>1, <2>2, <2>3, <2>4 DEF FrameInv, TypeOK, Reset, places, reading
<1>2. PeerInv'
  BY DEF FrameInv, TypeOK, PeerInv, Reset, places
<1>3. PlaceInv'
  BY DEF FrameInv, PeerInv, PlaceInv, Conns, NoConn, Reset, places, reading
<1>4. EarlyInv'
  <2>1. LastTurn' <=> LastTurn
    BY LastTurnSame DEF FrameInv, Reset, clientSide, places, reading
  <2> QED BY <2>1 DEF FrameInv, EarlyInv, Reset, clientSide, places, reading
<1>5. OverlapInv'
  <2>1. LastTurn' <=> LastTurn
    BY LastTurnSame DEF FrameInv, Reset, clientSide, places, reading
  <2>2. Quiet => Quiet'
    BY DEF FrameInv, TypeOK, Quiet, Reset, clientSide, places, reading
  <2>3. peer[holder] # "up" => peer'[holder] # "up"
    BY DEF FrameInv, TypeOK, Reset, clientSide, places, reading
  <2> QED BY <2>1, <2>2, <2>3, OverlapSame DEF FrameInv, Reset, places
<1>6. SilentInv'
  BY SilentSame DEF FrameInv, TypeOK, Reset, clientSide, places, reading
<1>7. StreamInv'
  <2>1. /\ x = holder /\ UNCHANGED <<sent, handled, holder, condemned, rbuf, batch>>
        /\ peer'[x] = "reset"
    BY DEF FrameInv, TypeOK, PeerInv, Reset, places, reading
  <2>2. ASSUME NEW k, Taken(k) PROVE Taken(k)'
    <3>1. FramesOf(holder, k)' = FramesOf(holder, k) /\ BytesAfter(holder, k)' = BytesAfter(holder, k)
          /\ InHand(batch)' = InHand(batch) /\ InHand(rbuf)' = InHand(rbuf)
      BY <2>1 DEF FramesOf, BytesAfter
    <3> QED BY <2>1, <2>2, <3>1 DEF Taken
  <2> QED BY <2>1, <2>2 DEF FrameInv, StreamInv
<1>8. EndInv'
  BY DEF FrameInv, EndInv, Reset, places
<1>9. WaitInv'
  BY WaitSame DEF FrameInv, TypeOK, Looked, Reset, clientSide, places, reading
<1>10. BadIsBad'
  BY BadSame DEF FrameInv, TypeOK, Reset, clientSide, places, reading
<1> QED BY <1>1, <1>2, <1>3, <1>4, <1>5, <1>6, <1>7, <1>8, <1>9, <1>10 DEF FrameInv

LEMMA AcceptKeeps ==
    ASSUME FrameInv, NEW x \in Conns, Accept(x)
    PROVE  FrameInv'
<1>a. /\ peer[x] = "new" /\ holder = NoConn /\ \A y \in 1..(x - 1) : peer[y] = "over"
      /\ pc[Lobby] = "wait" /\ holder' = x /\ watch' = {Lobby}
      /\ peer' = [peer EXCEPT ![x] = "up"]
      /\ UNCHANGED <<sent, net, rx, answered, taking, dropping, condemned, pc, rbuf, filled,
                      batch, handled, ended>>
  BY DEF Accept, reading
<1>b. /\ x # NoConn /\ Lobby \in Servers /\ Lobby \notin Channels
      /\ peer \in [Conns -> {"new", "up", "closed", "reset", "over"}]
      /\ \A y \in Conns : y # x => peer'[y] = peer[y]
      /\ peer'[x] = "up"
  BY <1>a, Sizes, FrameAssumption DEF FrameInv, TypeOK, Servers
<1>c. ~LastTurn
  <2>1. Count \in Conns /\ x <= Count /\ x \in Nat /\ Count \in Nat
    BY Sizes DEF Conns
  <2>2. CASE x = Count
    BY <1>a, <2>2 DEF LastTurn
  <2>3. CASE x < Count
    BY <1>a, <2>1, <2>3 DEF FrameInv, PeerInv, LastTurn
  <2> QED BY <2>1, <2>2, <2>3
<1>d. /\ taking = {} /\ condemned = {} /\ dropping = {} /\ Quiet
      /\ \A c \in Channels : pc[c] = "wait"
  BY <1>a, <1>c DEF FrameInv, EarlyInv, PlaceInv
<1>e. Quiet'
  BY <1>a, <1>d DEF Quiet
<1>f. /\ sent[x] = <<>> /\ answered[x] = 0 /\ handled[x] = <<>> /\ ended[x] = "no"
      /\ rx[x] = <<>> /\ net[x] = <<>>
  BY <1>a, <1>d DEF FrameInv, PeerInv, Quiet
<1>1. TypeOK'
  <2>1. Parsed' = Parsed
    BY <1>a DEF Parsed
  <2>2. peer' \in [Conns -> {"new", "up", "closed", "reset", "over"}]
    BY <1>a, <1>b
  <2> QED BY <1>a, <1>b, <2>1, <2>2 DEF FrameInv, TypeOK
<1>2. PeerInv'
  <2>1. \A y \in Conns : y = x <=> peer'[y] \in {"up", "closed", "reset"}
    BY <1>a, <1>b, Sizes DEF FrameInv, PeerInv
  <2>2. \A y \in Conns : peer'[y] = "new" => sent'[y] = <<>> /\ answered'[y] = 0
                                           /\ handled'[y] = <<>> /\ ended'[y] = "no"
    BY <1>a, <1>b DEF FrameInv, PeerInv
  <2>3. ASSUME NEW z \in Conns, NEW y \in Conns, y < z, peer'[z] # "new"
        PROVE  peer'[y] = "over"
    <3>1. CASE z = x
      <4>1. y \in 1..(x - 1) /\ y # x
        BY <2>3, <3>1, Sizes DEF Conns
      <4> QED BY <1>a, <1>b, <4>1
    <3>2. CASE z # x
      <4>1. peer[y] = "over"
        BY <1>b, <2>3, <3>2 DEF FrameInv, PeerInv
      <4> QED BY <1>a, <1>b, <4>1
    <3> QED BY <3>1, <3>2
  <2> QED BY <1>a, <1>e, <2>1, <2>2, <2>3 DEF PeerInv, Quiet
<1>3. PlaceInv'
  <2>1. \A s \in Servers : pc[s] = "wait"
    BY <1>a, <1>d DEF Servers
  <2> QED BY <1>a, <1>b, <1>d, <1>e, <2>1 DEF PlaceInv, Quiet
<1>4. EarlyInv'
  BY <1>a, <1>b, <1>d DEF EarlyInv
<1>5. OverlapInv'
  <2>1. Dealing' = {Lobby} /\ Keepers' = {Lobby}
    BY <1>a, <1>d DEF Dealing, Keepers
  <2> QED BY <1>a, <1>d, <2>1 DEF OverlapInv
<1>6. SilentInv'
  <2>1. MovesOf(x)' = 0
    BY <1>a, <1>f, MovesType DEF FrameInv, TypeOK, MovesOf
  <2>2. DOMAIN sent[x] = {} /\ Moves[x] \in Nat /\ watch' \cap Channels = {}
    BY <1>a, <1>b, <1>f, FrameAssumption
  <2> QED BY <1>a, <1>d, <1>f, <2>1, <2>2 DEF SilentInv
<1>7. StreamInv'
  <2>1. /\ InHand(rbuf)' = <<>> /\ InHand(batch)' = <<>> /\ FramesOf(x, 0) = <<>>
        /\ BytesAfter(x, 0) = <<>>
    <3>1. Len(sent[x]) = 0
      BY <1>f
    <3> QED BY <1>a, <1>d, <1>f, <3>1, QuietHands, FramesNone, AfterEnd
            DEF FrameInv, TypeOK
  <2>2. FramesOf(x, 0)' = FramesOf(x, 0) /\ BytesAfter(x, 0)' = BytesAfter(x, 0)
    BY <1>a DEF FramesOf, BytesAfter
  <2>3. Coming' = <<>> /\ Joins(<<>>, <<>>, <<>>) /\ StartsWith(<<>>, <<>>)
    BY <1>a, <1>f DEF Coming, Joins, StartsWith
  <2>4. Taken(0)'
    BY <1>a, <1>f, <2>1, <2>2, <2>3 DEF Taken
  <2>5. Len(sent[x]) \in Nat
    BY <1>f
  <2> QED BY <1>a, <2>4, <2>5 DEF StreamInv
<1>8. EndInv'
  BY <1>a, <1>d, <1>f DEF EndInv
<1>9. WaitInv'
  BY WaitSame DEF FrameInv, TypeOK, Looked, Accept, clientSide, places, reading
<1>10. BadIsBad'
  BY BadSame DEF FrameInv, TypeOK, Accept, clientSide, places, reading
<1> QED BY <1>1, <1>2, <1>3, <1>4, <1>5, <1>6, <1>7, <1>8, <1>9, <1>10 DEF FrameInv

LEMMA ArriveKeeps ==
    ASSUME FrameInv, NEW x \in Conns, Arrive(x)
    PROVE  FrameInv'
<1>a. PICK n \in 1..Len(net[x]) :
          /\ rx' = [rx EXCEPT ![x] = @ \o SubSeq(net[x], 1, n)]
          /\ net' = [net EXCEPT ![x] = SubSeq(@, n + 1, Len(@))]
  BY DEF Arrive
<1>b. UNCHANGED <<sent, peer, answered, holder, watch, taking, dropping, condemned, pc, rbuf,
                  filled, batch, handled, ended>>
  BY DEF Arrive, places, reading
<1>c. rx \in [Conns -> Seq(Bytes)] /\ net \in [Conns -> Seq(Bytes)]
  BY DEF FrameInv, TypeOK
<1>d. x = holder /\ peer[x] \in {"up", "closed"} /\ ~Quiet
  <2>1. net[x] # <<>>
    BY <1>a, <1>c
  <2> QED BY <2>1, HolderOnly
<1>e. /\ SubSeq(net[x], 1, n) \in Seq(Bytes) /\ SubSeq(net[x], n + 1, Len(net[x])) \in Seq(Bytes)
      /\ Joins(SubSeq(net[x], 1, n), SubSeq(net[x], n + 1, Len(net[x])), net[x])
  <2>1. net[x] \in Seq(Bytes) /\ n \in 0..Len(net[x])
    BY <1>c
  <2> QED BY <2>1, SplitSeq
<1>1. TypeOK'
  <2>1. Parsed' = Parsed
    BY <1>b DEF Parsed
  <2>2. rx' \in [Conns -> Seq(Bytes)]
    <3>1. rx[x] \o SubSeq(net[x], 1, n) \in Seq(Bytes)
      BY <1>c, <1>e, ConcatProperties
    <3> QED BY <1>a, <1>c, <3>1
  <2>3. net' \in [Conns -> Seq(Bytes)]
    BY <1>a, <1>c, <1>e
  <2> QED BY <1>b, <2>1, <2>2, <2>3 DEF FrameInv, TypeOK
<1>2. PeerInv'
  <2>1. \A y \in Conns : y # x => rx'[y] = rx[y] /\ net'[y] = net[y]
    BY <1>a, <1>c
  <2> QED BY <1>b, <1>d, <2>1 DEF FrameInv, PeerInv
<1>3. PlaceInv'
  <2>1. holder # NoConn
    BY <1>d, Sizes
  <2> QED BY <1>b, <2>1 DEF FrameInv, PlaceInv
<1>4. EarlyInv'
  BY <1>b DEF FrameInv, EarlyInv, LastTurn
<1>5. OverlapInv'
  <2>1. LastTurn => LastTurn'
    BY <1>b DEF LastTurn
  <2> QED BY <1>b, <1>d, <2>1, OverlapSame DEF FrameInv
<1>6. SilentInv'
  BY SilentSame DEF FrameInv, TypeOK, Arrive, clientSide, places, reading
<1>7. StreamInv'
  <2>1. Coming' = Coming
    <3> DEFINE u == SubSeq(net[x], 1, n)
               v == SubSeq(net[x], n + 1, Len(net[x]))
    <3>1. rx'[x] = rx[x] \o u /\ net'[x] = v /\ net[x] = u \o v
      BY <1>a, <1>c, <1>e, Zenon DEF Joins
    <3>2. rx[x] \in Seq(Bytes) /\ u \in Seq(Bytes) /\ v \in Seq(Bytes)
      BY <1>c, <1>e
    <3> HIDE DEF u, v
    <3>a. \A p, q, r \in Seq(Bytes) : (p \o q) \o r = p \o (q \o r)
      BY BytesAssociate
    <3>3. (rx[x] \o u) \o v = rx[x] \o (u \o v)
      BY <3>a, <3>2, Zenon
    <3> QED BY <1>b, <1>d, <3>1, <3>3, Zenon DEF Coming
  <2>2. ASSUME NEW k, Taken(k) PROVE Taken(k)'
    <3>1. /\ FramesOf(holder, k)' = FramesOf(holder, k) /\ BytesAfter(holder, k)' = BytesAfter(holder, k)
          /\ InHand(batch)' = InHand(batch) /\ InHand(rbuf)' = InHand(rbuf)
      BY <1>b DEF FramesOf, BytesAfter
    <3> QED BY <1>b, <2>1, <2>2, <3>1 DEF Taken
  <2> QED BY <1>b, <2>2 DEF FrameInv, StreamInv
<1>8. EndInv'
  BY DEF FrameInv, EndInv, Arrive, places
<1>9. WaitInv'
  BY WaitSame DEF FrameInv, TypeOK, Looked, Arrive, clientSide, places, reading
<1>10. BadIsBad'
  BY BadSame DEF FrameInv, TypeOK, Arrive, clientSide, places, reading
<1> QED BY <1>1, <1>2, <1>3, <1>4, <1>5, <1>6, <1>7, <1>8, <1>9, <1>10 DEF FrameInv

-----------------------------------------------------------------------------
(* recv_frame.                                                             *)

LEMMA StartReadKeeps ==
    ASSUME FrameInv, NEW s \in Servers, StartRead(s)
    PROVE  FrameInv'
<1>1. TypeOK'
  <2>1. Parsed' = Parsed
    BY DEF Parsed, StartRead, AtEnd, clientSide, places, reading
  <2> QED BY <2>1 DEF FrameInv, TypeOK, StartRead, clientSide, places
<1>2. PeerInv'
  BY DEF FrameInv, PeerInv, StartRead, clientSide, places
<1>3. PlaceInv'
  BY DEF FrameInv, PlaceInv, StartRead, places
<1>4. EarlyInv'
  BY DEF FrameInv, EarlyInv, LastTurn, StartRead, clientSide, places
<1>5. OverlapInv'
  <2>1. Quiet => Quiet'
    BY DEF Quiet, StartRead, AtEnd, clientSide, places, reading
  <2>2. LastTurn => LastTurn'
    BY DEF LastTurn, StartRead, AtEnd, clientSide, places, reading
  <2> QED BY <2>1, <2>2, OverlapSame DEF FrameInv, StartRead, clientSide, places
<1>6. SilentInv'
  BY SilentSame DEF FrameInv, TypeOK, StartRead, AtEnd, clientSide, places, reading
<1>7. StreamInv'
  BY StreamSame DEF FrameInv, TypeOK, StartRead, AtEnd, clientSide, places, reading
<1>8. EndInv'
  BY DEF FrameInv, EndInv, StartRead, places
<1>9. WaitInv'
  BY WaitSame DEF FrameInv, Looked, StartRead, clientSide
<1>10. BadIsBad'
  BY BadSame DEF FrameInv, TypeOK, StartRead, AtEnd, clientSide, places, reading
<1> QED BY <1>1, <1>2, <1>3, <1>4, <1>5, <1>6, <1>7, <1>8, <1>9, <1>10 DEF FrameInv

LEMMA ReadFailsKeeps ==
    ASSUME FrameInv, NEW s \in Servers, ReadFails(s)
    PROVE  FrameInv'
<1>1. TypeOK'
  <2>1. Parsed' = Parsed
    BY DEF Parsed, ReadFails, Throw, CondemnFor, clientSide, places, reading
  <2> QED BY <2>1
          DEF FrameInv, TypeOK, ReadFails, Throw, CondemnFor, clientSide, places
<1>2. PeerInv'
  BY DEF FrameInv, PeerInv, ReadFails, Throw, CondemnFor, clientSide, places
<1>3. PlaceInv'
  BY DEF FrameInv, TypeOK, PlaceInv, Quiet, ReadFails, Throw, CondemnFor, clientSide,
     places
<1>4. EarlyInv'
  BY DEF FrameInv, PlaceInv, EarlyInv, LastTurn, Servers, ReadFails, Throw,
     clientSide, places
<1>5. OverlapInv'
  <2>1. Quiet => Quiet'
    BY DEF Quiet, ReadFails, Throw, clientSide
  <2>2. LastTurn => LastTurn'
    BY DEF LastTurn, ReadFails, Throw, CondemnFor, clientSide, places, reading
  <2>3. CASE holder = NoConn
    BY <2>1, <2>2, <2>3
    DEF FrameInv, PlaceInv, OverlapInv, Keepers, ReadFails, Throw, CondemnFor, places
  <2>4. CASE holder # NoConn
    <3>1. s \in watch /\ peer[holder] # "up"
      BY <2>4 DEF FrameInv, PlaceInv, ReadFails
    <3> QED BY <2>1, <2>2, <3>1, OverlapSame
            DEF FrameInv, ReadFails, Throw, CondemnFor, clientSide, places
  <2> QED BY <2>3, <2>4
<1>6. SilentInv'
  BY SilentSame DEF FrameInv, ReadFails, clientSide, places
<1>7. StreamInv'
  BY DEF FrameInv, StreamInv, ReadFails, Throw, CondemnFor, clientSide, places,
     reading
<1>8. EndInv'
  BY DEF FrameInv, EndInv, TypeOK, ReadFails, Throw, CondemnFor, places
<1>9. WaitInv'
  BY WaitSame DEF FrameInv, Looked, ReadFails, Throw, CondemnFor, clientSide
<1>10. BadIsBad'
  BY BadSame DEF FrameInv, ReadFails, Throw, CondemnFor, clientSide
<1> QED BY <1>1, <1>2, <1>3, <1>4, <1>5, <1>6, <1>7, <1>8, <1>9, <1>10 DEF FrameInv

LEMMA RecvEndKeeps ==
    ASSUME FrameInv, NEW s \in Servers, RecvEnd(s)
    PROVE  FrameInv'
<1>1. TypeOK'
  <2>1. Parsed' = Parsed
    BY DEF Parsed, RecvEnd, AtEnd, Throw, CondemnFor, clientSide, places, reading
  <2> QED BY <2>1 DEF FrameInv, TypeOK, RecvEnd, Throw, CondemnFor, clientSide, places
<1>2. PeerInv'
  BY DEF FrameInv, PeerInv, RecvEnd, Throw, CondemnFor, clientSide, places
<1>3. PlaceInv'
  BY DEF FrameInv, TypeOK, PlaceInv, RecvEnd, Throw, CondemnFor, places
<1>4. EarlyInv'
  BY DEF FrameInv, EarlyInv, LastTurn, RecvEnd, Throw, clientSide, places
<1>5. OverlapInv'
  <2>1. Quiet => Quiet'
    BY DEF Quiet, RecvEnd, Throw, clientSide
  <2>2. LastTurn => LastTurn'
    BY DEF LastTurn, RecvEnd, AtEnd, Throw, CondemnFor, clientSide, places, reading
  <2>3. CASE holder = NoConn
    BY <2>1, <2>2, <2>3 DEF RecvEnd
  <2>4. CASE holder # NoConn
    <3>1. s \in watch /\ peer[holder] # "up"
      BY <2>4 DEF FrameInv, PlaceInv, RecvEnd, AtEnd
    <3> QED BY <2>1, <2>2, <3>1, OverlapSame
            DEF FrameInv, RecvEnd, Throw, CondemnFor, clientSide, places
  <2> QED BY <2>3, <2>4
<1>6. SilentInv'
  BY SilentSame DEF FrameInv, RecvEnd, clientSide, places
<1>7. StreamInv'
  BY DEF StreamInv, RecvEnd, Throw, CondemnFor
<1>8. EndInv'
  BY DEF FrameInv, EndInv, TypeOK, RecvEnd, Throw, CondemnFor, places
<1>9. WaitInv'
  BY WaitSame DEF FrameInv, Looked, RecvEnd, Throw, CondemnFor, clientSide
<1>10. BadIsBad'
  BY BadSame DEF FrameInv, RecvEnd, Throw, CondemnFor, clientSide
<1> QED BY <1>1, <1>2, <1>3, <1>4, <1>5, <1>6, <1>7, <1>8, <1>9, <1>10 DEF FrameInv

LEMMA RecvBytesKeeps ==
    ASSUME FrameInv, NEW s \in Servers, RecvBytes(s)
    PROVE  FrameInv'
<1>a. rx \in [Conns -> Seq(Bytes)] /\ net \in [Conns -> Seq(Bytes)] /\ rbuf \in [Servers -> Seq(Bytes)]
  BY DEF FrameInv, TypeOK
<1>b. /\ holder \in Conns /\ s \in watch /\ s \notin condemned /\ rx[holder] # <<>>
      /\ pc[s] = "recv" /\ holder # NoConn
  BY Reader DEF RecvBytes
<1>c. PICK n \in 0..Len(rx[holder]) :
          /\ rbuf' = [rbuf EXCEPT ![s] = @ \o SubSeq(rx[holder], 1, n)]
          /\ rx' = [rx EXCEPT ![holder] = SubSeq(@, n + 1, Len(@))]
          /\ filled' = [filled EXCEPT ![s] = @ \/ n = BufSize]
          /\ pc' = [pc EXCEPT ![s] = IF ReadsOn(n) THEN "recv" ELSE "parse"]
  <2> DEFINE n == IF Len(rx[holder]) < BufSize THEN Len(rx[holder]) ELSE BufSize
  <2>1. Len(rx[holder]) \in Nat /\ BufSize \in Nat
    BY <1>a, <1>b, Sizes
  <2>2. n \in 0..Len(rx[holder])
    BY <2>1
  <2>3. /\ rbuf' = [rbuf EXCEPT ![s] = @ \o SubSeq(rx[holder], 1, n)]
        /\ rx' = [rx EXCEPT ![holder] = SubSeq(@, n + 1, Len(@))]
        /\ filled' = [filled EXCEPT ![s] = @ \/ n = BufSize]
        /\ pc' = [pc EXCEPT ![s] = IF ReadsOn(n) THEN "recv" ELSE "parse"]
    BY DEF RecvBytes
  <2> HIDE DEF n
  <2> QED BY <2>2, <2>3
<1>d. UNCHANGED <<sent, net, peer, answered, holder, watch, taking, dropping, condemned, batch,
                  handled, ended>>
  BY DEF RecvBytes, clientSide, places
<1>e. ~Quiet /\ peer[holder] \in {"up", "closed"}
  BY <1>b, HolderOnly
<1>f. /\ pc' \in [Servers -> {"wait", "recv", "parse", "frames"}] /\ pc'[s] \in {"recv", "parse"}
      /\ \A t \in Servers : t # s => pc'[t] = pc[t] /\ rbuf'[t] = rbuf[t]
  BY <1>a, <1>c DEF FrameInv, TypeOK
<1>g. condemned = {}
  BY <1>b, <1>e DEF FrameInv, OverlapInv, Dealing
<1> DEFINE u == SubSeq(rx[holder], 1, n)
           v == SubSeq(rx[holder], n + 1, Len(rx[holder]))
<1>h. u \in Seq(Bytes) /\ v \in Seq(Bytes) /\ Joins(u, v, rx[holder])
  <2>1. rx[holder] \in Seq(Bytes)
    BY <1>a, <1>b
  <2> QED BY <2>1, SplitSeq
<1>i. rbuf'[s] = rbuf[s] \o u /\ rx'[holder] = v
  BY <1>a, <1>b, <1>c
<1>j. rbuf[s] \o u \in Seq(Bytes)
  <2>1. rbuf[s] \in Seq(Bytes)
    BY <1>a
  <2> QED BY <1>h, <2>1, ConcatProperties
<1> HIDE DEF u, v
<1>1. TypeOK'
  <2>1. Parsed' = Parsed
    BY <1>d DEF Parsed
  <2>2. rbuf' \in [Servers -> Seq(Bytes)]
    BY <1>a, <1>c, <1>i, <1>j
  <2>3. rx' \in [Conns -> Seq(Bytes)]
    BY <1>a, <1>b, <1>c, <1>h, <1>i
  <2>4. filled' \in [Servers -> BOOLEAN]
    BY <1>c DEF FrameInv, TypeOK
  <2> QED BY <1>d, <1>f, <2>1, <2>2, <2>3, <2>4 DEF FrameInv, TypeOK
<1>2. PeerInv'
  <2>1. \A y \in Conns : y # holder => rx'[y] = rx[y]
    BY <1>a, <1>c
  <2> QED BY <1>d, <1>e, <2>1 DEF FrameInv, PeerInv
<1>3. PlaceInv'
  <2>1. batch[s] = <<>>
    BY <1>b DEF FrameInv, PlaceInv
  <2> QED BY <1>b, <1>d, <1>f, <2>1 DEF FrameInv, PlaceInv
<1>4. EarlyInv'
  <2>1. \A c \in Channels : pc'[c] # "wait" => pc[c] # "wait"
    BY <1>b, <1>f DEF Servers
  <2> QED BY <1>b, <1>d, <2>1 DEF FrameInv, EarlyInv, LastTurn
<1>5. OverlapInv'
  <2>1. LastTurn => LastTurn'
    BY <1>d DEF LastTurn
  <2> QED BY <1>d, <1>e, <2>1, OverlapSame DEF FrameInv
<1>6. SilentInv'
  BY <1>d, SilentSame DEF FrameInv
<1>7. StreamInv'
  <2>1. PICK k \in 0..Len(sent[holder]) : Taken(k)
    BY <1>b, <1>g DEF FrameInv, StreamInv
  <2> DEFINE B == BytesAfter(holder, k)
  <2>2. InHand(rbuf) = rbuf[s] /\ InHand(rbuf)' = rbuf'[s] /\ InHand(batch)' = InHand(batch)
    <3>1. InHand(rbuf) = rbuf[s] /\ \A t \in Servers : t # s => rbuf[t] = <<>>
      BY <1>b, Watching
    <3>2. \A t \in Servers : t # s => rbuf'[t] = <<>>
      BY <1>f, <3>1
    <3>3. InHand(rbuf') = rbuf'[s]
      BY <3>2, InHandOne
    <3> QED BY <1>d, <3>1, <3>3 DEF InHand
  <2>3. FramesOf(holder, k)' = FramesOf(holder, k) /\ BytesAfter(holder, k)' = B
    BY <1>d DEF FramesOf, BytesAfter
  <2>4. rbuf[s] \in Seq(Bytes) /\ net[holder] \in Seq(Bytes) /\ v \o net[holder] \in Seq(Bytes)
    BY <1>a, <1>b, <1>h, ConcatProperties
  <2>5. B = (rbuf[s] \o u) \o (v \o net[holder])
    <3>2. \A p, q, r \in Seq(Bytes) : (p \o q) \o r = p \o (q \o r)
      BY BytesAssociate
    <3>1. B = rbuf[s] \o ((u \o v) \o net[holder])
      BY <1>e, <1>h, <2>1, <2>2, Zenon DEF Taken, Joins, Coming
    <3>3. (u \o v) \o net[holder] = u \o (v \o net[holder])
      BY <1>h, <2>4, <3>2, Zenon
    <3>4. (rbuf[s] \o u) \o (v \o net[holder]) = rbuf[s] \o (u \o (v \o net[holder]))
      BY <1>h, <2>4, <3>2, Zenon
    <3> QED BY <3>1, <3>3, <3>4, Zenon
  <2>6. Joins(rbuf'[s], Coming', B)
    BY <1>d, <1>i, <2>5, Zenon DEF Joins, Coming
  <2>7. StartsWith(B, rbuf'[s])
    <3>1. StartsWith((rbuf[s] \o u) \o (v \o net[holder]), rbuf[s] \o u)
      BY <1>j, <2>4, StartsConcat
    <3> QED BY <1>i, <2>5, <3>1, Zenon
  <2>8. Taken(k)'
    BY <1>d, <2>1, <2>2, <2>3, <2>6, <2>7, Zenon DEF Taken
  <2> QED BY <1>d, <2>8 DEF StreamInv
<1>8. EndInv'
  BY <1>d DEF FrameInv, EndInv
<1>9. WaitInv'
  <2>1. filled \in [Servers -> BOOLEAN]
    BY DEF FrameInv, TypeOK
  <2>2. pc'[s] = "recv" => filled'[s]
    BY <1>c, <2>1 DEF FrameInv, TypeOK, ReadsOn
  <2>3. \A t \in Servers : t # s => filled'[t] = filled[t]
    BY <1>c, <2>1
  <2> QED BY <1>d, <1>f, <2>2, <2>3, WaitSame DEF FrameInv, Looked
<1>10. BadIsBad'
  BY <1>d DEF FrameInv, BadIsBad
<1> QED BY <1>1, <1>2, <1>3, <1>4, <1>5, <1>6, <1>7, <1>8, <1>9, <1>10 DEF FrameInv

LEMMA RecvAgainKeeps ==
    ASSUME FrameInv, NEW s \in Servers, RecvAgain(s)
    PROVE  FrameInv'
<1>1. TypeOK'
  <2>1. Parsed' = Parsed
    BY DEF Parsed, RecvAgain, clientSide, places, reading
  <2> QED BY <2>1 DEF FrameInv, TypeOK, RecvAgain, clientSide, places
<1>2. PeerInv'
  BY DEF FrameInv, PeerInv, RecvAgain, clientSide, places
<1>3. PlaceInv'
  BY DEF FrameInv, PlaceInv, RecvAgain, places
<1>4. EarlyInv'
  BY DEF FrameInv, EarlyInv, LastTurn, RecvAgain, clientSide, places
<1>5. OverlapInv'
  <2>1. Quiet => Quiet'
    BY DEF Quiet, RecvAgain, clientSide, places, reading
  <2>2. LastTurn => LastTurn'
    BY DEF LastTurn, RecvAgain, clientSide, places, reading
  <2> QED BY <2>1, <2>2, OverlapSame
          DEF FrameInv, RecvAgain, clientSide, places, reading
<1>6. SilentInv'
  BY SilentSame DEF FrameInv, TypeOK, RecvAgain, clientSide, places, reading
<1>7. StreamInv'
  BY StreamSame DEF FrameInv, TypeOK, RecvAgain, clientSide, places, reading
<1>8. EndInv'
  BY DEF FrameInv, EndInv, RecvAgain, places
<1>9. WaitInv'
  BY WaitSame DEF FrameInv, TypeOK, Looked, RecvAgain, clientSide, places, reading
<1>10. BadIsBad'
  BY BadSame DEF FrameInv, TypeOK, RecvAgain, clientSide, places, reading
<1> QED BY <1>1, <1>2, <1>3, <1>4, <1>5, <1>6, <1>7, <1>8, <1>9, <1>10 DEF FrameInv

LEMMA ParseBadKeeps ==
    ASSUME FrameInv, NEW s \in Servers, NEW n \in HeaderValues(rbuf[s]), pc[s] = "parse", Len(rbuf[s]) >= HeaderSize,
           TooLarge(n), Throw(s, "bad"), UNCHANGED <<rbuf, clientSide, rx, places, handled>>
    PROVE  FrameInv'
<1>a. /\ holder \in Conns /\ holder # NoConn /\ s \in watch /\ Dealing = {s}
      /\ condemned = {} /\ taking = {} /\ dropping = {}
      /\ rbuf[s] \in Seq(Bytes) /\ rbuf[s] # <<>>
      /\ \A t \in Servers : t # s => rbuf[t] = <<>> /\ batch[t] = <<>>
      /\ InHand(rbuf) = rbuf[s] /\ InHand(batch) = batch[s]
      /\ HeaderValues(rbuf[s]) = {n} /\ n \in Nat
      /\ \E k \in 0..Len(sent[holder]) :
             Taken(k) /\ k + 1 \in 1..Len(sent[holder]) /\ n = sent[holder][k + 1].len
  BY ParseAt
<1>b. /\ sent \in [Conns -> Seq(Frames)] /\ rbuf \in [Servers -> Seq(Bytes)]
      /\ batch \in [Servers -> Seq(Parsed)]
      /\ pc \in [Servers -> {"wait", "recv", "parse", "frames"}]
  BY DEF FrameInv, TypeOK
<1>c. UNCHANGED <<sent, net, peer, answered, rx, holder, watch, taking, dropping, handled, rbuf, filled>>
  BY DEF clientSide, places, Throw
<1>d. /\ condemned' = {s}
      /\ ended' = [x \in Conns |-> IF x = holder /\ ended[x] = "no" THEN "bad" ELSE ended[x]]
      /\ pc' = [pc EXCEPT ![s] = "wait"] /\ batch' = [batch EXCEPT ![s] = <<>>]
  BY <1>a DEF Throw, CondemnFor
<1>e. /\ \A t \in Servers : t # s => pc'[t] = pc[t]
      /\ pc'[s] = "wait" /\ \A t \in Servers : batch'[t] = <<>>
  BY <1>a, <1>b, <1>d
<1>1. TypeOK'
  <2>1. Parsed' = Parsed
    BY <1>c DEF Parsed
  <2>2. /\ pc' \in [Servers -> {"wait", "recv", "parse", "frames"}]
        /\ batch' \in [Servers -> Seq(Parsed)] /\ condemned' \subseteq Servers
    BY <1>b, <1>d
  <2>3. ended' \in [Conns -> {"no", "fin", "reset", "bad", "thrown", "late"}]
    BY <1>d DEF FrameInv, TypeOK
  <2> QED BY <1>c, <2>1, <2>2, <2>3 DEF FrameInv, TypeOK
<1>2. PeerInv'
  <2>1. \A x \in Conns : peer[x] = "new" => ended'[x] = ended[x]
    BY <1>a, <1>d DEF FrameInv, PeerInv
  <2> QED BY <1>c, <2>1 DEF FrameInv, PeerInv
<1>3. PlaceInv'
  BY <1>a, <1>c, <1>d, <1>e DEF FrameInv, PlaceInv
<1>4. EarlyInv'
  <2>1. \A c \in Channels : pc'[c] # "wait" => pc[c] # "wait"
    BY <1>e DEF Servers
  <2> QED BY <1>a, <1>c, <2>1 DEF FrameInv, EarlyInv, LastTurn
<1>5. OverlapInv'
  <2>1. Dealing' = {s} /\ Keepers' = Keepers
    BY <1>a, <1>c, <1>d DEF Dealing, Keepers
  <2> QED BY <1>a, <1>c, <1>d, <2>1 DEF FrameInv, OverlapInv
<1>6. SilentInv'
  BY <1>c, SilentSame DEF FrameInv
<1>7. StreamInv'
  BY <1>d DEF StreamInv
<1>8. EndInv'
  BY <1>a, <1>c, <1>d DEF EndInv
<1>9. WaitInv'
  BY <1>c, <1>d, <1>e, <1>a, WaitSame DEF FrameInv, Looked
<1>10. BadIsBad'
  <2>1. \E k \in DOMAIN sent[holder] : sent[holder][k].len > MaxFrame
    BY <1>a, <1>b DEF TooLarge
  <2> QED BY <1>a, <1>c, <1>d, <2>1 DEF FrameInv, BadIsBad
<1> QED BY <1>1, <1>2, <1>3, <1>4, <1>5, <1>6, <1>7, <1>8, <1>9, <1>10 DEF FrameInv

\* A turn of the parsing loop keeps the types if what it writes has them.
LEMMA ParsedTyped ==
    ASSUME TypeOK, Parsed' = Parsed,
           UNCHANGED <<sent, net, peer, answered, rx, holder, watch, taking, dropping, handled,
                       condemned, filled, ended>>,
           rbuf' \in [Servers -> Seq(Bytes)], batch' \in [Servers -> Seq(Parsed)],
           pc' \in [Servers -> {"wait", "recv", "parse", "frames"}]
    PROVE  TypeOK'
<1>1. /\ sent' \in [Conns -> Seq(Frames)] /\ {net', rx'} \subseteq [Conns -> Seq(Bytes)]
      /\ handled' \in [Conns -> Seq(Parsed)]
  BY DEF TypeOK
<1>2. /\ peer' \in [Conns -> {"new", "up", "closed", "reset", "over"}]
      /\ answered' \in [Conns -> Nat] /\ holder' \in Conns \cup {NoConn}
      /\ watch' \subseteq Servers /\ condemned' \subseteq Servers
      /\ taking' \subseteq Channels /\ dropping' \subseteq Channels
      /\ filled' \in [Servers -> BOOLEAN]
      /\ ended' \in [Conns -> {"no", "fin", "reset", "bad", "thrown", "late"}]
  BY DEF TypeOK
<1> QED BY <1>1, <1>2 DEF TypeOK

\* A frame is taken out of a buffer: it is the next one of its sender.
LEMMA ParseOneKeeps ==
    ASSUME FrameInv, NEW s \in Servers, NEW n \in HeaderValues(rbuf[s]), pc[s] = "parse", Len(rbuf[s]) >= HeaderSize,
           ~TooLarge(n), Len(rbuf[s]) >= HeaderSize + n,
           rbuf' = [rbuf EXCEPT ![s] = SubSeq(@, HeaderSize + n + 1, Len(@))],
           batch' = [batch EXCEPT ![s] =
               IF HandedOn(n) THEN Append(@, FrameAt(rbuf[s], n)) ELSE @],
           pc' = [pc EXCEPT ![s] = AfterFrame],
           UNCHANGED <<filled, condemned, ended, clientSide, rx, places, handled>>
    PROVE  FrameInv'
<1>a. /\ holder \in Conns /\ holder # NoConn /\ s \in watch /\ Dealing = {s}
      /\ condemned = {} /\ taking = {} /\ dropping = {}
      /\ rbuf[s] \in Seq(Bytes) /\ rbuf[s] # <<>>
      /\ \A t \in Servers : t # s => rbuf[t] = <<>> /\ batch[t] = <<>>
      /\ InHand(rbuf) = rbuf[s] /\ InHand(batch) = batch[s]
      /\ HeaderValues(rbuf[s]) = {n} /\ n \in Nat
      /\ \E k \in 0..Len(sent[holder]) :
             Taken(k) /\ k + 1 \in 1..Len(sent[holder]) /\ n = sent[holder][k + 1].len
  BY ParseAt
<1>b. /\ sent \in [Conns -> Seq(Frames)] /\ rbuf \in [Servers -> Seq(Bytes)]
      /\ batch \in [Servers -> Seq(Parsed)]
      /\ pc \in [Servers -> {"wait", "recv", "parse", "frames"}]
  BY DEF FrameInv, TypeOK
<1>c. UNCHANGED <<sent, net, peer, answered, rx, holder, watch, taking, dropping, handled,
                  condemned, filled, ended>>
  BY DEF clientSide, places
<1>d. /\ pc'[s] = "parse" /\ \A t \in Servers : t # s => pc'[t] = pc[t]
      /\ pc' \in [Servers -> {"wait", "recv", "parse", "frames"}]
  BY <1>b DEF AfterFrame
<1> DEFINE b == rbuf[s]
           c == SubSeq(b, HeaderSize + n + 1, Len(b))
<1>e. PICK k \in 0..Len(sent[holder]) :
          Taken(k) /\ k + 1 \in 1..Len(sent[holder]) /\ n = sent[holder][k + 1].len
  BY <1>a
<1>f. /\ FrameAt(b, n) = [con |-> holder, frame |-> k + 1]
      /\ c \in Seq(Bytes) /\ StartsWith(BytesAfter(holder, k + 1), c)
      /\ \A r \in Seq(Bytes) : Joins(b, r, BytesAfter(holder, k)) =>
             Joins(c, r, BytesAfter(holder, k + 1))
  <2>1. StartsWith(BytesAfter(holder, k), b)
    BY <1>a, <1>e, Zenon DEF Taken
  <2>2. Len(b) >= HeaderSize /\ Len(b) >= HeaderSize + n
    OBVIOUS
  <2> HIDE DEF b, c
  <2>3. b \in Seq(Bytes) /\ n \in HeaderValues(b)
    BY <1>a DEF b
  <2> QED BY <1>a, <1>b, <2>1, <2>2, <2>3, StartsFrame DEF c
<1>g. [con |-> holder, frame |-> k + 1] \in Parsed \/ n = 0
  BY <1>a, <1>b, <1>e DEF Parsed
<1>h. /\ rbuf'[s] = c /\ batch'[s] = IF n = 0 THEN batch[s]
                        ELSE Append(batch[s], [con |-> holder, frame |-> k + 1])
      /\ \A t \in Servers : t # s => rbuf'[t] = <<>> /\ batch'[t] = <<>>
  BY <1>a, <1>b, <1>f DEF HandedOn
<1>1. TypeOK'
  <2>1. Parsed' = Parsed
    BY <1>c DEF Parsed
  <2>2. rbuf' \in [Servers -> Seq(Bytes)]
    BY <1>b, <1>f
  <2>3. batch' \in [Servers -> Seq(Parsed)]
    <3>1. batch[s] \in Seq(Parsed)
      BY <1>b
    <3>2. batch'[s] \in Seq(Parsed)
      <4>1. CASE n = 0
        BY <1>h, <3>1, <4>1
      <4>2. CASE n # 0
        <5>1. \A q \in Seq(Parsed), e \in Parsed : Append(q, e) \in Seq(Parsed)
          BY AppendProperties
        <5> QED BY <1>g, <1>h, <3>1, <4>2, <5>1, Zenon
      <4> QED BY <4>1, <4>2
    <3> QED BY <1>b, <1>h, <3>2
  <2>4. TypeOK
    BY DEF FrameInv
  <2> QED BY <1>c, <1>d, <2>1, <2>2, <2>3, <2>4, ParsedTyped
<1>2. PeerInv'
  BY <1>c DEF FrameInv, PeerInv
<1>3. PlaceInv'
  BY <1>a, <1>c, <1>d, <1>h DEF FrameInv, PlaceInv
<1>4. EarlyInv'
  <2>1. \A u \in Channels : pc'[u] # "wait" => pc[u] # "wait"
    BY <1>d DEF Servers
  <2> QED BY <1>c, <2>1 DEF FrameInv, EarlyInv, LastTurn
<1>5. OverlapInv'
  <2>1. Dealing' = {s} /\ Keepers' = Keepers
    BY <1>a, <1>c DEF Dealing, Keepers
  <2> QED BY <1>a, <1>c, <2>1 DEF FrameInv, OverlapInv
<1>6. SilentInv'
  BY <1>c, SilentSame DEF FrameInv
<1>7. StreamInv'
  <2> HIDE DEF b, c
  <2>1. InHand(rbuf') = c /\ InHand(batch') = batch'[s]
    <3>1. \A t \in Servers : t # s => rbuf'[t] = <<>>
      BY <1>h
    <3>2. \A t \in Servers : t # s => batch'[t] = <<>>
      BY <1>h
    <3>3. InHand(rbuf') = rbuf'[s]
      BY <3>1, InHandOne
    <3>4. InHand(batch') = batch'[s]
      BY <3>2, InHandOne
    <3> QED BY <1>h, <3>3, <3>4
  <2>2. /\ FramesOf(holder, k + 1)' = FramesOf(holder, k + 1)
        /\ BytesAfter(holder, k + 1)' = BytesAfter(holder, k + 1)
    BY <1>c DEF FramesOf, BytesAfter
  <2>3. Coming' = Coming /\ Coming \in Seq(Bytes)
    <3>1. rx[holder] \in Seq(Bytes) /\ net[holder] \in Seq(Bytes)
      BY <1>a DEF FrameInv, TypeOK
    <3> QED BY <1>c, <3>1, ConcatProperties DEF Coming
  <2>4. peer[holder] # "reset" => Joins(c, Coming, BytesAfter(holder, k + 1))
    <3>1. peer[holder] # "reset" => Joins(b, Coming, BytesAfter(holder, k))
      BY <1>a, <1>e, Zenon DEF Taken, b
    <3> QED BY <1>f, <2>3, <3>1, Zenon
  <2>5. Joins(handled[holder], batch'[s], FramesOf(holder, k + 1))
    <3>1. Joins(handled[holder], batch[s], FramesOf(holder, k))
      BY <1>a, <1>e, Zenon DEF Taken
    <3>2. FramesOf(holder, k + 1) = IF n = 0 THEN FramesOf(holder, k)
              ELSE Append(FramesOf(holder, k), [con |-> holder, frame |-> k + 1])
      <4>1. k \in Nat
        OBVIOUS
      <4> QED BY <1>a, <1>e, <4>1, FramesStep
    <3>3. CASE n = 0
      BY <1>h, <3>1, <3>2, <3>3
    <3>4. CASE n # 0
      <4> DEFINE e == [con |-> holder, frame |-> k + 1]
      <4>1. handled[holder] \in Seq(Parsed) /\ batch[s] \in Seq(Parsed) /\ e \in Parsed
        BY <1>a, <1>b, <1>g, <3>4 DEF FrameInv, TypeOK
      <4> HIDE DEF e
      <4>2. Joins(handled[holder], Append(batch[s], e), Append(FramesOf(holder, k), e))
        BY <3>1, <4>1, JoinsAppend
      <4>3. FramesOf(holder, k + 1) = Append(FramesOf(holder, k), e) /\ batch'[s] = Append(batch[s], e)
        BY <1>h, <3>2, <3>4 DEF e
      <4> QED BY <4>2, <4>3, Zenon
    <3> QED BY <3>3, <3>4
  <2>6. Taken(k + 1)'
    BY <1>c, <1>f, <2>1, <2>2, <2>3, <2>4, <2>5, Zenon DEF Taken
  <2>7. k + 1 \in 0..Len(sent[holder])
    BY <1>e
  <2> QED BY <1>c, <2>6, <2>7 DEF StreamInv
<1>8. EndInv'
  BY <1>c DEF FrameInv, EndInv
<1>9. WaitInv'
  BY <1>c, <1>d, <1>h, WaitSame DEF FrameInv, Looked
<1>10. BadIsBad'
  BY <1>c DEF FrameInv, BadIsBad
<1> QED BY <1>1, <1>2, <1>3, <1>4, <1>5, <1>6, <1>7, <1>8, <1>9, <1>10 DEF FrameInv

LEMMA ParseShortKeeps ==
    ASSUME FrameInv, NEW s \in Servers, NEW n \in HeaderValues(rbuf[s]), pc[s] = "parse", Len(rbuf[s]) >= HeaderSize,
           Len(rbuf[s]) < HeaderSize + n, pc' = [pc EXCEPT ![s] = "frames"],
           UNCHANGED <<rbuf, filled, batch, condemned, ended, clientSide, rx, places, handled>>
    PROVE  FrameInv'
<1>a. /\ holder \in Conns /\ holder # NoConn /\ s \in watch /\ Dealing = {s}
      /\ condemned = {} /\ taking = {} /\ dropping = {}
      /\ rbuf[s] \in Seq(Bytes) /\ rbuf[s] # <<>>
      /\ \A t \in Servers : t # s => rbuf[t] = <<>> /\ batch[t] = <<>>
      /\ InHand(rbuf) = rbuf[s] /\ InHand(batch) = batch[s]
      /\ HeaderValues(rbuf[s]) = {n} /\ n \in Nat
      /\ \E k \in 0..Len(sent[holder]) :
             Taken(k) /\ k + 1 \in 1..Len(sent[holder]) /\ n = sent[holder][k + 1].len
  BY ParseAt
<1>b. /\ sent \in [Conns -> Seq(Frames)] /\ rbuf \in [Servers -> Seq(Bytes)]
      /\ batch \in [Servers -> Seq(Parsed)]
      /\ pc \in [Servers -> {"wait", "recv", "parse", "frames"}]
  BY DEF FrameInv, TypeOK
<1>c. UNCHANGED <<sent, net, peer, answered, rx, holder, watch, taking, dropping, handled,
                  condemned, filled, ended>>
  BY DEF clientSide, places
<1>d. /\ pc'[s] = "frames" /\ \A t \in Servers : t # s => pc'[t] = pc[t]
      /\ pc' \in [Servers -> {"wait", "recv", "parse", "frames"}]
  BY <1>b
<1>1. TypeOK'
  <2>1. Parsed' = Parsed
    BY <1>c DEF Parsed
  <2> QED BY <1>c, <1>d, <2>1 DEF FrameInv, TypeOK
<1>2. PeerInv'
  BY <1>c DEF FrameInv, PeerInv
<1>3. PlaceInv'
  BY <1>a, <1>c, <1>d DEF FrameInv, PlaceInv
<1>4. EarlyInv'
  <2>1. \A u \in Channels : pc'[u] # "wait" => pc[u] # "wait"
    BY <1>d DEF Servers
  <2> QED BY <1>c, <2>1 DEF FrameInv, EarlyInv, LastTurn
<1>5. OverlapInv'
  <2>1. Dealing' = {s} /\ Keepers' = Keepers
    BY <1>a, <1>c DEF Dealing, Keepers
  <2> QED BY <1>a, <1>c, <2>1 DEF FrameInv, OverlapInv
<1>6. SilentInv'
  BY <1>c, SilentSame DEF FrameInv
<1>7. StreamInv'
  BY <1>c, StreamSame DEF FrameInv, InHand
<1>8. EndInv'
  BY <1>c DEF FrameInv, EndInv
<1>9. WaitInv'
  <2>1. \A b : HeaderValues(b)' = HeaderValues(b)
    BY <1>c, HeadersSame
  <2> QED BY <1>a, <1>c, <1>d, <2>1 DEF FrameInv, WaitInv, Looked
<1>10. BadIsBad'
  BY <1>c DEF FrameInv, BadIsBad
<1> QED BY <1>1, <1>2, <1>3, <1>4, <1>5, <1>6, <1>7, <1>8, <1>9, <1>10 DEF FrameInv

LEMMA ParseEndsKeeps ==
    ASSUME FrameInv, NEW s \in Servers, ParseEnds(s)
    PROVE  FrameInv'
<1>1. TypeOK'
  <2>1. Parsed' = Parsed
    BY DEF Parsed, ParseEnds, clientSide, places, reading
  <2> QED BY <2>1 DEF FrameInv, TypeOK, ParseEnds, clientSide, places
<1>2. PeerInv'
  BY DEF FrameInv, PeerInv, ParseEnds, clientSide, places
<1>3. PlaceInv'
  BY DEF FrameInv, PlaceInv, Quiet, ParseEnds, clientSide, places
<1>4. EarlyInv'
  BY DEF FrameInv, EarlyInv, LastTurn, ParseEnds, clientSide, places
<1>5. OverlapInv'
  <2>1. Quiet => Quiet'
    BY DEF Quiet, ParseEnds, clientSide, places, reading
  <2>2. LastTurn => LastTurn'
    BY DEF LastTurn, ParseEnds, clientSide, places, reading
  <2> QED BY <2>1, <2>2, OverlapSame
          DEF FrameInv, ParseEnds, clientSide, places, reading
<1>6. SilentInv'
  BY SilentSame DEF FrameInv, TypeOK, ParseEnds, clientSide, places, reading
<1>7. StreamInv'
  BY StreamSame DEF FrameInv, TypeOK, ParseEnds, clientSide, places, reading
<1>8. EndInv'
  BY DEF FrameInv, EndInv, ParseEnds, places
<1>9. WaitInv'
  <2>1. /\ pc[s] = "parse" /\ pc' = [pc EXCEPT ![s] = "frames"] /\ Len(rbuf[s]) < HeaderSize
        /\ UNCHANGED <<sent, rbuf, condemned, filled>>
    BY DEF ParseEnds, clientSide
  <2>2. pc \in [Servers -> {"wait", "recv", "parse", "frames"}] /\ rbuf \in [Servers -> Seq(Bytes)]
    BY DEF FrameInv, TypeOK
  <2>3. \A t \in Servers : t # s => pc'[t] = pc[t]
    BY <2>1, <2>2
  <2>4. Len(rbuf[s]) \in Nat
    BY <2>2
  <2>5. ~(Len(rbuf[s]) >= HeaderSize)
    BY <2>1, <2>4, Sizes
  <2>6. \A b : HeaderValues(b)' = HeaderValues(b)
    BY <2>1, HeadersSame
  <2> QED BY <2>1, <2>3, <2>5, <2>6 DEF FrameInv, WaitInv, Looked
<1>10. BadIsBad'
  BY BadSame DEF FrameInv, TypeOK, ParseEnds, clientSide, places, reading
<1> QED BY <1>1, <1>2, <1>3, <1>4, <1>5, <1>6, <1>7, <1>8, <1>9, <1>10 DEF FrameInv

-----------------------------------------------------------------------------
(* on_frame, the pools and the deletion loop.                              *)

LEMMA OnFrameKeeps ==
    ASSUME FrameInv, NEW s \in Servers, OnFrame(s)
    PROVE  FrameInv'
<1>a. /\ NextFrame(s) /\ TakeFrame(s) /\ pc[s] = "frames"
      /\ ~IsMove(Head(batch[s]))
      /\ UNCHANGED <<sent, net, peer, answered, rx, holder, watch, taking, dropping, condemned,
                     pc, rbuf, filled, ended>>
  BY DEF OnFrame, NextFrame, clientSide, places, reading
<1>b. /\ holder \in Conns /\ holder # NoConn /\ s \in watch
      /\ Dealing = {s}
      /\ condemned = {} /\ taking = {} /\ dropping = {}
      /\ Parsed' = Parsed
      /\ batch' \in [Servers -> Seq(Parsed)] /\ handled' \in [Conns -> Seq(Parsed)]
      /\ \A t \in Servers : t # s => rbuf[t] = <<>> /\ batch'[t] = <<>>
      /\ \A x \in Conns : x # holder => handled'[x] = handled[x]
      /\ \A k : Pending(k)' => Pending(k)
      /\ \E k \in 0..Len(sent[holder]), j \in 1..Len(sent[holder]) :
             /\ j <= k /\ Taken(k)'
             /\ IsMove(Head(batch[s])) <=> sent[holder][j].move
             /\ Pending(j) <=> sent[holder][j].move
             /\ ~Pending(j)'
             /\ j = k => batch'[s] = <<>>
  BY <1>a, Handling
<1>1. TypeOK'
  <2>1. taking' \subseteq Channels /\ dropping' \subseteq Channels /\ watch' \subseteq Servers
    BY <1>a DEF FrameInv, TypeOK
  <2> QED BY <1>a, <1>b, <2>1 DEF FrameInv, TypeOK
<1>2. PeerInv'
  BY <1>a, <1>b DEF FrameInv, PeerInv
<1>3. PlaceInv'
  BY <1>a, <1>b DEF FrameInv, PlaceInv
<1>4. EarlyInv'
  BY <1>a DEF FrameInv, EarlyInv, LastTurn
<1>5. OverlapInv'
  <2>1. Dealing' = Dealing /\ Keepers' = Keepers
    BY <1>a DEF Dealing, Keepers
  <2> QED BY <1>a, <1>b, <2>1 DEF FrameInv, OverlapInv
<1>6. SilentInv'
  <2>1. MovesOf(holder)' = MovesOf(holder)
    BY <1>a DEF MovesOf
  <2> QED BY <1>a, <1>b, <2>1 DEF FrameInv, SilentInv
<1>7. StreamInv'
  BY <1>a, <1>b DEF StreamInv
<1>8. EndInv'
  BY <1>a DEF FrameInv, EndInv
<1>9. WaitInv'
  BY <1>a, WaitSame DEF FrameInv, Looked
<1>10. BadIsBad'
  BY <1>a DEF FrameInv, BadIsBad
<1> QED BY <1>1, <1>2, <1>3, <1>4, <1>5, <1>6, <1>7, <1>8, <1>9, <1>10 DEF FrameInv

LEMMA FramesDoneKeeps ==
    ASSUME FrameInv, NEW s \in Servers, FramesDone(s)
    PROVE  FrameInv'
<1>1. TypeOK'
  <2>1. Parsed' = Parsed
    BY DEF Parsed, FramesDone, clientSide, places, reading
  <2> QED BY <2>1 DEF FrameInv, TypeOK, FramesDone, clientSide, places
<1>2. PeerInv'
  BY DEF FrameInv, PeerInv, FramesDone, clientSide, places
<1>3. PlaceInv'
  BY DEF FrameInv, PlaceInv, Quiet, FramesDone, clientSide, places
<1>4. EarlyInv'
  BY DEF FrameInv, EarlyInv, LastTurn, FramesDone, clientSide, places
<1>5. OverlapInv'
  <2>1. Quiet => Quiet'
    BY DEF Quiet, FramesDone, clientSide, places, reading
  <2>2. LastTurn => LastTurn'
    BY DEF LastTurn, FramesDone, clientSide, places, reading
  <2> QED BY <2>1, <2>2, OverlapSame
          DEF FrameInv, FramesDone, clientSide, places, reading
<1>6. SilentInv'
  BY SilentSame DEF FrameInv, TypeOK, FramesDone, clientSide, places, reading
<1>7. StreamInv'
  BY StreamSame DEF FrameInv, TypeOK, FramesDone, clientSide, places, reading
<1>8. EndInv'
  BY DEF FrameInv, EndInv, FramesDone, places
<1>9. WaitInv'
  BY WaitSame DEF FrameInv, TypeOK, Looked, FramesDone, clientSide, places, reading
<1>10. BadIsBad'
  BY BadSame DEF FrameInv, TypeOK, FramesDone, clientSide, places, reading
<1> QED BY <1>1, <1>2, <1>3, <1>4, <1>5, <1>6, <1>7, <1>8, <1>9, <1>10 DEF FrameInv

LEMMA OnJoinKeeps ==
    ASSUME FrameInv, NEW c \in Channels, OnJoin(c)
    PROVE  FrameInv'
<1>a. /\ NextFrame(Lobby) /\ TakeFrame(Lobby) /\ pc[Lobby] = "frames"
      /\ IsMove(Head(batch[Lobby])) /\ Lobby \in watch
      /\ taking' = taking \cup {c} /\ watch' = watch \ {Lobby}
      /\ UNCHANGED <<sent, net, peer, answered, rx, holder, dropping, condemned, pc, rbuf,
                     filled, ended>>
  BY DEF OnJoin, NextFrame, clientSide, places, reading
<1>b. /\ holder \in Conns /\ holder # NoConn /\ Lobby \in watch
      /\ Dealing = {Lobby}
      /\ condemned = {} /\ taking = {} /\ dropping = {}
      /\ Parsed' = Parsed
      /\ batch' \in [Servers -> Seq(Parsed)] /\ handled' \in [Conns -> Seq(Parsed)]
      /\ \A t \in Servers : t # Lobby => rbuf[t] = <<>> /\ batch'[t] = <<>>
      /\ \A x \in Conns : x # holder => handled'[x] = handled[x]
      /\ \A k : Pending(k)' => Pending(k)
      /\ \E k \in 0..Len(sent[holder]), j \in 1..Len(sent[holder]) :
             /\ j <= k /\ Taken(k)'
             /\ IsMove(Head(batch[Lobby])) <=> sent[holder][j].move
             /\ Pending(j) <=> sent[holder][j].move
             /\ ~Pending(j)'
             /\ j = k => batch'[Lobby] = <<>>
  BY <1>a, Handling DEF Servers
<1>c. /\ Quiet'
      /\ \A k \in DOMAIN sent[holder] : ~Pending(k)'
      /\ MovesOf(holder) = answered[holder] + 1
      /\ MovesOf(holder) <= Moves[holder]
      /\ watch \cap Channels # {} => answered[holder] > 0
  BY <1>a, Moving DEF Servers
<1>d. watch = {Lobby} /\ watch' = {} /\ taking' = {c} /\ c # Lobby
  BY <1>a, <1>b, FrameAssumption DEF Dealing
<1>1. TypeOK'
  <2>1. taking' \subseteq Channels /\ dropping' \subseteq Channels /\ watch' \subseteq Servers
    BY <1>a, <1>d DEF FrameInv, TypeOK
  <2> QED BY <1>a, <1>b, <2>1 DEF FrameInv, TypeOK
<1>2. PeerInv'
  BY <1>a, <1>b DEF FrameInv, PeerInv
<1>3. PlaceInv'
  BY <1>a, <1>b, <1>c, <1>d DEF FrameInv, PlaceInv, Quiet
<1>4. EarlyInv'
  <2>1. ~LastTurn' => \A e \in Channels : pc'[e] # "wait" => FALSE
    BY <1>a, <1>d, FrameAssumption DEF FrameInv, EarlyInv, LastTurn
  <2> QED BY <1>a, <1>b, <2>1 DEF EarlyInv
<1>5. OverlapInv'
  <2>1. Dealing' = {c} /\ Keepers' = {c}
    BY <1>a, <1>b, <1>d DEF Dealing, Keepers
  <2> QED BY <1>a, <1>b, <1>c, <1>d, <2>1 DEF OverlapInv
<1>6. SilentInv'
  <2>1. MovesOf(holder)' = MovesOf(holder)
    BY <1>a DEF MovesOf
  <2>2. watch' \cap Channels # {} => watch \cap Channels # {}
    BY <1>a
  <2> QED BY <1>a, <1>c, <2>1, <2>2 DEF SilentInv
<1>7. StreamInv'
  BY <1>a, <1>b DEF StreamInv
<1>8. EndInv'
  BY <1>a DEF FrameInv, EndInv
<1>9. WaitInv'
  BY <1>a, WaitSame DEF FrameInv, Looked
<1>10. BadIsBad'
  BY <1>a DEF FrameInv, BadIsBad
<1> QED BY <1>1, <1>2, <1>3, <1>4, <1>5, <1>6, <1>7, <1>8, <1>9, <1>10 DEF FrameInv

LEMMA OnSwitchKeeps ==
    ASSUME FrameInv, LastSwitches, NEW c \in Channels, NEW d \in Channels \ {c}, OnSwitch(c, d)
    PROVE  FrameInv'
<1>a. /\ NextFrame(c) /\ TakeFrame(c) /\ pc[c] = "frames"
      /\ IsMove(Head(batch[c]))
      /\ taking' = taking \cup {d} /\ dropping' = dropping \cup {c}
      /\ UNCHANGED <<sent, net, peer, answered, rx, holder, watch, condemned, pc, rbuf,
                     filled, ended>>
  BY DEF OnSwitch, NextFrame, clientSide, places, reading
<1>b. /\ holder \in Conns /\ holder # NoConn /\ c \in watch
      /\ Dealing = {c}
      /\ condemned = {} /\ taking = {} /\ dropping = {}
      /\ Parsed' = Parsed
      /\ batch' \in [Servers -> Seq(Parsed)] /\ handled' \in [Conns -> Seq(Parsed)]
      /\ \A t \in Servers : t # c => rbuf[t] = <<>> /\ batch'[t] = <<>>
      /\ \A x \in Conns : x # holder => handled'[x] = handled[x]
      /\ \A k : Pending(k)' => Pending(k)
      /\ \E k \in 0..Len(sent[holder]), j \in 1..Len(sent[holder]) :
             /\ j <= k /\ Taken(k)'
             /\ IsMove(Head(batch[c])) <=> sent[holder][j].move
             /\ Pending(j) <=> sent[holder][j].move
             /\ ~Pending(j)'
             /\ j = k => batch'[c] = <<>>
  BY <1>a, Handling DEF Servers
<1>c. /\ Quiet'
      /\ \A k \in DOMAIN sent[holder] : ~Pending(k)'
      /\ MovesOf(holder) = answered[holder] + 1
      /\ MovesOf(holder) <= Moves[holder]
      /\ watch \cap Channels # {} => answered[holder] > 0
  BY <1>a, Moving DEF Servers
<1>d. watch = {c} /\ taking' = {d} /\ dropping' = {c} /\ c # Lobby /\ c # d
  BY <1>a, <1>b, FrameAssumption DEF Dealing
<1>e. LastTurn
  <2>1. answered[holder] > 0 /\ answered[holder] \in Nat /\ Moves[holder] \in Nat
    BY <1>b, <1>c, <1>d, FrameAssumption DEF FrameInv, TypeOK
  <2>2. ~(Moves[holder] <= 1)
    BY <1>c, <2>1
  <2>3. holder = Count
    <3>1. ~(holder < Count)
      BY <1>b, <2>2 DEF LastSwitches
    <3> QED BY <1>b, <3>1, Sizes DEF Conns
  <2> QED BY <1>b, <2>3 DEF FrameInv, PeerInv, LastTurn
<1>1. TypeOK'
  <2>1. taking' \subseteq Channels /\ dropping' \subseteq Channels /\ watch' \subseteq Servers
    BY <1>a, <1>d DEF FrameInv, TypeOK
  <2> QED BY <1>a, <1>b, <2>1 DEF FrameInv, TypeOK
<1>2. PeerInv'
  BY <1>a, <1>b DEF FrameInv, PeerInv
<1>3. PlaceInv'
  BY <1>a, <1>b, <1>c, <1>d DEF FrameInv, PlaceInv, Quiet
<1>4. EarlyInv'
  BY <1>a, <1>b, <1>e DEF EarlyInv, LastTurn
<1>5. OverlapInv'
  <2>1. Keepers' = {d} /\ LastTurn'
    BY <1>a, <1>d, <1>e DEF Keepers, LastTurn
  <2> QED BY <1>a, <1>b, <1>c, <1>d, <2>1 DEF OverlapInv
<1>6. SilentInv'
  <2>1. MovesOf(holder)' = MovesOf(holder)
    BY <1>a DEF MovesOf
  <2>2. watch' \cap Channels # {} => watch \cap Channels # {}
    BY <1>a
  <2> QED BY <1>a, <1>c, <2>1, <2>2 DEF SilentInv
<1>7. StreamInv'
  BY <1>a, <1>b DEF StreamInv
<1>8. EndInv'
  BY <1>a DEF FrameInv, EndInv
<1>9. WaitInv'
  BY <1>a, WaitSame DEF FrameInv, Looked
<1>10. BadIsBad'
  BY <1>a DEF FrameInv, BadIsBad
<1> QED BY <1>1, <1>2, <1>3, <1>4, <1>5, <1>6, <1>7, <1>8, <1>9, <1>10 DEF FrameInv

LEMMA TakeInKeeps ==
    ASSUME FrameInv, NEW c \in Channels, TakeIn(c)
    PROVE  FrameInv'
<1>a. /\ pc[c] = "wait" /\ c \in taking /\ taking' = taking \ {c}
      /\ UNCHANGED <<sent, net, peer, rx, holder, dropping, condemned, pc, rbuf, filled,
                      batch, handled, ended>>
  BY DEF TakeIn, reading
<1>b. /\ c # Lobby /\ c \in Servers /\ Quiet /\ Lobby \notin watch
      /\ \A t \in Keepers : t = c
  BY <1>a, FrameAssumption DEF FrameInv, OverlapInv, Dealing, Keepers, Servers
<1>c. taking = {c} /\ taking' = {} /\ watch \ dropping \subseteq {c} /\ Quiet'
  BY <1>a, <1>b DEF Keepers, Quiet
<1>d. \/ holder = NoConn /\ watch = {} /\ UNCHANGED <<watch, answered>>
      \/ /\ holder \in Conns /\ holder # NoConn /\ c \notin watch /\ c \notin condemned
         /\ watch' = watch \cup {c} /\ answered' = [answered EXCEPT ![holder] = @ + 1]
  <2>1. CASE holder = NoConn
    BY <2>1 DEF TakeIn, FrameInv, PlaceInv
  <2>2. CASE holder # NoConn
    <3>1. holder \in Conns
      BY <2>2 DEF FrameInv, TypeOK
    <3>2. c \notin watch /\ c \notin condemned
      BY <2>2, <1>a DEF FrameInv, OverlapInv
    <3> QED BY <2>2, <3>1, <3>2 DEF TakeIn
  <2> QED BY <2>1, <2>2
<1>e. Dealing' \subseteq Dealing /\ Keepers' \subseteq {c}
  BY <1>a, <1>c, <1>d DEF Dealing, Keepers
<1>1. TypeOK'
  <2>1. Parsed' = Parsed
    BY <1>a DEF Parsed
  <2>2. answered \in [Conns -> Nat] /\ watch \subseteq Servers
    BY DEF FrameInv, TypeOK
  <2>3. answered' \in [Conns -> Nat] /\ watch' \subseteq Servers /\ taking' \subseteq Channels
    BY <1>b, <1>c, <1>d, <2>2
  <2> QED BY <1>a, <2>1, <2>3 DEF FrameInv, TypeOK
<1>2. PeerInv'
  BY DEF FrameInv, TypeOK, PeerInv, TakeIn
<1>3. PlaceInv'
  BY <1>a, <1>c, <1>d, Zenon DEF FrameInv, PlaceInv
<1>4. EarlyInv'
  BY <1>a, <1>c, <1>d, SMT DEF FrameInv, EarlyInv, LastTurn
<1>5. OverlapInv'
  <2>1. Lobby \notin watch' /\ Lobby \notin condemned
    BY <1>a, <1>b, <1>d DEF FrameInv, OverlapInv
  <2>2. \A s, t \in Keepers' : s = t
    BY <1>e
  <2>3. holder # NoConn => \A s, t \in Dealing' : s # t =>
            Quiet' /\ LastTurn' /\ (condemned' # {} => peer'[holder'] # "up")
    BY <1>a, <1>c, <1>e DEF FrameInv, OverlapInv, LastTurn
  <2> QED BY <1>a, <1>c, <2>1, <2>2, <2>3, Zenon DEF OverlapInv
<1>6. SilentInv'
  <2> SUFFICES ASSUME holder # NoConn PROVE SilentInv'
    BY <1>a DEF SilentInv
  <2>1. /\ MovesOf(holder)' = MovesOf(holder) /\ MovesOf(holder) = answered[holder] + 1
        /\ MovesOf(holder) <= Moves[holder] /\ \A k \in DOMAIN sent[holder] : ~Pending(k)
    BY <1>a DEF FrameInv, SilentInv, MovesOf
  <2>2. answered[holder] \in Nat /\ answered'[holder] = answered[holder] + 1
    BY <1>d DEF FrameInv, TypeOK
  <2>3. \A k : Pending(k)' <=> Pending(k)
    BY <1>a DEF Pending
  <2> QED BY <1>a, <1>c, <2>1, <2>2, <2>3 DEF SilentInv
<1>7. StreamInv'
  BY <1>a, StreamSame DEF FrameInv, InHand
<1>8. EndInv'
  BY DEF FrameInv, EndInv, TakeIn
<1>9. WaitInv'
  BY WaitSame DEF FrameInv, TypeOK, Looked, TakeIn, clientSide, places, reading
<1>10. BadIsBad'
  BY BadSame DEF FrameInv, TypeOK, TakeIn, clientSide, places, reading
<1> QED BY <1>1, <1>2, <1>3, <1>4, <1>5, <1>6, <1>7, <1>8, <1>9, <1>10 DEF FrameInv

LEMMA LetGoKeeps ==
    ASSUME FrameInv, NEW c \in Channels, LetGo(c)
    PROVE  FrameInv'
<1>a. /\ c \in dropping /\ dropping' = dropping \ {c} /\ watch' = watch \ {c}
      /\ UNCHANGED <<clientSide, rx, holder, taking, condemned, reading, handled, ended>>
  BY DEF LetGo
<1>b. c # Lobby /\ Quiet /\ LastTurn /\ Lobby \notin watch
  BY <1>a, FrameAssumption DEF FrameInv, OverlapInv, EarlyInv, Dealing
<1>c. Dealing' \subseteq Dealing /\ Keepers' = Keepers
  BY <1>a DEF Dealing, Keepers
<1>1. TypeOK'
  <2>1. Parsed' = Parsed
    BY DEF Parsed, LetGo, clientSide, places, reading
  <2> QED BY <2>1 DEF FrameInv, TypeOK, LetGo, clientSide, reading
<1>2. PeerInv'
  BY DEF FrameInv, PeerInv, LetGo, clientSide
<1>3. PlaceInv'
  BY DEF FrameInv, PlaceInv, OverlapInv, Quiet, LetGo, clientSide, reading
<1>4. EarlyInv'
  BY DEF FrameInv, EarlyInv, LastTurn, LetGo, clientSide
<1>5. OverlapInv'
  <2>1. Quiet' /\ LastTurn' /\ peer' = peer
    BY <1>a, <1>b DEF Quiet, LastTurn, clientSide, reading
  <2>2. Lobby \notin condemned' /\ Lobby \notin watch'
    BY <1>a, <1>b DEF FrameInv, OverlapInv
  <2>3. holder # NoConn => \A s, t \in Dealing' : s # t =>
            Quiet' /\ LastTurn' /\ (condemned' # {} => peer'[holder'] # "up")
    BY <1>a, <1>c, <2>1 DEF FrameInv, OverlapInv
  <2>4. holder # NoConn => taking' \cap (watch' \cup condemned') = {}
    BY <1>a DEF FrameInv, OverlapInv
  <2>5. \A s, t \in Keepers' : s = t
    BY <1>c DEF FrameInv, OverlapInv
  <2> QED BY <1>a, <2>1, <2>2, <2>3, <2>4, <2>5, Zenon DEF OverlapInv
<1>6. SilentInv'
  BY SilentSame DEF FrameInv, TypeOK, LetGo, clientSide, places, reading
<1>7. StreamInv'
  BY StreamSame DEF FrameInv, TypeOK, LetGo, clientSide, places, reading
<1>8. EndInv'
  BY DEF FrameInv, EndInv, LetGo
<1>9. WaitInv'
  BY WaitSame DEF FrameInv, TypeOK, Looked, LetGo, clientSide, places, reading
<1>10. BadIsBad'
  BY BadSame DEF FrameInv, TypeOK, LetGo, clientSide, places, reading
<1> QED BY <1>1, <1>2, <1>3, <1>4, <1>5, <1>6, <1>7, <1>8, <1>9, <1>10 DEF FrameInv

LEMMA TimeOutKeeps ==
    ASSUME FrameInv, TimeOut
    PROVE  FrameInv'
<1>1. TypeOK'
  <2>1. Parsed' = Parsed
    BY DEF Parsed, TimeOut, CondemnFor, clientSide, places, reading
  <2> QED BY <2>1
          DEF FrameInv, TypeOK, TimeOut, CondemnFor, clientSide, places, reading
<1>2. PeerInv'
  BY DEF FrameInv, PeerInv, TimeOut, CondemnFor, clientSide, places
<1>3. PlaceInv'
  BY DEF FrameInv, PlaceInv, TimeOut, CondemnFor, places, reading
<1>4. EarlyInv'
  BY DEF FrameInv, PlaceInv, EarlyInv, LastTurn, TimeOut, clientSide, places, reading
<1>5. OverlapInv'
  <2>1. Quiet => Quiet'
    BY DEF Quiet, TimeOut, CondemnFor, clientSide, places, reading
  <2>2. LastTurn => LastTurn'
    BY DEF LastTurn, TimeOut, CondemnFor, clientSide, places, reading
  <2> QED BY <2>1, <2>2, OverlapSame
          DEF FrameInv, TimeOut, CondemnFor, clientSide, places
<1>6. SilentInv'
  BY SilentSame DEF FrameInv, TypeOK, TimeOut, CondemnFor, clientSide, places, reading
<1>7. StreamInv'
  BY StreamSame DEF FrameInv, TypeOK, TimeOut, CondemnFor, clientSide, places, reading
<1>8. EndInv'
  BY DEF FrameInv, EndInv, TypeOK, TimeOut, CondemnFor, places
<1>9. WaitInv'
  BY WaitSame DEF FrameInv, Looked, TimeOut, CondemnFor, clientSide, reading
<1>10. BadIsBad'
  BY BadSame DEF FrameInv, TypeOK, TimeOut, CondemnFor, clientSide, places, reading
<1> QED BY <1>1, <1>2, <1>3, <1>4, <1>5, <1>6, <1>7, <1>8, <1>9, <1>10 DEF FrameInv

LEMMA DeleteKeeps ==
    ASSUME FrameInv, NEW s \in Servers, Delete(s)
    PROVE  FrameInv'
<1>a. /\ pc[s] = "wait" /\ s \in condemned /\ condemned' = condemned \ {s}
      /\ UNCHANGED <<sent, answered, taking, dropping, pc, filled, batch, handled, ended>>
      /\ rbuf' = [rbuf EXCEPT ![s] = <<>>] /\ holder' = NoConn /\ watch' = {}
      /\ peer' = [x \in Conns |-> IF x = holder THEN "over" ELSE peer[x]]
      /\ rx' = [x \in Conns |-> IF x = holder THEN <<>> ELSE rx[x]]
      /\ net' = [x \in Conns |-> IF x = holder THEN <<>> ELSE net[x]]
  BY DEF Delete, clear_buffer, FrameInv, OverlapInv
<1>b. Quiet'
  <2>1. ASSUME NEW t \in Servers PROVE rbuf'[t] = <<>> /\ batch'[t] = <<>>
    <3>1. CASE rbuf[t] # <<>> \/ batch[t] # <<>>
      <4>1. Dealing = {t}
        BY <3>1, Alone
      <4>2. s = t
        BY <1>a, <4>1 DEF Dealing
      <4>3. batch[t] = <<>> /\ rbuf \in [Servers -> Seq(Bytes)]
        BY <1>a, <4>2 DEF FrameInv, PlaceInv, TypeOK
      <4> QED BY <1>a, <4>2, <4>3
    <3>2. CASE rbuf[t] = <<>> /\ batch[t] = <<>>
      <4>1. rbuf \in [Servers -> Seq(Bytes)]
        BY DEF FrameInv, TypeOK
      <4> QED BY <1>a, <3>2, <4>1
    <3> QED BY <3>1, <3>2
  <2>2. \A x \in Conns : rx'[x] = <<>> /\ net'[x] = <<>>
    BY <1>a DEF FrameInv, PeerInv
  <2> QED BY <2>1, <2>2 DEF Quiet
<1>c. LastTurn' <=> LastTurn
  <2>1. Count \in Conns /\ Count # NoConn
    BY Sizes DEF Conns, NoConn
  <2>2. CASE Count = holder
    BY <1>a, <2>1, <2>2 DEF FrameInv, PeerInv, LastTurn
  <2>3. CASE Count # holder
    BY <1>a, <2>1, <2>3 DEF LastTurn
  <2> QED BY <2>2, <2>3
<1>d. ~LastTurn => holder # NoConn /\ Dealing = {s} /\ taking = {}
  <2> SUFFICES ASSUME ~LastTurn PROVE holder # NoConn /\ Dealing = {s} /\ taking = {}
    OBVIOUS
  <2>1. holder # NoConn
    BY <1>a DEF FrameInv, EarlyInv
  <2>2. \A t \in Dealing : t = s
    BY <1>a, <2>1 DEF FrameInv, OverlapInv, Dealing
  <2> QED BY <1>a, <2>1, <2>2 DEF FrameInv, OverlapInv, Dealing
<1>e. Lobby \in watch => s = Lobby
  BY <1>a DEF FrameInv, OverlapInv, Dealing
<1>1. TypeOK'
  <2>1. Parsed' = Parsed
    BY <1>a DEF Parsed
  <2>2. <<>> \in Seq(Bytes) /\ holder' \in Conns \cup {NoConn} /\ watch' \subseteq Servers
    BY <1>a
  <2>3. rbuf' \in [Servers -> Seq(Bytes)]
    BY <1>a, <2>2 DEF FrameInv, TypeOK
  <2>4. rx' \in [Conns -> Seq(Bytes)] /\ net' \in [Conns -> Seq(Bytes)]
    <3>1. rx \in [Conns -> Seq(Bytes)] /\ net \in [Conns -> Seq(Bytes)]
      BY DEF FrameInv, TypeOK
    <3> QED BY <1>a, <2>2, <3>1
  <2>5. peer' \in [Conns -> {"new", "up", "closed", "reset", "over"}]
    <3>1. peer \in [Conns -> {"new", "up", "closed", "reset", "over"}]
      BY DEF FrameInv, TypeOK
    <3> QED BY <1>a, <3>1
  <2>6. condemned' \subseteq Servers
    BY <1>a DEF FrameInv, TypeOK
  <2> QED BY <1>a, <2>1, <2>2, <2>3, <2>4, <2>5, <2>6 DEF FrameInv, TypeOK
<1>2. PeerInv'
  <2>1. \A x \in Conns : x # NoConn /\ peer'[x] \notin {"up", "closed", "reset"}
    BY <1>a, Sizes DEF FrameInv, PeerInv
  <2>2. \A x \in Conns : peer'[x] \notin {"up", "closed"} => rx'[x] = <<>> /\ net'[x] = <<>>
    BY <1>b DEF Quiet
  <2>3. \A x \in Conns : (peer'[x] = "new" => peer[x] = "new")
                       /\ (peer'[x] # "new" => peer[x] # "new")
                       /\ (peer[x] = "over" => peer'[x] = "over")
    BY <1>a DEF FrameInv, PeerInv
  <2>4. \A x, y \in Conns : y < x /\ peer'[x] # "new" => peer'[y] = "over"
    BY <2>3 DEF FrameInv, PeerInv
  <2>5. \A x \in Conns : peer'[x] = "new" => sent'[x] = <<>> /\ answered'[x] = 0
                                            /\ handled'[x] = <<>> /\ ended'[x] = "no"
    BY <1>a, <2>3 DEF FrameInv, PeerInv
  <2> QED BY <1>a, <2>1, <2>2, <2>4, <2>5 DEF PeerInv
<1>3. PlaceInv'
  <2>1. pc[Lobby] \notin {"recv", "parse"}
    BY <1>a, <1>e DEF FrameInv, PlaceInv, Servers
  <2> QED BY <1>a, <1>b, <2>1 DEF FrameInv, PlaceInv, Quiet
<1>4. EarlyInv'
  <2>1. ~LastTurn => condemned = {s} /\ watch \subseteq {s}
    BY <1>a, <1>d DEF Dealing
  <2>2. ~LastTurn => \A c \in Channels : pc[c] = "wait"
    BY <1>a, <2>1 DEF FrameInv, EarlyInv
  <2> QED BY <1>a, <1>c, <1>d, <2>1, <2>2 DEF FrameInv, EarlyInv
<1>5. OverlapInv'
  <2>1. Lobby \notin condemned' /\ Lobby \notin watch'
    BY <1>a, <1>e DEF FrameInv, OverlapInv
  <2>2. Keepers' \subseteq Keepers
    BY <1>a DEF Keepers
  <2> QED BY <1>a, <1>b, <2>1, <2>2, Zenon DEF FrameInv, OverlapInv
<1>6. SilentInv'
  BY SilentSame
  DEF FrameInv, TypeOK, Delete, clear_buffer, clientSide, places, reading
<1>7. StreamInv'
  BY <1>a DEF StreamInv
<1>8. EndInv'
  BY DEF FrameInv, EndInv, OverlapInv, Delete
<1>9. WaitInv'
  BY <1>a, <1>b, WaitSame DEF FrameInv, Quiet, Looked
<1>10. BadIsBad'
  BY BadSame DEF FrameInv, TypeOK, Delete, clear_buffer, clientSide, places, reading
<1> QED BY <1>1, <1>2, <1>3, <1>4, <1>5, <1>6, <1>7, <1>8, <1>9, <1>10 DEF FrameInv

\* Parse does one of three things with the first bytes.
LEMMA ParseKeeps ==
    ASSUME FrameInv, NEW s \in Servers, Parse(s)
    PROVE  FrameInv'
<1>1. /\ pc[s] = "parse" /\ Len(rbuf[s]) >= HeaderSize
      /\ UNCHANGED <<clientSide, rx, places, handled>>
  BY DEF Parse
<1>2. PICK n \in HeaderValues(rbuf[s]) :
          \/ /\ TooLarge(n)
             /\ Throw(s, "bad")
             /\ UNCHANGED rbuf
          \/ /\ ~TooLarge(n)
             /\ Len(rbuf[s]) >= HeaderSize + n
             /\ rbuf' = [rbuf EXCEPT ![s] = SubSeq(@, HeaderSize + n + 1, Len(@))]
             /\ batch' = [batch EXCEPT ![s] =
                    IF HandedOn(n) THEN Append(@, FrameAt(rbuf[s], n)) ELSE @]
             /\ pc' = [pc EXCEPT ![s] = AfterFrame]
             /\ UNCHANGED <<filled, condemned, ended>>
          \/ /\ ~TooLarge(n)
             /\ Len(rbuf[s]) < HeaderSize + n
             /\ pc' = [pc EXCEPT ![s] = "frames"]
             /\ UNCHANGED <<rbuf, filled, batch, condemned, ended>>
  BY DEF Parse
<1>3. CASE TooLarge(n) /\ Throw(s, "bad") /\ UNCHANGED rbuf
  BY <1>1, <1>3, ParseBadKeeps
<1>4. CASE /\ ~TooLarge(n)
           /\ Len(rbuf[s]) >= HeaderSize + n
           /\ rbuf' = [rbuf EXCEPT ![s] = SubSeq(@, HeaderSize + n + 1, Len(@))]
           /\ batch' = [batch EXCEPT ![s] =
                  IF HandedOn(n) THEN Append(@, FrameAt(rbuf[s], n)) ELSE @]
           /\ pc' = [pc EXCEPT ![s] = AfterFrame]
           /\ UNCHANGED <<filled, condemned, ended>>
  BY <1>1, <1>4, ParseOneKeeps
<1>5. CASE /\ Len(rbuf[s]) < HeaderSize + n
           /\ pc' = [pc EXCEPT ![s] = "frames"]
           /\ UNCHANGED <<rbuf, filled, batch, condemned, ended>>
  BY <1>1, <1>5, ParseShortKeeps
<1> QED BY <1>2, <1>3, <1>4, <1>5

-----------------------------------------------------------------------------
(* The invariant holds.                                                    *)

\* Initially nobody has the number.
LEMMA InitKeeps == Init => FrameInv
<1> SUFFICES ASSUME Init PROVE FrameInv
  OBVIOUS
<1>1. /\ holder = NoConn /\ watch = {} /\ taking = {} /\ dropping = {} /\ condemned = {}
      /\ \A x \in Conns : /\ sent[x] = <<>> /\ net[x] = <<>> /\ rx[x] = <<>>
                          /\ peer[x] = "new" /\ answered[x] = 0 /\ handled[x] = <<>>
                          /\ ended[x] = "no" /\ x # NoConn
      /\ \A s \in Servers : pc[s] = "wait" /\ rbuf[s] = <<>> /\ batch[s] = <<>>
  BY Sizes DEF Init
<1>2. TypeOK
  BY DEF Init, TypeOK
<1>3. PeerInv /\ PlaceInv /\ EarlyInv /\ EndInv
  BY <1>1 DEF PeerInv, PlaceInv, EarlyInv, EndInv, Quiet, Servers
<1>4. OverlapInv /\ SilentInv /\ StreamInv
  BY <1>1 DEF OverlapInv, SilentInv, StreamInv, Keepers, Dealing
<1>5. WaitInv
  <2>1. Len(<<>>) = 0 /\ ~(0 >= HeaderSize)
    BY Sizes
  <2> QED BY <1>1, <2>1 DEF WaitInv
<1>6. BadIsBad
  BY <1>1 DEF BadIsBad
<1> QED BY <1>2, <1>3, <1>4, <1>5, <1>6 DEF FrameInv

\* A step that changes nothing keeps the invariant.
LEMMA StutterKeeps == ASSUME FrameInv, UNCHANGED vars PROVE FrameInv'
<1>1. UNCHANGED <<sent, net, peer, answered, rx, holder, watch, taking, dropping, condemned,
                  pc, rbuf, filled, batch, handled, ended>>
  BY DEF vars, clientSide, places, reading
<1>2. TypeOK' /\ PeerInv' /\ PlaceInv' /\ EarlyInv' /\ EndInv'
  BY <1>1
  DEF FrameInv, TypeOK, Parsed, PeerInv, PlaceInv, EarlyInv, EndInv, Quiet, LastTurn
<1>3. OverlapInv'
  BY <1>1 DEF FrameInv, OverlapInv, Dealing, Keepers, Quiet, LastTurn
<1>4. SilentInv'
  BY <1>1, SilentSame DEF FrameInv
<1>5. StreamInv'
  BY <1>1, StreamSame DEF FrameInv, InHand
<1>6. WaitInv'
  BY <1>1, HeadersSame DEF FrameInv, WaitInv, Looked
<1>7. BadIsBad'
  BY <1>1 DEF FrameInv, BadIsBad
<1> QED BY <1>2, <1>3, <1>4, <1>5, <1>6, <1>7 DEF FrameInv

\* So does every step of a server ...
LEMMA ServerKeeps ==
    ASSUME FrameInv, NEW s \in Servers, Server(s)
    PROVE  FrameInv'
<1>1. CASE StartRead(s)
  BY <1>1, StartReadKeeps
<1>2. CASE ReadFails(s)
  BY <1>2, ReadFailsKeeps
<1>3. CASE RecvEnd(s)
  BY <1>3, RecvEndKeeps
<1>4. CASE RecvBytes(s)
  BY <1>4, RecvBytesKeeps
<1>5. CASE RecvAgain(s)
  BY <1>5, RecvAgainKeeps
<1>6. CASE Parse(s)
  BY <1>6, ParseKeeps
<1>7. CASE ParseEnds(s)
  BY <1>7, ParseEndsKeeps
<1>8. CASE OnFrame(s)
  BY <1>8, OnFrameKeeps
<1>9. CASE FramesDone(s)
  BY <1>9, FramesDoneKeeps
<1>10. CASE Delete(s)
  BY <1>10, DeleteKeeps
<1> QED BY <1>1, <1>2, <1>3, <1>4, <1>5, <1>6, <1>7, <1>8, <1>9, <1>10 DEF Server

\* ... and every step, if clients wait for a move to be over.
LEMMA NextKeeps ==
    ASSUME LastSwitches, FrameInv, [Next]_vars
    PROVE  FrameInv'
<1>1. CASE \E x \in Conns : Client(x) \/ Arrive(x)
  BY <1>1, SendKeeps, CloseEndKeeps, ResetKeeps, AcceptKeeps, ArriveKeeps DEF Client
<1>2. CASE Lobbying
  <2>1. CASE \E c \in Channels : OnJoin(c)
    BY <2>1, OnJoinKeeps
  <2>2. CASE Server(Lobby)
    BY <2>2, ServerKeeps DEF Servers
  <2> QED BY <1>2, <2>1, <2>2 DEF Lobbying
<1>3. CASE TimeOut
  BY <1>3, TimeOutKeeps
<1>4. ASSUME NEW c \in Channels, Working(c) PROVE FrameInv'
  <2>1. CASE TakeIn(c)
    BY <2>1, TakeInKeeps
  <2>2. CASE LetGo(c)
    BY <2>2, LetGoKeeps
  <2>3. CASE Server(c)
    BY <2>3, ServerKeeps DEF Servers
  <2>4. CASE \E d \in Channels \ {c} : OnSwitch(c, d)
    BY <2>4, OnSwitchKeeps
  <2> QED BY <1>4, <2>1, <2>2, <2>3, <2>4 DEF Working
<1>5. CASE UNCHANGED vars
  BY <1>5, StutterKeeps
<1> QED BY <1>1, <1>2, <1>3, <1>4, <1>5 DEF Next

\* The bytes in hand are bytes.
LEMMA HandType ==
    ASSUME FrameInv
    PROVE  InHand(rbuf) \in Seq(Bytes)
<1>1. rbuf \in [Servers -> Seq(Bytes)]
  BY DEF FrameInv, TypeOK
<1>2. CASE \E s \in Servers : rbuf[s] # <<>>
  BY <1>1, <1>2, Alone
<1>3. CASE \A s \in Servers : rbuf[s] = <<>>
  <2>1. InHand(rbuf) = <<>>
    BY <1>3, InHandNone
  <2> QED BY <2>1
<1> QED BY <1>2, <1>3

\* What the invariant says of the bytes, in the words of the property.
LEMMA WholeInv ==
    ASSUME FrameInv
    PROVE  ReadWhole
<1> SUFFICES ASSUME NEW x \in Conns, holder = x, ended[x] = "no", peer[x] \in {"up", "closed"}
             PROVE  \E k \in 0..Len(sent[x]) :
                        /\ handled[x] \o InHand(batch) = FramesOf(x, k)
                        /\ InHand(rbuf) \o rx[x] \o net[x] = BytesAfter(x, k)
  BY DEF ReadWhole
<1>1. holder # NoConn /\ condemned = {}
  BY Sizes DEF FrameInv, EndInv
<1>2. PICK k \in 0..Len(sent[x]) : Taken(k)
  BY <1>1 DEF FrameInv, StreamInv
<1>3. /\ FramesOf(x, k) = handled[x] \o InHand(batch)
      /\ BytesAfter(x, k) = InHand(rbuf) \o (rx[x] \o net[x])
  BY <1>2 DEF Taken, Joins, Coming
<1>4. InHand(rbuf) \in Seq(Bytes) /\ rx[x] \in Seq(Bytes) /\ net[x] \in Seq(Bytes)
  BY HandType DEF FrameInv, TypeOK
<1>5. \A p, q, r \in Seq(Bytes) : (p \o q) \o r = p \o (q \o r)
  BY BytesAssociate
<1>6. (InHand(rbuf) \o rx[x]) \o net[x] = InHand(rbuf) \o (rx[x] \o net[x])
  BY <1>4, <1>5, Zenon
<1> QED BY <1>3, <1>6, Zenon

\* The invariant holds as long as the number is given out one connection at a
\* time to clients that wait (communication.cpp:18-51).
THEOREM FrameInvHolds ==
    ASSUME LastSwitches
    PROVE  Spec => []FrameInv
<1>1. FrameInv /\ [Next]_vars => FrameInv'
  BY NextKeeps
<1> QED BY <1>1, InitKeeps, PTL DEF Spec

\* Every variable keeps its type; in particular what on_frame is called with is a
\* frame that its client has sent (server_base.cpp:185).
THEOREM FrameTypesHold ==
    ASSUME LastSwitches
    PROVE  Spec => []TypeOK
<1>1. FrameInv => TypeOK
  BY DEF FrameInv
<1> QED BY <1>1, FrameInvHolds, PTL

\* Whatever pieces recv returns, however long the frames, and whichever server has
\* the connection: the frames handed on and the bytes still to be read are together
\* what the client has sent (communication.cpp:18-51, server_base.cpp:185).
THEOREM ReadWholeHolds ==
    ASSUME LastSwitches
    PROVE  Spec => []ReadWhole
<1>1. FrameInv => ReadWhole
  BY WholeInv
<1> QED BY <1>1, FrameInvHolds, PTL

\* Bytes of a connection are in the buffer of the server that has it: none are left
\* with the lobby or a channel that has handed it over, for the next connection with
\* the number to find (communication.h:18, communication.cpp:88).
THEOREM BufferFollowsHolds ==
    ASSUME LastSwitches
    PROVE  Spec => []BufferFollows
<1>1. FrameInv => BufferFollows
  BY DEF FrameInv, PlaceInv, BufferFollows
<1> QED BY <1>1, FrameInvHolds, PTL

\* No complete frame waits in a buffer for bytes that may not come
\* (communication.cpp:30).
THEOREM NoFrameWaitsHolds ==
    ASSUME LastSwitches
    PROVE  Spec => []NoFrameWaits
<1>1. FrameInv => NoFrameWaits
  BY DEF FrameInv, WaitInv, Looked, NoFrameWaits
<1> QED BY <1>1, FrameInvHolds, PTL

\* Nobody is thrown out as malformed without having sent a frame that is too large:
\* the header is always read at the beginning of a frame (communication.cpp:33-39).
THEOREM BadIsBadHolds ==
    ASSUME LastSwitches
    PROVE  Spec => []BadIsBad
<1>1. FrameInv => BadIsBad
  BY DEF FrameInv
<1> QED BY <1>1, FrameInvHolds, PTL

-----------------------------------------------------------------------------
(* A client that closes.                                                   *)

\* A server that finds the end of the stream and has not just read a full buffer
\* has handled all there was.
LEMMA NothingLeft ==
    ASSUME FrameInv, NEW s \in Servers, RecvEnd(s), ended[holder] = "no", ~filled[s]
    PROVE  handled[holder] = FramesOf(holder, Len(sent[holder]))
<1>1. pc[s] = "recv" /\ holder # NoConn /\ AtEnd(holder)
  BY DEF RecvEnd
<1>2. /\ s \in watch /\ s \notin condemned /\ holder \in Conns /\ condemned = {}
      /\ batch[s] = <<>> /\ InHand(batch) = <<>> /\ InHand(rbuf) = rbuf[s]
  BY <1>1, Reader, Watching DEF FrameInv, EndInv, PlaceInv
<1>3. /\ sent \in [Conns -> Seq(Frames)] /\ handled[holder] \in Seq(Parsed)
      /\ rbuf[s] \in Seq(Bytes) /\ Len(sent[holder]) \in Nat
  BY <1>2 DEF FrameInv, TypeOK
<1>4. PICK k \in 0..Len(sent[holder]) : Taken(k)
  BY <1>1, <1>2 DEF FrameInv, StreamInv
<1>5. handled[holder] = FramesOf(holder, k)
  <2>1. FramesOf(holder, k) = handled[holder] \o <<>>
    BY <1>2, <1>4 DEF Taken, Joins
  <2> QED BY <1>3, <2>1
<1>6. StartsWith(BytesAfter(holder, k), rbuf[s]) /\ rbuf[s] = BytesAfter(holder, k)
  <2>1. peer[holder] # "reset" /\ Coming = <<>>
    BY <1>1 DEF AtEnd, Coming
  <2>2. StartsWith(BytesAfter(holder, k), rbuf[s]) /\ Joins(rbuf[s], <<>>, BytesAfter(holder, k))
    BY <1>2, <1>4, <2>1 DEF Taken
  <2>3. BytesAfter(holder, k) = rbuf[s] \o <<>>
    BY <2>2 DEF Joins
  <2> QED BY <1>3, <2>2, <2>3
<1>7. k = Len(sent[holder])
  <2> SUFFICES ASSUME k \in 0..(Len(sent[holder]) - 1) PROVE FALSE
    BY <1>3
  <2> DEFINE f == sent[holder][k + 1]
             e == BytesOf(holder, k + 1, f)
             a == BytesAfter(holder, k + 1)
  <2>1. BytesAfter(holder, k) = e \o a /\ e \in Seq(Bytes) /\ k + 1 \in 1..Len(sent[holder])
    BY <1>2, <1>3, AfterStep
  <2>2. f.len \in Lengths /\ f.len \in Nat
    BY <1>2, <1>3, <2>1, SentFrame
  <2>3. Len(e) = HeaderSize + f.len
    <3>1. k + 1 \in Nat \ {0}
      BY <2>1
    <3> QED BY <1>2, <2>2, <3>1, BytesLength, Zenon
  <2>4. a \in Seq(Bytes)
    <3>1. k + 1 \in 0..Len(sent[holder])
      BY <2>1
    <3> QED BY <1>2, <1>3, <3>1, AfterType
  <2> HIDE DEF f, e, a
  <2>5. Len(e \o a) = Len(e) + Len(a) /\ Len(a) \in Nat
    BY <2>1, <2>4, ConcatProperties, LenProperties
  <2>6. Len(rbuf[s]) = Len(e \o a)
    BY <1>6, <2>1, Zenon
  <2>7. Len(rbuf[s]) >= HeaderSize + f.len /\ Len(rbuf[s]) >= HeaderSize
        /\ ~(Len(rbuf[s]) < HeaderSize + f.len)
    BY <2>2, <2>3, <2>5, <2>6, Sizes
  <2>8. HeaderValues(rbuf[s]) = {f.len}
    BY <1>2, <1>3, <1>6, <2>7, StartsAligned DEF f
  <2>9. Looked(s)
    BY <1>1 DEF Looked
  <2> QED BY <1>2, <2>7, <2>8, <2>9 DEF FrameInv, WaitInv
<1> QED BY <1>5, <1>7

\* No other action ends a connection for this reason.
LEMMA OnlyRecvEnd ==
    ASSUME [Next]_vars, NEW x \in Conns, ended[x] = "no", ended'[x] = "fin"
    PROVE  \E s \in Servers : RecvEnd(s)
<1>1. CASE \E y \in Conns : Client(y) \/ Arrive(y)
  BY <1>1 DEF Client, Send, CloseEnd, Reset, Accept, Arrive
<1>2. CASE TimeOut
  BY <1>2 DEF TimeOut, CondemnFor
<1>3. ASSUME NEW s \in Servers, Server(s), ~RecvEnd(s) PROVE FALSE
  <2>1. CASE StartRead(s) \/ RecvBytes(s) \/ RecvAgain(s) \/ ParseEnds(s) \/ OnFrame(s)
             \/ FramesDone(s) \/ Delete(s)
    BY <2>1
    DEF StartRead, RecvBytes, RecvAgain, ParseEnds, OnFrame, FramesDone, Delete
  <2>2. CASE ReadFails(s) \/ Parse(s)
    BY <2>2 DEF ReadFails, Parse, Throw, CondemnFor
  <2> QED BY <1>3, <2>1, <2>2 DEF Server
<1>4. CASE Lobbying
  <2>1. ASSUME NEW c \in Channels, OnJoin(c) PROVE FALSE
    BY <2>1 DEF OnJoin
  <2> QED BY <1>3, <1>4, <2>1 DEF Lobbying, Servers
<1>5. ASSUME NEW c \in Channels, Working(c) PROVE \E s \in Servers : RecvEnd(s)
  <2>1. CASE TakeIn(c) \/ LetGo(c) \/ \E d \in Channels \ {c} : OnSwitch(c, d)
    BY <2>1 DEF TakeIn, LetGo, OnSwitch
  <2> QED BY <1>3, <1>5, <2>1 DEF Working, Servers
<1>6. CASE UNCHANGED vars
  BY <1>6 DEF vars
<1> QED BY <1>1, <1>2, <1>4, <1>5, <1>6 DEF Next

\* Who loses frames has read a full buffer.
LEMMA FinStep ==
    ASSUME FrameInv, [Next]_vars
    PROVE  FinLosesLittle
<1> SUFFICES ASSUME NEW s \in Servers, NEW x \in Conns, holder = x,
                    s \in condemned' \ condemned, ended[x] = "no", ended'[x] = "fin", ~filled[s]
             PROVE  handled[x] = FramesOf(x, Len(sent[x]))
  BY DEF FinLosesLittle
<1>1. PICK t \in Servers : RecvEnd(t)
  BY OnlyRecvEnd
<1>2. s = t
  BY <1>1 DEF RecvEnd, Throw, CondemnFor
<1> QED BY <1>1, <1>2, NothingLeft

\* A client that closes loses frames only if recv has just returned a full buffer:
\* otherwise every frame was parsed before the next recv (communication.cpp:23, 27).
THEOREM FinLosesLittleHolds ==
    ASSUME LastSwitches
    PROVE  Spec => FinLosesOnlyAfterFull
<1>1. FrameInv /\ [Next]_vars => FinLosesLittle
  BY FinStep
<1> QED BY <1>1, FrameInvHolds, PTL DEF Spec, FinLosesOnlyAfterFull
===============================================================================
