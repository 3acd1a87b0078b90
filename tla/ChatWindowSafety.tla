---------------------------- MODULE ChatWindowSafety ----------------------------
(***************************************************************************)
(* What the people in a channel may rely on, proved of ChatWindow for any  *)
(* numbers of clients and channels, of messages, and of notices that a     *)
(* window and a socket hold.                                               *)
(*                                                                         *)
(* The invariant Inv speaks of three things that no variable of the model  *)
(* holds:                                                                  *)
(*   h   the channel a client has been handed over to, None before that    *)
(*   b   all notices that have been made                                   *)
(*   v   for notice n of channel c, the last number of its window          *)
(* Along a stream, what a client has been sent, the windows follow one     *)
(* another, and within a window the timestamps rule.                       *)
(***************************************************************************)
EXTENDS ChatWindow, SequenceFacts, FunctionTheorems, FiniteSetTheorems

None == CHOOSE n : n \notin Channels

\* The notices of c that have been in a window are those up to Done(c); the
\* window of this tick has those after Low(c).
Done(c) == heard[c] - Len(mq[c])
Low(c)  == Done(c) - Len(cur_msgs[c])

\* The payloads among the sends w; all that a client has been sent, if s is on its
\* screen, its handshake has dropped u, and w is under way.
Bodies(w) == {i \in DOMAIN w : w[i].part = "body"}
Sent(s, u, w) == ToSet(s) \cup u \cup UNION {ToSet(w[i].win) : i \in Bodies(w)}

\* Channel c sends to x.
Live(c, x) == x \in members[c] \ next_deletion[c] /\ ~Lost(x)

\* The last number that x has been sent if it is sent all.
Upto(c, x) == IF x \in todo[c] THEN Low(c) ELSE Done(c)

Numbers(x) == {m.n : m \in {m \in Received(x) : ~IsError(m)}}

IsJoinOf(m, x) == IsJoin(m) /\ m.from = x

\* Notice m comes before p on every screen.
Precedes(v, m, p) ==
    \/ v[m.ch][m.n] < v[p.ch][p.n]
    \/ v[m.ch][m.n] = v[p.ch][p.n] /\ Before(m, p)

\* On the screen s, and in the sends w on the way to it, everything is in that order.
Ordered(v, s, w) ==
    /\ \A i, j \in DOMAIN s : i < j => Precedes(v, s[i], s[j])
    /\ \A k \in Bodies(w) :
           /\ \A i, j \in DOMAIN w[k].win : i < j => Precedes(v, w[k].win[i], w[k].win[j])
           /\ \A i \in DOMAIN s, j \in DOMAIN w[k].win : Precedes(v, s[i], w[k].win[j])
    /\ \A k, l \in Bodies(w) : k < l =>
           \A i \in DOMAIN w[k].win, j \in DOMAIN w[l].win :
               Precedes(v, w[k].win[i], w[l].win[j])

Chain(q) == \A i, j \in DOMAIN q : i < j => Before(q[i], q[j])

\* A client is in the lobby, on the way to its channel, or there.
Fresh(h, x) == h[x] = None /\ shown[x] = <<>> /\ unseen[x] = {} /\ wire[x] = <<>>

Awaited(h, c, e) == h[e.who] = c /\ e.who \notin members[c] /\ Received(e.who) = {}

HomeInv(h) ==
    /\ \A x \in Clients :
           /\ phase[x] = "start" \/ x \in lobby => Fresh(h, x)
           /\ phase[x] = "start" => x \notin lobby
    /\ \A c \in Channels :
           /\ \A x \in members[c] \cup events[c] \cup next_deletion[c] : h[x] = c
           /\ \A e \in join_pool[c] : Awaited(h, c, e)
           /\ leave_pool[c] = {} /\ IsFiniteSet(join_pool[c])

\* A refused client is told so, and nothing else.
RefusedInv(h) ==
    \A x \in Clients : h[x] = None =>
        \/ wire[x] = <<>> /\ Len(shown[x]) <= 1
        \/ shown[x] = <<>> /\ wire[x] = FrameOf(<<Error>>)

\* What a client has been sent are notices of its channel that were in a window.
StreamInv(h, b) ==
    \A x \in Clients : \A m \in Received(x) :
        IF h[x] = None THEN m = Error
        ELSE m \in b /\ m.ch = h[x] /\ m.n <= Done(m.ch)

\* What clients send comes in the order in which it was said.
Requests(h, x) ==
    /\ \A i \in DOMAIN req[x] :
           /\ req[x][i].k <= said[x]
           /\ req[x][i].type = "join" => i = 1 /\ h[x] = None
    /\ \A i, j \in DOMAIN req[x] : i < j => req[x][i].k < req[x][j].k

ReqInv(h) == \A x \in Clients : Requests(h, x)

\* The notices of a channel are about its clients, and those about what one of
\* them has said are numbered in the order in which it was said.
Known(h, m) ==
    /\ h[m.from] = m.ch /\ m.n \in 1..heard[m.ch]
    /\ m.type = "user" =>
           /\ m.k <= said[m.from]
           /\ \A i \in DOMAIN req[m.from] : m.k < req[m.from][i].k

SaidInOrder(m, p) ==
    m.type = "user" /\ p.type = "user" /\ m.from = p.from /\ m.n < p.n => m.k < p.k

BookInv(h, b) ==
    /\ \A m \in b : Known(h, m)
    /\ \A m, p \in b : SaidInOrder(m, p)
    /\ \A c \in Channels : ToSet(mq[c]) \cup ToSet(cur_msgs[c]) \subseteq b

\* Where a channel is in its tick.
TickInv ==
    \A c \in Channels :
        /\ pc[c] = "poll" => members[c] \cap next_deletion[c] = {}
        /\ pc[c] = "events" =>
               cur_msgs[c] = <<>> /\ \A x \in next_deletion[c] : Lost(x)
        /\ pc[c] # "send" => todo[c] = {}
        /\ todo[c] \subseteq members[c]
        /\ \A x \in todo[c] \cap next_deletion[c] : Lost(x)

\* Notices are numbered, and those of the window come after all that was in one.
QueueInv(c) ==
    /\ Len(mq[c]) <= heard[c]
    /\ \A i \in DOMAIN mq[c] : mq[c][i].ch = c /\ mq[c][i].n = Done(c) + i

WindowIs(c) ==
    /\ Len(cur_msgs[c]) <= Done(c)
    /\ \A i \in DOMAIN cur_msgs[c] :
           cur_msgs[c][i].ch = c /\ cur_msgs[c][i].n \in (Low(c) + 1)..Done(c)
    /\ \A n \in (Low(c) + 1)..Done(c) : \E i \in DOMAIN cur_msgs[c] : cur_msgs[c][i].n = n
    /\ Chain(cur_msgs[c])

NumInv == \A c \in Channels : QueueInv(c) /\ (pc[c] = "send" => WindowIs(c))

\* The windows of a channel are numbered by their last notice.
WinInv(v) ==
    \A c \in Channels :
        /\ \A n \in 1..Done(c) : n <= v[c][n] /\ v[c][n] <= Done(c)
        /\ \A n, k \in 1..Done(c) : n <= k => v[c][n] <= v[c][k]
        /\ pc[c] = "send" =>
               /\ \A n \in 1..Low(c) : v[c][n] <= Low(c)
               /\ \A n \in (Low(c) + 1)..Done(c) : v[c][n] = Done(c)

\* Everybody gets the notices in the one order.
OrderInv(v) == \A x \in Clients : Ordered(v, shown[x], wire[x])

\* Who is to get the window has nothing of it.
TodoInv ==
    \A c \in Channels : \A x \in todo[c] : \A m \in Received(x) : m.n <= Low(c)

\* Who is in a channel has been sent its own join, or it is in the window.
AnswerInv ==
    \A c \in Channels, x \in Clients : Live(c, x) =>
        \/ \E m \in Received(x) : IsJoinOf(m, x)
        \/ x \in todo[c] /\ \E i \in DOMAIN cur_msgs[c] : IsJoinOf(cur_msgs[c][i], x)

\* What a client has been sent has no gap, and goes up to the last window.
GapInv ==
    \A x \in Clients :
        /\ \E lo, hi \in Nat : Numbers(x) = (lo + 1)..hi
        /\ \A c \in Channels : Live(c, x) =>
               \E lo \in Nat : lo <= Upto(c, x) /\ Numbers(x) = (lo + 1)..Upto(c, x)

Inv(h, b, v) ==
    /\ HomeInv(h) /\ RefusedInv(h) /\ StreamInv(h, b) /\ ReqInv(h) /\ BookInv(h, b)
    /\ TickInv /\ NumInv /\ WinInv(v) /\ OrderInv(v) /\ TodoInv /\ AnswerInv /\ GapInv

\* The inductive invariant.
WindowInv ==
    \E h \in [Clients -> Channels \cup {None}], b \in SUBSET Notices,
       v \in [Channels -> [Nat -> Nat]] : Inv(h, b, v)

USE DEF clientVars, netVars, poolVars, tickVars

-----------------------------------------------------------------------------
(* Types.                                                                  *)

\* What a channel hears, and what is made of it.
Heard == [type : {"user", "join", "leave"}, from : Clients, k : Nat, stamp : Nat]

Frames == [type : {"join", "message"}, k : Nat, stamp : Nat]
Sends  == [part : {"head", "body"}, win : Seq(Notices \cup {Error})]

\* An error is no notice.
LEMMA ErrorIsNone == Error \notin Notices /\ \A m \in Notices : ~IsError(m)
BY DEF Error, Notices, IsError

\* None is no channel.
LEMMA NoneIsNone == None \notin Channels
<1>1. \E n : n \notin Channels
  BY NoSetContainsEverything
<1> QED BY <1>1 DEF None

\* TypeOK, for the variables of the clients and for those of the channels.
ClientTypeOK ==
    /\ phase \in [Clients -> {"start", "handshake", "chat", "end"}]
    /\ said \in [Clients -> Nat]
    /\ req \in [Clients -> Seq(Frames)]
    /\ wire \in [Clients -> Seq(Sends)]
    /\ shown \in [Clients -> Seq(Notices \cup {Error})]
    /\ unseen \in [Clients -> SUBSET (Notices \cup {Error})]
    /\ lobby \subseteq Clients /\ closed \subseteq Clients

PoolTypeOK ==
    /\ join_pool \in [Channels -> SUBSET Entries]
    /\ leave_pool \in [Channels -> SUBSET Entries]
    /\ members \in [Channels -> SUBSET Clients]

TickTypeOK ==
    /\ pc \in [Channels -> {"poll", "events", "send"}]
    /\ events \in [Channels -> SUBSET Clients]
    /\ todo \in [Channels -> SUBSET Clients]
    /\ half \in [Channels -> SUBSET Clients]
    /\ next_deletion \in [Channels -> SUBSET Clients]
    /\ mq \in [Channels -> Seq(Notices)]
    /\ cur_msgs \in [Channels -> Seq(Notices)]
    /\ heard \in [Channels -> Nat]
    /\ \A c \in Channels : Sorted(cur_msgs[c])
    /\ \A c \in Channels : half[c] \subseteq todo[c] /\ Cardinality(half[c]) <= 1

\* The three parts make up TypeOK.
LEMMA TypeParts == TypeOK <=> ClientTypeOK /\ PoolTypeOK /\ TickTypeOK
BY DEF TypeOK, ClientTypeOK, PoolTypeOK, TickTypeOK, Frames, Sends

\* The notices that channel c makes of s.
LEMMA NumberedIs ==
    ASSUME NEW c \in Channels, heard[c] \in Nat, NEW s \in Seq(Heard)
    PROVE  /\ Numbered(c, s) \in Seq(Notices) /\ Len(Numbered(c, s)) = Len(s)
           /\ \A i \in 1..Len(s) :
                  Numbered(c, s)[i] =
                      [ch |-> c, n |-> heard[c] + i, type |-> s[i].type,
                       from |-> s[i].from, k |-> s[i].k, stamp |-> s[i].stamp]
<1>1. PICK l \in Nat : l = Len(s)
  BY LenProperties
<1>2. DOMAIN s = 1..l /\ \A i \in 1..l : s[i] \in Heard
  BY <1>1, LenProperties, ElementOfSeq
<1> DEFINE N(i) == [ch |-> c, n |-> heard[c] + i, type |-> s[i].type,
                    from |-> s[i].from, k |-> s[i].k, stamp |-> s[i].stamp]
<1>3. Numbered(c, s) = [i \in 1..l |-> N(i)]
  BY <1>2 DEF Numbered
<1>4. ASSUME NEW i \in 1..l PROVE N(i) \in Notices
  BY <1>2 DEF Heard, Notices
<1> HIDE DEF N
<1>5. Numbered(c, s) \in [1..l -> Notices]
  BY <1>3, <1>4
<1>6. Numbered(c, s) \in Seq(Notices) /\ Len(Numbered(c, s)) = l
  BY <1>5, SeqOfFun
<1>7. \A i \in 1..l : Numbered(c, s)[i] = N(i)
  BY <1>3
<1> QED BY <1>1, <1>6, <1>7 DEF N

\* What is heard of the frames fs of x: all of them, if they are messages.
LEMMA MessagesIs ==
    ASSUME NEW x \in Clients, NEW fs \in Seq(Frames)
    PROVE  /\ MessagesIn(x, fs) \in Seq(Heard)
           /\ (\A i \in 1..Len(fs) : fs[i].type = "message") =>
                  /\ Len(MessagesIn(x, fs)) = Len(fs)
                  /\ \A i \in 1..Len(fs) :
                         MessagesIn(x, fs)[i] =
                             [type |-> "user", from |-> x, k |-> fs[i].k,
                              stamp |-> fs[i].stamp]
<1>1. PICK l \in Nat : l = Len(fs)
  BY LenProperties
<1>2. DOMAIN fs = 1..l /\ \A i \in 1..l : fs[i] \in Frames
  BY <1>1, LenProperties, ElementOfSeq
<1> DEFINE M(i) == [type |-> "user", from |-> x, k |-> fs[i].k, stamp |-> fs[i].stamp]
           S == [i \in 1..l |-> IF fs[i].type = "message" THEN <<M(i)>> ELSE <<>>]
           q == [i \in 1..l |-> M(i)]
<1>3. MessagesIn(x, fs) = FlattenSeq(S)
  BY <1>2 DEF MessagesIn
<1>4. ASSUME NEW i \in 1..l PROVE M(i) \in Heard
  BY <1>2 DEF Frames, Heard
<1> HIDE DEF M
<1>5. S \in [1..l -> Seq(Heard)]
  <2>1. ASSUME NEW i \in 1..l PROVE <<M(i)>> \in Seq(Heard) /\ <<>> \in Seq(Heard)
    BY <1>4
  <2> QED BY <2>1
<1>6. S \in Seq(Seq(Heard)) /\ Len(S) = l
  <2> HIDE DEF S
  <2> QED BY <1>5, SeqOfFun
<1>7. q \in Seq(Heard) /\ Len(q) = l
  <2>1. q \in [1..l -> Heard]
    BY <1>4
  <2> HIDE DEF q
  <2> QED BY <2>1, SeqOfFun
<1>8. ASSUME \A i \in 1..l : fs[i].type = "message"
      PROVE  FlattenSeq(S) = q
  <2>1. \A i \in 1..l : S[i] = <<q[i]>>
    BY <1>8
  <2> HIDE DEF S, q
  <2> QED BY <1>6, <1>7, <2>1, FlattenOnes
<1>9. FlattenSeq(S) \in Seq(Heard)
  <2> HIDE DEF S
  <2> QED BY <1>6, FlattenType
<1>10. \A i \in 1..l : q[i] = M(i)
  OBVIOUS
<1> HIDE DEF S, q
<1> QED BY <1>1, <1>3, <1>7, <1>8, <1>9, <1>10 DEF M

\* A push puts notices behind mq, with the next numbers.
LEMMA PushIs ==
    ASSUME TickTypeOK, NEW c \in Channels, NEW s \in Seq(Heard), Push(c, s)
    PROVE  /\ mq' \in [Channels -> Seq(Notices)] /\ heard' \in [Channels -> Nat]
           /\ \A d \in Channels \ {c} : mq'[d] = mq[d] /\ heard'[d] = heard[d]
           /\ heard'[c] = heard[c] + Len(s) /\ Len(mq'[c]) = Len(mq[c]) + Len(s)
           /\ \A i \in 1..Len(mq[c]) : mq'[c][i] = mq[c][i]
           /\ \A i \in 1..Len(s) : mq'[c][Len(mq[c]) + i] = Numbered(c, s)[i]
<1>1. /\ mq[c] \in Seq(Notices) /\ heard[c] \in Nat
      /\ mq' = [mq EXCEPT ![c] = mq[c] \o Numbered(c, s)]
      /\ heard' = [heard EXCEPT ![c] = heard[c] + Len(s)]
  <2>1. mq[c] \in Seq(Notices) /\ heard[c] \in Nat
    BY DEF TickTypeOK
  <2>2. /\ mq' = [mq EXCEPT ![c] = mq[c] \o Numbered(c, s)]
        /\ heard' = [heard EXCEPT ![c] = heard[c] + Len(s)]
    BY DEF Push
  <2> QED BY <2>1, <2>2
<1>2. PICK k \in Nat, l \in Nat : k = Len(mq[c]) /\ l = Len(s)
  BY <1>1, LenProperties
<1>3. Numbered(c, s) \in Seq(Notices) /\ Len(Numbered(c, s)) = l
  BY <1>1, <1>2, NumberedIs
<1>a. PICK m \in Seq(Notices), a \in Seq(Notices) : m = mq[c] /\ a = Numbered(c, s)
  BY <1>1, <1>3
<1>4. PICK q \in Seq(Notices) : q = m \o a
  BY ConcatProperties
<1>5. /\ Len(q) = k + l
      /\ \A i \in 1..(k + l) : q[i] = IF i <= k THEN mq[c][i] ELSE Numbered(c, s)[i - k]
  <2>1. Len(m) = k /\ Len(a) = l
    BY <1>2, <1>3, <1>a
  <2>2. /\ Len(q) = k + l
        /\ \A i \in 1..(k + l) : q[i] = IF i <= k THEN m[i] ELSE a[i - k]
    BY <1>4, <2>1, ConcatProperties
  <2> QED BY <1>a, <2>2
<1>6. mq' = [mq EXCEPT ![c] = q] /\ heard' = [heard EXCEPT ![c] = heard[c] + l]
  BY <1>1, <1>2, <1>4, <1>a
<1>7. \A i \in 1..k : q[i] = mq[c][i]
  <2>1. \A i \in 1..k : i \in 1..(k + l) /\ i <= k
    OBVIOUS
  <2> QED BY <1>5, <2>1
<1>8. \A i \in 1..l : q[k + i] = Numbered(c, s)[i]
  <2>1. \A i \in 1..l : k + i \in 1..(k + l) /\ ~(k + i <= k) /\ (k + i) - k = i
    OBVIOUS
  <2> QED BY <1>5, <2>1
<1>9. mq'[c] = q /\ heard'[c] = heard[c] + l
  BY <1>1, <1>2, <1>6 DEF TickTypeOK
<1>10. /\ mq' \in [Channels -> Seq(Notices)] /\ heard' \in [Channels -> Nat]
       /\ \A d \in Channels \ {c} : mq'[d] = mq[d] /\ heard'[d] = heard[d]
  <2>1. mq \in [Channels -> Seq(Notices)] /\ heard \in [Channels -> Nat]
    BY DEF TickTypeOK
  <2>2. PICK n \in Nat : n = heard[c] + l
    BY <1>1
  <2>3. mq' = [mq EXCEPT ![c] = q] /\ heard' = [heard EXCEPT ![c] = n]
    BY <1>6, <2>2
  <2> QED BY <2>1, <2>3
<1> QED BY <1>2, <1>5, <1>7, <1>8, <1>9, <1>10

\* The joiners that resolve_pool takes in.
Taken(c) == {e \in join_pool[c] : Open(e.who) /\ e.who \notin members[c]}

\* What Resolve does when nobody leaves: s are the joins it makes, w is the window.
ResolvesTo(c, s, w) ==
    /\ pc[c] = "events" /\ pc' = [pc EXCEPT ![c] = "send"]
    /\ mq' = [mq EXCEPT ![c] = <<>>]
    /\ heard' = [heard EXCEPT ![c] = heard[c] + Len(s)]
    /\ cur_msgs' = [cur_msgs EXCEPT ![c] = w]
    /\ members' = [members EXCEPT ![c] = members[c] \cup {e.who : e \in Taken(c)}]
    /\ \A i \in 1..Len(s) : s[i].type = "join" /\ \E e \in Taken(c) : s[i].from = e.who
    /\ \A e \in Taken(c) : \E i \in 1..Len(s) : s[i].from = e.who
    /\ ToSet(w) = ToSet(cur_msgs[c]) \cup (ToSet(mq[c]) \cup ToSet(Numbered(c, s)))
    /\ \A i, j \in 1..Len(w) : i # j => w[i] # w[j]
    /\ \A i, j \in 1..Len(w) : i < j => Before(w[i], w[j])

\* A sequence of entries as a sequence of what is heard.
LEMMA SystemIs ==
    ASSUME NEW q \in Seq(Entries), NEW t \in {"join", "leave"}
    PROVE  /\ [i \in DOMAIN q |-> System(t, q[i])] \in Seq(Heard)
           /\ Len([i \in DOMAIN q |-> System(t, q[i])]) = Len(q)
           /\ \A i \in 1..Len(q) :
                  [j \in DOMAIN q |-> System(t, q[j])][i] = System(t, q[i])
<1>1. PICK l \in Nat : l = Len(q)
  BY LenProperties
<1>2. DOMAIN q = 1..l /\ \A i \in 1..l : q[i] \in Entries
  BY <1>1, LenProperties, ElementOfSeq
<1>3. ASSUME NEW i \in 1..l PROVE System(t, q[i]) \in Heard
  BY <1>2 DEF System, Heard, Entries
<1>4. [i \in 1..l |-> System(t, q[i])] \in [1..l -> Heard]
  BY <1>3
<1> DEFINE r == [i \in 1..l |-> System(t, q[i])]
<1>5. r \in Seq(Heard) /\ Len(r) = l
  <2> HIDE DEF r
  <2>1. r \in [1..l -> Heard]
    BY <1>4 DEF r
  <2> QED BY <2>1, SeqOfFun
<1>6. \A i \in 1..l : r[i] = System(t, q[i])
  OBVIOUS
<1>7. r = [i \in DOMAIN q |-> System(t, q[i])]
  BY <1>2
<1> HIDE DEF r
<1> QED BY <1>1, <1>5, <1>6, <1>7

\* With nobody to leave, Resolve hears those who join and makes a window of all.
LEMMA ResolveIs ==
    ASSUME TypeOK, NEW c \in Channels, leave_pool[c] = {}, IsFiniteSet(join_pool[c]),
           Resolve(c)
    PROVE  \E s \in Seq(Heard), w \in Seq(Notices) : ResolvesTo(c, s, w)
<1> DEFINE now  == members[c] \cup {e.who : e \in Taken(c)}
           gone == {e \in leave_pool[c] : Open(e.who) /\ e.who \in now}
           Made(joins, leaves) == [i \in DOMAIN joins |-> System("join", joins[i])]
                                  \o [i \in DOMAIN leaves |-> System("leave", leaves[i])]
           All(m) == mq[c] \o Numbered(c, m)
           In(m) == ToSet(cur_msgs[c]) \cup ToSet(SubSeq(All(m), 1, Len(All(m))))
<1>1. /\ pc[c] = "events" /\ pc' = [pc EXCEPT ![c] = "send"]
      /\ members' = [members EXCEPT ![c] = now \ {e.who : e \in gone}]
      /\ \E joins \in SetToSeqs(Taken(c)), leaves \in SetToSeqs(gone) :
             LET m == Made(joins, leaves)
             IN  /\ heard' = [heard EXCEPT ![c] = heard[c] + Len(m)]
                 /\ mq' = [mq EXCEPT ![c] = SubSeq(All(m), Len(All(m)) + 1, Len(All(m)))]
                 /\ \E w \in Windows(In(m)) : cur_msgs' = [cur_msgs EXCEPT ![c] = w]
  BY DEF Resolve, Taken, Popped
<1>2. gone = {}
  OBVIOUS
<1>3. PICK joins \in SetToSeqs(Taken(c)), leaves \in SetToSeqs({}) :
             LET m == Made(joins, leaves)
             IN  /\ heard' = [heard EXCEPT ![c] = heard[c] + Len(m)]
                 /\ mq' = [mq EXCEPT ![c] = SubSeq(All(m), Len(All(m)) + 1, Len(All(m)))]
                 /\ \E w \in Windows(In(m)) : cur_msgs' = [cur_msgs EXCEPT ![c] = w]
  <2> HIDE DEF gone, Made, All, In
  <2> QED BY <1>1, <1>2
<1>4. members' = [members EXCEPT ![c] = now]
  <2> HIDE DEF gone, now, Made, All, In
  <2>1. members' = [members EXCEPT ![c] = now \ {e.who : e \in gone}]
    BY <1>1
  <2>2. now \ {e.who : e \in gone} = now
    BY <1>2
  <2> QED BY <2>1, <2>2
<1>5. Taken(c) \subseteq Entries /\ IsFiniteSet(Taken(c))
  <2>1. Taken(c) \in SUBSET join_pool[c]
    BY DEF Taken
  <2>2. join_pool[c] \subseteq Entries
    BY TypeParts DEF PoolTypeOK
  <2> QED BY <2>1, <2>2, FS_Subset
<1>6. /\ joins \in Seq(Entries) /\ \A e : e \in Taken(c) <=> \E i \in 1..Len(joins) : e = joins[i]
  <2>1. joins \in Seq(Taken(c)) /\ ToSet(joins) = Taken(c)
    BY <1>5, OrderOfSet
  <2>2. joins \in Seq(Entries)
    BY <1>5, <2>1, SeqMonotonic
  <2> QED BY <2>1, <2>2, SetOfSeq
<1>7. leaves = <<>>
  <2>1. Len(leaves) = 0 /\ leaves \in Seq({})
    BY OrderOfSet, FS_EmptySet
  <2> QED BY <2>1, EmptySeq
<1> DEFINE s == [i \in DOMAIN joins |-> System("join", joins[i])]
<1>8. /\ s \in Seq(Heard) /\ Len(s) = Len(joins)
      /\ \A i \in 1..Len(joins) : s[i] = System("join", joins[i])
  BY <1>6, SystemIs
<1>9. Made(joins, leaves) = s
  <2>1. [i \in DOMAIN leaves |-> System("leave", leaves[i])] = <<>>
    <3>1. leaves \in Seq(Entries) /\ Len(leaves) = 0
      BY <1>7
    <3>2. PICK r \in Seq(Heard) : r = [i \in DOMAIN leaves |-> System("leave", leaves[i])]
      BY <3>1, SystemIs
    <3>3. Len(r) = 0
      BY <3>1, <3>2, SystemIs
    <3> QED BY <3>2, <3>3, EmptySeq
  <2>2. s \o <<>> = s
    <3> HIDE DEF s
    <3> QED BY <1>8, ConcatEmptySeq
  <2> QED BY <2>1, <2>2
<1> HIDE DEF s
<1>10. PICK a \in Seq(Notices) : a = Numbered(c, s)
  BY <1>8, NumberedIs, TypeParts DEF TickTypeOK
<1>11. mq[c] \in Seq(Notices) /\ cur_msgs[c] \in Seq(Notices)
  BY TypeParts DEF TickTypeOK
<1>12. PICK q \in Seq(Notices) : q = mq[c] \o a /\ ToSet(q) = ToSet(mq[c]) \cup ToSet(a)
  <2>1. PICK m \in Seq(Notices) : m = mq[c]
    BY <1>11
  <2>2. m \o a \in Seq(Notices) /\ ToSet(m \o a) = ToSet(m) \cup ToSet(a)
    BY ConcatProperties, SetOfConcat
  <2> QED BY <2>1, <2>2
<1>13. SubSeq(q, 1, Len(q)) = q /\ SubSeq(q, Len(q) + 1, Len(q)) = <<>>
  <2>1. Len(q) \in Nat
    BY LenProperties
  <2> QED BY <2>1, SubSeqFull, SubSeqEmpty
<1>14. /\ heard' = [heard EXCEPT ![c] = heard[c] + Len(s)]
       /\ mq' = [mq EXCEPT ![c] = <<>>]
       /\ \E w \in Windows(ToSet(cur_msgs[c]) \cup ToSet(q)) :
              cur_msgs' = [cur_msgs EXCEPT ![c] = w]
  <2>1. All(s) = q
    BY <1>10, <1>12
  <2>2. In(s) = ToSet(cur_msgs[c]) \cup ToSet(q)
    BY <1>13, <2>1
  <2> HIDE DEF Made, All, In
  <2> QED BY <1>3, <1>9, <1>13, <2>1, <2>2
<1>15. PICK w \in Windows(ToSet(cur_msgs[c]) \cup ToSet(q)) :
              cur_msgs' = [cur_msgs EXCEPT ![c] = w]
  BY <1>14
<1>16. PICK S : S = ToSet(cur_msgs[c]) \cup ToSet(q)
  OBVIOUS
<1>17. S \subseteq Notices /\ IsFiniteSet(S)
  <2>1. IsFiniteSet(ToSet(cur_msgs[c])) /\ IsFiniteSet(ToSet(q))
    BY <1>11, SetIsFinite
  <2>2. ToSet(cur_msgs[c]) \subseteq Notices /\ ToSet(q) \subseteq Notices
    BY <1>11, SetOfSeq
  <2> QED BY <1>16, <2>1, <2>2, FS_Union
<1>18. w \in SetToSeqs(S) /\ \A i, j \in DOMAIN w : i < j => Before(w[i], w[j])
  BY <1>15, <1>16 DEF Windows, Emplaced
<1>19. /\ w \in Seq(S) /\ ToSet(w) = S
       /\ \A i, j \in 1..Len(w) : i # j => w[i] # w[j]
  BY <1>17, <1>18, OrderOfSet
<1>20. w \in Seq(Notices)
  BY <1>17, <1>19, SeqMonotonic
<1>21. \A i, j \in 1..Len(w) : i < j => Before(w[i], w[j])
  <2>1. DOMAIN w = 1..Len(w)
    BY <1>20, LenProperties
  <2> QED BY <1>18, <2>1
<1>a. \A i \in 1..Len(s) : s[i].type = "join" /\ s[i].from = joins[i].who
  <2>1. \A e : System("join", e).type = "join" /\ System("join", e).from = e.who
    BY DEF System
  <2>2. \A i \in 1..Len(s) : s[i] = System("join", joins[i])
    BY <1>8
  <2> QED BY <2>1, <2>2
<1>22. \A i \in 1..Len(s) : s[i].type = "join" /\ \E e \in Taken(c) : s[i].from = e.who
  BY <1>6, <1>8, <1>a
<1>23. \A e \in Taken(c) : \E i \in 1..Len(s) : s[i].from = e.who
  BY <1>6, <1>8, <1>a
<1>24. ToSet(w) = ToSet(cur_msgs[c]) \cup (ToSet(mq[c]) \cup ToSet(Numbered(c, s)))
  BY <1>10, <1>12, <1>16, <1>19
<1>25. ResolvesTo(c, s, w)
  BY <1>1, <1>4, <1>14, <1>15, <1>19, <1>21, <1>22, <1>23, <1>24 DEF ResolvesTo
<1> QED BY <1>8, <1>20, <1>25

\* A frame is two sends, a header and a payload.
LEMMA FrameTyped ==
    ASSUME NEW q \in Seq(Notices \cup {Error})
    PROVE  /\ FrameOf(q) \in Seq(Sends) /\ Len(FrameOf(q)) = 2
           /\ FrameOf(q)[1] = [part |-> "head", win |-> q]
           /\ FrameOf(q)[2] = [part |-> "body", win |-> q]
<1>1. /\ [part |-> "head", win |-> q] \in Sends
      /\ [part |-> "body", win |-> q] \in Sends
  BY DEF Sends
<1> QED BY <1>1 DEF FrameOf

\* The refusal is a window.
LEMMA ErrorTyped == <<Error>> \in Seq(Notices \cup {Error})
  OBVIOUS

\* Sends come in pairs.
LEMMA Halves ==
    ASSUME NEW n \in Nat, NEW f \in 1..(n \div 2)
    PROVE  /\ f \in Nat \ {0} /\ 2 * f \in 0..n
           /\ \A i \in 1..f : 2 * i \in 1..n /\ 2 * i - 1 \in 1..n
<1>1. n \div 2 \in Nat /\ 2 * (n \div 2) <= n
  OBVIOUS
<1> QED BY <1>1

\* What is read of the bytes under way to x.
LEMMA WireRest ==
    ASSUME ClientTypeOK, NEW x \in Clients, NEW k \in 0..Len(wire[x])
    PROVE  SubSeq(wire[x], k + 1, Len(wire[x])) \in Seq(Sends)
<1>1. PICK q \in Seq(Sends) : q = wire[x]
  BY DEF ClientTypeOK
<1> QED BY <1>1, RestIs

\* The frames behind the first k of a client are frames, all but k.
LEMMA ReqRest ==
    ASSUME ClientTypeOK, NEW x \in Clients, NEW k \in DOMAIN req[x]
    PROVE  /\ SubSeq(req[x], k + 1, Len(req[x])) \in Seq(Frames)
           /\ Len(SubSeq(req[x], k + 1, Len(req[x]))) = Len(req[x]) - k
           /\ \A i \in 1..(Len(req[x]) - k) :
                  /\ i + k \in 1..Len(req[x])
                  /\ SubSeq(req[x], k + 1, Len(req[x]))[i] = req[x][i + k]
           /\ SubSeq(req[x], 1, k) \in Seq(Frames) /\ Len(SubSeq(req[x], 1, k)) = k
           /\ \A i \in 1..k : i \in 1..Len(req[x]) /\ SubSeq(req[x], 1, k)[i] = req[x][i]
           /\ k \in Nat \ {0} /\ Len(req[x]) \in Nat /\ k <= Len(req[x])
<1>1. PICK q \in Seq(Frames) : q = req[x]
  BY DEF ClientTypeOK
<1>2. Len(q) \in Nat /\ k \in 1..Len(q) /\ k \in 0..Len(q)
  BY <1>1, LenProperties
<1>3. /\ SubSeq(q, k + 1, Len(q)) \in Seq(Frames)
      /\ Len(SubSeq(q, k + 1, Len(q))) = Len(q) - k
      /\ \A i \in 1..(Len(q) - k) :
             i + k \in 1..Len(q) /\ SubSeq(q, k + 1, Len(q))[i] = q[i + k]
  BY <1>2, RestIs
<1>4. /\ SubSeq(q, 1, k) \in Seq(Frames) /\ Len(SubSeq(q, 1, k)) = k
      /\ \A i \in 1..k : SubSeq(q, 1, k)[i] = q[i]
  BY <1>2, FrontIs
<1>5. (\A i \in 1..k : i \in 1..Len(q)) /\ k \in Nat \ {0} /\ k <= Len(q)
  BY <1>2
<1> QED BY <1>1, <1>2, <1>3, <1>4, <1>5

\* Sending appends a part of the window.
LEMMA SendTyped ==
    ASSUME TypeOK, NEW c \in Channels, NEW x \in Clients, NEW t \in {"head", "body"}
    PROVE  /\ [part |-> t, win |-> cur_msgs[c]] \in Sends
           /\ Append(wire[x], [part |-> t, win |-> cur_msgs[c]]) \in Seq(Sends)
<1>1. cur_msgs[c] \in Seq(Notices) /\ wire[x] \in Seq(Sends)
  BY TypeParts DEF ClientTypeOK, TickTypeOK
<1>2. cur_msgs[c] \in Seq(Notices \cup {Error})
  BY <1>1, SeqMonotonic
<1> QED BY <1>1, <1>2 DEF Sends

\* What the clients, the lobby and a reader do keeps the types.
LEMMA ClientTypes ==
    ASSUME TypeOK, NEW x \in Clients,
           Client(x) \/ Reader(x) \/ LobbyReads(x) \/ LobbyDrops(x)
    PROVE  TypeOK'
<1>a. ClientTypeOK /\ PoolTypeOK /\ TickTypeOK
  BY TypeParts
<1>b. ClientTypeOK' /\ PoolTypeOK' /\ TickTypeOK' => TypeOK'
  BY DEF TypeOK, ClientTypeOK, PoolTypeOK, TickTypeOK, Frames, Sends
<1>c. /\ wire[x] \in Seq(Sends) /\ Len(wire[x]) \in Nat
      /\ shown[x] \in Seq(Notices \cup {Error})
  BY <1>a, LenProperties DEF ClientTypeOK
<1>1. CASE Connect(x)
  <2>1. <<[type |-> "join", k |-> 0, stamp |-> Now]>> \in Seq(Frames)
    <3>1. [type |-> "join", k |-> 0, stamp |-> Now] \in Frames
      BY WindowAssumption DEF Frames
    <3> QED BY <3>1
  <2>2. FrameOf(<<Error>>) \in Seq(Sends)
    BY ErrorTyped, FrameTyped
  <2>3. wire' \in [Clients -> Seq(Sends)]
    BY <1>1, <1>a, <2>2 DEF Connect, ClientTypeOK
  <2>4. req' \in [Clients -> Seq(Frames)] /\ lobby' \subseteq Clients
    BY <1>1, <1>a, <2>1 DEF Connect, ClientTypeOK
  <2>5. ClientTypeOK'
    BY <1>1, <1>a, <2>3, <2>4 DEF Connect, ClientTypeOK
  <2> QED BY <1>1, <1>a, <1>b, <2>5 DEF Connect, PoolTypeOK, TickTypeOK
<1>2. CASE Say(x)
  <2>1. said' \in [Clients -> Nat]
    BY <1>2, <1>a DEF Say, ClientTypeOK
  <2>2. PICK t \in Stamps :
            req' = [req EXCEPT ![x] =
                       Append(req[x], [type |-> "message", k |-> said'[x], stamp |-> t])]
    BY <1>2 DEF Say
  <2>3. [type |-> "message", k |-> said'[x], stamp |-> t] \in Frames
    BY <2>1, WindowAssumption DEF Frames
  <2>4. Append(req[x], [type |-> "message", k |-> said'[x], stamp |-> t]) \in Seq(Frames)
    BY <1>a, <2>3 DEF ClientTypeOK
  <2>5. ClientTypeOK'
    BY <1>2, <1>a, <2>1, <2>2, <2>4 DEF Say, ClientTypeOK
  <2> QED BY <1>2, <1>a, <1>b, <2>5 DEF Say, PoolTypeOK, TickTypeOK
<1>3. CASE Quit(x) \/ SeeEnd(x)
  <2>1. ClientTypeOK'
    BY <1>3, <1>a DEF Quit, SeeEnd, End, ClientTypeOK
  <2> QED BY <1>3, <1>a, <1>b, <2>1 DEF Quit, SeeEnd, End, PoolTypeOK, TickTypeOK
<1>4. CASE Show(x)
  <2>1. Len(wire[x]) >= 2
    BY <1>4 DEF Show, FrameReady
  <2>2. SubSeq(wire[x], 3, Len(wire[x])) \in Seq(Sends)
    <3>1. 2 \in 0..Len(wire[x])
      BY <1>c, <2>1
    <3>2. SubSeq(wire[x], 2 + 1, Len(wire[x])) \in Seq(Sends)
      BY <1>a, <3>1, WireRest
    <3>3. 2 + 1 = 3
      OBVIOUS
    <3> QED BY <3>2, <3>3
  <2>3. wire[x][1].win \in Seq(Notices \cup {Error})
    <3>1. 1 \in 1..Len(wire[x])
      BY <1>c, <2>1
    <3>2. wire[x][1] \in Sends
      BY <1>c, <3>1, ElementOfSeq
    <3> QED BY <3>2 DEF Sends
  <2>4. shown[x] \o wire[x][1].win \in Seq(Notices \cup {Error})
    BY <1>c, <2>3
  <2>5. ClientTypeOK'
    BY <1>4, <1>a, <2>2, <2>4 DEF Show, ClientTypeOK
  <2> QED BY <1>4, <1>a, <1>b, <2>5 DEF Show, PoolTypeOK, TickTypeOK
<1>5. CASE Handshake(x)
  <2>1. PICK f \in 1..(Len(wire[x]) \div 2) :
           LET got == FlattenSeq([i \in 1..f |-> wire[x][2 * i].win])
           IN  /\ wire' = [wire EXCEPT ![x] = SubSeq(@, 2 * f + 1, Len(@))]
               /\ unseen' = [unseen EXCEPT ![x] = @ \cup ToSet(got)]
               /\ phase' = [phase EXCEPT ![x] =
                      IF \E i \in DOMAIN got : IsError(got[i]) THEN "end"
                      ELSE IF \E i \in DOMAIN got : IsJoin(got[i]) THEN "chat"
                      ELSE @]
    BY <1>5 DEF Handshake
  <2>2. 2 * f \in 0..Len(wire[x]) /\ \A i \in 1..f : 2 * i \in 1..Len(wire[x])
    <3>1. PICK n \in Nat : n = Len(wire[x])
      BY <1>c
    <3> QED BY <3>1, Halves
  <2>3. SubSeq(wire[x], 2 * f + 1, Len(wire[x])) \in Seq(Sends)
    BY <1>a, <2>2, WireRest
  <2> DEFINE S == [i \in 1..f |-> wire[x][2 * i].win]
  <2>4. ASSUME NEW i \in 1..f PROVE wire[x][2 * i].win \in Seq(Notices \cup {Error})
    <3>1. wire[x][2 * i] \in Sends
      BY <1>c, <2>2, ElementOfSeq
    <3> QED BY <3>1 DEF Sends
  <2>5. S \in Seq(Seq(Notices \cup {Error}))
    <3>1. S \in [1..f -> Seq(Notices \cup {Error})]
      BY <2>4
    <3> HIDE DEF S
    <3> QED BY <3>1, SeqOfFun
  <2> HIDE DEF S
  <2>6. FlattenSeq(S) \in Seq(Notices \cup {Error})
    BY <2>5, FlattenType
  <2>7. ToSet(FlattenSeq(S)) \subseteq Notices \cup {Error}
    BY <2>6, SetOfSeq
  <2>8. unseen' = [unseen EXCEPT ![x] = unseen[x] \cup ToSet(FlattenSeq(S))]
    BY <2>1 DEF S
  <2>9. unseen' \in [Clients -> SUBSET (Notices \cup {Error})]
    BY <1>a, <2>7, <2>8 DEF ClientTypeOK
  <2>10. wire' \in [Clients -> Seq(Sends)]
    BY <1>a, <2>1, <2>3 DEF ClientTypeOK
  <2>11. phase' \in [Clients -> {"start", "handshake", "chat", "end"}]
    BY <1>a, <2>1 DEF ClientTypeOK
  <2>12. ClientTypeOK'
    BY <1>5, <1>a, <2>9, <2>10, <2>11 DEF Handshake, ClientTypeOK
  <2> QED BY <1>5, <1>a, <1>b, <2>12 DEF Handshake, PoolTypeOK, TickTypeOK
<1>6. CASE LobbyReads(x)
  <2>1. PICK f \in DOMAIN req[x], c \in Channels :
           /\ req' = [req EXCEPT ![x] = SubSeq(req[x], f + 1, Len(req[x]))]
           /\ join_pool' = [join_pool EXCEPT ![c] =
                  join_pool[c] \cup {[who |-> x, stamp |-> req[x][1].stamp]}]
    BY <1>6 DEF LobbyReads
  <2>2. SubSeq(req[x], f + 1, Len(req[x])) \in Seq(Frames)
    BY <1>a, ReqRest
  <2>3. [who |-> x, stamp |-> req[x][1].stamp] \in Entries
    <3>1. req[x] \in Seq(Frames) /\ f \in 1..Len(req[x])
      BY <1>a, LenProperties DEF ClientTypeOK
    <3>2. 1 \in 1..Len(req[x])
      BY <3>1
    <3>3. req[x][1] \in Frames
      BY <3>1, <3>2, ElementOfSeq
    <3> QED BY <3>3 DEF Frames, Entries
  <2>4. ClientTypeOK'
    BY <1>6, <1>a, <2>1, <2>2 DEF LobbyReads, ClientTypeOK
  <2>5. PoolTypeOK'
    BY <1>6, <1>a, <2>1, <2>3 DEF LobbyReads, PoolTypeOK
  <2> QED BY <1>6, <1>a, <1>b, <2>4, <2>5 DEF LobbyReads, TickTypeOK
<1>7. CASE LobbyDrops(x)
  <2>1. ClientTypeOK'
    BY <1>7, <1>a DEF LobbyDrops, ClientTypeOK
  <2> QED BY <1>7, <1>a, <1>b, <2>1 DEF LobbyDrops, PoolTypeOK, TickTypeOK
<1> QED BY <1>1, <1>2, <1>3, <1>4, <1>5, <1>6, <1>7 DEF Client, Reader

\* What resolve_deletion hears: those it closes leave, in some order.
LEMMA DeleteIs ==
    ASSUME TypeOK, NEW c \in Channels, Delete(c)
    PROVE  \E q \in Seq(Entries) :
               /\ Push(c, [i \in DOMAIN q |-> System("leave", q[i])])
               /\ \A i \in 1..Len(q) : q[i].who \in next_deletion[c]
<1> DEFINE S == {[who |-> x, stamp |-> Now] : x \in next_deletion[c]}
<1>1. PICK q \in SetToSeqs(S) : Push(c, [i \in DOMAIN q |-> System("leave", q[i])])
  BY DEF Delete
<1>2. next_deletion[c] \subseteq Clients
  BY DEF TypeOK
<1>3. S \subseteq Entries
  BY <1>2, WindowAssumption DEF Entries
<1>4. IsFiniteSet(S)
  <2>1. IsFiniteSet(next_deletion[c])
    BY <1>2, WindowAssumption, FS_Subset
  <2>2. [x \in next_deletion[c] |-> [who |-> x, stamp |-> Now]]
            \in Surjection(next_deletion[c], S)
    BY DEF Surjection
  <2> HIDE DEF S
  <2> QED BY <2>1, <2>2, FS_Surjection
<1>5. q \in Seq(S)
  <2> HIDE DEF S
  <2> QED BY <1>4, OrderOfSet
<1>6. q \in Seq(Entries)
  <2> HIDE DEF S
  <2> QED BY <1>3, <1>5, SeqMonotonic
<1>7. \A i \in 1..Len(q) : q[i] \in S
  <2> HIDE DEF S
  <2> QED BY <1>5, ElementOfSeq
<1>8. \A i \in 1..Len(q) : q[i].who \in next_deletion[c]
  BY <1>7
<1> QED BY <1>1, <1>6, <1>8

\* What a worker does keeps the types, if nobody is to leave.
LEMMA WorkerTypes ==
    ASSUME TypeOK, NEW c \in Channels, leave_pool[c] = {}, IsFiniteSet(join_pool[c]),
           pc[c] # "send" => todo[c] = {}, Worker(c)
    PROVE  TypeOK'
<1>a. ClientTypeOK /\ PoolTypeOK /\ TickTypeOK
  BY TypeParts
<1>b. ClientTypeOK' /\ PoolTypeOK' /\ TickTypeOK' => TypeOK'
  BY DEF TypeOK, ClientTypeOK, PoolTypeOK, TickTypeOK, Frames, Sends
<1>1. CASE Poll(c)
  <2>1. <<>> \in Seq(Notices) /\ Sorted(<<>>)
    BY DEF Sorted
  <2>2. cur_msgs' = [cur_msgs EXCEPT ![c] = <<>>]
    BY <1>1 DEF Poll, WindowCleared
  <2>3. cur_msgs' \in [Channels -> Seq(Notices)] /\ \A d \in Channels : Sorted(cur_msgs'[d])
    BY <1>a, <2>1, <2>2 DEF TickTypeOK
  <2>4. events' \in [Channels -> SUBSET Clients]
    <3>1. PICK E \in SUBSET Clients : events' = [events EXCEPT ![c] = E]
      BY <1>1, <1>a DEF Poll, PoolTypeOK
    <3> QED BY <3>1, <1>a DEF TickTypeOK
  <2>5. TickTypeOK'
    BY <1>1, <1>a, <2>3, <2>4 DEF Poll, TickTypeOK
  <2> QED BY <1>1, <1>a, <1>b, <2>5 DEF Poll, ClientTypeOK, PoolTypeOK
<1>2. ASSUME NEW x \in Clients, Hear(c, x) PROVE TypeOK'
  <2>1. PICK f \in DOMAIN req[x] :
           /\ req' = [req EXCEPT ![x] = SubSeq(req[x], f + 1, Len(req[x]))]
           /\ Push(c, MessagesIn(x, SubSeq(req[x], 1, f)))
    BY <1>2 DEF Hear
  <2>2. /\ SubSeq(req[x], f + 1, Len(req[x])) \in Seq(Frames)
        /\ SubSeq(req[x], 1, f) \in Seq(Frames)
    BY <1>a, ReqRest
  <2>3. MessagesIn(x, SubSeq(req[x], 1, f)) \in Seq(Heard)
    BY <2>2, MessagesIs
  <2>4. mq' \in [Channels -> Seq(Notices)] /\ heard' \in [Channels -> Nat]
    BY <1>a, <2>1, <2>3, PushIs
  <2>5. ClientTypeOK'
    BY <1>2, <1>a, <2>1, <2>2 DEF Hear, ClientTypeOK
  <2>6. TickTypeOK'
    BY <1>2, <1>a, <2>4 DEF Hear, TickTypeOK
  <2> QED BY <1>2, <1>a, <1>b, <2>5, <2>6 DEF Hear, PoolTypeOK
<1>3. ASSUME NEW x \in Clients, HearEnd(c, x) PROVE TypeOK'
  <2>1. TickTypeOK'
    BY <1>3, <1>a DEF HearEnd, TickTypeOK
  <2> QED BY <1>3, <1>a, <1>b, <2>1 DEF HearEnd, ClientTypeOK, PoolTypeOK
<1>4. CASE Resolve(c)
  <2>1. PICK s \in Seq(Heard), w \in Seq(Notices) : ResolvesTo(c, s, w)
    BY <1>4, ResolveIs
  <2>2. mq' \in [Channels -> Seq(Notices)]
    <3>1. <<>> \in Seq(Notices)
      OBVIOUS
    <3> QED BY <1>a, <2>1, <3>1 DEF ResolvesTo, TickTypeOK
  <2>3. heard' \in [Channels -> Nat]
    <3>1. Len(s) \in Nat
      BY LenProperties
    <3> QED BY <1>a, <2>1, <3>1 DEF ResolvesTo, TickTypeOK
  <2>4. Sorted(w)
    <3>1. \A i \in DOMAIN w : i \in 1..Len(w) /\ w[i] \in Notices
      BY LenProperties, ElementOfSeq
    <3>2. ASSUME NEW i \in DOMAIN w, NEW j \in DOMAIN w, i < j
          PROVE  w[i].stamp <= w[j].stamp
      <4>1. Before(w[i], w[j])
        BY <2>1, <3>1, <3>2 DEF ResolvesTo
      <4>2. w[i].stamp \in Nat /\ w[j].stamp \in Nat
        BY <3>1 DEF Notices
      <4> QED BY <4>1, <4>2 DEF Before
    <3> QED BY <3>2 DEF Sorted
  <2>5. cur_msgs' \in [Channels -> Seq(Notices)] /\ \A d \in Channels : Sorted(cur_msgs'[d])
    BY <1>a, <2>1, <2>4 DEF ResolvesTo, TickTypeOK
  <2>6. members' \in [Channels -> SUBSET Clients]
    <3>1. {e.who : e \in Taken(c)} \subseteq Clients
      BY <1>a DEF Taken, PoolTypeOK, Entries
    <3> QED BY <1>a, <2>1, <3>1 DEF ResolvesTo, PoolTypeOK
  <2>7. PoolTypeOK'
    BY <1>4, <1>a, <2>6 DEF Resolve, PoolTypeOK
  <2>a. members'[c] \in SUBSET Clients
    BY <2>6
  <2>b. /\ \/ todo' = todo
           \/ todo' = [todo EXCEPT ![c] = members'[c]]
        /\ \/ next_deletion' = next_deletion
           \/ next_deletion' = [next_deletion EXCEPT ![c] = next_deletion[c] \cup members'[c]]
        /\ half' = half /\ events' = events
    BY <1>4 DEF Resolve
  <2>8. /\ todo' \in [Channels -> SUBSET Clients]
        /\ next_deletion' \in [Channels -> SUBSET Clients]
        /\ pc' = [pc EXCEPT ![c] = "send"]
    <3>1. todo' \in [Channels -> SUBSET Clients]
      BY <1>a, <2>a, <2>b DEF TickTypeOK
    <3>2. PICK D \in SUBSET Clients :
              next_deletion' = next_deletion \/ next_deletion' = [next_deletion EXCEPT ![c] = D]
      <4>1. next_deletion[c] \cup members'[c] \in SUBSET Clients
        BY <1>a, <2>a DEF TickTypeOK
      <4> QED BY <2>b, <4>1
    <3>3. next_deletion' \in [Channels -> SUBSET Clients]
      BY <1>a, <3>2 DEF TickTypeOK
    <3> QED BY <2>1, <3>1, <3>3 DEF ResolvesTo
  <2>9. \A d \in Channels : half[d] \subseteq todo'[d]
    <3>1. pc[c] # "send"
      BY <2>1 DEF ResolvesTo
    <3>2. \A d \in Channels : half[d] \subseteq todo[d]
      BY <1>a DEF TickTypeOK
    <3>3. half[c] = {}
      BY <3>1, <3>2
    <3>4. \A d \in Channels : d # c => todo'[d] = todo[d]
      BY <1>a, <2>b DEF TickTypeOK
    <3> QED BY <3>2, <3>3, <3>4
  <2>10. TickTypeOK'
    BY <1>a, <2>2, <2>3, <2>5, <2>b, <2>8, <2>9 DEF TickTypeOK
  <2> QED BY <1>4, <1>a, <1>b, <2>7, <2>10 DEF Resolve, ClientTypeOK
<1>5. ASSUME NEW x \in Clients, SendHead(c, x) PROVE TypeOK'
  <2>1. Append(wire[x], [part |-> "head", win |-> cur_msgs[c]]) \in Seq(Sends)
    BY SendTyped
  <2>2. wire' \in [Clients -> Seq(Sends)]
    BY <1>5, <1>a, <2>1 DEF SendHead, ClientTypeOK
  <2>3. ClientTypeOK'
    BY <1>5, <1>a, <2>2 DEF SendHead, ClientTypeOK
  <2>4. Cardinality({x}) = 1 /\ x \in todo[c]
    BY <1>5, FS_Singleton DEF SendHead, Sending
  <2>5. half' = [half EXCEPT ![c] = {x}] /\ todo' = todo
    BY <1>5 DEF SendHead
  <2>6. /\ half' \in [Channels -> SUBSET Clients]
        /\ \A d \in Channels : half'[d] \subseteq todo'[d] /\ Cardinality(half'[d]) <= 1
    BY <1>a, <2>4, <2>5 DEF TickTypeOK
  <2>7. TickTypeOK'
    BY <1>5, <1>a, <2>6 DEF SendHead, TickTypeOK
  <2> QED BY <1>5, <1>a, <1>b, <2>3, <2>7 DEF SendHead, PoolTypeOK
<1>6. ASSUME NEW x \in Clients, half' = [half EXCEPT ![c] = {}],
             todo' = [todo EXCEPT ![c] = todo[c] \ {x}]
      PROVE  /\ half' \in [Channels -> SUBSET Clients]
             /\ todo' \in [Channels -> SUBSET Clients]
             /\ \A d \in Channels : half'[d] \subseteq todo'[d] /\ Cardinality(half'[d]) <= 1
  <2>1. Cardinality({}) = 0
    BY FS_EmptySet
  <2> QED BY <1>6, <1>a, <2>1 DEF TickTypeOK
<1>7. ASSUME NEW x \in Clients, SendBody(c, x) PROVE TypeOK'
  <2>1. Append(wire[x], [part |-> "body", win |-> cur_msgs[c]]) \in Seq(Sends)
    BY SendTyped
  <2>2. wire' \in [Clients -> Seq(Sends)]
    BY <1>7, <1>a, <2>1 DEF SendBody, ClientTypeOK
  <2>3. ClientTypeOK'
    BY <1>7, <1>a, <2>2 DEF SendBody, ClientTypeOK
  <2>4. /\ half' \in [Channels -> SUBSET Clients] /\ todo' \in [Channels -> SUBSET Clients]
        /\ \A d \in Channels : half'[d] \subseteq todo'[d] /\ Cardinality(half'[d]) <= 1
    BY <1>6, <1>7 DEF SendBody
  <2>5. TickTypeOK'
    BY <1>7, <1>a, <2>4 DEF SendBody, TickTypeOK
  <2> QED BY <1>7, <1>a, <1>b, <2>3, <2>5 DEF SendBody, PoolTypeOK
<1>8. ASSUME NEW x \in Clients, SendLost(c, x) PROVE TypeOK'
  <2>1. /\ half' \in [Channels -> SUBSET Clients] /\ todo' \in [Channels -> SUBSET Clients]
        /\ \A d \in Channels : half'[d] \subseteq todo'[d] /\ Cardinality(half'[d]) <= 1
    BY <1>6, <1>8 DEF SendLost
  <2>2. next_deletion' \in [Channels -> SUBSET Clients]
    <3>1. PICK D \in SUBSET Clients :
              next_deletion' = next_deletion \/ next_deletion' = [next_deletion EXCEPT ![c] = D]
      <4>1. next_deletion[c] \cup {x} \in SUBSET Clients
        BY <1>a DEF TickTypeOK
      <4> QED BY <1>8, <4>1 DEF SendLost
    <3> QED BY <1>a, <3>1 DEF TickTypeOK
  <2>3. TickTypeOK'
    BY <1>8, <1>a, <2>1, <2>2 DEF SendLost, TickTypeOK
  <2> QED BY <1>8, <1>a, <1>b, <2>3 DEF SendLost, ClientTypeOK, PoolTypeOK
<1>9. CASE Delete(c)
  <2>1. PICK q \in Seq(Entries) : Push(c, [i \in DOMAIN q |-> System("leave", q[i])])
    BY <1>9, <1>a, DeleteIs
  <2>2. [i \in DOMAIN q |-> System("leave", q[i])] \in Seq(Heard)
    BY SystemIs
  <2>3. mq' \in [Channels -> Seq(Notices)] /\ heard' \in [Channels -> Nat]
    BY <1>a, <2>1, <2>2, PushIs
  <2>4. ClientTypeOK'
    BY <1>9, <1>a DEF Delete, ClientTypeOK, TickTypeOK
  <2>5. PoolTypeOK'
    BY <1>9, <1>a DEF Delete, PoolTypeOK
  <2>6. TickTypeOK'
    BY <1>9, <1>a, <2>3 DEF Delete, TickTypeOK
  <2> QED BY <1>b, <2>4, <2>5, <2>6
<1> QED BY <1>1, <1>2, <1>3, <1>4, <1>5, <1>7, <1>8, <1>9 DEF Worker

-----------------------------------------------------------------------------
(* Streams: what is on a screen and under way to it.                       *)

Screens == Seq(Notices \cup {Error})

\* Bodies, place by place.
LEMMA BodiesIs ==
    ASSUME NEW w \in Seq(Sends)
    PROVE  /\ \A k : k \in Bodies(w) <=> k \in 1..Len(w) /\ w[k].part = "body"
           /\ \A k \in Bodies(w) :
                  /\ k \in Nat /\ k \in 1..Len(w)
                  /\ w[k].win \in Screens /\ DOMAIN w[k].win = 1..Len(w[k].win)
<1>1. DOMAIN w = 1..Len(w) /\ Len(w) \in Nat
  BY LenProperties
<1>2. \A k : k \in Bodies(w) <=> k \in 1..Len(w) /\ w[k].part = "body"
  BY <1>1 DEF Bodies
<1>3. ASSUME NEW k \in Bodies(w)
      PROVE  /\ k \in Nat /\ k \in 1..Len(w)
             /\ w[k].win \in Screens /\ DOMAIN w[k].win = 1..Len(w[k].win)
  <2>1. k \in Nat /\ k \in 1..Len(w)
    BY <1>1, <1>2
  <2>2. w[k] \in Sends
    BY <2>1, ElementOfSeq
  <2>3. w[k].win \in Screens
    BY <2>2 DEF Sends, Screens
  <2>4. DOMAIN w[k].win = 1..Len(w[k].win)
    BY <2>3, LenProperties DEF Screens
  <2> QED BY <2>1, <2>3, <2>4
<1> QED BY <1>2, <1>3

\* Notice e is in the sequence q; it is in a payload of w.
Among(e, q) == \E i \in DOMAIN q : e = q[i]
Carried(e, w) == \E k \in Bodies(w) : Among(e, w[k].win)

\* What has been sent is on the screen, dropped, or in a send.
LEMMA SentIs ==
    ASSUME NEW s \in Screens, NEW u, NEW w \in Seq(Sends)
    PROVE  \A e : e \in Sent(s, u, w) <=>
               Among(e, s) \/ e \in u \/ Carried(e, w)
<1>1. \A q \in Screens : \A e : e \in ToSet(q) <=> Among(e, q)
  <2>1. ASSUME NEW q \in Screens PROVE \A e : e \in ToSet(q) <=> Among(e, q)
    <3>1. DOMAIN q = 1..Len(q)
      BY LenProperties DEF Screens
    <3> QED BY <3>1, SetOfSeq DEF Screens, Among
  <2> QED BY <2>1
<1>2. \A k \in Bodies(w) : w[k].win \in Screens
  BY BodiesIs
<1>3. \A e : e \in UNION {ToSet(w[k].win) : k \in Bodies(w)} <=>
             \E k \in Bodies(w) : e \in ToSet(w[k].win)
  OBVIOUS
<1>4. \A e : e \in UNION {ToSet(w[k].win) : k \in Bodies(w)} <=>
             Carried(e, w)
  BY <1>1, <1>2, <1>3 DEF Carried
<1>5. \A e : e \in Sent(s, u, w) <=>
             e \in ToSet(s) \/ e \in u \/ e \in UNION {ToSet(w[k].win) : k \in Bodies(w)}
  BY DEF Sent
<1> QED BY <1>1, <1>4, <1>5

\* The rest r of what is under way, w, when k sends of it have been read.
RestOf(w, k, r) ==
    /\ \A i \in Bodies(r) : i + k \in Bodies(w) /\ w[i + k] = r[i]
    /\ \A j \in Bodies(w) : j <= k \/ (j - k \in Bodies(r) /\ r[j - k] = w[j])

\* The sends behind the first k are a rest.
LEMMA RestBodies ==
    ASSUME NEW w \in Seq(Sends), NEW k \in 0..Len(w), NEW r,
           r = SubSeq(w, k + 1, Len(w))
    PROVE  r \in Seq(Sends) /\ RestOf(w, k, r)
<1>1. PICK n \in Nat : n = Len(w) /\ k \in 0..n
  BY LenProperties
<1>2. /\ r \in Seq(Sends) /\ Len(r) = n - k
      /\ \A i \in 1..(n - k) : i + k \in 1..n /\ r[i] = w[i + k]
  BY <1>1, RestIs
<1>3. ASSUME NEW i \in Bodies(r) PROVE i + k \in Bodies(w) /\ w[i + k] = r[i]
  <2>1. i \in 1..(n - k) /\ r[i].part = "body"
    BY <1>2, BodiesIs
  <2>2. i + k \in 1..n /\ w[i + k] = r[i]
    BY <1>2, <2>1
  <2> QED BY <1>1, <2>1, <2>2, BodiesIs
<1>4. ASSUME NEW j \in Bodies(w), ~(j <= k) PROVE j - k \in Bodies(r) /\ r[j - k] = w[j]
  <2>1. j \in 1..n /\ w[j].part = "body"
    BY <1>1, BodiesIs
  <2>2. j - k \in 1..(n - k) /\ (j - k) + k = j
    BY <1>1, <1>4, <2>1
  <2>3. r[j - k] = w[j]
    BY <1>2, <2>2
  <2> QED BY <1>2, <2>1, <2>2, <2>3, BodiesIs
<1> QED BY <1>2, <1>3, <1>4 DEF RestOf

\* r is w and one more send, of q, which is a payload if t says so.
OneMore(w, r, t, q) ==
    /\ \A k \in Bodies(w) : k \in Bodies(r) /\ r[k] = w[k] /\ k < Len(w) + 1
    /\ \A k \in Bodies(r) : k \in Bodies(w) \/ (t = "body" /\ k = Len(w) + 1)
    /\ t = "body" => Len(w) + 1 \in Bodies(r)
    /\ r[Len(w) + 1].win = q

\* A send put behind the others is one more.
LEMMA AppendBodies ==
    ASSUME NEW w \in Seq(Sends), NEW q \in Screens, NEW t \in {"head", "body"}, NEW r,
           r = Append(w, [part |-> t, win |-> q])
    PROVE  r \in Seq(Sends) /\ OneMore(w, r, t, q)
<1>1. PICK n \in Nat : n = Len(w)
  BY LenProperties
<1>2. [part |-> t, win |-> q] \in Sends
  BY DEF Sends, Screens
<1>3. /\ r \in Seq(Sends) /\ Len(r) = n + 1
      /\ \A i \in 1..n : r[i] = w[i]
      /\ r[n + 1] = [part |-> t, win |-> q]
  BY <1>1, <1>2, AppendProperties
<1>4. ASSUME NEW k \in Bodies(w) PROVE k \in Bodies(r) /\ r[k] = w[k] /\ k < n + 1
  <2>1. k \in 1..n /\ w[k].part = "body"
    BY <1>1, BodiesIs
  <2>2. k \in 1..(n + 1) /\ k < n + 1 /\ r[k] = w[k]
    BY <1>3, <2>1
  <2> QED BY <1>3, <2>1, <2>2, BodiesIs
<1>5. ASSUME NEW k \in Bodies(r) PROVE k \in Bodies(w) \/ (t = "body" /\ k = n + 1)
  <2>1. k \in 1..(n + 1) /\ r[k].part = "body"
    BY <1>3, BodiesIs
  <2>2. CASE k \in 1..n
    BY <1>1, <1>3, <2>1, <2>2, BodiesIs
  <2>3. CASE k = n + 1
    BY <1>3, <2>1, <2>3
  <2> QED BY <2>1, <2>2, <2>3
<1>6. t = "body" => n + 1 \in Bodies(r)
  <2>1. n + 1 \in 1..Len(r)
    BY <1>3
  <2>2. t = "body" => r[n + 1].part = "body"
    BY <1>3
  <2> QED BY <1>3, <2>1, <2>2, BodiesIs
<1>7. r[n + 1].win = q
  BY <1>3
<1> QED BY <1>1, <1>3, <1>4, <1>5, <1>6, <1>7 DEF OneMore

\* What is sent and its order stay, if s, u and w become z, t and r.
Keeps(v, s, u, w, z, t, r) ==
    /\ Sent(z, t, r) = Sent(s, u, w)
    /\ Ordered(v, s, w) => Ordered(v, z, r)

\* A frame that is shown was under way before, and the order stays.
LEMMA ShowKeeps ==
    ASSUME NEW s \in Screens, NEW u, NEW w \in Seq(Sends), NEW v, Len(w) >= 2,
           w[1].part = "head", w[2] = [w[1] EXCEPT !.part = "body"],
           NEW z, z = s \o w[1].win, NEW r, r = SubSeq(w, 3, Len(w))
    PROVE  Keeps(v, s, u, w, z, u, r)
<1>1. Len(w) \in Nat /\ 1 \in 1..Len(w) /\ 2 \in 1..Len(w) /\ 2 \in 0..Len(w)
  BY LenProperties
<1>2. w[1] \in Sends /\ w[2] \in Sends
  BY <1>1, ElementOfSeq
<1>3. PICK q \in Screens : q = w[1].win /\ q = w[2].win
  BY <1>2 DEF Sends, Screens
<1>4. 2 \in Bodies(w) /\ 1 \notin Bodies(w)
  <2>1. w[2].part = "body"
    BY <1>2 DEF Sends
  <2> QED BY <1>1, <2>1, BodiesIs
<1>5. r = SubSeq(w, 2 + 1, Len(w))
  <2>1. 2 + 1 = 3
    OBVIOUS
  <2> QED BY <2>1
<1>6. /\ r \in Seq(Sends)
      /\ \A i \in Bodies(r) : i + 2 \in Bodies(w) /\ w[i + 2] = r[i]
      /\ \A j \in Bodies(w) : j <= 2 \/ (j - 2 \in Bodies(r) /\ r[j - 2] = w[j])
  <2>1. PICK k \in 0..Len(w) : k = 2
    BY <1>1
  <2>2. r = SubSeq(w, k + 1, Len(w))
    BY <1>5, <2>1
  <2>3. r \in Seq(Sends) /\ RestOf(w, k, r)
    BY <2>2, RestBodies
  <2> QED BY <2>1, <2>3 DEF RestOf
<1>7. \A j \in Bodies(w) : j = 2 \/ (j - 2 \in Bodies(r) /\ r[j - 2] = w[j])
  <2>1. ASSUME NEW j \in Bodies(w), j <= 2 PROVE j = 2
    <3>1. j \in 1..Len(w) /\ j # 1
      BY <1>4, BodiesIs
    <3> QED BY <1>1, <2>1, <3>1
  <2> QED BY <1>6, <2>1
<1>8. PICK m \in Nat, n \in Nat : m = Len(s) /\ n = Len(q)
  BY LenProperties DEF Screens
<1>9. /\ z \in Screens /\ Len(z) = m + n
      /\ \A i \in 1..(m + n) : z[i] = IF i <= m THEN s[i] ELSE q[i - m]
  BY <1>3, <1>8, ConcatProperties DEF Screens
<1>10. DOMAIN z = 1..(m + n) /\ DOMAIN s = 1..m /\ DOMAIN q = 1..n
  BY <1>8, <1>9, LenProperties DEF Screens
<1>11. \A i \in DOMAIN z : \/ i \in DOMAIN s /\ z[i] = s[i]
                           \/ ~(i <= m) /\ i - m \in DOMAIN q /\ z[i] = q[i - m]
  BY <1>9, <1>10
<1>12. (\A i \in DOMAIN s : i \in DOMAIN z /\ z[i] = s[i])
       /\ (\A j \in DOMAIN q : j + m \in DOMAIN z /\ z[j + m] = q[j])
  <2>1. \A i \in 1..m : i \in 1..(m + n) /\ i <= m
    OBVIOUS
  <2>2. \A j \in 1..n : j + m \in 1..(m + n) /\ ~(j + m <= m) /\ (j + m) - m = j
    OBVIOUS
  <2> QED BY <1>9, <1>10, <2>1, <2>2
<1>13. ASSUME NEW e PROVE Among(e, z) <=> Among(e, s) \/ Among(e, q)
  <2>1. Among(e, s) => Among(e, z)
    BY <1>12 DEF Among
  <2>2. Among(e, q) => Among(e, z)
    BY <1>12 DEF Among
  <2>3. ASSUME NEW i \in DOMAIN z, e = z[i] PROVE Among(e, s) \/ Among(e, q)
    <3>1. CASE i \in DOMAIN s /\ z[i] = s[i]
      BY <2>3, <3>1 DEF Among
    <3>2. CASE i - m \in DOMAIN q /\ z[i] = q[i - m]
      BY <2>3, <3>2 DEF Among
    <3> QED BY <1>11, <3>1, <3>2
  <2>4. Among(e, z) => Among(e, s) \/ Among(e, q)
    BY <2>3 DEF Among
  <2> QED BY <2>1, <2>2, <2>4
<1>14. ASSUME NEW e PROVE Carried(e, w) <=> Among(e, q) \/ Carried(e, r)
  <2>1. ASSUME NEW k \in Bodies(w), Among(e, w[k].win)
        PROVE  Among(e, q) \/ Carried(e, r)
    <3>1. CASE k = 2
      BY <1>3, <2>1, <3>1
    <3>2. CASE k - 2 \in Bodies(r) /\ r[k - 2] = w[k]
      BY <2>1, <3>2 DEF Carried
    <3> QED BY <1>7, <3>1, <3>2
  <2>2. Among(e, q) => Carried(e, w)
    BY <1>3, <1>4 DEF Carried
  <2>3. ASSUME NEW l \in Bodies(r), Among(e, r[l].win)
        PROVE  Carried(e, w)
    <3>1. l + 2 \in Bodies(w) /\ w[l + 2] = r[l]
      BY <1>6
    <3> QED BY <2>3, <3>1 DEF Carried
  <2>4. Carried(e, w) => Among(e, q) \/ Carried(e, r)
    BY <2>1 DEF Carried
  <2>5. Carried(e, r) => Carried(e, w)
    BY <2>3 DEF Carried
  <2> QED BY <2>2, <2>4, <2>5
<1>15. \A e : e \in Sent(z, u, r) <=> e \in Sent(s, u, w)
  <2>1. \A e : e \in Sent(s, u, w) <=> Among(e, s) \/ e \in u \/ Carried(e, w)
    BY SentIs
  <2>2. \A e : e \in Sent(z, u, r) <=> Among(e, z) \/ e \in u \/ Carried(e, r)
    BY <1>6, <1>9, SentIs
  <2> QED BY <1>13, <1>14, <2>1, <2>2
<1>16. ASSUME Ordered(v, s, w) PROVE Ordered(v, z, r)
  <2>1. /\ \A i, j \in DOMAIN s : i < j => Precedes(v, s[i], s[j])
        /\ \A i, j \in DOMAIN q : i < j => Precedes(v, q[i], q[j])
        /\ \A i \in DOMAIN s, j \in DOMAIN q : Precedes(v, s[i], q[j])
    BY <1>3, <1>4, <1>16 DEF Ordered
  <2>2. ASSUME NEW i \in DOMAIN z, NEW j \in DOMAIN z, i < j
        PROVE  Precedes(v, z[i], z[j])
    <3>1. i \in 1..(m + n) /\ j \in 1..(m + n)
      BY <1>10
    <3>2. CASE j \in DOMAIN s /\ z[j] = s[j]
      <4>1. i \in 1..m /\ z[i] = s[i]
        BY <1>10, <1>12, <2>2, <3>1, <3>2
      <4> QED BY <1>10, <2>1, <2>2, <3>2, <4>1
    <3>3. CASE i \in DOMAIN s /\ z[i] = s[i] /\ j - m \in DOMAIN q /\ z[j] = q[j - m]
      BY <2>1, <3>3
    <3>4. CASE /\ i - m \in DOMAIN q /\ z[i] = q[i - m]
               /\ j - m \in DOMAIN q /\ z[j] = q[j - m]
      <4>1. i - m < j - m
        BY <1>8, <2>2, <3>1
      <4> QED BY <2>1, <3>4, <4>1
    <3> QED BY <1>11, <3>2, <3>3, <3>4
  <2>3. ASSUME NEW k \in Bodies(r)
        PROVE  /\ \A i, j \in DOMAIN r[k].win : i < j => Precedes(v, r[k].win[i], r[k].win[j])
               /\ \A i \in DOMAIN z, j \in DOMAIN r[k].win : Precedes(v, z[i], r[k].win[j])
    <3>a. k \in 1..Len(r) /\ k \in Nat
      BY <1>6, BodiesIs
    <3>1. k + 2 \in Bodies(w) /\ w[k + 2] = r[k] /\ 2 < k + 2
      BY <1>6, <3>a
    <3>2. /\ \A i, j \in DOMAIN r[k].win : i < j => Precedes(v, r[k].win[i], r[k].win[j])
          /\ \A i \in DOMAIN s, j \in DOMAIN r[k].win : Precedes(v, s[i], r[k].win[j])
      BY <1>16, <3>1 DEF Ordered
    <3>3. \A i \in DOMAIN q, j \in DOMAIN r[k].win : Precedes(v, q[i], r[k].win[j])
      BY <1>3, <1>4, <1>16, <3>1 DEF Ordered
    <3>4. ASSUME NEW i \in DOMAIN z, NEW j \in DOMAIN r[k].win
          PROVE  Precedes(v, z[i], r[k].win[j])
      BY <1>11, <3>2, <3>3
    <3> QED BY <3>2, <3>4
  <2>4. ASSUME NEW k \in Bodies(r), NEW l \in Bodies(r), k < l
        PROVE  \A i \in DOMAIN r[k].win, j \in DOMAIN r[l].win :
                   Precedes(v, r[k].win[i], r[l].win[j])
    <3>1. /\ k + 2 \in Bodies(w) /\ w[k + 2] = r[k]
          /\ l + 2 \in Bodies(w) /\ w[l + 2] = r[l]
      BY <1>6
    <3>a. k \in Nat /\ l \in Nat
      BY <1>6, BodiesIs
    <3>2. k + 2 < l + 2
      BY <2>4, <3>a
    <3> QED BY <1>16, <3>1, <3>2 DEF Ordered
  <2> QED BY <2>2, <2>3, <2>4 DEF Ordered
<1>17. Sent(z, u, r) = Sent(s, u, w)
  BY <1>15
<1> QED BY <1>16, <1>17 DEF Keeps

\* What is dropped unseen was under way before, and the order stays.
LEMMA DropKeeps ==
    ASSUME NEW s \in Screens, NEW u, NEW w \in Seq(Sends), NEW v, NEW k \in 0..Len(w),
           NEW g, \A e : e \in g <=> \E j \in Bodies(w) : j <= k /\ Among(e, w[j].win),
           NEW r, r = SubSeq(w, k + 1, Len(w))
    PROVE  Keeps(v, s, u, w, s, u \cup g, r)
<1>1. r \in Seq(Sends) /\ RestOf(w, k, r)
  BY RestBodies
<1>2. Len(w) \in Nat /\ k \in Nat
  BY LenProperties
<1>3. ASSUME NEW e PROVE Carried(e, w) <=> e \in g \/ Carried(e, r)
  <2>1. ASSUME NEW j \in Bodies(w), Among(e, w[j].win) PROVE e \in g \/ Carried(e, r)
    <3>1. CASE j <= k
      BY <2>1, <3>1
    <3>2. CASE j - k \in Bodies(r) /\ r[j - k] = w[j]
      BY <2>1, <3>2 DEF Carried
    <3> QED BY <1>1, <3>1, <3>2 DEF RestOf
  <2>2. ASSUME NEW i \in Bodies(r), Among(e, r[i].win) PROVE Carried(e, w)
    <3>1. i + k \in Bodies(w) /\ w[i + k] = r[i]
      BY <1>1 DEF RestOf
    <3> QED BY <2>2, <3>1 DEF Carried
  <2>3. e \in g => Carried(e, w)
    BY DEF Carried
  <2>4. Carried(e, w) => e \in g \/ Carried(e, r)
    BY <2>1 DEF Carried
  <2>5. Carried(e, r) => Carried(e, w)
    BY <2>2 DEF Carried
  <2> QED BY <2>3, <2>4, <2>5
<1>4. \A e : e \in Sent(s, u \cup g, r) <=> e \in Sent(s, u, w)
  <2>1. \A e : e \in Sent(s, u, w) <=> Among(e, s) \/ e \in u \/ Carried(e, w)
    BY SentIs
  <2>2. \A e : e \in Sent(s, u \cup g, r) <=> Among(e, s) \/ e \in u \cup g \/ Carried(e, r)
    BY <1>1, SentIs
  <2> QED BY <1>3, <2>1, <2>2
<1>5. ASSUME Ordered(v, s, w) PROVE Ordered(v, s, r)
  <2>1. \A i, j \in DOMAIN s : i < j => Precedes(v, s[i], s[j])
    BY <1>5 DEF Ordered
  <2>2. ASSUME NEW l \in Bodies(r)
        PROVE  /\ \A i, j \in DOMAIN r[l].win : i < j => Precedes(v, r[l].win[i], r[l].win[j])
               /\ \A i \in DOMAIN s, j \in DOMAIN r[l].win : Precedes(v, s[i], r[l].win[j])
    <3>1. l + k \in Bodies(w) /\ w[l + k] = r[l]
      BY <1>1 DEF RestOf
    <3> QED BY <1>5, <3>1 DEF Ordered
  <2>3. ASSUME NEW l \in Bodies(r), NEW n \in Bodies(r), l < n
        PROVE  \A i \in DOMAIN r[l].win, j \in DOMAIN r[n].win :
                   Precedes(v, r[l].win[i], r[n].win[j])
    <3>1. /\ l + k \in Bodies(w) /\ w[l + k] = r[l]
          /\ n + k \in Bodies(w) /\ w[n + k] = r[n]
      BY <1>1 DEF RestOf
    <3>2. l \in Nat /\ n \in Nat
      BY <1>1, BodiesIs
    <3>3. l + k < n + k
      BY <1>2, <2>3, <3>2
    <3> QED BY <1>5, <3>1, <3>3 DEF Ordered
  <2> QED BY <2>1, <2>2, <2>3 DEF Ordered
<1>6. Sent(s, u \cup g, r) = Sent(s, u, w)
  BY <1>4
<1> QED BY <1>5, <1>6 DEF Keeps

\* A header brings nothing.
LEMMA HeadKeeps ==
    ASSUME NEW s \in Screens, NEW u, NEW w \in Seq(Sends), NEW v, NEW q \in Screens,
           NEW r, r = Append(w, [part |-> "head", win |-> q])
    PROVE  Keeps(v, s, u, w, s, u, r)
<1>1. /\ r \in Seq(Sends) /\ \A k \in Bodies(w) : k \in Bodies(r) /\ r[k] = w[k]
      /\ \A k \in Bodies(r) : k \in Bodies(w)
  <2>1. r \in Seq(Sends) /\ OneMore(w, r, "head", q)
    BY AppendBodies
  <2> QED BY <2>1 DEF OneMore
<1>2. ASSUME NEW e PROVE Carried(e, r) <=> Carried(e, w)
  BY <1>1 DEF Carried
<1>3. \A e : e \in Sent(s, u, r) <=> e \in Sent(s, u, w)
  <2>1. \A e : e \in Sent(s, u, w) <=> Among(e, s) \/ e \in u \/ Carried(e, w)
    BY SentIs
  <2>2. \A e : e \in Sent(s, u, r) <=> Among(e, s) \/ e \in u \/ Carried(e, r)
    BY <1>1, SentIs
  <2> QED BY <1>2, <2>1, <2>2
<1>4. ASSUME Ordered(v, s, w) PROVE Ordered(v, s, r)
  <2>a. \A k \in Bodies(r) : k \in Bodies(w) /\ r[k] = w[k]
    BY <1>1
  <2>1. \A i, j \in DOMAIN s : i < j => Precedes(v, s[i], s[j])
    BY <1>4 DEF Ordered
  <2>2. ASSUME NEW l \in Bodies(r)
        PROVE  /\ \A i, j \in DOMAIN r[l].win : i < j => Precedes(v, r[l].win[i], r[l].win[j])
               /\ \A i \in DOMAIN s, j \in DOMAIN r[l].win : Precedes(v, s[i], r[l].win[j])
    <3>1. l \in Bodies(w) /\ r[l] = w[l]
      BY <2>a
    <3> QED BY <1>4, <3>1 DEF Ordered
  <2>3. ASSUME NEW l \in Bodies(r), NEW n \in Bodies(r), l < n
        PROVE  \A i \in DOMAIN r[l].win, j \in DOMAIN r[n].win :
                   Precedes(v, r[l].win[i], r[n].win[j])
    <3>1. l \in Bodies(w) /\ r[l] = w[l] /\ n \in Bodies(w) /\ r[n] = w[n]
      BY <2>a
    <3> QED BY <1>4, <2>3, <3>1 DEF Ordered
  <2> QED BY <2>1, <2>2, <2>3 DEF Ordered
<1>5. Sent(s, u, r) = Sent(s, u, w)
  BY <1>3
<1> QED BY <1>4, <1>5 DEF Keeps

\* A payload brings the notices of the window, in order if they come last of all.
LEMMA BodyAdds ==
    ASSUME NEW s \in Screens, NEW u, NEW w \in Seq(Sends), NEW v, NEW q \in Screens,
           NEW r, r = Append(w, [part |-> "body", win |-> q])
    PROVE  /\ \A e : e \in Sent(s, u, r) <=> e \in Sent(s, u, w) \/ Among(e, q)
           /\ (/\ Ordered(v, s, w)
               /\ \A i, j \in DOMAIN q : i < j => Precedes(v, q[i], q[j])
               /\ \A e \in Sent(s, u, w) : \A j \in DOMAIN q : Precedes(v, e, q[j]))
                  => Ordered(v, s, r)
<1>1. PICK n : n = Len(w) + 1
  OBVIOUS
<1>2. /\ r \in Seq(Sends)
      /\ \A k \in Bodies(w) : k \in Bodies(r) /\ r[k] = w[k] /\ k < n
      /\ \A k \in Bodies(r) : k \in Bodies(w) \/ k = n
      /\ n \in Bodies(r) /\ r[n].win = q
  <2>1. r \in Seq(Sends) /\ OneMore(w, r, "body", q)
    BY AppendBodies
  <2> QED BY <1>1, <2>1 DEF OneMore
<1>3. ASSUME NEW e PROVE Carried(e, r) <=> Carried(e, w) \/ Among(e, q)
  BY <1>2 DEF Carried
<1>4. \A e : e \in Sent(s, u, w) <=> Among(e, s) \/ e \in u \/ Carried(e, w)
  BY SentIs
<1>5. \A e : e \in Sent(s, u, r) <=> e \in Sent(s, u, w) \/ Among(e, q)
  <2>1. \A e : e \in Sent(s, u, r) <=> Among(e, s) \/ e \in u \/ Carried(e, r)
    BY <1>2, SentIs
  <2> QED BY <1>3, <1>4, <2>1
<1>6. ASSUME Ordered(v, s, w),
             \A i, j \in DOMAIN q : i < j => Precedes(v, q[i], q[j]),
             \A e \in Sent(s, u, w) : \A j \in DOMAIN q : Precedes(v, e, q[j])
      PROVE  Ordered(v, s, r)
  <2>1. \A i, j \in DOMAIN s : i < j => Precedes(v, s[i], s[j])
    BY <1>6 DEF Ordered
  <2>2. \A i \in DOMAIN s, j \in DOMAIN q : Precedes(v, s[i], q[j])
    BY <1>4, <1>6 DEF Among
  <2>3. \A k \in Bodies(w) : \A i \in DOMAIN w[k].win, j \in DOMAIN q :
            Precedes(v, w[k].win[i], q[j])
    <3>1. ASSUME NEW k \in Bodies(w), NEW i \in DOMAIN w[k].win
          PROVE  w[k].win[i] \in Sent(s, u, w)
      <4>1. Carried(w[k].win[i], w)
        BY DEF Carried, Among
      <4> QED BY <1>4, <4>1
    <3> QED BY <1>6, <3>1
  <2>4. ASSUME NEW l \in Bodies(r)
        PROVE  /\ \A i, j \in DOMAIN r[l].win : i < j => Precedes(v, r[l].win[i], r[l].win[j])
               /\ \A i \in DOMAIN s, j \in DOMAIN r[l].win : Precedes(v, s[i], r[l].win[j])
    <3>1. CASE l \in Bodies(w)
      <4>1. r[l] = w[l]
        BY <1>2, <3>1
      <4> QED BY <1>6, <3>1, <4>1 DEF Ordered
    <3>2. CASE l = n
      BY <1>2, <1>6, <2>2, <3>2
    <3> QED BY <1>2, <3>1, <3>2
  <2>5. ASSUME NEW l \in Bodies(r), NEW k \in Bodies(r), l < k
        PROVE  \A i \in DOMAIN r[l].win, j \in DOMAIN r[k].win :
                   Precedes(v, r[l].win[i], r[k].win[j])
    <3>a. l \in Nat /\ k \in Nat /\ n \in Nat
      BY <1>2, BodiesIs
    <3>1. l \in Bodies(w) /\ r[l] = w[l]
      <4>1. CASE l = n
        <5>1. k = n \/ k < n
          BY <1>2
        <5> QED BY <2>5, <3>a, <4>1, <5>1
      <4> QED BY <1>2, <4>1
    <3>2. CASE k \in Bodies(w)
      <4>1. r[k] = w[k]
        BY <1>2, <3>2
      <4> QED BY <1>6, <2>5, <3>1, <3>2, <4>1 DEF Ordered
    <3>3. CASE k = n
      BY <1>2, <2>3, <3>1, <3>3
    <3> QED BY <1>2, <3>2, <3>3
  <2> QED BY <2>1, <2>4, <2>5 DEF Ordered
<1> QED BY <1>5, <1>6

\* Who has been refused has been sent one notice, which is in any order.
LEMMA RefusedOrder ==
    ASSUME NEW s \in Screens, NEW u, NEW w, NEW v,
           \/ w = <<>> /\ Len(s) <= 1
           \/ s = <<>> /\ w = FrameOf(<<Error>>)
    PROVE  Ordered(v, s, w)
<1>1. CASE w = <<>> /\ Len(s) <= 1
  <2>1. Bodies(w) = {}
    BY <1>1 DEF Bodies
  <2>2. \A i \in DOMAIN s, j \in DOMAIN s : ~(i < j)
    <3>1. DOMAIN s = 1..Len(s) /\ Len(s) \in Nat
      BY LenProperties DEF Screens
    <3> QED BY <1>1, <3>1
  <2> QED BY <2>1, <2>2 DEF Ordered
<1>2. CASE s = <<>> /\ w = FrameOf(<<Error>>)
  <2>1. /\ w \in Seq(Sends) /\ Len(w) = 2
        /\ w[1] = [part |-> "head", win |-> <<Error>>]
        /\ w[2] = [part |-> "body", win |-> <<Error>>]
    BY <1>2, ErrorTyped, FrameTyped
  <2>2. \A k \in Bodies(w) : k = 2
    <3>1. ASSUME NEW k \in Bodies(w) PROVE k = 2
      <4>1. k \in 1..2 /\ w[k].part = "body"
        BY <2>1, BodiesIs
      <4>2. w[1].part # "body"
        BY <2>1
      <4> QED BY <4>1, <4>2
    <3> QED BY <3>1
  <2>3. w[2].win = <<Error>> /\ DOMAIN w[2].win = {1} /\ DOMAIN s = {}
    BY <1>2, <2>1
  <2> QED BY <2>2, <2>3 DEF Ordered
<1> QED BY <1>1, <1>2

-----------------------------------------------------------------------------
(* What a step keeps.                                                      *)

\* Received, by its three places, now and after a step.
LEMMA ReceivedIs ==
    ASSUME NEW x
    PROVE  /\ Received(x) = Sent(shown[x], unseen[x], wire[x])
           /\ Received(x)' = Sent(shown'[x], unseen'[x], wire'[x])
BY DEF Received, Sent, Bodies

\* What everybody has been sent stays; so does what has been in a window.
Still   == \A y \in Clients : Received(y)' = Received(y)
Settled == \A d \in Channels : Done(d)' = Done(d)

\* A step that leaves screens and sockets alone is still.
LEMMA StillIf ==
    ASSUME shown' = shown, unseen' = unseen, wire' = wire
    PROVE  Still
BY ReceivedIs DEF Still

\* The numbers of a channel, and those of what it has in mq.
LEMMA DoneIs ==
    ASSUME TypeOK, NumInv, NEW c \in Channels
    PROVE  /\ heard[c] \in Nat /\ Done(c) \in Nat /\ Low(c) \in Int /\ Low(c) <= Done(c)
           /\ mq[c] \in Seq(Notices) /\ Len(mq[c]) \in Nat /\ DOMAIN mq[c] = 1..Len(mq[c])
           /\ heard[c] = Done(c) + Len(mq[c])
           /\ cur_msgs[c] \in Seq(Notices) /\ Len(cur_msgs[c]) \in Nat
           /\ DOMAIN cur_msgs[c] = 1..Len(cur_msgs[c])
           /\ Done(c) = Low(c) + Len(cur_msgs[c])
           /\ pc[c] = "send" => Low(c) \in Nat
<1>1. heard[c] \in Nat /\ mq[c] \in Seq(Notices) /\ cur_msgs[c] \in Seq(Notices)
  BY DEF TypeOK
<1>2. PICK k \in Nat, l \in Nat : k = Len(mq[c]) /\ l = Len(cur_msgs[c])
  BY <1>1, LenProperties
<1>3. DOMAIN mq[c] = 1..k /\ DOMAIN cur_msgs[c] = 1..l
  BY <1>1, <1>2, LenProperties
<1>4. k <= heard[c]
  BY <1>2 DEF NumInv, QueueInv
<1>5. Done(c) = heard[c] - k /\ Low(c) = Done(c) - l
  BY <1>2 DEF Done, Low
<1>6. pc[c] = "send" => l <= Done(c)
  BY <1>2 DEF NumInv, WindowIs
<1>7. /\ Done(c) \in Nat /\ Low(c) \in Int /\ Low(c) <= Done(c)
      /\ heard[c] = Done(c) + k /\ Done(c) = Low(c) + l
      /\ pc[c] = "send" => Low(c) \in Nat
  <2>1. PICK n \in Nat : n = heard[c]
    BY <1>1
  <2>2. n - k \in Nat
    BY <1>4, <2>1
  <2>3. PICK d \in Nat : d = n - k
    BY <2>2
  <2>4. Done(c) = d /\ Low(c) = d - l
    BY <1>5, <2>1, <2>3
  <2>5. /\ d - l \in Int /\ d - l <= d /\ n = d + k /\ d = (d - l) + l
        /\ l <= d => d - l \in Nat
    BY <2>3
  <2> QED BY <1>6, <2>1, <2>4, <2>5
<1> QED BY <1>1, <1>2, <1>3, <1>7

\* A still step keeps StreamInv, with more notices made.
LEMMA StreamKept ==
    ASSUME NEW h \in [Clients -> Channels \cup {None}], NEW b, NEW a, b \subseteq a,
           StreamInv(h, b), Still, Settled
    PROVE  StreamInv(h, a)'
<1> SUFFICES ASSUME NEW x \in Clients, NEW m \in Received(x)'
             PROVE  IF h[x] = None THEN m = Error
                    ELSE m \in a /\ m.ch = h[x] /\ m.n <= Done(m.ch)'
  BY DEF StreamInv
<1>1. m \in Received(x)
  BY DEF Still
<1>2. IF h[x] = None THEN m = Error ELSE m \in b /\ m.ch = h[x] /\ m.n <= Done(m.ch)
  BY <1>1 DEF StreamInv
<1>3. h[x] # None => h[x] \in Channels
  OBVIOUS
<1> QED BY <1>2, <1>3 DEF Settled

\* It keeps TodoInv if nobody is put on a list.
LEMMA TodoKept ==
    ASSUME TodoInv, Still,
           \A d \in Channels : \A y \in todo'[d] : y \in todo[d] /\ y \in Clients /\ Low(d)' = Low(d)
    PROVE  TodoInv'
<1> SUFFICES ASSUME NEW d \in Channels, NEW y \in todo'[d], NEW m \in Received(y)'
             PROVE  m.n <= Low(d)'
  BY DEF TodoInv
<1>1. y \in todo[d] /\ m \in Received(y) /\ Low(d)' = Low(d)
  BY DEF Still
<1> QED BY <1>1 DEF TodoInv

\* It keeps AnswerInv if nobody comes into a channel or off its list.
LEMMA AnswerKept ==
    ASSUME AnswerInv, Still,
           \A d \in Channels, y \in Clients : Live(d, y)' =>
               /\ Live(d, y)
               /\ y \in todo[d] => y \in todo'[d] /\ cur_msgs'[d] = cur_msgs[d]
    PROVE  AnswerInv'
<1> SUFFICES ASSUME NEW d \in Channels, NEW y \in Clients, Live(d, y)'
             PROVE  \/ \E m \in Received(y)' : IsJoinOf(m, y)
                    \/ y \in todo'[d] /\ \E i \in DOMAIN cur_msgs'[d] : IsJoinOf(cur_msgs'[d][i], y)
  BY DEF AnswerInv, IsJoinOf, IsJoin
<1>1. /\ Live(d, y)
      /\ y \in todo[d] => y \in todo'[d] /\ cur_msgs'[d] = cur_msgs[d]
      /\ Received(y)' = Received(y)
  BY DEF Still
<1>2. \/ \E m \in Received(y) : IsJoinOf(m, y)
      \/ y \in todo[d] /\ \E i \in DOMAIN cur_msgs[d] : IsJoinOf(cur_msgs[d][i], y)
  BY <1>1 DEF AnswerInv
<1> QED BY <1>1, <1>2

\* Who has been sent the same has the same numbers.
LEMMA NumbersKept ==
    ASSUME NEW y, Received(y)' = Received(y)
    PROVE  Numbers(y)' = Numbers(y)
BY DEF Numbers, IsError

\* A still step keeps GapInv if nobody is promised more or less.
LEMMA GapKept ==
    ASSUME GapInv, Still,
           \A d \in Channels, y \in Clients : Live(d, y)' =>
               Live(d, y) /\ Upto(d, y)' = Upto(d, y)
    PROVE  GapInv'
<1> SUFFICES ASSUME NEW y \in Clients
             PROVE  /\ \E lo, hi \in Nat : Numbers(y)' = (lo + 1)..hi
                    /\ \A c \in Channels : Live(c, y)' =>
                           \E lo \in Nat : /\ lo <= Upto(c, y)'
                                           /\ Numbers(y)' = (lo + 1)..Upto(c, y)'
  BY DEF GapInv
<1>1. Numbers(y)' = Numbers(y)
  BY NumbersKept DEF Still
<1>2. \E lo, hi \in Nat : Numbers(y)' = (lo + 1)..hi
  BY <1>1 DEF GapInv
<1>3. ASSUME NEW c \in Channels, Live(c, y)'
      PROVE  \E lo \in Nat : lo <= Upto(c, y)' /\ Numbers(y)' = (lo + 1)..Upto(c, y)'
  <2>1. Live(c, y) /\ Upto(c, y)' = Upto(c, y)
    BY <1>3
  <2>2. \E lo \in Nat : lo <= Upto(c, y) /\ Numbers(y) = (lo + 1)..Upto(c, y)
    BY <2>1 DEF GapInv
  <2> QED BY <1>1, <2>1, <2>2
<1> QED BY <1>2, <1>3

\* NumInv is kept where queues and windows are.
LEMMA NumKept ==
    ASSUME NumInv, TypeOK,
           \A d \in Channels :
               /\ mq'[d] = mq[d] /\ heard'[d] = heard[d]
               /\ pc'[d] = "send" => pc[d] = "send" /\ cur_msgs'[d] = cur_msgs[d]
    PROVE  NumInv'
<1> SUFFICES ASSUME NEW c \in Channels
             PROVE  QueueInv(c)' /\ (pc'[c] = "send" => WindowIs(c)')
  BY DEF NumInv
<1>1. QueueInv(c) /\ (pc[c] = "send" => WindowIs(c))
  BY DEF NumInv
<1>2. Done(c)' = Done(c)
  BY DEF Done
<1>3. QueueInv(c)'
  BY <1>1, <1>2 DEF QueueInv
<1>4. ASSUME pc'[c] = "send" PROVE WindowIs(c)'
  <2>1. WindowIs(c) /\ cur_msgs'[c] = cur_msgs[c]
    BY <1>1, <1>4
  <2>2. Low(c)' = Low(c) /\ Chain(cur_msgs[c])' = Chain(cur_msgs[c])
    BY <1>2, <2>1 DEF Low, Chain, Before
  <2> QED BY <1>2, <2>1, <2>2 DEF WindowIs
<1> QED BY <1>3, <1>4

\* So is WinInv.
LEMMA WinKept ==
    ASSUME NEW v, WinInv(v), Settled,
           \A d \in Channels :
               pc'[d] = "send" => pc[d] = "send" /\ cur_msgs'[d] = cur_msgs[d]
    PROVE  WinInv(v)'
<1> SUFFICES ASSUME NEW c \in Channels
      PROVE  (/\ \A n \in 1..Done(c) : n <= v[c][n] /\ v[c][n] <= Done(c)
              /\ \A n, k \in 1..Done(c) : n <= k => v[c][n] <= v[c][k]
              /\ pc[c] = "send" =>
                     /\ \A n \in 1..Low(c) : v[c][n] <= Low(c)
                     /\ \A n \in (Low(c) + 1)..Done(c) : v[c][n] = Done(c))'
  BY DEF WinInv
<1>1. Done(c)' = Done(c)
  BY DEF Settled
<1>2. pc'[c] = "send" => pc[c] = "send" /\ Low(c)' = Low(c)
  BY <1>1 DEF Low
<1> QED BY <1>1, <1>2 DEF WinInv

\* OrderInv is kept where screens and sockets are.
LEMMA OrderKept ==
    ASSUME NEW v, OrderInv(v), shown' = shown, wire' = wire
    PROVE  OrderInv(v)'
<1>1. \A x \in Clients : Ordered(v, shown'[x], wire'[x])
  BY DEF OrderInv
<1> QED BY <1>1 DEF OrderInv, Ordered, Bodies, Precedes, Before

\* Who is fresh stays so when nothing is sent to it.
LEMMA FreshKept ==
    ASSUME NEW h, NEW x, Fresh(h, x),
           shown'[x] = shown[x], unseen'[x] = unseen[x], wire'[x] = wire[x]
    PROVE  Fresh(h, x)'
BY DEF Fresh

\* HomeInv is kept if nobody moves but out of somewhere.
LEMMA HomeKept ==
    ASSUME NEW h, HomeInv(h), TypeOK,
           \A x \in Clients : phase'[x] = "start" \/ x \in lobby' =>
               /\ phase[x] = "start" \/ x \in lobby
               /\ shown'[x] = shown[x] /\ unseen'[x] = unseen[x] /\ wire'[x] = wire[x],
           \A x \in Clients : phase'[x] = "start" => phase[x] = "start" /\ (x \in lobby' => x \in lobby),
           \A d \in Channels :
               /\ members'[d] \subseteq members[d]
               /\ events'[d] \cup next_deletion'[d]
                      \subseteq members[d] \cup events[d] \cup next_deletion[d],
           join_pool' = join_pool, leave_pool' = leave_pool,
           \A d \in Channels : \A e \in join_pool[d] : Received(e.who)' = Received(e.who)
    PROVE  HomeInv(h)'
<1>1. ASSUME NEW x \in Clients, phase'[x] = "start" \/ x \in lobby' PROVE Fresh(h, x)'
  <2>1. Fresh(h, x)
    BY <1>1 DEF HomeInv
  <2> QED BY <1>1, <2>1, FreshKept
<1>2. \A x \in Clients : phase'[x] = "start" => x \notin lobby'
  BY DEF HomeInv
<1>3. ASSUME NEW d \in Channels
      PROVE  \A x \in members'[d] \cup events'[d] \cup next_deletion'[d] : h[x] = d
  BY DEF HomeInv
<1>4. ASSUME NEW d \in Channels, NEW e \in join_pool'[d] PROVE Awaited(h, d, e)'
  <2>1. Awaited(h, d, e) /\ Received(e.who)' = Received(e.who) /\ members'[d] \subseteq members[d]
    BY DEF HomeInv
  <2> QED BY <2>1 DEF Awaited
<1>5. \A d \in Channels : leave_pool'[d] = {} /\ IsFiniteSet(join_pool[d])'
  BY DEF HomeInv
<1> QED BY <1>1, <1>2, <1>3, <1>4, <1>5 DEF HomeInv

\* The book stays as it is, if what is said next has later numbers.
LEMMA BookKept ==
    ASSUME NEW h, NEW b \in SUBSET Notices, BookInv(h, b), TypeOK,
           heard' = heard, mq' = mq,
           \A c \in Channels : cur_msgs'[c] = cur_msgs[c] \/ cur_msgs'[c] = <<>>,
           \A m \in b : Known(h, m)'
    PROVE  BookInv(h, b)'
<1>1. \A m, p \in b : SaidInOrder(m, p)'
  BY DEF BookInv, SaidInOrder
<1>2. ASSUME NEW c \in Channels PROVE (ToSet(mq[c]) \cup ToSet(cur_msgs[c]))' \subseteq b
  <2>1. ToSet(mq'[c]) \subseteq b /\ ToSet(cur_msgs[c]) \subseteq b
    BY DEF BookInv
  <2>2. CASE cur_msgs'[c] = cur_msgs[c]
    BY <2>1, <2>2 DEF ToSet
  <2>3. CASE cur_msgs'[c] = <<>>
    <3>1. ToSet(cur_msgs'[c]) = {}
      BY <2>3, SetOfEmpty
    <3> QED BY <2>1, <3>1 DEF ToSet
  <2> QED BY <2>2, <2>3
<1> QED BY <1>1, <1>2 DEF BookInv

\* OrderInv after a step, client by client.
LEMMA OrderNext ==
    ASSUME NEW v, \A x \in Clients : Ordered(v, shown'[x], wire'[x])
    PROVE  OrderInv(v)'
BY DEF OrderInv, Ordered, Bodies, Precedes, Before

\* Only x's stream moves: to everybody else everything stays.
LEMMA StillBut ==
    ASSUME TypeOK, NEW x \in Clients,
           \A y \in Clients : y # x =>
               shown'[y] = shown[y] /\ unseen'[y] = unseen[y] /\ wire'[y] = wire[y]
    PROVE  /\ Received(x)' = Received(x) => Still
           /\ \A v : OrderInv(v) /\ Ordered(v, shown'[x], wire'[x]) => OrderInv(v)'
<1>1. \A y \in Clients : y # x => Received(y)' = Received(y)
  BY ReceivedIs
<1>2. ASSUME NEW v, OrderInv(v), Ordered(v, shown'[x], wire'[x]) PROVE OrderInv(v)'
  <2>1. ASSUME NEW y \in Clients PROVE Ordered(v, shown'[y], wire'[y])
    <3>1. CASE y = x
      BY <1>2, <3>1
    <3>2. CASE y # x
      <4>1. Ordered(v, shown[y], wire[y])
        BY <1>2 DEF OrderInv
      <4> QED BY <3>2, <4>1
    <3> QED BY <3>1, <3>2
  <2> QED BY <2>1, OrderNext
<1> QED BY <1>1, <1>2 DEF Still

-----------------------------------------------------------------------------
(* The clients, the lobby and the workers keep the invariant.              *)

\* What x says: its n requests become one more.
Speaks(x, n) ==
    /\ said'[x] = said[x] + 1 /\ said[x] \in Nat
    /\ \A y \in Clients : y # x => said'[y] = said[y] /\ req'[y] = req[y]
    /\ DOMAIN req[x] = 1..n /\ DOMAIN req'[x] = 1..(n + 1)
    /\ \A i \in 1..n : req'[x][i] = req[x][i] /\ req[x][i].k \in Nat
    /\ req'[x][n + 1].type = "message" /\ req'[x][n + 1].k = said[x] + 1

\* What Say does.
LEMMA SayIs ==
    ASSUME ClientTypeOK, NEW x \in Clients, Say(x)
    PROVE  \E n \in Nat : Speaks(x, n)
<1>1. PICK t \in Stamps :
          req' = [req EXCEPT ![x] =
                     Append(req[x], [type |-> "message", k |-> said'[x], stamp |-> t])]
  BY DEF Say
<1>2. said'[x] = said[x] + 1 /\ said[x] \in Nat /\ \A y \in Clients : y # x => said'[y] = said[y]
  BY DEF Say, ClientTypeOK
<1>3. PICK q \in Seq(Frames) : q = req[x]
  BY DEF ClientTypeOK
<1>4. PICK n \in Nat : n = Len(q)
  BY LenProperties
<1>5. [type |-> "message", k |-> said'[x], stamp |-> t] \in Frames
  BY <1>2, WindowAssumption DEF Frames
<1>6. PICK f \in Frames : f = [type |-> "message", k |-> said'[x], stamp |-> t]
  BY <1>5
<1>7. f.type = "message" /\ f.k = said[x] + 1
  BY <1>2, <1>6
<1>8. PICK r \in Seq(Frames) : r = Append(q, f)
  BY AppendProperties
<1>9. /\ Len(r) = n + 1 /\ \A i \in 1..n : r[i] = q[i]
      /\ r[n + 1] = f
  BY <1>4, <1>8, AppendProperties
<1>10. DOMAIN r = 1..(n + 1) /\ DOMAIN q = 1..n
  BY <1>4, <1>9, LenProperties
<1>11. req'[x] = r /\ \A y \in Clients : y # x => req'[y] = req[y]
  <2>1. req' = [req EXCEPT ![x] = r] /\ req \in [Clients -> Seq(Frames)]
    BY <1>1, <1>3, <1>6, <1>8 DEF ClientTypeOK
  <2> QED BY <2>1
<1>12. \A i \in 1..n : q[i].k \in Nat
  <2>1. \A i \in 1..n : q[i] \in Frames
    BY <1>4, ElementOfSeq
  <2> QED BY <2>1 DEF Frames
<1>13. Speaks(x, n)
  BY <1>2, <1>3, <1>7, <1>9, <1>10, <1>11, <1>12 DEF Speaks
<1> QED BY <1>13

\* A client says something.
LEMMA SayKeeps ==
    ASSUME TypeOK, NEW h \in [Clients -> Channels \cup {None}], NEW b \in SUBSET Notices,
           NEW v \in [Channels -> [Nat -> Nat]], Inv(h, b, v), NEW x \in Clients, Say(x)
    PROVE  Inv(h, b, v)'
<1>a. ClientTypeOK /\ PoolTypeOK /\ TickTypeOK
  BY TypeParts
<1>b. /\ HomeInv(h) /\ RefusedInv(h) /\ StreamInv(h, b) /\ ReqInv(h) /\ BookInv(h, b)
      /\ TickInv /\ NumInv /\ WinInv(v) /\ OrderInv(v) /\ TodoInv /\ AnswerInv /\ GapInv
  BY DEF Inv
<1>t. /\ shown' = shown /\ unseen' = unseen /\ wire' = wire
      /\ pc' = pc /\ mq' = mq /\ heard' = heard /\ cur_msgs' = cur_msgs /\ todo' = todo /\ events' = events /\ next_deletion' = next_deletion
      /\ phase' = phase /\ lobby' = lobby /\ closed' = closed /\ members' = members
      /\ join_pool' = join_pool /\ leave_pool' = leave_pool
  BY DEF Say, netVars, poolVars, tickVars, clientVars
<1>u. Still
  BY <1>t, StillIf
<1>v. \A d \in Channels : Done(d)' = Done(d) /\ Low(d)' = Low(d)
  BY <1>t DEF Done, Low
<1>w. \A d \in Channels, y \in Clients : Live(d, y)' => Live(d, y)
  BY <1>a, <1>t DEF Live, Lost, Open, ClientTypeOK
<1>x. \A d \in Channels, y \in Clients : Upto(d, y)' = Upto(d, y)
  BY <1>t, <1>v DEF Upto
<1>y. \A d \in Channels : \A y \in todo[d] : y \in Clients
  BY <1>a DEF TickTypeOK
<1>s. TypeOK /\ Still /\ Settled /\ \A d \in Channels, y \in Clients : Live(d, y)' => Live(d, y) /\ Upto(d, y)' = Upto(d, y)
  BY <1>u, <1>v, <1>w, <1>x DEF Settled
<1>1. HomeInv(h)'
  <2>1. \A d \in Channels : \A e \in join_pool[d] : Received(e.who)' = Received(e.who)
    BY <1>a, <1>u DEF Still, PoolTypeOK, Entries
  <2>2. \A y \in Clients : /\ phase'[y] = "start" => phase[y] = "start"
                           /\ y \in lobby' => y \in lobby
    BY <1>a, <1>t DEF ClientTypeOK
  <2> QED BY <1>b, <1>t, <2>1, <2>2, HomeKept
<1>2. RefusedInv(h)'
  BY <1>b, <1>t DEF RefusedInv
<1>3. StreamInv(h, b)'
  BY <1>b, <1>s, StreamKept
<1>4. ReqInv(h)'
  <2>1. PICK n \in Nat : Speaks(x, n)
    BY <1>a, SayIs
  <2>2. /\ said'[x] = said[x] + 1 /\ said[x] \in Nat
        /\ \A y \in Clients : y # x => said'[y] = said[y] /\ req'[y] = req[y]
    BY <2>1 DEF Speaks
  <2>8. /\ DOMAIN req[x] = 1..n /\ DOMAIN req'[x] = 1..(n + 1)
        /\ \A i \in 1..n : req'[x][i] = req[x][i] /\ req[x][i].k \in Nat
        /\ req'[x][n + 1].type = "message" /\ req'[x][n + 1].k = said[x] + 1
    BY <2>1 DEF Speaks
  <2>11. Requests(h, x)'
    <3>1. /\ \A i \in 1..n : req[x][i].k <= said[x] /\ (req[x][i].type = "join" => i = 1 /\ h[x] = None)
          /\ \A i, j \in 1..n : i < j => req[x][i].k < req[x][j].k
      BY <1>b, <2>8 DEF ReqInv, Requests
    <3>2. ASSUME NEW i \in 1..(n + 1)
          PROVE  req'[x][i].k <= said'[x] /\ (req'[x][i].type = "join" => i = 1 /\ h[x] = None)
      <4>1. CASE i \in 1..n
        <5>1. /\ req'[x][i] = req[x][i] /\ req[x][i].k \in Nat /\ req[x][i].k <= said[x]
              /\ req[x][i].type = "join" => i = 1 /\ h[x] = None
          BY <2>8, <3>1, <4>1
        <5>2. req[x][i].k <= said'[x]
          BY <2>2, <5>1
        <5> QED BY <5>1, <5>2
      <4>2. CASE i = n + 1
        <5>1. req'[x][i].type = "message" /\ req'[x][i].k = said'[x] /\ said'[x] \in Nat
          BY <2>2, <2>8, <4>2
        <5>2. req'[x][i].k <= said'[x]
          <6>1. said'[x] <= said'[x]
            BY <5>1
          <6> QED BY <5>1, <6>1
        <5>3. req'[x][i].type # "join"
          BY <5>1
        <5> QED BY <5>2, <5>3
      <4>3. i \in 1..n \/ i = n + 1
        OBVIOUS
      <4> QED BY <4>1, <4>2, <4>3
    <3>3. ASSUME NEW i \in 1..(n + 1), NEW j \in 1..(n + 1), i < j PROVE req'[x][i].k < req'[x][j].k
      <4>1. i \in 1..n
        BY <3>3
      <4>2. CASE j \in 1..n
        BY <2>8, <3>1, <3>3, <4>1, <4>2
      <4>3. CASE j = n + 1
        <5>1. /\ req'[x][i] = req[x][i] /\ req[x][i].k \in Nat /\ req[x][i].k <= said[x]
          BY <2>8, <3>1, <4>1
        <5>2. req'[x][j].k = said[x] + 1
          BY <2>8, <4>3
        <5> QED BY <2>2, <5>1, <5>2
      <4> QED BY <4>2, <4>3
    <3> QED BY <2>8, <3>2, <3>3 DEF Requests
  <2>12. ASSUME NEW y \in Clients, y # x PROVE Requests(h, y)'
    <3>1. Requests(h, y)
      BY <1>b DEF ReqInv
    <3> QED BY <2>2, <2>12, <3>1 DEF Requests
  <2> QED BY <2>11, <2>12 DEF ReqInv
<1>5. BookInv(h, b)'
  <2>1. PICK n \in Nat : Speaks(x, n)
    BY <1>a, SayIs
  <2>2. /\ said'[x] = said[x] + 1 /\ said[x] \in Nat
        /\ \A y \in Clients : y # x => said'[y] = said[y] /\ req'[y] = req[y]
    BY <2>1 DEF Speaks
  <2>8. /\ DOMAIN req[x] = 1..n /\ DOMAIN req'[x] = 1..(n + 1)
        /\ \A i \in 1..n : req'[x][i] = req[x][i] /\ req[x][i].k \in Nat
        /\ req'[x][n + 1].type = "message" /\ req'[x][n + 1].k = said[x] + 1
    BY <2>1 DEF Speaks
  <2>11. ASSUME NEW m \in b PROVE Known(h, m)'
    <3>1. Known(h, m) /\ m.from \in Clients /\ m.k \in Nat
      BY <1>b DEF BookInv, Notices
    <3>2. CASE m.from # x
      BY <1>t, <2>2, <3>1, <3>2 DEF Known
    <3>3. CASE m.from = x
      <4>1. m.type = "user" => m.k <= said[x] /\ \A i \in 1..n : m.k < req[x][i].k
        BY <2>8, <3>1, <3>3 DEF Known
      <4>2. ASSUME m.type = "user", NEW i \in 1..(n + 1) PROVE m.k < req'[x][i].k
        <5>1. CASE i \in 1..n
          BY <2>8, <4>1, <4>2, <5>1
        <5>2. CASE i = n + 1
          BY <2>2, <2>8, <3>1, <4>1, <4>2, <5>2
        <5> QED BY <5>1, <5>2
      <4>3. m.type = "user" => m.k <= said'[x] /\ \A i \in DOMAIN req'[x] : m.k < req'[x][i].k
        BY <2>2, <2>8, <3>1, <4>1, <4>2
      <4> QED BY <1>t, <3>1, <3>3, <4>3 DEF Known
    <3> QED BY <3>2, <3>3
  <2> QED BY <1>b, <1>s, <1>t, <2>11, BookKept
<1>6. TickInv'
  BY <1>a, <1>b, <1>s DEF Say, TickInv, Lost, Open
<1>7. NumInv'
  BY <1>b, <1>t, NumKept
<1>8. WinInv(v)'
  BY <1>b, <1>s, <1>t, WinKept
<1>9. OrderInv(v)'
  BY <1>b, <1>t, OrderKept
<1>10. TodoInv'
  BY <1>b, <1>t, <1>u, <1>v, <1>y, TodoKept
<1>11. AnswerInv'
  BY <1>b, <1>t, <1>u, <1>w, AnswerKept
<1>12. GapInv'
  BY <1>b, <1>s, GapKept
<1> QED BY <1>1, <1>2, <1>3, <1>4, <1>5, <1>6, <1>7, <1>8, <1>9, <1>10, <1>11, <1>12 DEF Inv

\* A client ends.
LEMMA EndKeeps ==
    ASSUME TypeOK, NEW h \in [Clients -> Channels \cup {None}], NEW b \in SUBSET Notices,
           NEW v \in [Channels -> [Nat -> Nat]], Inv(h, b, v), NEW x \in Clients, End(x)
    PROVE  Inv(h, b, v)'
<1>a. ClientTypeOK /\ PoolTypeOK /\ TickTypeOK
  BY TypeParts
<1>b. /\ HomeInv(h) /\ RefusedInv(h) /\ StreamInv(h, b) /\ ReqInv(h) /\ BookInv(h, b)
      /\ TickInv /\ NumInv /\ WinInv(v) /\ OrderInv(v) /\ TodoInv /\ AnswerInv /\ GapInv
  BY DEF Inv
<1>t. /\ shown' = shown /\ unseen' = unseen /\ wire' = wire
      /\ pc' = pc /\ mq' = mq /\ heard' = heard /\ cur_msgs' = cur_msgs /\ todo' = todo /\ events' = events /\ next_deletion' = next_deletion
      /\ phase' = [phase EXCEPT ![x] = "end"]
      /\ lobby' = lobby /\ closed' = closed /\ members' = members /\ said' = said /\ req' = req
      /\ join_pool' = join_pool /\ leave_pool' = leave_pool
  BY DEF End, netVars, poolVars, tickVars, clientVars
<1>u. Still
  BY <1>t, StillIf
<1>v. \A d \in Channels : Done(d)' = Done(d) /\ Low(d)' = Low(d)
  BY <1>t DEF Done, Low
<1>w. \A d \in Channels, y \in Clients : Live(d, y)' => Live(d, y)
  BY <1>a, <1>t DEF Live, Lost, Open, ClientTypeOK
<1>x. \A d \in Channels, y \in Clients : Upto(d, y)' = Upto(d, y)
  BY <1>t, <1>v DEF Upto
<1>y. \A d \in Channels : \A y \in todo[d] : y \in Clients
  BY <1>a DEF TickTypeOK
<1>s. TypeOK /\ Still /\ Settled /\ \A d \in Channels, y \in Clients : Live(d, y)' => Live(d, y) /\ Upto(d, y)' = Upto(d, y)
  BY <1>u, <1>v, <1>w, <1>x DEF Settled
<1>1. HomeInv(h)'
  <2>1. \A d \in Channels : \A e \in join_pool[d] : Received(e.who)' = Received(e.who)
    BY <1>a, <1>u DEF Still, PoolTypeOK, Entries
  <2>2. \A y \in Clients : /\ phase'[y] = "start" => phase[y] = "start"
                           /\ y \in lobby' => y \in lobby
    BY <1>a, <1>t DEF ClientTypeOK
  <2> QED BY <1>b, <1>t, <2>1, <2>2, HomeKept
<1>2. RefusedInv(h)'
  BY <1>b, <1>t DEF RefusedInv
<1>3. StreamInv(h, b)'
  BY <1>b, <1>s, StreamKept
<1>4. ReqInv(h)'
  BY <1>b, <1>t DEF ReqInv, Requests
<1>5. BookInv(h, b)'
  <2>1. \A m \in b : Known(h, m)'
    BY <1>b, <1>t DEF BookInv, Known
  <2> QED BY <1>b, <1>t, <2>1, BookKept
<1>6. TickInv'
  BY <1>a, <1>b, <1>s DEF End, TickInv, Lost, Open
<1>7. NumInv'
  BY <1>b, <1>t, NumKept
<1>8. WinInv(v)'
  BY <1>b, <1>s, <1>t, WinKept
<1>9. OrderInv(v)'
  BY <1>b, <1>t, OrderKept
<1>10. TodoInv'
  BY <1>b, <1>t, <1>u, <1>v, <1>y, TodoKept
<1>11. AnswerInv'
  BY <1>b, <1>t, <1>u, <1>w, AnswerKept
<1>12. GapInv'
  BY <1>b, <1>s, GapKept
<1> QED BY <1>1, <1>2, <1>3, <1>4, <1>5, <1>6, <1>7, <1>8, <1>9, <1>10, <1>11, <1>12 DEF Inv

\* The lobby closes a client.
LEMMA LobbyDropsKeeps ==
    ASSUME TypeOK, NEW h \in [Clients -> Channels \cup {None}], NEW b \in SUBSET Notices,
           NEW v \in [Channels -> [Nat -> Nat]], Inv(h, b, v), NEW x \in Clients, LobbyDrops(x)
    PROVE  Inv(h, b, v)'
<1>a. ClientTypeOK /\ PoolTypeOK /\ TickTypeOK
  BY TypeParts
<1>b. /\ HomeInv(h) /\ RefusedInv(h) /\ StreamInv(h, b) /\ ReqInv(h) /\ BookInv(h, b)
      /\ TickInv /\ NumInv /\ WinInv(v) /\ OrderInv(v) /\ TodoInv /\ AnswerInv /\ GapInv
  BY DEF Inv
<1>t. /\ shown' = shown /\ unseen' = unseen /\ wire' = wire
      /\ pc' = pc /\ mq' = mq /\ heard' = heard /\ cur_msgs' = cur_msgs /\ todo' = todo /\ events' = events /\ next_deletion' = next_deletion
      /\ phase' = phase /\ lobby' = lobby \ {x} /\ closed' = closed \cup {x}
      /\ members' = members /\ said' = said /\ req' = req
      /\ join_pool' = join_pool /\ leave_pool' = leave_pool
  BY DEF LobbyDrops, netVars, poolVars, tickVars, clientVars
<1>u. Still
  BY <1>t, StillIf
<1>v. \A d \in Channels : Done(d)' = Done(d) /\ Low(d)' = Low(d)
  BY <1>t DEF Done, Low
<1>w. \A d \in Channels, y \in Clients : Live(d, y)' => Live(d, y)
  BY <1>a, <1>t DEF Live, Lost, Open, ClientTypeOK
<1>x. \A d \in Channels, y \in Clients : Upto(d, y)' = Upto(d, y)
  BY <1>t, <1>v DEF Upto
<1>y. \A d \in Channels : \A y \in todo[d] : y \in Clients
  BY <1>a DEF TickTypeOK
<1>s. TypeOK /\ Still /\ Settled /\ \A d \in Channels, y \in Clients : Live(d, y)' => Live(d, y) /\ Upto(d, y)' = Upto(d, y)
  BY <1>u, <1>v, <1>w, <1>x DEF Settled
<1>1. HomeInv(h)'
  <2>1. \A d \in Channels : \A e \in join_pool[d] : Received(e.who)' = Received(e.who)
    BY <1>a, <1>u DEF Still, PoolTypeOK, Entries
  <2>2. \A y \in Clients : /\ phase'[y] = "start" => phase[y] = "start"
                           /\ y \in lobby' => y \in lobby
    BY <1>a, <1>t DEF ClientTypeOK
  <2> QED BY <1>b, <1>t, <2>1, <2>2, HomeKept
<1>2. RefusedInv(h)'
  BY <1>b, <1>t DEF RefusedInv
<1>3. StreamInv(h, b)'
  BY <1>b, <1>s, StreamKept
<1>4. ReqInv(h)'
  BY <1>b, <1>t DEF ReqInv, Requests
<1>5. BookInv(h, b)'
  <2>1. \A m \in b : Known(h, m)'
    BY <1>b, <1>t DEF BookInv, Known
  <2> QED BY <1>b, <1>t, <2>1, BookKept
<1>6. TickInv'
  BY <1>a, <1>b, <1>s DEF LobbyDrops, TickInv, Lost, Open
<1>7. NumInv'
  BY <1>b, <1>t, NumKept
<1>8. WinInv(v)'
  BY <1>b, <1>s, <1>t, WinKept
<1>9. OrderInv(v)'
  BY <1>b, <1>t, OrderKept
<1>10. TodoInv'
  BY <1>b, <1>t, <1>u, <1>v, <1>y, TodoKept
<1>11. AnswerInv'
  BY <1>b, <1>t, <1>u, <1>w, AnswerKept
<1>12. GapInv'
  BY <1>b, <1>s, GapKept
<1> QED BY <1>1, <1>2, <1>3, <1>4, <1>5, <1>6, <1>7, <1>8, <1>9, <1>10, <1>11, <1>12 DEF Inv

\* The types of the stream of one client.
LEMMA StreamTyped ==
    ASSUME TypeOK, NEW x \in Clients
    PROVE  wire[x] \in Seq(Sends) /\ shown[x] \in Screens /\ Len(wire[x]) \in Nat
<1>1. wire[x] \in Seq(Sends) /\ shown[x] \in Screens
  BY TypeParts DEF ClientTypeOK, Screens
<1> QED BY <1>1, LenProperties

\* What is shown is what was under way.
LEMMA ShowIs ==
    ASSUME TypeOK, NEW x \in Clients, Show(x)
    PROVE  /\ Still /\ \A v : OrderInv(v) => OrderInv(v)'
           /\ Len(wire[x]) >= 2 /\ phase[x] = "chat"
           /\ \A y \in Clients : y # x => shown'[y] = shown[y] /\ wire'[y] = wire[y]
           /\ shown'[x] = shown[x] \o wire[x][1].win
           /\ wire'[x] = SubSeq(wire[x], 3, Len(wire[x]))
<1>1. wire[x] \in Seq(Sends) /\ shown[x] \in Screens
  BY StreamTyped
<1>2. /\ phase[x] = "chat" /\ Len(wire[x]) >= 2 /\ wire[x][1].part = "head"
      /\ wire[x][2] = [wire[x][1] EXCEPT !.part = "body"]
  BY DEF Show, FrameReady
<1>3. /\ shown' = [shown EXCEPT ![x] = shown[x] \o wire[x][1].win]
      /\ wire' = [wire EXCEPT ![x] = SubSeq(wire[x], 3, Len(wire[x]))]
      /\ unseen' = unseen
  BY DEF Show
<1>4. PICK s \in Screens, w \in Seq(Sends) : s = shown[x] /\ w = wire[x]
  BY <1>1
<1>5. PICK z, r : z = s \o w[1].win /\ r = SubSeq(w, 3, Len(w))
  OBVIOUS
<1>6. shown'[x] = z /\ wire'[x] = r
  BY <1>3, <1>4, <1>5 DEF TypeOK
<1>7. \A y \in Clients : y # x =>
          shown'[y] = shown[y] /\ unseen'[y] = unseen[y] /\ wire'[y] = wire[y]
  BY <1>3 DEF TypeOK
<1>8. ASSUME NEW v
      PROVE  /\ Sent(z, unseen[x], r) = Sent(s, unseen[x], w)
             /\ Ordered(v, s, w) => Ordered(v, z, r)
  <2>1. Len(w) >= 2 /\ w[1].part = "head" /\ w[2] = [w[1] EXCEPT !.part = "body"]
    BY <1>2, <1>4
  <2>2. Keeps(v, s, unseen[x], w, z, unseen[x], r)
    BY <1>5, <2>1, ShowKeeps
  <2> QED BY <2>2 DEF Keeps
<1>9. Received(x)' = Received(x)
  BY <1>3, <1>4, <1>6, <1>8, ReceivedIs
<1>10. Still
  BY <1>7, <1>9, StillBut
<1>11. ASSUME NEW v, OrderInv(v) PROVE OrderInv(v)'
  <2>1. Ordered(v, s, w)
    BY <1>4, <1>11 DEF OrderInv
  <2>2. Ordered(v, shown'[x], wire'[x])
    BY <1>6, <1>8, <2>1
  <2> QED BY <1>7, <1>11, <2>2, StillBut
<1> QED BY <1>2, <1>4, <1>5, <1>6, <1>7, <1>10, <1>11

\* What the handshake drops is what was under way.
LEMMA HandshakeIs ==
    ASSUME TypeOK, NEW x \in Clients, Handshake(x)
    PROVE  /\ Still /\ \A v : OrderInv(v) => OrderInv(v)'
           /\ phase[x] = "handshake" /\ phase'[x] # "start"
           /\ \A y \in Clients : y # x =>
                  /\ unseen'[y] = unseen[y] /\ wire'[y] = wire[y] /\ phase'[y] = phase[y]
           /\ \E f \in 1..(Len(wire[x]) \div 2) :
                  wire'[x] = SubSeq(wire[x], 2 * f + 1, Len(wire[x]))
<1>1. PICK s \in Screens, w \in Seq(Sends) : s = shown[x] /\ w = wire[x]
  BY StreamTyped
<1>a. PICK f \in 1..(Len(wire[x]) \div 2) :
          LET got == FlattenSeq([i \in 1..f |-> wire[x][2 * i].win])
          IN  /\ \A i \in 1..f : wire[x][2 * i] = [wire[x][2 * i - 1] EXCEPT !.part = "body"]
              /\ wire' = [wire EXCEPT ![x] = SubSeq(wire[x], 2 * f + 1, Len(wire[x]))]
              /\ unseen' = [unseen EXCEPT ![x] = unseen[x] \cup ToSet(got)]
              /\ phase' = [phase EXCEPT ![x] =
                     IF \E i \in DOMAIN got : IsError(got[i]) THEN "end"
                     ELSE IF \E i \in DOMAIN got : IsJoin(got[i]) THEN "chat"
                     ELSE phase[x]]
  BY DEF Handshake
<1>2. /\ f \in 1..(Len(w) \div 2)
      /\ \A i \in 1..f : w[2 * i] = [w[2 * i - 1] EXCEPT !.part = "body"]
      /\ wire' = [wire EXCEPT ![x] = SubSeq(w, 2 * f + 1, Len(w))]
      /\ unseen' = [unseen EXCEPT ![x] =
             unseen[x] \cup ToSet(FlattenSeq([i \in 1..f |-> w[2 * i].win]))]
  BY <1>1, <1>a
<1>3. PICK n \in Nat : n = Len(w)
  BY LenProperties
<1>4. /\ f \in Nat \ {0} /\ 2 * f \in 0..n
      /\ \A i \in 1..f : 2 * i \in 1..n /\ 2 * i - 1 \in 1..n
  <2>1. f \in 1..(n \div 2)
    BY <1>2, <1>3
  <2> QED BY <2>1, Halves
<1>5. ASSUME NEW i \in 1..f
      PROVE  /\ w[2 * i].part = "body" /\ w[2 * i].win = w[2 * i - 1].win
             /\ w[2 * i].win \in Screens
  <2>1. w[2 * i] \in Sends /\ w[2 * i - 1] \in Sends
    BY <1>3, <1>4, ElementOfSeq
  <2>2. w[2 * i] = [w[2 * i - 1] EXCEPT !.part = "body"]
    BY <1>2
  <2> QED BY <2>1, <2>2 DEF Sends, Screens
<1> DEFINE S == [i \in 1..f |-> w[2 * i].win]
<1>6. S \in Seq(Screens) /\ Len(S) = f /\ \A i \in 1..f : S[i] = w[2 * i].win
  <2>1. S \in [1..f -> Screens] /\ \A i \in 1..f : S[i] = w[2 * i].win
    BY <1>5
  <2> HIDE DEF S
  <2> QED BY <1>4, <2>1, SeqOfFun
<1> HIDE DEF S
<1>7. PICK g : g = ToSet(FlattenSeq(S))
  OBVIOUS
<1>8. /\ wire' = [wire EXCEPT ![x] = SubSeq(w, 2 * f + 1, Len(w))]
      /\ unseen' = [unseen EXCEPT ![x] = unseen[x] \cup g]
      /\ shown' = shown /\ phase[x] = "handshake"
      /\ \E p \in {"end", "chat", "handshake"} : phase' = [phase EXCEPT ![x] = p]
  <2>1. phase[x] = "handshake" /\ shown' = shown
    BY DEF Handshake
  <2>2. \E p \in {"end", "chat", "handshake"} : phase' = [phase EXCEPT ![x] = p]
    BY <1>a, <2>1
  <2> QED BY <1>2, <1>7, <2>1, <2>2 DEF S
<1>9. PICK k \in 0..n : k = 2 * f
  BY <1>4
<1>10. ASSUME NEW e PROVE e \in g <=> \E j \in Bodies(w) : j <= k /\ Among(e, w[j].win)
  <2>1. e \in g <=> \E i \in 1..f : e \in ToSet(w[2 * i].win)
    <3>1. e \in ToSet(FlattenSeq(S)) <=> \E i \in 1..Len(S) : e \in ToSet(S[i])
      BY <1>6, SetOfFlatten DEF Screens
    <3> QED BY <1>6, <1>7, <3>1
  <2>2. ASSUME NEW i \in 1..f PROVE e \in ToSet(w[2 * i].win) <=> Among(e, w[2 * i].win)
    <3>1. PICK q \in Screens : q = w[2 * i].win
      BY <1>5
    <3>2. DOMAIN q = 1..Len(q)
      BY LenProperties DEF Screens
    <3> QED BY <3>1, <3>2, SetOfSeq DEF Screens, Among
  <2>3. ASSUME NEW i \in 1..f, Among(e, w[2 * i].win)
        PROVE  \E j \in Bodies(w) : j <= k /\ Among(e, w[j].win)
    <3>1. PICK j : j = 2 * i
      OBVIOUS
    <3>2. j \in 1..n /\ j <= k /\ w[j].part = "body"
      BY <1>4, <1>5, <1>9, <3>1
    <3> QED BY <1>3, <2>3, <3>1, <3>2, BodiesIs
  <2>4. ASSUME NEW j \in Bodies(w), j <= k, Among(e, w[j].win)
        PROVE  \E i \in 1..f : Among(e, w[2 * i].win)
    <3>1. j \in 1..n
      BY <1>3, BodiesIs
    <3>2. PICK i \in 1..f : j = 2 * i \/ j = 2 * i - 1
      <4>1. j \in Nat /\ 1 <= j /\ j <= 2 * f
        BY <1>9, <2>4, <3>1
      <4>2. PICK i : i = (j + 1) \div 2
        OBVIOUS
      <4>3. i \in Nat /\ 2 * i <= j + 1 /\ j + 1 <= 2 * i + 1
        BY <4>1, <4>2
      <4>4. i \in 1..f /\ (j = 2 * i \/ j = 2 * i - 1)
        BY <1>4, <4>1, <4>3
      <4> QED BY <4>4
    <3>3. w[j].win = w[2 * i].win
      BY <1>5, <3>2
    <3> QED BY <2>4, <3>3
  <2>5. (\E i \in 1..f : Among(e, w[2 * i].win)) <=>
            \E j \in Bodies(w) : j <= k /\ Among(e, w[j].win)
    BY <2>3, <2>4
  <2> QED BY <2>1, <2>2, <2>5
<1>11. PICK r : r = SubSeq(w, k + 1, Len(w))
  OBVIOUS
<1>12. wire'[x] = r /\ unseen'[x] = unseen[x] \cup g /\ shown'[x] = s
  BY <1>1, <1>8, <1>9, <1>11 DEF TypeOK
<1>13. \A y \in Clients : y # x =>
          /\ shown'[y] = shown[y] /\ unseen'[y] = unseen[y] /\ wire'[y] = wire[y]
          /\ phase'[y] = phase[y]
  BY <1>8 DEF TypeOK
<1>14. phase'[x] # "start"
  BY <1>8 DEF TypeOK
<1>15. ASSUME NEW v
       PROVE  /\ Sent(s, unseen[x] \cup g, r) = Sent(s, unseen[x], w)
              /\ Ordered(v, s, w) => Ordered(v, s, r)
  <2>1. \A e : e \in g <=> \E j \in Bodies(w) : j <= k /\ Among(e, w[j].win)
    BY <1>10
  <2>2. k \in 0..Len(w)
    BY <1>3
  <2>3. Keeps(v, s, unseen[x], w, s, unseen[x] \cup g, r)
    BY <1>11, <2>1, <2>2, DropKeeps
  <2> QED BY <2>3 DEF Keeps
<1>16. Received(x)' = Received(x)
  BY <1>1, <1>12, <1>15, ReceivedIs
<1>17. Still
  BY <1>13, <1>16, StillBut
<1>18. ASSUME NEW v, OrderInv(v) PROVE OrderInv(v)'
  <2>1. Ordered(v, s, w)
    BY <1>1, <1>18 DEF OrderInv
  <2>2. Ordered(v, shown'[x], wire'[x])
    BY <1>12, <1>15, <2>1
  <2> QED BY <1>13, <1>18, <2>2, StillBut
<1> QED BY <1>1, <1>8, <1>9, <1>11, <1>12, <1>13, <1>14, <1>17, <1>18

\* A client shows a frame.
LEMMA ShowKeepsAll ==
    ASSUME TypeOK, NEW h \in [Clients -> Channels \cup {None}], NEW b \in SUBSET Notices,
           NEW v \in [Channels -> [Nat -> Nat]], Inv(h, b, v), NEW x \in Clients, Show(x)
    PROVE  Inv(h, b, v)'
<1>a. ClientTypeOK /\ PoolTypeOK /\ TickTypeOK
  BY TypeParts
<1>b. /\ HomeInv(h) /\ RefusedInv(h) /\ StreamInv(h, b) /\ ReqInv(h) /\ BookInv(h, b)
      /\ TickInv /\ NumInv /\ WinInv(v) /\ OrderInv(v) /\ TodoInv /\ AnswerInv /\ GapInv
  BY DEF Inv
<1>t. /\ pc' = pc /\ mq' = mq /\ heard' = heard /\ cur_msgs' = cur_msgs /\ todo' = todo
      /\ events' = events /\ next_deletion' = next_deletion
      /\ phase' = phase /\ lobby' = lobby /\ closed' = closed /\ members' = members
      /\ said' = said /\ req' = req /\ unseen' = unseen
      /\ join_pool' = join_pool /\ leave_pool' = leave_pool
  BY DEF Show, poolVars, tickVars
<1>z. /\ Still /\ (\A u : OrderInv(u) => OrderInv(u)') /\ Len(wire[x]) >= 2 /\ phase[x] = "chat"
      /\ \A y \in Clients : y # x =>
             shown'[y] = shown[y] /\ unseen'[y] = unseen[y] /\ wire'[y] = wire[y] /\ phase'[y] = phase[y]
      /\ \A y \in Clients : phase'[y] = phase[y]
      /\ phase'[x] # "start"
  BY <1>t, ShowIs
<1>u. Still
  BY <1>z
<1>v. \A d \in Channels : Done(d)' = Done(d) /\ Low(d)' = Low(d)
  BY <1>t DEF Done, Low
<1>w. \A d \in Channels, y \in Clients : Live(d, y)' => Live(d, y)
  BY <1>a, <1>t, <1>z DEF Live, Lost, Open, ClientTypeOK
<1>x. \A d \in Channels, y \in Clients : Upto(d, y)' = Upto(d, y)
  BY <1>t, <1>v DEF Upto
<1>y. \A d \in Channels : \A y \in todo[d] : y \in Clients
  BY <1>a DEF TickTypeOK
<1>s. TypeOK /\ Still /\ Settled /\ \A d \in Channels, y \in Clients : Live(d, y)' => Live(d, y) /\ Upto(d, y)' = Upto(d, y)
  BY <1>u, <1>v, <1>w, <1>x DEF Settled
<1>1. HomeInv(h)'
  <2>1. \A d \in Channels : \A e \in join_pool[d] : Received(e.who)' = Received(e.who)
    BY <1>a, <1>u DEF Still, PoolTypeOK, Entries
  <2>2. phase[x] # "start" /\ x \notin lobby
    <3>1. wire[x] # <<>>
      <4>1. Len(<<>>) = 0
        OBVIOUS
      <4> QED BY <1>z, <4>1
    <3> QED BY <1>b, <1>z, <3>1 DEF HomeInv, Fresh
  <2>3. \A y \in Clients : phase'[y] = "start" \/ y \in lobby' =>
            /\ y # x /\ phase'[y] = phase[y] /\ lobby' = lobby
    BY <1>t, <1>z, <2>2
  <2>4. \A y \in Clients : phase'[y] = "start" \/ y \in lobby' =>
            /\ phase[y] = "start" \/ y \in lobby
            /\ shown'[y] = shown[y] /\ unseen'[y] = unseen[y] /\ wire'[y] = wire[y]
    BY <1>z, <2>3
  <2> QED BY <1>b, <1>t, <2>1, <2>3, <2>4, HomeKept
<1>2. RefusedInv(h)'
  <2>1. ASSUME NEW y \in Clients, h[y] = None
        PROVE  \/ wire'[y] = <<>> /\ Len(shown'[y]) <= 1
               \/ shown'[y] = <<>> /\ wire'[y] = FrameOf(<<Error>>)
    <3>1. CASE y # x
      BY <1>b, <1>z, <2>1, <3>1 DEF RefusedInv
    <3>2. CASE y = x
      <4>1. shown[x] = <<>> /\ wire[x] = FrameOf(<<Error>>)
        <5>1. wire[x] # <<>>
          <6>1. Len(<<>>) = 0
            OBVIOUS
          <6> QED BY <1>z, <6>1
        <5> QED BY <1>b, <2>1, <3>2, <5>1 DEF RefusedInv
      <4>2. /\ FrameOf(<<Error>>) \in Seq(Sends) /\ Len(FrameOf(<<Error>>)) = 2
            /\ FrameOf(<<Error>>)[1] = [part |-> "head", win |-> <<Error>>]
        BY ErrorTyped, FrameTyped
      <4>3. wire[x][1].win = <<Error>> /\ Len(wire[x]) = 2
        BY <4>1, <4>2
      <4>4. shown'[x] = <<>> \o <<Error>> /\ wire'[x] = SubSeq(wire[x], 3, 2)
        BY <4>1, <4>3, ShowIs
      <4>5. SubSeq(wire[x], 3, 2) = <<>>
        BY <4>1, <4>2, SubSeqEmpty
      <4>6. Len(<<>> \o <<Error>>) = 1
        OBVIOUS
      <4> QED BY <3>2, <4>4, <4>5, <4>6
    <3> QED BY <3>1, <3>2
  <2> QED BY <2>1 DEF RefusedInv
<1>3. StreamInv(h, b)'
  BY <1>b, <1>s, StreamKept
<1>4. ReqInv(h)'
  BY <1>b, <1>t DEF ReqInv, Requests
<1>5. BookInv(h, b)'
  <2>1. \A m \in b : Known(h, m)'
    BY <1>b, <1>t DEF BookInv, Known
  <2> QED BY <1>b, <1>t, <2>1, BookKept
<1>6. TickInv'
  <2>1. \A y \in Clients : Lost(y) => Lost(y)'
    BY <1>a, <1>t, <1>z DEF Lost, Open, ClientTypeOK
  <2> QED BY <1>a, <1>b, <1>t, <2>1 DEF TickInv, TickTypeOK
<1>7. NumInv'
  BY <1>b, <1>t, NumKept
<1>8. WinInv(v)'
  BY <1>b, <1>s, <1>t, WinKept
<1>9. OrderInv(v)'
  BY <1>b, <1>z
<1>10. TodoInv'
  BY <1>b, <1>t, <1>u, <1>v, <1>y, TodoKept
<1>11. AnswerInv'
  BY <1>b, <1>t, <1>u, <1>w, AnswerKept
<1>12. GapInv'
  BY <1>b, <1>s, GapKept
<1> QED BY <1>1, <1>2, <1>3, <1>4, <1>5, <1>6, <1>7, <1>8, <1>9, <1>10, <1>11, <1>12 DEF Inv

\* A client's handshake reads.
LEMMA HandshakeKeepsAll ==
    ASSUME TypeOK, NEW h \in [Clients -> Channels \cup {None}], NEW b \in SUBSET Notices,
           NEW v \in [Channels -> [Nat -> Nat]], Inv(h, b, v), NEW x \in Clients, Handshake(x)
    PROVE  Inv(h, b, v)'
<1>a. ClientTypeOK /\ PoolTypeOK /\ TickTypeOK
  BY TypeParts
<1>b. /\ HomeInv(h) /\ RefusedInv(h) /\ StreamInv(h, b) /\ ReqInv(h) /\ BookInv(h, b)
      /\ TickInv /\ NumInv /\ WinInv(v) /\ OrderInv(v) /\ TodoInv /\ AnswerInv /\ GapInv
  BY DEF Inv
<1>t. /\ pc' = pc /\ mq' = mq /\ heard' = heard /\ cur_msgs' = cur_msgs /\ todo' = todo
      /\ events' = events /\ next_deletion' = next_deletion
      /\ lobby' = lobby /\ closed' = closed /\ members' = members
      /\ said' = said /\ req' = req /\ shown' = shown
      /\ join_pool' = join_pool /\ leave_pool' = leave_pool
  BY DEF Handshake, poolVars, tickVars
<1>c. /\ Still /\ (\A u : OrderInv(u) => OrderInv(u)') /\ phase[x] = "handshake"
      /\ \A y \in Clients : y # x =>
             unseen'[y] = unseen[y] /\ wire'[y] = wire[y] /\ phase'[y] = phase[y]
      /\ phase'[x] # "start"
      /\ \E f \in 1..(Len(wire[x]) \div 2) : wire'[x] = SubSeq(wire[x], 2 * f + 1, Len(wire[x]))
  BY HandshakeIs
<1>d. PICK f \in 1..(Len(wire[x]) \div 2) : wire'[x] = SubSeq(wire[x], 2 * f + 1, Len(wire[x]))
  BY <1>c
<1>e. Len(wire[x]) >= 2
  <2>1. PICK n \in Nat : n = Len(wire[x])
    BY StreamTyped
  <2>2. f \in 1..(n \div 2)
    BY <2>1
  <2>3. f \in Nat \ {0} /\ 2 * f \in 0..n
    BY <2>2, Halves
  <2> QED BY <2>1, <2>3
<1>z. /\ Still /\ (\A u : OrderInv(u) => OrderInv(u)') /\ Len(wire[x]) >= 2 /\ phase[x] = "handshake"
      /\ \A y \in Clients : y # x =>
             shown'[y] = shown[y] /\ unseen'[y] = unseen[y] /\ wire'[y] = wire[y] /\ phase'[y] = phase[y]
      /\ \A y \in Clients : phase'[y] = phase[y] \/ phase[y] = "handshake"
      /\ phase'[x] # "start"
  BY <1>c, <1>e, <1>t
<1>u. Still
  BY <1>z
<1>v. \A d \in Channels : Done(d)' = Done(d) /\ Low(d)' = Low(d)
  BY <1>t DEF Done, Low
<1>w. \A d \in Channels, y \in Clients : Live(d, y)' => Live(d, y)
  BY <1>a, <1>t, <1>z DEF Live, Lost, Open, ClientTypeOK
<1>x. \A d \in Channels, y \in Clients : Upto(d, y)' = Upto(d, y)
  BY <1>t, <1>v DEF Upto
<1>y. \A d \in Channels : \A y \in todo[d] : y \in Clients
  BY <1>a DEF TickTypeOK
<1>s. TypeOK /\ Still /\ Settled /\ \A d \in Channels, y \in Clients : Live(d, y)' => Live(d, y) /\ Upto(d, y)' = Upto(d, y)
  BY <1>u, <1>v, <1>w, <1>x DEF Settled
<1>1. HomeInv(h)'
  <2>1. \A d \in Channels : \A e \in join_pool[d] : Received(e.who)' = Received(e.who)
    BY <1>a, <1>u DEF Still, PoolTypeOK, Entries
  <2>2. phase[x] # "start" /\ x \notin lobby
    <3>1. wire[x] # <<>>
      <4>1. Len(<<>>) = 0
        OBVIOUS
      <4> QED BY <1>z, <4>1
    <3> QED BY <1>b, <1>z, <3>1 DEF HomeInv, Fresh
  <2>3. \A y \in Clients : phase'[y] = "start" \/ y \in lobby' =>
            /\ y # x /\ phase'[y] = phase[y] /\ lobby' = lobby
    BY <1>t, <1>z, <2>2
  <2>4. \A y \in Clients : phase'[y] = "start" \/ y \in lobby' =>
            /\ phase[y] = "start" \/ y \in lobby
            /\ shown'[y] = shown[y] /\ unseen'[y] = unseen[y] /\ wire'[y] = wire[y]
    BY <1>z, <2>3
  <2> QED BY <1>b, <1>t, <2>1, <2>3, <2>4, HomeKept
<1>2. RefusedInv(h)'
  <2>1. ASSUME NEW y \in Clients, h[y] = None
        PROVE  \/ wire'[y] = <<>> /\ Len(shown'[y]) <= 1
               \/ shown'[y] = <<>> /\ wire'[y] = FrameOf(<<Error>>)
    <3>1. CASE y # x
      BY <1>b, <1>z, <2>1, <3>1 DEF RefusedInv
    <3>2. CASE y = x
      <4>1. shown[x] = <<>> /\ wire[x] = FrameOf(<<Error>>)
        <5>1. wire[x] # <<>>
          <6>1. Len(<<>>) = 0
            OBVIOUS
          <6> QED BY <1>z, <6>1
        <5> QED BY <1>b, <2>1, <3>2, <5>1 DEF RefusedInv
      <4>2. FrameOf(<<Error>>) \in Seq(Sends) /\ Len(FrameOf(<<Error>>)) = 2
        BY ErrorTyped, FrameTyped
      <4>3. f \in 1..(2 \div 2) /\ wire'[x] = SubSeq(wire[x], 2 * f + 1, 2)
        BY <1>d, <4>1, <4>2
      <4>4. 2 * f + 1 = 3
        BY <4>3
      <4>5. SubSeq(wire[x], 3, 2) = <<>>
        BY <4>1, <4>2, SubSeqEmpty
      <4>6. Len(shown'[x]) = 0
        BY <1>t, <4>1
      <4> QED BY <3>2, <4>3, <4>4, <4>5, <4>6
    <3> QED BY <3>1, <3>2
  <2> QED BY <2>1 DEF RefusedInv
<1>3. StreamInv(h, b)'
  BY <1>b, <1>s, StreamKept
<1>4. ReqInv(h)'
  BY <1>b, <1>t DEF ReqInv, Requests
<1>5. BookInv(h, b)'
  <2>1. \A m \in b : Known(h, m)'
    BY <1>b, <1>t DEF BookInv, Known
  <2> QED BY <1>b, <1>t, <2>1, BookKept
<1>6. TickInv'
  <2>1. \A y \in Clients : Lost(y) => Lost(y)'
    BY <1>a, <1>t, <1>z DEF Lost, Open, ClientTypeOK
  <2> QED BY <1>a, <1>b, <1>t, <2>1 DEF TickInv, TickTypeOK
<1>7. NumInv'
  BY <1>b, <1>t, NumKept
<1>8. WinInv(v)'
  BY <1>b, <1>s, <1>t, WinKept
<1>9. OrderInv(v)'
  BY <1>b, <1>z
<1>10. TodoInv'
  BY <1>b, <1>t, <1>u, <1>v, <1>y, TodoKept
<1>11. AnswerInv'
  BY <1>b, <1>t, <1>u, <1>w, AnswerKept
<1>12. GapInv'
  BY <1>b, <1>s, GapKept
<1> QED BY <1>1, <1>2, <1>3, <1>4, <1>5, <1>6, <1>7, <1>8, <1>9, <1>10, <1>11, <1>12 DEF Inv

\* A client connects, and is refused or not.
LEMMA ConnectKeeps ==
    ASSUME TypeOK, NEW h \in [Clients -> Channels \cup {None}], NEW b \in SUBSET Notices,
           NEW v \in [Channels -> [Nat -> Nat]], Inv(h, b, v), NEW x \in Clients, Connect(x)
    PROVE  Inv(h, b, v)'
<1>a. ClientTypeOK /\ PoolTypeOK /\ TickTypeOK
  BY TypeParts
<1>b. /\ HomeInv(h) /\ RefusedInv(h) /\ StreamInv(h, b) /\ ReqInv(h) /\ BookInv(h, b)
      /\ TickInv /\ NumInv /\ WinInv(v) /\ OrderInv(v) /\ TodoInv /\ AnswerInv /\ GapInv
  BY DEF Inv
<1>t. /\ pc' = pc /\ mq' = mq /\ heard' = heard /\ cur_msgs' = cur_msgs /\ todo' = todo
      /\ events' = events /\ next_deletion' = next_deletion
      /\ said' = said /\ shown' = shown /\ unseen' = unseen
      /\ closed' = closed /\ members' = members
      /\ join_pool' = join_pool /\ leave_pool' = leave_pool
      /\ phase' = [phase EXCEPT ![x] = IF x \in Posix THEN "handshake" ELSE "chat"]
      /\ req' = [req EXCEPT ![x] = <<[type |-> "join", k |-> 0, stamp |-> Now]>>]
      /\ \/ lobby' = lobby \cup {x} /\ wire' = wire
         \/ lobby' = lobby /\ wire' = [wire EXCEPT ![x] = FrameOf(<<Error>>)]
  BY DEF Connect, tickVars
<1>c. phase[x] = "start" /\ Fresh(h, x) /\ x \notin lobby
  BY <1>b DEF Connect, HomeInv
<1>d. /\ h[x] = None /\ shown'[x] = <<>> /\ unseen'[x] = {}
      /\ wire'[x] = <<>> \/ wire'[x] = FrameOf(<<Error>>)
  BY <1>a, <1>c, <1>t DEF Fresh, ClientTypeOK
<1>e. /\ phase'[x] # "start" /\ phase'[x] # "end"
      /\ \A y \in Clients : y # x => /\ phase'[y] = phase[y] /\ wire'[y] = wire[y]
                                    /\ req'[y] = req[y] /\ (y \in lobby' => y \in lobby)
  BY <1>a, <1>t DEF ClientTypeOK
<1>f. \A y \in Clients : y # x => Received(y)' = Received(y)
  BY <1>e, <1>t, ReceivedIs
<1>g. \A m \in Received(x)' : m = Error
  <2>1. PICK w \in Seq(Sends) : /\ w = wire'[x]
                                /\ w = <<>> \/ w = FrameOf(<<Error>>)
    <3>1. FrameOf(<<Error>>) \in Seq(Sends)
      BY ErrorTyped, FrameTyped
    <3>2. <<>> \in Seq(Sends)
      OBVIOUS
    <3> QED BY <1>d, <3>1, <3>2
  <2>2. Received(x)' = Sent(<<>>, {}, w)
    BY <1>d, <2>1, ReceivedIs
  <2>3. <<>> \in Screens /\ DOMAIN <<>> = {}
    BY DEF Screens
  <2>4. \A e : e \in Sent(<<>>, {}, w) <=> Among(e, <<>>) \/ e \in {} \/ Carried(e, w)
    BY <2>3, SentIs
  <2>5. \A e : ~Among(e, <<>>)
    BY <2>3 DEF Among
  <2>6. ASSUME NEW k \in Bodies(w), NEW e, Among(e, w[k].win) PROVE e = Error
    <3>1. CASE w = <<>>
      BY <2>6, <3>1 DEF Bodies
    <3>2. CASE w = FrameOf(<<Error>>)
      <4>1. /\ Len(w) = 2 /\ w[1] = [part |-> "head", win |-> <<Error>>]
            /\ w[2] = [part |-> "body", win |-> <<Error>>]
        BY <3>2, ErrorTyped, FrameTyped
      <4>2. k \in 1..2
        BY <4>1, BodiesIs
      <4>3. w[k].win = <<Error>>
        BY <4>1, <4>2
      <4>4. DOMAIN <<Error>> = {1} /\ <<Error>>[1] = Error
        OBVIOUS
      <4> QED BY <2>6, <4>3, <4>4 DEF Among
    <3> QED BY <2>1, <3>1, <3>2
  <2>7. \A e : Carried(e, w) => e = Error
    BY <2>6 DEF Carried
  <2> QED BY <2>2, <2>4, <2>5, <2>7
<1>h. \A d \in Channels : \A y \in members[d] : y # x /\ y \in Clients
  <2>1. \A d \in Channels : \A y \in members[d] : h[y] = d /\ y \in Clients
    BY <1>a, <1>b DEF HomeInv, PoolTypeOK
  <2> QED BY <1>d, <2>1, NoneIsNone
<1>v. \A d \in Channels : Done(d)' = Done(d) /\ Low(d)' = Low(d)
  BY <1>t DEF Done, Low
<1>w. \A d \in Channels, y \in Clients : Live(d, y)' => Live(d, y) /\ y # x
  BY <1>e, <1>h, <1>t DEF Live, Lost, Open
<1>x. \A d \in Channels, y \in Clients : Upto(d, y)' = Upto(d, y)
  BY <1>t, <1>v DEF Upto
<1>1. HomeInv(h)'
  <2>1. \A d \in Channels : \A e \in join_pool[d] : Received(e.who)' = Received(e.who)
    <3>1. ASSUME NEW d \in Channels, NEW e \in join_pool[d] PROVE Received(e.who)' = Received(e.who)
      <4>1. h[e.who] = d /\ e.who \in Clients
        BY <1>a, <1>b DEF HomeInv, Awaited, PoolTypeOK, Entries
      <4> QED BY <1>d, <1>f, <4>1, NoneIsNone
    <3> QED BY <3>1
  <2>2. ASSUME NEW y \in Clients, phase'[y] = "start" \/ y \in lobby'
        PROVE  /\ phase[y] = "start" \/ y \in lobby
               /\ shown'[y] = shown[y] /\ unseen'[y] = unseen[y] /\ wire'[y] = wire[y]
    <3>1. CASE y # x
      BY <1>e, <1>t, <2>2, <3>1
    <3>2. CASE y = x
      BY <1>c, <1>e, <1>t, <2>2, <3>2
    <3> QED BY <3>1, <3>2
  <2>3. \A y \in Clients : phase'[y] = "start" => phase[y] = "start" /\ (y \in lobby' => y \in lobby)
    BY <1>e
  <2> QED BY <1>b, <1>t, <2>1, <2>2, <2>3, HomeKept
<1>2. RefusedInv(h)'
  <2>1. Len(shown'[x]) <= 1
    <3>1. Len(<<>>) = 0
      OBVIOUS
    <3> QED BY <1>d, <3>1
  <2>2. ASSUME NEW y \in Clients, h[y] = None
        PROVE  \/ wire'[y] = <<>> /\ Len(shown'[y]) <= 1
               \/ shown'[y] = <<>> /\ wire'[y] = FrameOf(<<Error>>)
    BY <1>b, <1>d, <1>e, <1>t, <2>1, <2>2 DEF RefusedInv
  <2> QED BY <2>2 DEF RefusedInv
<1>3. StreamInv(h, b)'
  <2>1. ASSUME NEW y \in Clients, NEW m \in Received(y)'
        PROVE  IF h[y] = None THEN m = Error
               ELSE m \in b /\ m.ch = h[y] /\ m.n <= Done(m.ch)'
    <3>1. CASE y = x
      BY <1>d, <1>g, <2>1, <3>1
    <3>2. CASE y # x
      <4>1. IF h[y] = None THEN m = Error
            ELSE m \in b /\ m.ch = h[y] /\ m.n <= Done(m.ch)
        BY <1>b, <1>f, <2>1, <3>2 DEF StreamInv
      <4>2. h[y] # None => h[y] \in Channels
        OBVIOUS
      <4> QED BY <1>v, <4>1, <4>2
    <3> QED BY <3>1, <3>2
  <2> QED BY <2>1 DEF StreamInv
<1>4. ReqInv(h)'
  <2>1. ASSUME NEW y \in Clients, y # x PROVE Requests(h, y)'
    <3>1. Requests(h, y)
      BY <1>b DEF ReqInv
    <3> QED BY <1>e, <1>t, <2>1, <3>1 DEF Requests
  <2>2. Requests(h, x)'
    <3>1. PICK q : q = <<[type |-> "join", k |-> 0, stamp |-> Now]>>
      OBVIOUS
    <3>2. DOMAIN q = {1} /\ q[1].k = 0
      BY <3>1
    <3>3. req'[x] = q /\ said'[x] \in Nat
      BY <1>a, <1>t, <3>1 DEF ClientTypeOK
    <3> QED BY <1>d, <3>2, <3>3 DEF Requests
  <2> QED BY <2>1, <2>2 DEF ReqInv
<1>5. BookInv(h, b)'
  <2>1. ASSUME NEW m \in b PROVE Known(h, m)'
    <3>1. Known(h, m) /\ m.from \in Clients /\ m.ch \in Channels
      BY <1>b DEF BookInv, Notices
    <3>2. m.from # x
      BY <1>d, <3>1, NoneIsNone DEF Known
    <3> QED BY <1>e, <1>t, <3>1, <3>2 DEF Known
  <2> QED BY <1>b, <1>t, <2>1, BookKept
<1>6. TickInv'
  <2>1. \A y \in Clients : Lost(y) => Lost(y)'
    BY <1>c, <1>e, <1>t DEF Lost, Open
  <2> QED BY <1>a, <1>b, <1>t, <2>1 DEF TickInv, TickTypeOK
<1>7. NumInv'
  BY <1>b, <1>t, NumKept
<1>8. WinInv(v)'
  <2>1. Settled
    BY <1>v DEF Settled
  <2> QED BY <1>b, <1>t, <2>1, WinKept
<1>9. OrderInv(v)'
  <2>1. Ordered(v, shown'[x], wire'[x])
    <3>1. <<>> \in Screens /\ Len(<<>>) <= 1
      BY DEF Screens
    <3> QED BY <1>d, <3>1, RefusedOrder
  <2> QED BY <1>b, <1>e, <1>t, <2>1, StillBut
<1>10. TodoInv'
  <2>1. ASSUME NEW d \in Channels, NEW y \in todo'[d], NEW m \in Received(y)'
        PROVE  m.n <= Low(d)'
    <3>1. y \in todo[d] /\ y \in members[d]
      BY <1>b, <1>t, <2>1 DEF TickInv
    <3>2. m \in Received(y)
      BY <1>f, <1>h, <2>1, <3>1
    <3> QED BY <1>b, <1>v, <3>1, <3>2 DEF TodoInv
  <2> QED BY <2>1 DEF TodoInv
<1>11. AnswerInv'
  <2>1. ASSUME NEW d \in Channels, NEW y \in Clients, Live(d, y)'
        PROVE  \/ \E m \in Received(y)' : IsJoinOf(m, y)
               \/ y \in todo'[d] /\ \E i \in DOMAIN cur_msgs'[d] : IsJoinOf(cur_msgs'[d][i], y)
    <3>1. Live(d, y) /\ Received(y)' = Received(y)
      BY <1>f, <1>w, <2>1
    <3>2. \/ \E m \in Received(y) : IsJoinOf(m, y)
          \/ y \in todo[d] /\ \E i \in DOMAIN cur_msgs[d] : IsJoinOf(cur_msgs[d][i], y)
      BY <1>b, <3>1 DEF AnswerInv
    <3> QED BY <1>t, <3>1, <3>2
  <2> QED BY <2>1 DEF AnswerInv, IsJoinOf, IsJoin
<1>12. GapInv'
  <2>1. ASSUME NEW y \in Clients PROVE \E lo, hi \in Nat : Numbers(y)' = (lo + 1)..hi
    <3>1. CASE y # x
      <4>1. Numbers(y)' = Numbers(y)
        BY <1>f, <3>1, NumbersKept
      <4> QED BY <1>b, <4>1 DEF GapInv
    <3>2. CASE y = x
      <4>1. Numbers(x)' = {}
        BY <1>g DEF Numbers, IsError, Error
      <4>2. (0 + 1)..0 = {}
        OBVIOUS
      <4> QED BY <3>2, <4>1, <4>2
    <3> QED BY <3>1, <3>2
  <2>2. ASSUME NEW y \in Clients, NEW d \in Channels, Live(d, y)'
        PROVE  \E lo \in Nat : lo <= Upto(d, y)' /\ Numbers(y)' = (lo + 1)..Upto(d, y)'
    <3>1. Live(d, y) /\ Numbers(y)' = Numbers(y) /\ Upto(d, y)' = Upto(d, y)
      BY <1>f, <1>w, <1>x, <2>2, NumbersKept
    <3>2. \E lo \in Nat : lo <= Upto(d, y) /\ Numbers(y) = (lo + 1)..Upto(d, y)
      BY <1>b, <3>1 DEF GapInv
    <3> QED BY <3>1, <3>2
  <2> QED BY <2>1, <2>2 DEF GapInv
<1> QED BY <1>1, <1>2, <1>3, <1>4, <1>5, <1>6, <1>7, <1>8, <1>9, <1>10, <1>11, <1>12 DEF Inv

\* Of the requests of x the first f have been read.
LEMMA RequestsRest ==
    ASSUME ClientTypeOK, NEW x \in Clients, NEW h, NEW g, Requests(h, x),
           NEW f \in DOMAIN req[x],
           req' = [req EXCEPT ![x] = SubSeq(req[x], f + 1, Len(req[x]))],
           said' = said
    PROVE  /\ Requests(g, x)'
           /\ \A i \in DOMAIN req'[x] : \E j \in DOMAIN req[x] :
                  j > f /\ req'[x][i] = req[x][j]
<1>1. /\ SubSeq(req[x], f + 1, Len(req[x])) \in Seq(Frames)
      /\ Len(SubSeq(req[x], f + 1, Len(req[x]))) = Len(req[x]) - f
      /\ \A i \in 1..(Len(req[x]) - f) :
             /\ i + f \in 1..Len(req[x])
             /\ SubSeq(req[x], f + 1, Len(req[x]))[i] = req[x][i + f]
      /\ f \in Nat \ {0} /\ Len(req[x]) \in Nat /\ f <= Len(req[x])
  BY ReqRest
<1>2. PICK l \in Nat, r \in Seq(Frames) :
          l = Len(req[x]) - f /\ r = SubSeq(req[x], f + 1, Len(req[x]))
  <2>1. Len(req[x]) - f \in Nat
    BY <1>1
  <2> QED BY <1>1, <2>1
<1>3. req'[x] = r /\ DOMAIN r = 1..l /\ DOMAIN req[x] = 1..Len(req[x])
  BY <1>1, <1>2, LenProperties DEF ClientTypeOK
<1>4. \A i \in 1..l : i + f \in DOMAIN req[x] /\ i + f > f /\ i + f > 1 /\ r[i] = req[x][i + f]
  BY <1>1, <1>2, <1>3
<1>5. \A i \in 1..l : r[i].k <= said[x] /\ r[i].type # "join"
  BY <1>4 DEF Requests
<1>6. ASSUME NEW i \in 1..l, NEW j \in 1..l, i < j PROVE r[i].k < r[j].k
  <2>1. i + f < j + f
    BY <1>1, <1>6
  <2> QED BY <1>4, <2>1 DEF Requests
<1>7. \A i \in DOMAIN req'[x] : \E j \in DOMAIN req[x] : j > f /\ req'[x][i] = req[x][j]
  BY <1>3, <1>4
<1>8. Requests(g, x)'
  BY <1>3, <1>5, <1>6 DEF Requests
<1> QED BY <1>7, <1>8

\* BookInv is kept, with another hand-over, where the queues are and all is known.
LEMMA BookMoved ==
    ASSUME NEW h, NEW g, NEW b \in SUBSET Notices, BookInv(h, b), TypeOK,
           heard' = heard, mq' = mq, cur_msgs' = cur_msgs,
           \A m \in b : Known(g, m)'
    PROVE  BookInv(g, b)'
<1>1. \A m, p \in b : SaidInOrder(m, p)'
  BY DEF BookInv, SaidInOrder
<1>2. \A c \in Channels : (ToSet(mq[c]) \cup ToSet(cur_msgs[c]))' \subseteq b
  BY DEF BookInv, ToSet
<1> QED BY <1>1, <1>2 DEF BookInv

\* The lobby hands a client over to a channel.
LEMMA LobbyReadsKeeps ==
    ASSUME TypeOK, NEW h \in [Clients -> Channels \cup {None}], NEW b \in SUBSET Notices,
           NEW v \in [Channels -> [Nat -> Nat]], Inv(h, b, v), NEW x \in Clients, LobbyReads(x)
    PROVE  \E g \in [Clients -> Channels \cup {None}] : Inv(g, b, v)'
<1>a. ClientTypeOK /\ PoolTypeOK /\ TickTypeOK
  BY TypeParts
<1>b. /\ HomeInv(h) /\ RefusedInv(h) /\ StreamInv(h, b) /\ ReqInv(h) /\ BookInv(h, b)
      /\ TickInv /\ NumInv /\ WinInv(v) /\ OrderInv(v) /\ TodoInv /\ AnswerInv /\ GapInv
  BY DEF Inv
<1>t. /\ pc' = pc /\ mq' = mq /\ heard' = heard /\ cur_msgs' = cur_msgs /\ todo' = todo
      /\ events' = events /\ next_deletion' = next_deletion
      /\ phase' = phase /\ said' = said /\ shown' = shown /\ unseen' = unseen /\ wire' = wire
      /\ closed' = closed /\ members' = members /\ leave_pool' = leave_pool
      /\ lobby' = lobby \ {x} /\ x \in lobby
  BY DEF LobbyReads, clientVars, tickVars
<1>c. PICK f \in DOMAIN req[x], c \in Channels :
          /\ req' = [req EXCEPT ![x] = SubSeq(req[x], f + 1, Len(req[x]))]
          /\ join_pool' = [join_pool EXCEPT ![c] =
                 join_pool[c] \cup {[who |-> x, stamp |-> req[x][1].stamp]}]
  BY DEF LobbyReads
<1>d. PICK g \in [Clients -> Channels \cup {None}] : g = [h EXCEPT ![x] = c]
  OBVIOUS
<1>e. h[x] = None /\ g[x] = c /\ Fresh(h, x) /\ \A y \in Clients : y # x => g[y] = h[y]
  BY <1>b, <1>d, <1>t DEF HomeInv, Fresh
<1>u. Still
  BY <1>t, StillIf
<1>f. Received(x) = {}
  <2>1. Received(x) = Sent(<<>>, {}, <<>>)
    BY <1>e, ReceivedIs DEF Fresh
  <2>2. Sent(<<>>, {}, <<>>) = {}
    <3>1. Bodies(<<>>) = {}
      BY DEF Bodies
    <3> QED BY <3>1, SetOfEmpty DEF Sent
  <2> QED BY <2>1, <2>2
<1>g. \A e \in Entries : e.who \in Clients
  BY DEF Entries
<1>v. \A d \in Channels : Done(d)' = Done(d) /\ Low(d)' = Low(d)
  BY <1>t DEF Done, Low
<1>w. \A d \in Channels, y \in Clients : Live(d, y)' => Live(d, y)
  BY <1>t DEF Live, Lost, Open
<1>x. \A d \in Channels, y \in Clients : Upto(d, y)' = Upto(d, y)
  BY <1>t, <1>v DEF Upto
<1>y. \A d \in Channels : \A y \in todo[d] : y \in Clients
  BY <1>a DEF TickTypeOK
<1>s. TypeOK /\ Still /\ Settled /\ \A d \in Channels, y \in Clients : Live(d, y)' => Live(d, y) /\ Upto(d, y)' = Upto(d, y)
  BY <1>u, <1>v, <1>w, <1>x DEF Settled
<1>1. HomeInv(g)'
  <2>1. ASSUME NEW y \in Clients
        PROVE  /\ phase'[y] = "start" \/ y \in lobby' => Fresh(g, y)'
               /\ phase'[y] = "start" => y \notin lobby'
    <3>1. /\ phase[y] = "start" \/ y \in lobby => Fresh(h, y)
          /\ phase[y] = "start" => y \notin lobby
      BY <1>b DEF HomeInv
    <3>2. CASE y = x
      <4>1. phase'[y] # "start" /\ y \notin lobby'
        BY <1>t, <3>1, <3>2
      <4> QED BY <4>1
    <3>3. CASE y # x
      <4>1. Fresh(h, y) => Fresh(g, y)'
        BY <1>e, <1>t, <3>3 DEF Fresh
      <4> QED BY <1>t, <3>1, <4>1
    <3> QED BY <3>2, <3>3
  <2>2. ASSUME NEW d \in Channels, NEW y \in members'[d] \cup events'[d] \cup next_deletion'[d]
        PROVE  g[y] = d
    <3>1. y \in Clients /\ h[y] = d
      BY <1>a, <1>b, <1>t, <2>2 DEF HomeInv, PoolTypeOK, TickTypeOK
    <3> QED BY <1>e, <3>1, NoneIsNone
  <2>3. ASSUME NEW d \in Channels, NEW e \in join_pool'[d] PROVE Awaited(g, d, e)'
    <3>1. CASE e \in join_pool[d]
      <4>1. Awaited(h, d, e) /\ e.who \in Clients
        BY <1>a, <1>b, <1>g, <3>1 DEF HomeInv, PoolTypeOK
      <4>2. e.who # x
        BY <1>e, <4>1, NoneIsNone DEF Awaited
      <4>3. Received(e.who)' = Received(e.who)
        BY <1>u, <4>1 DEF Still
      <4> QED BY <1>e, <1>t, <4>1, <4>2, <4>3 DEF Awaited
    <3>2. CASE e \notin join_pool[d]
      <4>1. d = c /\ e.who = x
        BY <1>a, <1>c, <2>3, <3>2 DEF PoolTypeOK
      <4>2. x \notin members[c]
        BY <1>b, <1>e, NoneIsNone DEF HomeInv
      <4>3. Received(x)' = {}
        BY <1>f, <1>u DEF Still
      <4> QED BY <1>e, <1>t, <4>1, <4>2, <4>3 DEF Awaited
    <3> QED BY <3>1, <3>2
  <2>4. ASSUME NEW d \in Channels PROVE leave_pool'[d] = {} /\ IsFiniteSet(join_pool'[d])
    <3>1. leave_pool[d] = {} /\ IsFiniteSet(join_pool[d])
      BY <1>b DEF HomeInv
    <3>2. PICK e : join_pool'[d] = join_pool[d] \/ join_pool'[d] = join_pool[d] \cup {e}
      <4>1. PICK e : join_pool' = [join_pool EXCEPT ![c] = join_pool[c] \cup {e}]
        BY <1>c
      <4>2. join_pool \in [Channels -> SUBSET Entries]
        BY <1>a DEF PoolTypeOK
      <4> QED BY <4>1, <4>2
    <3>3. IsFiniteSet(join_pool[d] \cup {e})
      BY <3>1, FS_AddElement
    <3> QED BY <1>t, <3>1, <3>2, <3>3
  <2> QED BY <2>1, <2>2, <2>3, <2>4 DEF HomeInv
<1>2. RefusedInv(g)'
  <2>1. \A y \in Clients : g[y] = None => h[y] = None
    BY <1>e, NoneIsNone
  <2> QED BY <1>b, <1>t, <2>1 DEF RefusedInv
<1>3. StreamInv(g, b)'
  <2>1. StreamInv(h, b)'
    BY <1>b, <1>s, StreamKept
  <2>2. ASSUME NEW y \in Clients, NEW m \in Received(y)'
        PROVE  IF g[y] = None THEN m = Error
               ELSE m \in b /\ m.ch = g[y] /\ m.n <= Done(m.ch)'
    <3>1. y # x
      BY <1>f, <1>u, <2>2 DEF Still
    <3> QED BY <1>e, <2>1, <3>1 DEF StreamInv
  <2> QED BY <2>2 DEF StreamInv
<1>4. ReqInv(g)'
  <2>1. ASSUME NEW y \in Clients, y # x PROVE Requests(g, y)'
    <3>1. Requests(h, y) /\ req'[y] = req[y] /\ g[y] = h[y]
      BY <1>a, <1>b, <1>c, <1>e, <2>1 DEF ReqInv, ClientTypeOK
    <3> QED BY <1>t, <3>1 DEF Requests
  <2>2. Requests(g, x)'
    BY <1>a, <1>b, <1>c, <1>t, RequestsRest DEF ReqInv
  <2> QED BY <2>1, <2>2 DEF ReqInv
<1>5. BookInv(g, b)'
  <2>1. ASSUME NEW m \in b PROVE Known(g, m)'
    <3>1. Known(h, m) /\ m.from \in Clients /\ m.ch \in Channels
      BY <1>b DEF BookInv, Notices
    <3>2. m.from # x
      BY <1>e, <3>1, NoneIsNone DEF Known
    <3>3. req'[m.from] = req[m.from] /\ g[m.from] = h[m.from]
      BY <1>a, <1>c, <1>e, <3>1, <3>2 DEF ClientTypeOK
    <3> QED BY <1>t, <3>1, <3>3 DEF Known
  <2> QED BY <1>b, <1>t, <2>1, BookMoved
<1>6. TickInv'
  <2>1. \A y \in Clients : Lost(y) => Lost(y)'
    BY <1>t DEF Lost, Open
  <2> QED BY <1>a, <1>b, <1>t, <2>1 DEF TickInv, TickTypeOK
<1>7. NumInv'
  BY <1>b, <1>t, NumKept
<1>8. WinInv(v)'
  BY <1>b, <1>s, <1>t, WinKept
<1>9. OrderInv(v)'
  BY <1>b, <1>t, OrderKept
<1>10. TodoInv'
  BY <1>b, <1>t, <1>u, <1>v, <1>y, TodoKept
<1>11. AnswerInv'
  BY <1>b, <1>t, <1>u, <1>w, AnswerKept
<1>12. GapInv'
  BY <1>b, <1>s, GapKept
<1> QED BY <1>1, <1>2, <1>3, <1>4, <1>5, <1>6, <1>7, <1>8, <1>9, <1>10, <1>11, <1>12 DEF Inv

\* A worker starts a tick.
LEMMA PollKeeps ==
    ASSUME TypeOK, NEW h \in [Clients -> Channels \cup {None}], NEW b \in SUBSET Notices,
           NEW v \in [Channels -> [Nat -> Nat]], Inv(h, b, v), NEW c \in Channels, Poll(c)
    PROVE  Inv(h, b, v)'
<1>a. ClientTypeOK /\ PoolTypeOK /\ TickTypeOK
  BY TypeParts
<1>b. /\ HomeInv(h) /\ RefusedInv(h) /\ StreamInv(h, b) /\ ReqInv(h) /\ BookInv(h, b)
      /\ TickInv /\ NumInv /\ WinInv(v) /\ OrderInv(v) /\ TodoInv /\ AnswerInv /\ GapInv
  BY DEF Inv
<1>t. /\ phase' = phase /\ said' = said /\ shown' = shown /\ unseen' = unseen
      /\ lobby' = lobby /\ closed' = closed
      /\ join_pool' = join_pool /\ leave_pool' = leave_pool /\ members' = members
      /\ req' = req
      /\ wire' = wire /\ mq' = mq /\ heard' = heard /\ todo' = todo /\ half' = half
      /\ pc[c] = "poll" /\ pc' = [pc EXCEPT ![c] = "events"]
      /\ next_deletion' = [next_deletion EXCEPT ![c] = {}]
      /\ cur_msgs' = [cur_msgs EXCEPT ![c] = <<>>]
      /\ events' = [events EXCEPT ![c] =
             {x \in members[c] : Open(x) /\ (req[x] # <<>> \/ phase[x] = "end")}]
  BY DEF Poll, WindowCleared, clientVars, netVars, poolVars
<1>u. Still
  BY <1>t, StillIf
<1>p. /\ todo[c] = {}
      /\ \A d \in Channels : d # c => /\ cur_msgs'[d] = cur_msgs[d] /\ Low(d)' = Low(d)
                                     /\ pc'[d] = pc[d]
      /\ pc'[c] = "events"
  <2>1. todo[c] = {}
    BY <1>b, <1>t DEF TickInv
  <2>2. \A d \in Channels : d # c => cur_msgs'[d] = cur_msgs[d] /\ pc'[d] = pc[d]
    BY <1>a, <1>t DEF TickTypeOK
  <2>3. pc'[c] = "events"
    BY <1>a, <1>t DEF TickTypeOK
  <2> QED BY <1>t, <2>1, <2>2, <2>3 DEF Low, Done
<1>v. \A d \in Channels : Done(d)' = Done(d)
  BY <1>t DEF Done
<1>w. \A d \in Channels, y \in Clients : Live(d, y)' => Live(d, y)
  <2>1. members[c] \cap next_deletion[c] = {}
    BY <1>b, <1>t DEF TickInv
  <2>2. \A d \in Channels : d # c => next_deletion'[d] = next_deletion[d]
    BY <1>a, <1>t DEF TickTypeOK
  <2> QED BY <1>t, <2>1, <2>2 DEF Live, Lost, Open
<1>x. \A d \in Channels, y \in Clients : Upto(d, y)' = Upto(d, y)
  BY <1>t, <1>v, <1>p DEF Upto
<1>y. \A d \in Channels : \A y \in todo[d] : y \in Clients
  BY <1>a DEF TickTypeOK
<1>s. TypeOK /\ Still /\ Settled /\ \A d \in Channels, y \in Clients : Live(d, y)' => Live(d, y) /\ Upto(d, y)' = Upto(d, y)
  BY <1>u, <1>v, <1>w, <1>x DEF Settled
<1>1. HomeInv(h)'
  <2>1. \A d \in Channels : \A e \in join_pool[d] : Received(e.who)' = Received(e.who)
    BY <1>a, <1>u DEF Still, PoolTypeOK, Entries
  <2>2. \A d \in Channels : events'[d] \cup next_deletion'[d]
                                 \subseteq members[d] \cup events[d] \cup next_deletion[d]
    BY <1>a, <1>t DEF TickTypeOK
  <2> QED BY <1>b, <1>t, <2>1, <2>2, HomeKept
<1>2. RefusedInv(h)'
  BY <1>b, <1>t DEF RefusedInv
<1>3. StreamInv(h, b)'
  BY <1>b, <1>s, StreamKept
<1>4. ReqInv(h)'
  BY <1>b, <1>t DEF ReqInv, Requests
<1>5. BookInv(h, b)'
  <2>1. \A m \in b : Known(h, m)'
    BY <1>b, <1>t DEF BookInv, Known
  <2>2. \A d \in Channels : cur_msgs'[d] = cur_msgs[d] \/ cur_msgs'[d] = <<>>
    BY <1>a, <1>t DEF TickTypeOK
  <2> QED BY <1>b, <1>t, <2>1, <2>2, BookKept
<1>6. TickInv'
  <2>1. \A y \in Clients : Lost(y)' = Lost(y)
    BY <1>t DEF Lost, Open
  <2>2. \A d \in Channels : members[d] \subseteq Clients /\ next_deletion[d] \subseteq Clients
    BY <1>a DEF PoolTypeOK, TickTypeOK
  <2> QED BY <1>a, <1>b, <1>t, <2>1, <2>2 DEF TickInv, TickTypeOK
<1>7. NumInv'
  <2>1. \A d \in Channels : pc'[d] = "send" => pc[d] = "send" /\ cur_msgs'[d] = cur_msgs[d]
    BY <1>p
  <2> QED BY <1>b, <1>t, <2>1, NumKept
<1>8. WinInv(v)'
  <2>1. \A d \in Channels : pc'[d] = "send" => pc[d] = "send" /\ cur_msgs'[d] = cur_msgs[d]
    BY <1>p
  <2> QED BY <1>b, <1>s, <2>1, WinKept
<1>9. OrderInv(v)'
  BY <1>b, <1>t, OrderKept
<1>10. TodoInv'
  <2>1. \A d \in Channels : \A y \in todo'[d] : y \in todo[d] /\ y \in Clients /\ Low(d)' = Low(d)
    BY <1>p, <1>t, <1>y
  <2> QED BY <1>b, <1>u, <2>1, TodoKept
<1>11. AnswerInv'
  <2>1. \A d \in Channels, y \in Clients : Live(d, y)' =>
            /\ Live(d, y)
            /\ y \in todo[d] => y \in todo'[d] /\ cur_msgs'[d] = cur_msgs[d]
    BY <1>p, <1>t, <1>w
  <2> QED BY <1>b, <1>u, <2>1, AnswerKept
<1>12. GapInv'
  BY <1>b, <1>s, GapKept
<1> QED BY <1>1, <1>2, <1>3, <1>4, <1>5, <1>6, <1>7, <1>8, <1>9, <1>10, <1>11, <1>12 DEF Inv

\* A worker hears the end of a connection.
LEMMA HearEndKeeps ==
    ASSUME TypeOK, NEW h \in [Clients -> Channels \cup {None}], NEW b \in SUBSET Notices,
           NEW v \in [Channels -> [Nat -> Nat]], Inv(h, b, v), NEW c \in Channels, NEW x \in Clients, HearEnd(c, x)
    PROVE  Inv(h, b, v)'
<1>a. ClientTypeOK /\ PoolTypeOK /\ TickTypeOK
  BY TypeParts
<1>b. /\ HomeInv(h) /\ RefusedInv(h) /\ StreamInv(h, b) /\ ReqInv(h) /\ BookInv(h, b)
      /\ TickInv /\ NumInv /\ WinInv(v) /\ OrderInv(v) /\ TodoInv /\ AnswerInv /\ GapInv
  BY DEF Inv
<1>t. /\ phase' = phase /\ said' = said /\ shown' = shown /\ unseen' = unseen
      /\ lobby' = lobby /\ closed' = closed
      /\ join_pool' = join_pool /\ leave_pool' = leave_pool /\ members' = members
      /\ req' = req
      /\ wire' = wire /\ mq' = mq /\ heard' = heard /\ todo' = todo /\ half' = half
      /\ pc[c] = "events" /\ pc' = pc /\ cur_msgs' = cur_msgs /\ x \in events[c] /\ Lost(x)
      /\ next_deletion' = [next_deletion EXCEPT ![c] = next_deletion[c] \cup {x}]
      /\ events' = [events EXCEPT ![c] = events[c] \ {x}]
  BY DEF HearEnd, Lost, clientVars, netVars, poolVars
<1>u. Still
  BY <1>t, StillIf
<1>v. \A d \in Channels : Done(d)' = Done(d) /\ Low(d)' = Low(d)
  BY <1>t DEF Done, Low
<1>w. \A d \in Channels, y \in Clients : Live(d, y)' => Live(d, y)
  <2>1. \A d \in Channels : next_deletion[d] \subseteq next_deletion'[d]
    BY <1>a, <1>t DEF TickTypeOK
  <2> QED BY <1>t, <2>1 DEF Live, Lost, Open
<1>x. \A d \in Channels, y \in Clients : Upto(d, y)' = Upto(d, y)
  BY <1>t, <1>v DEF Upto
<1>y. \A d \in Channels : \A y \in todo[d] : y \in Clients
  BY <1>a DEF TickTypeOK
<1>s. TypeOK /\ Still /\ Settled /\ \A d \in Channels, y \in Clients : Live(d, y)' => Live(d, y) /\ Upto(d, y)' = Upto(d, y)
  BY <1>u, <1>v, <1>w, <1>x DEF Settled
<1>1. HomeInv(h)'
  <2>1. \A d \in Channels : \A e \in join_pool[d] : Received(e.who)' = Received(e.who)
    BY <1>a, <1>u DEF Still, PoolTypeOK, Entries
  <2>2. \A d \in Channels : events'[d] \cup next_deletion'[d]
                                 \subseteq members[d] \cup events[d] \cup next_deletion[d]
    BY <1>a, <1>t DEF TickTypeOK
  <2> QED BY <1>b, <1>t, <2>1, <2>2, HomeKept
<1>2. RefusedInv(h)'
  BY <1>b, <1>t DEF RefusedInv
<1>3. StreamInv(h, b)'
  BY <1>b, <1>s, StreamKept
<1>4. ReqInv(h)'
  BY <1>b, <1>t DEF ReqInv, Requests
<1>5. BookInv(h, b)'
  <2>1. \A m \in b : Known(h, m)'
    BY <1>b, <1>t DEF BookInv, Known
  <2>2. \A d \in Channels : cur_msgs'[d] = cur_msgs[d] \/ cur_msgs'[d] = <<>>
    BY <1>a, <1>t DEF TickTypeOK
  <2> QED BY <1>b, <1>t, <2>1, <2>2, BookKept
<1>6. TickInv'
  <2>1. \A y \in Clients : Lost(y)' = Lost(y)
    BY <1>t DEF Lost, Open
  <2>2. \A d \in Channels : members[d] \subseteq Clients /\ next_deletion[d] \subseteq Clients
    BY <1>a DEF PoolTypeOK, TickTypeOK
  <2> QED BY <1>a, <1>b, <1>t, <2>1, <2>2 DEF TickInv, TickTypeOK
<1>7. NumInv'
  BY <1>b, <1>t, NumKept
<1>8. WinInv(v)'
  BY <1>b, <1>s, <1>t, WinKept
<1>9. OrderInv(v)'
  BY <1>b, <1>t, OrderKept
<1>10. TodoInv'
  BY <1>b, <1>t, <1>u, <1>v, <1>y, TodoKept
<1>11. AnswerInv'
  BY <1>b, <1>t, <1>u, <1>w, AnswerKept
<1>12. GapInv'
  BY <1>b, <1>s, GapKept
<1> QED BY <1>1, <1>2, <1>3, <1>4, <1>5, <1>6, <1>7, <1>8, <1>9, <1>10, <1>11, <1>12 DEF Inv

\* A worker sends to somebody who is gone.
LEMMA SendLostKeeps ==
    ASSUME TypeOK, NEW h \in [Clients -> Channels \cup {None}], NEW b \in SUBSET Notices,
           NEW v \in [Channels -> [Nat -> Nat]], Inv(h, b, v), NEW c \in Channels, NEW x \in Clients, SendLost(c, x)
    PROVE  Inv(h, b, v)'
<1>a. ClientTypeOK /\ PoolTypeOK /\ TickTypeOK
  BY TypeParts
<1>b. /\ HomeInv(h) /\ RefusedInv(h) /\ StreamInv(h, b) /\ ReqInv(h) /\ BookInv(h, b)
      /\ TickInv /\ NumInv /\ WinInv(v) /\ OrderInv(v) /\ TodoInv /\ AnswerInv /\ GapInv
  BY DEF Inv
<1>t. /\ phase' = phase /\ said' = said /\ shown' = shown /\ unseen' = unseen
      /\ lobby' = lobby /\ closed' = closed
      /\ join_pool' = join_pool /\ leave_pool' = leave_pool /\ members' = members
      /\ req' = req
      /\ wire' = wire /\ mq' = mq /\ heard' = heard /\ events' = events
      /\ pc[c] = "send" /\ pc' = pc /\ cur_msgs' = cur_msgs /\ x \in todo[c] /\ Lost(x)
      /\ todo' = [todo EXCEPT ![c] = todo[c] \ {x}]
      /\ \/ next_deletion' = [next_deletion EXCEPT ![c] = next_deletion[c] \cup {x}]
         \/ next_deletion' = next_deletion
  BY DEF SendLost, Sending, Lost, clientVars, netVars, poolVars
<1>u. Still
  BY <1>t, StillIf
<1>v. \A d \in Channels : Done(d)' = Done(d) /\ Low(d)' = Low(d)
  BY <1>t DEF Done, Low
<1>w. \A d \in Channels, y \in Clients : Live(d, y)' => Live(d, y) /\ y # x
  <2>1. \A d \in Channels : next_deletion[d] \subseteq next_deletion'[d]
    BY <1>a, <1>t DEF TickTypeOK
  <2> QED BY <1>t, <2>1 DEF Live, Lost, Open
<1>x. \A d \in Channels, y \in Clients : y # x => Upto(d, y)' = Upto(d, y)
  <2>1. \A d \in Channels, y \in Clients : y # x => (y \in todo'[d] <=> y \in todo[d])
    BY <1>a, <1>t DEF TickTypeOK
  <2> QED BY <1>v, <2>1 DEF Upto
<1>p. \A d \in Channels : todo'[d] \subseteq todo[d] /\ \A y \in Clients : y # x => (y \in todo'[d] <=> y \in todo[d])
  BY <1>a, <1>t DEF TickTypeOK
<1>n. \A d \in Channels : \A y \in next_deletion'[d] : y \in next_deletion[d] \/ (d = c /\ y = x)
  <2>2. CASE next_deletion' = next_deletion
    BY <2>2
  <2>3. CASE next_deletion' = [next_deletion EXCEPT ![c] = next_deletion[c] \cup {x}]
    <3>1. \A d \in Channels : next_deletion'[d] = IF d = c THEN next_deletion[c] \cup {x} ELSE next_deletion[d]
      BY <1>a, <2>3 DEF TickTypeOK
    <3> QED BY <3>1
  <2> QED BY <1>t, <2>2, <2>3
<1>y. \A d \in Channels : \A y \in todo[d] : y \in Clients
  BY <1>a DEF TickTypeOK
<1>s. TypeOK /\ Still /\ Settled /\ \A d \in Channels, y \in Clients : Live(d, y)' => Live(d, y) /\ Upto(d, y)' = Upto(d, y)
  BY <1>u, <1>v, <1>w, <1>x DEF Settled
<1>1. HomeInv(h)'
  <2>1. \A d \in Channels : \A e \in join_pool[d] : Received(e.who)' = Received(e.who)
    BY <1>a, <1>u DEF Still, PoolTypeOK, Entries
  <2>2. \A d \in Channels : events'[d] \cup next_deletion'[d]
                                 \subseteq members[d] \cup events[d] \cup next_deletion[d]
    <3>1. x \in members[c]
      BY <1>b, <1>t DEF TickInv
    <3> QED BY <1>n, <1>t, <3>1
  <2> QED BY <1>b, <1>t, <2>1, <2>2, HomeKept
<1>2. RefusedInv(h)'
  BY <1>b, <1>t DEF RefusedInv
<1>3. StreamInv(h, b)'
  BY <1>b, <1>s, StreamKept
<1>4. ReqInv(h)'
  BY <1>b, <1>t DEF ReqInv, Requests
<1>5. BookInv(h, b)'
  <2>1. \A m \in b : Known(h, m)'
    BY <1>b, <1>t DEF BookInv, Known
  <2>2. \A d \in Channels : cur_msgs'[d] = cur_msgs[d] \/ cur_msgs'[d] = <<>>
    BY <1>a, <1>t DEF TickTypeOK
  <2> QED BY <1>b, <1>t, <2>1, <2>2, BookKept
<1>6. TickInv'
  <2>1. \A y \in Clients : Lost(y)' = Lost(y)
    BY <1>t DEF Lost, Open
  <2>2. ASSUME NEW d \in Channels
        PROVE  /\ pc[d] = "poll" => members[d] \cap next_deletion'[d] = {}
               /\ pc[d] = "events" =>
                      cur_msgs[d] = <<>> /\ \A y \in next_deletion'[d] : Lost(y)
               /\ pc[d] # "send" => todo'[d] = {}
               /\ todo'[d] \subseteq members[d]
               /\ \A y \in todo'[d] \cap next_deletion'[d] : Lost(y)
    <3>1. todo'[d] \subseteq todo[d] /\ \A y \in next_deletion'[d] : y \in next_deletion[d] \/ (d = c /\ y = x)
      BY <1>n, <1>p
    <3> QED BY <1>b, <1>t, <3>1 DEF TickInv
  <2>3. \A d \in Channels : \A y \in next_deletion'[d] : y \in Clients
    BY <1>a, <1>n DEF TickTypeOK
  <2> QED BY <1>t, <1>p, <1>y, <2>1, <2>2, <2>3 DEF TickInv
<1>7. NumInv'
  BY <1>b, <1>t, NumKept
<1>8. WinInv(v)'
  BY <1>b, <1>s, <1>t, WinKept
<1>9. OrderInv(v)'
  BY <1>b, <1>t, OrderKept
<1>10. TodoInv'
  <2>1. \A d \in Channels : \A y \in todo'[d] : y \in todo[d] /\ y \in Clients /\ Low(d)' = Low(d)
    BY <1>p, <1>v, <1>y
  <2> QED BY <1>b, <1>u, <2>1, TodoKept
<1>11. AnswerInv'
  <2>1. \A d \in Channels, y \in Clients : Live(d, y)' =>
            /\ Live(d, y)
            /\ y \in todo[d] => y \in todo'[d] /\ cur_msgs'[d] = cur_msgs[d]
    BY <1>p, <1>t, <1>w
  <2> QED BY <1>b, <1>u, <2>1, AnswerKept
<1>12. GapInv'
  BY <1>b, <1>s, GapKept
<1> QED BY <1>1, <1>2, <1>3, <1>4, <1>5, <1>6, <1>7, <1>8, <1>9, <1>10, <1>11, <1>12 DEF Inv

\* A worker sends the header of the window.
LEMMA SendHeadKeeps ==
    ASSUME TypeOK, NEW h \in [Clients -> Channels \cup {None}], NEW b \in SUBSET Notices,
           NEW v \in [Channels -> [Nat -> Nat]], Inv(h, b, v), NEW c \in Channels, NEW x \in Clients, SendHead(c, x)
    PROVE  Inv(h, b, v)'
<1>a. ClientTypeOK /\ PoolTypeOK /\ TickTypeOK
  BY TypeParts
<1>b. /\ HomeInv(h) /\ RefusedInv(h) /\ StreamInv(h, b) /\ ReqInv(h) /\ BookInv(h, b)
      /\ TickInv /\ NumInv /\ WinInv(v) /\ OrderInv(v) /\ TodoInv /\ AnswerInv /\ GapInv
  BY DEF Inv
<1>t. /\ phase' = phase /\ said' = said /\ shown' = shown /\ unseen' = unseen
      /\ lobby' = lobby /\ closed' = closed
      /\ join_pool' = join_pool /\ leave_pool' = leave_pool /\ members' = members
      /\ req' = req
      /\ mq' = mq /\ heard' = heard /\ events' = events /\ cur_msgs' = cur_msgs
      /\ pc[c] = "send" /\ pc' = pc /\ x \in todo[c] /\ phase[x] # "end" /\ Open(x)
      /\ next_deletion' = next_deletion
      /\ todo' = todo
      /\ wire' = [wire EXCEPT ![x] = Append(wire[x], [part |-> "head", win |-> cur_msgs[c]])]
  BY DEF SendHead, Sending, clientVars, netVars, poolVars
<1>m. x \in members[c] /\ h[x] = c
  BY <1>b, <1>t DEF TickInv, HomeInv
<1>o. /\ wire'[x] = Append(wire[x], [part |-> "head", win |-> cur_msgs[c]])
      /\ \A y \in Clients : y # x => shown'[y] = shown[y] /\ unseen'[y] = unseen[y] /\ wire'[y] = wire[y]
  BY <1>a, <1>t DEF ClientTypeOK
<1>q. wire[x] \in Seq(Sends) /\ shown[x] \in Screens /\ cur_msgs[c] \in Screens
  <2>1. cur_msgs[c] \in Seq(Notices)
    BY <1>a DEF TickTypeOK
  <2>2. cur_msgs[c] \in Screens
    BY <2>1, SetOfSeq DEF Screens
  <2> QED BY <2>2, StreamTyped
<1>k. \A w : Keeps(w, shown[x], unseen[x], wire[x], shown[x], unseen[x], wire'[x])
  BY <1>o, <1>q, HeadKeeps
<1>l. Received(x)' = Received(x)
  <2>1. Sent(shown'[x], unseen'[x], wire'[x]) = Sent(shown[x], unseen[x], wire[x])
    BY <1>k, <1>t DEF Keeps
  <2> QED BY <2>1, ReceivedIs
<1>u. Still
  BY <1>l, <1>o, StillBut
<1>i. \A y \in Clients : y # x => Received(y)' = Received(y)
  BY <1>u DEF Still
<1>v. \A d \in Channels : Done(d)' = Done(d) /\ Low(d)' = Low(d)
  BY <1>t DEF Done, Low
<1>w. \A d \in Channels, y \in Clients : Live(d, y)' => Live(d, y)
  BY <1>t DEF Live, Lost, Open
<1>x. \A d \in Channels, y \in Clients : Upto(d, y)' = Upto(d, y)
  BY <1>t, <1>v DEF Upto
<1>y. \A d \in Channels : \A y \in todo[d] : y \in Clients
  BY <1>a DEF TickTypeOK
<1>s. TypeOK /\ Still /\ Settled /\ \A d \in Channels, y \in Clients : Live(d, y)' => Live(d, y) /\ Upto(d, y)' = Upto(d, y)
  BY <1>u, <1>v, <1>w, <1>x DEF Settled
<1>1. HomeInv(h)'
  <2>1. \A d \in Channels : \A e \in join_pool[d] : Received(e.who)' = Received(e.who)
    <3>1. ASSUME NEW d \in Channels, NEW e \in join_pool[d] PROVE e.who # x /\ e.who \in Clients
      <4>1. Awaited(h, d, e) /\ e.who \in Clients
        BY <1>a, <1>b DEF HomeInv, PoolTypeOK, Entries
      <4> QED BY <1>m, <4>1 DEF Awaited
    <3> QED BY <1>i, <3>1
  <2>2. \A d \in Channels : events'[d] \cup next_deletion'[d]
                                 \subseteq members[d] \cup events[d] \cup next_deletion[d]
    BY <1>t
  <2>3. \A y \in Clients : phase'[y] = "start" \/ y \in lobby' => y # x
    <3>1. \A y \in Clients : phase[y] = "start" \/ y \in lobby => h[y] = None
      BY <1>b DEF HomeInv, Fresh
    <3> QED BY <1>m, <1>t, <3>1, NoneIsNone
  <2> QED BY <1>b, <1>o, <1>t, <2>1, <2>2, <2>3, HomeKept
<1>2. RefusedInv(h)'
  <2>1. \A y \in Clients : h[y] = None => y # x
    BY <1>m, NoneIsNone
  <2> QED BY <1>b, <1>o, <1>t, <2>1 DEF RefusedInv
<1>3. StreamInv(h, b)'
  BY <1>b, <1>s, StreamKept
<1>4. ReqInv(h)'
  BY <1>b, <1>t DEF ReqInv, Requests
<1>5. BookInv(h, b)'
  <2>1. \A m \in b : Known(h, m)'
    BY <1>b, <1>t DEF BookInv, Known
  <2>2. \A d \in Channels : cur_msgs'[d] = cur_msgs[d] \/ cur_msgs'[d] = <<>>
    BY <1>t
  <2> QED BY <1>b, <1>t, <2>1, <2>2, BookKept
<1>6. TickInv'
  <2>1. \A y \in Clients : Lost(y)' = Lost(y)
    BY <1>t DEF Lost, Open
  <2>2. \A d \in Channels : \A y \in next_deletion[d] : y \in Clients
    BY <1>a DEF TickTypeOK
  <2> QED BY <1>b, <1>t, <1>y, <2>1, <2>2 DEF TickInv
<1>7. NumInv'
  BY <1>b, <1>t, NumKept
<1>8. WinInv(v)'
  BY <1>b, <1>s, <1>t, WinKept
<1>9. OrderInv(v)'
  <2>1. Ordered(v, shown'[x], wire'[x])
    <3>1. Ordered(v, shown[x], wire[x])
      BY <1>b DEF OrderInv
    <3> QED BY <1>k, <1>t, <3>1 DEF Keeps
  <2> QED BY <1>b, <1>o, <2>1, StillBut
<1>10. TodoInv'
  BY <1>b, <1>t, <1>u, <1>v, <1>y, TodoKept
<1>11. AnswerInv'
  BY <1>b, <1>t, <1>u, <1>w, AnswerKept
<1>12. GapInv'
  BY <1>b, <1>s, GapKept
<1> QED BY <1>1, <1>2, <1>3, <1>4, <1>5, <1>6, <1>7, <1>8, <1>9, <1>10, <1>11, <1>12 DEF Inv

\* A worker sends the payload.
LEMMA SendBodyKeeps ==
    ASSUME TypeOK, NEW h \in [Clients -> Channels \cup {None}], NEW b \in SUBSET Notices,
           NEW v \in [Channels -> [Nat -> Nat]], Inv(h, b, v), NEW c \in Channels, NEW x \in Clients, SendBody(c, x)
    PROVE  Inv(h, b, v)'
<1>a. ClientTypeOK /\ PoolTypeOK /\ TickTypeOK
  BY TypeParts
<1>b. /\ HomeInv(h) /\ RefusedInv(h) /\ StreamInv(h, b) /\ ReqInv(h) /\ BookInv(h, b)
      /\ TickInv /\ NumInv /\ WinInv(v) /\ OrderInv(v) /\ TodoInv /\ AnswerInv /\ GapInv
  BY DEF Inv
<1>t. /\ phase' = phase /\ said' = said /\ shown' = shown /\ unseen' = unseen
      /\ lobby' = lobby /\ closed' = closed
      /\ join_pool' = join_pool /\ leave_pool' = leave_pool /\ members' = members
      /\ req' = req
      /\ mq' = mq /\ heard' = heard /\ events' = events /\ cur_msgs' = cur_msgs
      /\ pc[c] = "send" /\ pc' = pc /\ x \in todo[c] /\ phase[x] # "end" /\ Open(x)
      /\ next_deletion' = next_deletion
      /\ todo' = [todo EXCEPT ![c] = todo[c] \ {x}]
      /\ wire' = [wire EXCEPT ![x] = Append(wire[x], [part |-> "body", win |-> cur_msgs[c]])]
  BY DEF SendBody, Sending, clientVars, netVars, poolVars
<1>m. x \in members[c] /\ h[x] = c
  BY <1>b, <1>t DEF TickInv, HomeInv
<1>o. /\ wire'[x] = Append(wire[x], [part |-> "body", win |-> cur_msgs[c]])
      /\ \A y \in Clients : y # x => shown'[y] = shown[y] /\ unseen'[y] = unseen[y] /\ wire'[y] = wire[y]
  BY <1>a, <1>t DEF ClientTypeOK
<1>q. wire[x] \in Seq(Sends) /\ shown[x] \in Screens /\ cur_msgs[c] \in Screens
  <2>1. cur_msgs[c] \in Seq(Notices)
    BY <1>a DEF TickTypeOK
  <2>2. cur_msgs[c] \in Screens
    BY <2>1, SetOfSeq DEF Screens
  <2> QED BY <2>2, StreamTyped
<1>r. \A e : e \in Received(x)' <=> e \in Received(x) \/ Among(e, cur_msgs[c])
  <2>1. \A e : e \in Sent(shown[x], unseen[x], wire'[x])
            <=> e \in Sent(shown[x], unseen[x], wire[x]) \/ Among(e, cur_msgs[c])
    BY <1>o, <1>q, BodyAdds
  <2>2. Received(x) = Sent(shown[x], unseen[x], wire[x])
        /\ Received(x)' = Sent(shown[x], unseen[x], wire'[x])
    BY <1>t, ReceivedIs
  <2> QED BY <2>1, <2>2
<1>i. \A y \in Clients : y # x => Received(y)' = Received(y)
  <2>1. ASSUME NEW y \in Clients, y # x PROVE Received(y)' = Received(y)
    <3>1. shown'[y] = shown[y] /\ unseen'[y] = unseen[y] /\ wire'[y] = wire[y]
      BY <1>o, <2>1
    <3> QED BY <3>1, ReceivedIs
  <2> QED BY <2>1
<1>v. \A d \in Channels : Done(d)' = Done(d) /\ Low(d)' = Low(d)
  BY <1>t DEF Done, Low
<1>w. \A d \in Channels, y \in Clients : Live(d, y)' <=> Live(d, y)
  BY <1>t DEF Live, Lost, Open
<1>p. \A d \in Channels, y \in Clients : y \in todo'[d] <=> y \in todo[d] /\ (d # c \/ y # x)
  BY <1>a, <1>t DEF TickTypeOK
<1>x. \A d \in Channels, y \in Clients : y # x => Upto(d, y)' = Upto(d, y)
  BY <1>p, <1>v DEF Upto
<1>y. \A d \in Channels : \A y \in todo[d] : y \in Clients
  BY <1>a DEF TickTypeOK
<1>z. \A d \in Channels : todo'[d] \subseteq todo[d]
  BY <1>a, <1>t DEF TickTypeOK
<1>c. \A d \in Channels : x \in members[d] => d = c
  BY <1>b, <1>m DEF HomeInv
<1>d. /\ cur_msgs[c] \in Seq(Notices) /\ DOMAIN cur_msgs[c] = 1..Len(cur_msgs[c])
      /\ Done(c) \in Nat /\ Low(c) \in Nat /\ Low(c) <= Done(c)
      /\ Done(c) = Low(c) + Len(cur_msgs[c]) /\ Len(cur_msgs[c]) \in Nat
  BY <1>b, <1>t, DoneIs
<1>g. Done(c) \in Nat /\ Low(c) \in Nat /\ Low(c) <= Done(c)
  BY <1>d
<1>e. WindowIs(c)
  BY <1>b, <1>t DEF NumInv
<1>f. \A i \in DOMAIN cur_msgs[c] : /\ cur_msgs[c][i] \in Notices
                                     /\ cur_msgs[c][i].ch = c
                                     /\ cur_msgs[c][i].n \in (Low(c) + 1)..Done(c)
  BY <1>d, <1>e, ElementOfSeq DEF WindowIs
<1>1. HomeInv(h)'
  <2>1. \A d \in Channels : \A e \in join_pool[d] : Received(e.who)' = Received(e.who)
    <3>1. ASSUME NEW d \in Channels, NEW e \in join_pool[d] PROVE e.who # x /\ e.who \in Clients
      <4>1. Awaited(h, d, e) /\ e.who \in Clients
        BY <1>a, <1>b DEF HomeInv, PoolTypeOK, Entries
      <4> QED BY <1>m, <4>1 DEF Awaited
    <3> QED BY <1>i, <3>1
  <2>2. \A d \in Channels : events'[d] \cup next_deletion'[d]
                                 \subseteq members[d] \cup events[d] \cup next_deletion[d]
    BY <1>t
  <2>3. \A y \in Clients : phase'[y] = "start" \/ y \in lobby' => y # x
    <3>1. \A y \in Clients : phase[y] = "start" \/ y \in lobby => h[y] = None
      BY <1>b DEF HomeInv, Fresh
    <3> QED BY <1>m, <1>t, <3>1, NoneIsNone
  <2> QED BY <1>b, <1>o, <1>t, <2>1, <2>2, <2>3, HomeKept
<1>2. RefusedInv(h)'
  <2>1. \A y \in Clients : h[y] = None => y # x
    BY <1>m, NoneIsNone
  <2> QED BY <1>b, <1>o, <1>t, <2>1 DEF RefusedInv
<1>3. StreamInv(h, b)'
  <2>1. ASSUME NEW y \in Clients, NEW m \in Received(y)'
        PROVE  IF h[y] = None THEN m = Error
               ELSE m \in b /\ m.ch = h[y] /\ m.n <= Done(m.ch)'
    <3>1. m \in Received(y) => IF h[y] = None THEN m = Error
                               ELSE m \in b /\ m.ch = h[y] /\ m.n <= Done(m.ch)
      BY <1>b DEF StreamInv
    <3>2. CASE m \in Received(y)
      <4>1. h[y] # None => h[y] \in Channels
        OBVIOUS
      <4> QED BY <1>v, <3>1, <3>2, <4>1
    <3>3. CASE m \notin Received(y)
      <4>1. y = x /\ Among(m, cur_msgs[c])
        BY <1>i, <1>r, <2>1, <3>3
      <4>2. PICK i \in DOMAIN cur_msgs[c] : m = cur_msgs[c][i]
        BY <4>1 DEF Among
      <4>3. m \in b
        <5>1. m \in ToSet(cur_msgs[c])
          BY <4>2 DEF ToSet
        <5> QED BY <1>b, <5>1 DEF BookInv
      <4>4. m.ch = c /\ m.n <= Done(c)
        BY <1>f, <1>g, <4>2
      <4> QED BY <1>m, <1>v, <4>1, <4>3, <4>4, NoneIsNone
    <3> QED BY <3>2, <3>3
  <2> QED BY <2>1 DEF StreamInv
<1>4. ReqInv(h)'
  BY <1>b, <1>t DEF ReqInv, Requests
<1>5. BookInv(h, b)'
  <2>1. \A m \in b : Known(h, m)'
    BY <1>b, <1>t DEF BookInv, Known
  <2>2. \A d \in Channels : cur_msgs'[d] = cur_msgs[d] \/ cur_msgs'[d] = <<>>
    BY <1>t
  <2> QED BY <1>b, <1>t, <2>1, <2>2, BookKept
<1>6. TickInv'
  <2>1. \A y \in Clients : Lost(y)' = Lost(y)
    BY <1>t DEF Lost, Open
  <2>2. \A d \in Channels : \A y \in next_deletion[d] : y \in Clients
    BY <1>a DEF TickTypeOK
  <2> QED BY <1>b, <1>t, <1>y, <1>z, <2>1, <2>2 DEF TickInv
<1>7. NumInv'
  BY <1>b, <1>t, NumKept
<1>8. WinInv(v)'
  BY <1>b, <1>t, <1>v, WinKept DEF Settled
<1>9. OrderInv(v)'
  <2>1. Ordered(v, shown[x], wire[x])
    BY <1>b DEF OrderInv
  <2>2. \A n \in (Low(c) + 1)..Done(c) : v[c][n] = Done(c)
    BY <1>b, <1>t DEF WinInv
  <2>3. \A i, j \in DOMAIN cur_msgs[c] : i < j => Precedes(v, cur_msgs[c][i], cur_msgs[c][j])
    <3>1. Chain(cur_msgs[c])
      BY <1>e DEF WindowIs
    <3>2. \A i \in DOMAIN cur_msgs[c] : v[cur_msgs[c][i].ch][cur_msgs[c][i].n] = Done(c)
      BY <1>f, <2>2
    <3> QED BY <3>1, <3>2 DEF Chain, Precedes
  <2>4. ASSUME NEW e \in Received(x), NEW j \in DOMAIN cur_msgs[c] PROVE Precedes(v, e, cur_msgs[c][j])
    <3>1. e \in b /\ e.ch = c /\ e.n \in Nat
      BY <1>b, <1>m, NoneIsNone DEF StreamInv, Notices
    <3>2. e.n <= Low(c)
      BY <1>b, <1>t DEF TodoInv
    <3>3. e.n \in 1..heard[c]
      BY <1>b, <3>1 DEF BookInv, Known
    <3>4. e.n \in 1..Low(c)
      BY <1>d, <3>2, <3>3
    <3>5. v[c][e.n] <= Low(c)
      BY <1>b, <1>t, <3>4 DEF WinInv
    <3>6. v[c][e.n] \in Nat
      BY <3>1
    <3>7. v[cur_msgs[c][j].ch][cur_msgs[c][j].n] = Done(c) /\ cur_msgs[c][j].n \in (Low(c) + 1)..Done(c)
      BY <1>f, <2>2
    <3>8. Low(c) < Done(c)
      BY <1>g, <3>7
    <3>9. v[c][e.n] < Done(c)
      BY <1>g, <3>5, <3>6, <3>8
    <3> QED BY <3>1, <3>7, <3>9 DEF Precedes
  <2>5. Ordered(v, shown[x], wire'[x])
    <3>1. Received(x) = Sent(shown[x], unseen[x], wire[x])
      BY ReceivedIs
    <3>2. \A e \in Sent(shown[x], unseen[x], wire[x]) : \A j \in DOMAIN cur_msgs[c] :
              Precedes(v, e, cur_msgs[c][j])
      BY <2>4, <3>1
    <3> QED BY <1>o, <1>q, <2>1, <2>3, <3>2, BodyAdds
  <2> QED BY <1>b, <1>o, <1>t, <2>5, StillBut
<1>10. TodoInv'
  <2>1. ASSUME NEW d \in Channels, NEW y \in todo'[d], NEW m \in Received(y)'
        PROVE  m.n <= Low(d)'
    <3>1. y \in todo[d] /\ y \in Clients /\ (d # c \/ y # x)
      BY <1>p, <1>y, <1>z, <2>1
    <3>2. y # x
      <4>1. y \in members[d]
        BY <1>b, <3>1 DEF TickInv
      <4> QED BY <1>c, <3>1, <4>1
    <3>3. Received(y)' = Received(y)
      BY <1>i, <3>1, <3>2
    <3> QED BY <1>b, <1>v, <2>1, <3>1, <3>3 DEF TodoInv
  <2> QED BY <2>1 DEF TodoInv
<1>11. AnswerInv'
  <2>1. ASSUME NEW d \in Channels, NEW y \in Clients, Live(d, y)'
        PROVE  \/ \E m \in Received(y)' : IsJoinOf(m, y)
               \/ y \in todo'[d] /\ \E i \in DOMAIN cur_msgs[d] : IsJoinOf(cur_msgs[d][i], y)
    <3>1. \/ \E m \in Received(y) : IsJoinOf(m, y)
          \/ y \in todo[d] /\ \E i \in DOMAIN cur_msgs[d] : IsJoinOf(cur_msgs[d][i], y)
      BY <1>b, <1>w, <2>1 DEF AnswerInv
    <3>2. CASE y # x
      BY <1>i, <1>p, <3>1, <3>2
    <3>3. CASE y = x
      <4>1. d = c
        BY <1>c, <1>w, <2>1, <3>3 DEF Live
      <4>2. \A i \in DOMAIN cur_msgs[c] : cur_msgs[c][i] \in Received(x)'
        BY <1>r DEF Among
      <4> QED BY <1>r, <3>1, <3>3, <4>1, <4>2
    <3> QED BY <3>2, <3>3
  <2>2. cur_msgs' = cur_msgs
    BY <1>t
  <2>3. \A m, y : IsJoinOf(m, y)' = IsJoinOf(m, y)
    BY DEF IsJoinOf, IsJoin
  <2> QED BY <2>1, <2>2, <2>3 DEF AnswerInv, IsJoinOf, IsJoin
<1>12. GapInv'
  <2>1. Live(c, x)
    BY <1>b, <1>m, <1>t DEF Live, Lost, TickInv
  <2>2. PICK lo \in Nat : lo <= Low(c) /\ Numbers(x) = (lo + 1)..Low(c)
    <3>1. Upto(c, x) = Low(c)
      BY <1>t DEF Upto
    <3> QED BY <1>b, <2>1, <3>1 DEF GapInv
  <2>3. Numbers(x)' = (lo + 1)..Done(c)
    <3>1. \A i \in DOMAIN cur_msgs[c] : ~IsError(cur_msgs[c][i])
      BY <1>f, ErrorIsNone
    <3>2. ASSUME NEW n \in Numbers(x)' PROVE n \in (lo + 1)..Done(c)
      <4>1. PICK m : m \in Received(x)' /\ ~IsError(m) /\ m.n = n
        BY <3>2 DEF Numbers, IsError
      <4>2. CASE m \in Received(x)
        <5>1. n \in (lo + 1)..Low(c)
          BY <2>2, <4>1, <4>2 DEF Numbers
        <5> QED BY <1>g, <2>2, <5>1
      <4>3. CASE Among(m, cur_msgs[c])
        <5>1. n \in (Low(c) + 1)..Done(c)
          BY <1>f, <4>1, <4>3 DEF Among
        <5> QED BY <1>d, <2>2, <5>1
      <4> QED BY <1>r, <4>1, <4>2, <4>3
    <3>3. ASSUME NEW n \in (lo + 1)..Done(c) PROVE n \in Numbers(x)'
      <4>1. PICK m : m \in Received(x)' /\ ~IsError(m) /\ m.n = n
        <5>1. CASE n <= Low(c)
          <6>1. n \in Numbers(x)
            BY <1>d, <2>2, <3>3, <5>1
          <6> QED BY <1>r, <6>1 DEF Numbers
        <5>2. CASE n > Low(c)
          <6>1. n \in (Low(c) + 1)..Done(c)
            BY <1>d, <2>2, <3>3, <5>2
          <6>2. PICK i \in DOMAIN cur_msgs[c] : cur_msgs[c][i].n = n
            BY <1>e, <6>1 DEF WindowIs
          <6> QED BY <1>r, <3>1, <6>2 DEF Among
        <5> QED BY <1>d, <2>2, <3>3, <5>1, <5>2
      <4> QED BY <4>1 DEF Numbers, IsError
    <3> QED BY <3>2, <3>3
  <2>4. \A y \in Clients : y # x => Numbers(y)' = Numbers(y)
    BY <1>i, NumbersKept
  <2>5. ASSUME NEW y \in Clients PROVE \E l, k \in Nat : Numbers(y)' = (l + 1)..k
    <3>1. CASE y = x
      BY <1>d, <2>3, <3>1
    <3>2. CASE y # x
      BY <1>b, <2>4, <3>2 DEF GapInv
    <3> QED BY <3>1, <3>2
  <2>6. ASSUME NEW d \in Channels, NEW y \in Clients, Live(d, y)'
        PROVE  \E l \in Nat : l <= Upto(d, y)' /\ Numbers(y)' = (l + 1)..Upto(d, y)'
    <3>1. CASE y = x
      <4>1. d = c
        BY <1>c, <1>w, <2>6, <3>1 DEF Live
      <4>2. Upto(c, x)' = Done(c)
        <5>1. x \notin todo'[c]
          BY <1>p
        <5> QED BY <1>v, <5>1 DEF Upto
      <4>3. lo <= Done(c)
        BY <1>g, <2>2
      <4> QED BY <2>3, <3>1, <4>1, <4>2, <4>3
    <3>2. CASE y # x
      <4>1. Upto(d, y)' = Upto(d, y) /\ Numbers(y)' = Numbers(y) /\ Live(d, y)
        BY <1>w, <1>x, <2>4, <2>6, <3>2
      <4> QED BY <1>b, <4>1 DEF GapInv
    <3> QED BY <3>1, <3>2
  <2> QED BY <2>5, <2>6 DEF GapInv
<1> QED BY <1>1, <1>2, <1>3, <1>4, <1>5, <1>6, <1>7, <1>8, <1>9, <1>10, <1>11, <1>12 DEF Inv

\* The notices q have been put behind those that channel c has not yet worked off.
Adds(c, q) ==
    /\ \A d \in Channels : d # c => mq'[d] = mq[d] /\ heard'[d] = heard[d]
    /\ heard'[c] = heard[c] + Len(q) /\ Len(mq'[c]) = Len(mq[c]) + Len(q)
    /\ mq'[c] \in Seq(Notices)
    /\ \A i \in 1..Len(mq[c]) : mq'[c][i] = mq[c][i]
    /\ \A i \in 1..Len(q) : mq'[c][Len(mq[c]) + i] = q[i]

\* They bear the next numbers.
Follow(c, q) == \A i \in 1..Len(q) : q[i].ch = c /\ q[i].n = heard[c] + i

\* The notices q say what s says.
Says(q, s) ==
    /\ Len(q) = Len(s)
    /\ \A i \in 1..Len(s) : q[i].type = s[i].type /\ q[i].from = s[i].from /\ q[i].k = s[i].k

\* A push adds notices that follow and say what was heard.
LEMMA PushAdds ==
    ASSUME TickTypeOK, NEW c \in Channels, NEW s \in Seq(Heard), Push(c, s)
    PROVE  \E q \in Seq(Notices) : Adds(c, q) /\ Follow(c, q) /\ Says(q, s)
<1>1. heard[c] \in Nat
  BY DEF TickTypeOK
<1>2. PICK q \in Seq(Notices) :
          /\ q = Numbered(c, s) /\ Len(q) = Len(s)
          /\ \A i \in 1..Len(s) :
                 q[i] = [ch |-> c, n |-> heard[c] + i, type |-> s[i].type,
                         from |-> s[i].from, k |-> s[i].k, stamp |-> s[i].stamp]
  BY <1>1, NumberedIs
<1>3. Adds(c, q)
  <2>1. /\ mq' \in [Channels -> Seq(Notices)]
        /\ \A d \in Channels \ {c} : mq'[d] = mq[d] /\ heard'[d] = heard[d]
        /\ heard'[c] = heard[c] + Len(s) /\ Len(mq'[c]) = Len(mq[c]) + Len(s)
        /\ \A i \in 1..Len(mq[c]) : mq'[c][i] = mq[c][i]
        /\ \A i \in 1..Len(s) : mq'[c][Len(mq[c]) + i] = Numbered(c, s)[i]
    BY PushIs
  <2>2. mq'[c] \in Seq(Notices)
    BY <2>1
  <2>3. \A d \in Channels : d # c => mq'[d] = mq[d] /\ heard'[d] = heard[d]
    BY <2>1
  <2>4. \A i \in 1..Len(q) : mq'[c][Len(mq[c]) + i] = q[i]
    BY <1>2, <2>1
  <2>5. heard'[c] = heard[c] + Len(q) /\ Len(mq'[c]) = Len(mq[c]) + Len(q)
    BY <1>2, <2>1
  <2> QED BY <2>1, <2>2, <2>3, <2>4, <2>5 DEF Adds
<1>4. ASSUME NEW i \in 1..Len(s)
      PROVE  /\ q[i].ch = c /\ q[i].n = heard[c] + i
             /\ q[i].type = s[i].type /\ q[i].from = s[i].from /\ q[i].k = s[i].k
  <2>1. q[i] = [ch |-> c, n |-> heard[c] + i, type |-> s[i].type,
                from |-> s[i].from, k |-> s[i].k, stamp |-> s[i].stamp]
    BY <1>2
  <2> QED BY <2>1
<1>5. Follow(c, q)
  BY <1>2, <1>4 DEF Follow
<1>6. Says(q, s)
  BY <1>2, <1>4 DEF Says
<1> QED BY <1>3, <1>5, <1>6

\* Then the queue stays numbered, and no window has changed.
LEMMA AddsKeeps ==
    ASSUME TypeOK, NumInv, NEW c \in Channels, NEW q \in Seq(Notices), Adds(c, q), Follow(c, q),
           \A d \in Channels :
               pc'[d] = "send" => pc[d] = "send" /\ cur_msgs'[d] = cur_msgs[d]
    PROVE  /\ NumInv' /\ Settled
           /\ \A d \in Channels : cur_msgs'[d] = cur_msgs[d] => Low(d)' = Low(d)
<1>1. PICK l \in Nat, k \in Nat : l = Len(mq[c]) /\ k = Len(q)
  BY DoneIs, LenProperties
<1>2. heard[c] \in Nat /\ Done(c) \in Nat /\ heard[c] = Done(c) + l /\ DOMAIN mq[c] = 1..l
  BY <1>1, DoneIs
<1>3. heard'[c] = heard[c] + k /\ Len(mq'[c]) = l + k /\ DOMAIN mq'[c] = 1..(l + k)
  <2>1. heard'[c] = heard[c] + k /\ Len(mq'[c]) = l + k /\ mq'[c] \in Seq(Notices)
    BY <1>1 DEF Adds
  <2> QED BY <2>1, LenProperties
<1>4. Done(c)' = Done(c)
  <2>1. heard[c] \in Nat /\ heard'[c] = heard[c] + k /\ Len(mq'[c]) = l + k /\ Len(mq[c]) = l
    BY <1>1, <1>2, <1>3
  <2>2. PICK e \in Nat : e = heard[c]
    BY <2>1
  <2>3. (e + k) - (l + k) = e - l
    OBVIOUS
  <2> QED BY <2>1, <2>2, <2>3 DEF Done
<1>5. \A d \in Channels : d # c => mq'[d] = mq[d] /\ heard'[d] = heard[d]
  BY DEF Adds
<1>6. Settled
  BY <1>4, <1>5 DEF Settled, Done
<1>7. \A d \in Channels : cur_msgs'[d] = cur_msgs[d] => Low(d)' = Low(d)
  BY <1>6 DEF Settled, Low
<1>8. QueueInv(c)'
  <2>1. Len(mq'[c]) <= heard'[c]
    BY <1>1, <1>2, <1>3
  <2>2. ASSUME NEW i \in 1..(l + k) PROVE mq'[c][i].ch = c /\ mq'[c][i].n = Done(c) + i
    <3>1. CASE i \in 1..l
      <4>1. mq'[c][i] = mq[c][i]
        BY <1>1, <3>1 DEF Adds
      <4> QED BY <1>2, <3>1, <4>1 DEF NumInv, QueueInv
    <3>2. CASE i \notin 1..l
      <4>1. PICK j \in 1..k : i = l + j
        <5>1. i - l \in 1..k /\ i = l + (i - l)
          BY <1>1, <2>2, <3>2
        <5> QED BY <5>1
      <4>2. mq'[c][i] = q[j]
        BY <1>1, <4>1 DEF Adds
      <4>3. q[j].ch = c /\ q[j].n = heard[c] + j
        BY <1>1 DEF Follow
      <4>4. heard[c] + j = Done(c) + i
        BY <1>1, <1>2, <4>1
      <4> QED BY <4>2, <4>3, <4>4
    <3> QED BY <3>1, <3>2
  <2> QED BY <1>3, <1>4, <2>1, <2>2 DEF QueueInv
<1>9. ASSUME NEW d \in Channels PROVE QueueInv(d)' /\ (pc'[d] = "send" => WindowIs(d)')
  <2>1. QueueInv(d)'
    <3>1. QueueInv(d)
      BY DEF NumInv
    <3>2. CASE d = c
      BY <1>8, <3>2
    <3>3. CASE d # c
      <4>1. mq'[d] = mq[d] /\ heard'[d] = heard[d] /\ Done(d)' = Done(d)
        BY <1>5, <1>6, <3>3 DEF Settled
      <4> QED BY <3>1, <4>1 DEF QueueInv
    <3> QED BY <3>2, <3>3
  <2>2. ASSUME pc'[d] = "send" PROVE WindowIs(d)'
    <3>1. WindowIs(d) /\ cur_msgs'[d] = cur_msgs[d]
      BY <2>2 DEF NumInv
    <3>2. Done(d)' = Done(d) /\ Low(d)' = Low(d)
      BY <1>6, <1>7, <3>1 DEF Settled
    <3> QED BY <3>1, <3>2 DEF WindowIs
  <2> QED BY <2>1, <2>2
<1> QED BY <1>6, <1>7, <1>9 DEF NumInv

\* After it what is in the queues was there or has been added.
LEMMA AddsNotices ==
    ASSUME TypeOK, NEW c \in Channels, NEW q \in Seq(Notices), Adds(c, q),
           NEW b \in SUBSET Notices, NEW h, BookInv(h, b)
    PROVE  \A d \in Channels : ToSet(mq[d])' \subseteq b \cup ToSet(q)
<1>1. ASSUME NEW d \in Channels, NEW m \in ToSet(mq[d])' PROVE m \in b \cup ToSet(q)
  <2>0. ToSet(mq[d]) \subseteq b
    BY DEF BookInv
  <2>1. CASE d # c
    BY <1>1, <2>0, <2>1 DEF Adds, ToSet
  <2>2. CASE d = c
    <3>1. PICK l \in Nat, k \in Nat : /\ l = Len(mq[c]) /\ k = Len(q) /\ mq[c] \in Seq(Notices)
                                      /\ DOMAIN mq[c] = 1..l /\ DOMAIN q = 1..k
      <4>1. mq[c] \in Seq(Notices)
        BY TypeParts DEF TickTypeOK
      <4> QED BY <4>1, LenProperties
    <3>2. Len(mq'[c]) = l + k /\ mq'[c] \in Seq(Notices) /\ DOMAIN mq'[c] = 1..(l + k)
      <4>1. Len(mq'[c]) = l + k /\ mq'[c] \in Seq(Notices)
        BY <3>1 DEF Adds
      <4> QED BY <4>1, LenProperties
    <3>3. PICK i \in 1..(l + k) : m = mq'[c][i]
      BY <1>1, <2>2, <3>2 DEF ToSet
    <3>4. CASE i \in 1..l
      <4>1. m = mq[c][i]
        BY <3>1, <3>3, <3>4 DEF Adds
      <4> QED BY <2>0, <2>2, <3>1, <3>4, <4>1 DEF ToSet
    <3>5. CASE i \notin 1..l
      <4>1. PICK j \in 1..k : i = l + j
        <5>1. i - l \in 1..k /\ i = l + (i - l)
          BY <3>1, <3>3, <3>5
        <5> QED BY <5>1
      <4>2. m = q[j]
        BY <3>1, <3>3, <4>1 DEF Adds
      <4> QED BY <3>1, <4>2 DEF ToSet
    <3> QED BY <3>4, <3>5
  <2> QED BY <2>1, <2>2
<1> QED BY <1>1

\* The notices a are known, and in order.
Booked(h, a) == (\A m \in a : Known(h, m)) /\ \A m, p \in a : SaidInOrder(m, p)

\* Notices about comings and goings are known as the others are.
LEMMA BookAdded ==
    ASSUME NEW h, NEW b \in SUBSET Notices, BookInv(h, b), TypeOK,
           NEW c \in Channels, NEW q \in Seq(Notices), Follow(c, q), req' = req, said' = said,
           \A d \in Channels : heard'[d] = IF d = c THEN heard[c] + Len(q) ELSE heard[d],
           \A i \in 1..Len(q) : q[i].type # "user" /\ h[q[i].from] = c
    PROVE  Booked(h, b \cup ToSet(q))'
<1>1. PICK l \in Nat : l = Len(q) /\ DOMAIN q = 1..l
  BY LenProperties
<1>2. heard \in [Channels -> Nat] /\ \A d \in Channels : heard[d] <= heard'[d] /\ heard'[d] \in Nat
  <2>1. heard \in [Channels -> Nat]
    BY TypeParts DEF TickTypeOK
  <2> QED BY <1>1, <2>1
<1>3. ASSUME NEW m \in b PROVE Known(h, m)'
  <2>1. Known(h, m) /\ m.ch \in Channels /\ m.n \in Nat
    BY DEF BookInv, Notices
  <2>2. m.n \in 1..heard'[m.ch]
    BY <1>2, <2>1 DEF Known
  <2> QED BY <2>1, <2>2 DEF Known
<1>4. ASSUME NEW m \in ToSet(q)
      PROVE  m.type # "user" /\ m.ch = c /\ h[m.from] = c /\ m.n \in 1..heard'[c]
  <2>1. PICK i \in 1..l : m = q[i]
    BY <1>1 DEF ToSet
  <2>2. m.n = heard[c] + i
    BY <1>1, <2>1 DEF Follow
  <2> QED BY <1>1, <1>2, <2>1, <2>2 DEF Follow
<1>5. \A m \in ToSet(q) : Known(h, m)'
  BY <1>4 DEF Known
<1>6. \A m, p \in b \cup ToSet(q) : SaidInOrder(m, p)
  BY <1>4 DEF BookInv, SaidInOrder
<1> QED BY <1>3, <1>5, <1>6 DEF Booked, SaidInOrder

\* A worker closes those it has given up.
LEMMA DeleteKeeps ==
    ASSUME TypeOK, NEW h \in [Clients -> Channels \cup {None}], NEW b \in SUBSET Notices,
           NEW v \in [Channels -> [Nat -> Nat]], Inv(h, b, v), NEW c \in Channels, Delete(c)
    PROVE  \E a \in SUBSET Notices : Inv(h, a, v)'
<1>a. ClientTypeOK /\ PoolTypeOK /\ TickTypeOK
  BY TypeParts
<1>b. /\ HomeInv(h) /\ RefusedInv(h) /\ StreamInv(h, b) /\ ReqInv(h) /\ BookInv(h, b)
      /\ TickInv /\ NumInv /\ WinInv(v) /\ OrderInv(v) /\ TodoInv /\ AnswerInv /\ GapInv
  BY DEF Inv
<1>t. /\ phase' = phase /\ said' = said /\ shown' = shown /\ unseen' = unseen
      /\ lobby' = lobby /\ req' = req /\ wire' = wire
      /\ join_pool' = join_pool /\ leave_pool' = leave_pool /\ events' = events
      /\ cur_msgs' = cur_msgs /\ todo' = todo /\ next_deletion' = next_deletion
      /\ pc[c] = "send" /\ pc' = [pc EXCEPT ![c] = "poll"] /\ todo[c] = {}
      /\ members' = [members EXCEPT ![c] = members[c] \ next_deletion[c]]
      /\ closed' = closed \cup next_deletion[c]
  BY DEF Delete, clientVars
<1>c. PICK s \in Seq(Heard) : /\ Push(c, s)
                              /\ \A i \in 1..Len(s) : s[i].type = "leave" /\ s[i].from \in next_deletion[c]
  <2>1. PICK p \in Seq(Entries) :
            /\ Push(c, [i \in DOMAIN p |-> System("leave", p[i])])
            /\ \A i \in 1..Len(p) : p[i].who \in next_deletion[c]
    BY DeleteIs
  <2>2. PICK s \in Seq(Heard) :
            /\ s = [i \in DOMAIN p |-> System("leave", p[i])] /\ Len(s) = Len(p)
            /\ \A i \in 1..Len(p) : s[i] = System("leave", p[i])
    BY SystemIs
  <2>3. \A i \in 1..Len(s) : s[i].type = "leave" /\ s[i].from = p[i].who
    BY <2>2 DEF System
  <2> QED BY <2>1, <2>2, <2>3
<1>d. PICK q \in Seq(Notices) : Adds(c, q) /\ Follow(c, q) /\ Says(q, s)
  BY <1>a, <1>c, PushAdds
<1>e. PICK a \in SUBSET Notices : a = b \cup ToSet(q)
  BY SetOfSeq
<1>f. \A d \in Channels : heard'[d] = IF d = c THEN heard[c] + Len(q) ELSE heard[d]
  BY <1>d DEF Adds
<1>g. \A i \in 1..Len(q) : q[i].type # "user" /\ h[q[i].from] = c
  <2>1. \A x \in next_deletion[c] : h[x] = c
    BY <1>b DEF HomeInv
  <2> QED BY <1>c, <1>d, <2>1 DEF Says
<1>h. Booked(h, b \cup ToSet(q))'
  BY <1>b, <1>d, <1>f, <1>g, <1>t, BookAdded
<1>i. \A d \in Channels : d # c => members'[d] = members[d] /\ pc'[d] = pc[d]
  BY <1>a, <1>t DEF PoolTypeOK, TickTypeOK
<1>j. members'[c] = members[c] \ next_deletion[c] /\ pc'[c] = "poll"
  BY <1>a, <1>t DEF PoolTypeOK, TickTypeOK
<1>p. \A d \in Channels : pc'[d] = "send" => pc[d] = "send" /\ cur_msgs'[d] = cur_msgs[d]
  BY <1>i, <1>j, <1>t
<1>u. Still
  BY <1>t, StillIf
<1>v. Settled /\ NumInv' /\ \A d \in Channels : Low(d)' = Low(d)
  BY <1>b, <1>d, <1>p, <1>t, AddsKeeps
<1>w. \A d \in Channels, y \in Clients : Live(d, y)' => Live(d, y)
  BY <1>i, <1>j, <1>t DEF Live, Lost, Open
<1>x. \A d \in Channels, y \in Clients : Upto(d, y)' = Upto(d, y)
  BY <1>t, <1>v DEF Upto, Settled
<1>y. \A d \in Channels : \A y \in todo[d] : y \in Clients
  BY <1>a DEF TickTypeOK
<1>s. TypeOK /\ Still /\ Settled /\ \A d \in Channels, y \in Clients : Live(d, y)' => Live(d, y) /\ Upto(d, y)' = Upto(d, y)
  BY <1>u, <1>v, <1>w, <1>x
<1>1. HomeInv(h)'
  <2>1. \A d \in Channels : \A e \in join_pool[d] : Received(e.who)' = Received(e.who)
    BY <1>a, <1>u DEF Still, PoolTypeOK, Entries
  <2>2. \A d \in Channels : /\ members'[d] \subseteq members[d]
                             /\ events'[d] \cup next_deletion'[d]
                                    \subseteq members[d] \cup events[d] \cup next_deletion[d]
    BY <1>i, <1>j, <1>t
  <2> QED BY <1>b, <1>t, <2>1, <2>2, HomeKept
<1>2. RefusedInv(h)'
  BY <1>b, <1>t DEF RefusedInv
<1>3. StreamInv(h, a)'
  BY <1>b, <1>e, <1>s, StreamKept
<1>4. ReqInv(h)'
  BY <1>b, <1>t DEF ReqInv, Requests
<1>5. BookInv(h, a)'
  <2>1. \A m \in a : Known(h, m)'
    BY <1>h, <1>e DEF Booked
  <2>2. \A m, p \in a : SaidInOrder(m, p)
    BY <1>h, <1>e DEF Booked, SaidInOrder
  <2>3. \A d \in Channels : ToSet(mq[d])' \subseteq a
    BY <1>b, <1>d, <1>e, AddsNotices
  <2>4. \A d \in Channels : ToSet(cur_msgs[d])' \subseteq a
    BY <1>b, <1>e, <1>t DEF BookInv, ToSet
  <2>5. \A m, p : SaidInOrder(m, p)' = SaidInOrder(m, p)
    BY DEF SaidInOrder
  <2> QED BY <2>1, <2>2, <2>3, <2>4, <2>5 DEF BookInv
<1>6. TickInv'
  <2>1. \A y \in Clients : Lost(y) => Lost(y)'
    BY <1>t DEF Lost, Open
  <2>2. ASSUME NEW d \in Channels
        PROVE  /\ pc'[d] = "poll" => members'[d] \cap next_deletion[d] = {}
               /\ pc'[d] = "events" =>
                      cur_msgs[d] = <<>> /\ \A y \in next_deletion[d] : Lost(y)
               /\ pc'[d] # "send" => todo[d] = {}
               /\ todo[d] \subseteq members'[d]
               /\ \A y \in todo[d] \cap next_deletion[d] : Lost(y)
    <3>1. CASE d = c
      BY <1>j, <1>t, <3>1
    <3>2. CASE d # c
      BY <1>b, <1>i, <3>2 DEF TickInv
    <3> QED BY <3>1, <3>2
  <2>3. \A d \in Channels : \A y \in next_deletion[d] : y \in Clients
    BY <1>a DEF TickTypeOK
  <2> QED BY <1>t, <1>y, <2>1, <2>2, <2>3 DEF TickInv
<1>7. NumInv'
  BY <1>v
<1>8. WinInv(v)'
  BY <1>b, <1>p, <1>v, WinKept
<1>9. OrderInv(v)'
  BY <1>b, <1>t, OrderKept
<1>10. TodoInv'
  BY <1>b, <1>t, <1>u, <1>v, <1>y, TodoKept
<1>11. AnswerInv'
  BY <1>b, <1>t, <1>u, <1>w, AnswerKept
<1>12. GapInv'
  BY <1>b, <1>s, GapKept
<1> QED BY <1>1, <1>2, <1>3, <1>4, <1>5, <1>6, <1>7, <1>8, <1>9, <1>10, <1>11, <1>12 DEF Inv

\* A worker hears what a client has sent.
LEMMA HearKeeps ==
    ASSUME TypeOK, NEW h \in [Clients -> Channels \cup {None}], NEW b \in SUBSET Notices,
           NEW v \in [Channels -> [Nat -> Nat]], Inv(h, b, v), NEW c \in Channels, NEW x \in Clients, Hear(c, x)
    PROVE  \E a \in SUBSET Notices : Inv(h, a, v)'
<1>a. ClientTypeOK /\ PoolTypeOK /\ TickTypeOK
  BY TypeParts
<1>b. /\ HomeInv(h) /\ RefusedInv(h) /\ StreamInv(h, b) /\ ReqInv(h) /\ BookInv(h, b)
      /\ TickInv /\ NumInv /\ WinInv(v) /\ OrderInv(v) /\ TodoInv /\ AnswerInv /\ GapInv
  BY DEF Inv
<1>t. /\ phase' = phase /\ said' = said /\ shown' = shown /\ unseen' = unseen
      /\ lobby' = lobby /\ closed' = closed
      /\ join_pool' = join_pool /\ leave_pool' = leave_pool /\ members' = members
      /\ wire' = wire /\ pc' = pc /\ cur_msgs' = cur_msgs /\ todo' = todo
      /\ next_deletion' = next_deletion
      /\ events' = [events EXCEPT ![c] = events[c] \ {x}] /\ x \in events[c]
  BY DEF Hear, clientVars, poolVars
<1>m. h[x] = c
  BY <1>b, <1>t DEF HomeInv
<1>c. PICK f \in DOMAIN req[x] :
          /\ req' = [req EXCEPT ![x] = SubSeq(req[x], f + 1, Len(req[x]))]
          /\ Push(c, MessagesIn(x, SubSeq(req[x], 1, f)))
  BY DEF Hear
<1>k. PICK s \in Seq(Heard) :
          /\ s = MessagesIn(x, SubSeq(req[x], 1, f)) /\ Len(s) = f
          /\ \A i \in 1..f : s[i].type = "user" /\ s[i].from = x /\ s[i].k = req[x][i].k
  <2>1. PICK r \in Seq(Frames) :
            /\ r = SubSeq(req[x], 1, f) /\ Len(r) = f
            /\ \A i \in 1..f : i \in 1..Len(req[x]) /\ r[i] = req[x][i]
    <3>1. /\ SubSeq(req[x], 1, f) \in Seq(Frames) /\ Len(SubSeq(req[x], 1, f)) = f
          /\ \A i \in 1..f : i \in 1..Len(req[x]) /\ SubSeq(req[x], 1, f)[i] = req[x][i]
      BY <1>a, ReqRest
    <3>2. PICK r : r = SubSeq(req[x], 1, f)
      OBVIOUS
    <3>3. r \in Seq(Frames)
      BY <3>1, <3>2
    <3>4. Len(r) = f
      BY <3>1, <3>2
    <3>5. \A i \in 1..f : i \in 1..Len(req[x]) /\ r[i] = req[x][i]
      BY <3>1, <3>2
    <3> QED BY <3>2, <3>3, <3>4, <3>5
  <2>2. DOMAIN req[x] = 1..Len(req[x])
    BY <1>a, LenProperties DEF ClientTypeOK
  <2>3. ASSUME NEW i \in 1..f PROVE r[i].type = "message"
    <3>1. r[i].type # "join"
      BY <1>b, <1>m, <2>1, <2>2, NoneIsNone DEF ReqInv, Requests
    <3>2. r[i] \in Frames
      BY <2>1, ElementOfSeq
    <3> QED BY <3>1, <3>2 DEF Frames
  <2>4. /\ MessagesIn(x, r) \in Seq(Heard) /\ Len(MessagesIn(x, r)) = f
        /\ \A i \in 1..f : MessagesIn(x, r)[i] =
               [type |-> "user", from |-> x, k |-> r[i].k, stamp |-> r[i].stamp]
    <3>1. r \in Seq(Frames) /\ Len(r) = f
      BY <2>1
    <3>2. \A i \in 1..Len(r) : r[i].type = "message"
      BY <2>3, <3>1
    <3>3. /\ MessagesIn(x, r) \in Seq(Heard) /\ Len(MessagesIn(x, r)) = Len(r)
          /\ \A i \in 1..Len(r) : MessagesIn(x, r)[i] =
                 [type |-> "user", from |-> x, k |-> r[i].k, stamp |-> r[i].stamp]
      BY <3>1, <3>2, MessagesIs
    <3> QED BY <3>1, <3>3
  <2>5. PICK s \in Seq(Heard) : s = MessagesIn(x, r)
    BY <2>4
  <2>6. ASSUME NEW i \in 1..f PROVE s[i].type = "user" /\ s[i].from = x /\ s[i].k = req[x][i].k
    <3>1. s[i] = [type |-> "user", from |-> x, k |-> r[i].k, stamp |-> r[i].stamp]
      BY <2>4, <2>5
    <3>2. r[i] = req[x][i]
      BY <2>1
    <3> QED BY <3>1, <3>2
  <2> QED BY <2>1, <2>4, <2>5, <2>6
<1>d. PICK q \in Seq(Notices) : Adds(c, q) /\ Follow(c, q) /\ Says(q, s)
  BY <1>a, <1>c, <1>k, PushAdds
<1>e. PICK a \in SUBSET Notices : a = b \cup ToSet(q)
  BY SetOfSeq
<1>f. f \in Nat /\ heard[c] \in Nat /\ heard'[c] = heard[c] + f
  <2>1. f \in Nat /\ Len(q) = f
    BY <1>a, <1>d, <1>k, ReqRest DEF Says
  <2>2. heard[c] \in Nat /\ heard'[c] = heard[c] + f
    BY <1>a, <1>d, <2>1 DEF Adds, TickTypeOK
  <2> QED BY <2>1, <2>2
<1>n. \A d \in Channels : \A n \in 1..heard[d] : n \in 1..heard'[d]
  <2>1. ASSUME NEW d \in Channels PROVE heard[d] \in Nat /\ (d # c => heard'[d] = heard[d])
    <3>1. heard[d] \in Nat
      BY <1>a DEF TickTypeOK
    <3>2. d # c => heard'[d] = heard[d]
      BY <1>d DEF Adds
    <3> QED BY <3>1, <3>2
  <2>2. \A n \in 1..heard[c] : n \in 1..heard'[c]
    <3>1. PICK k \in Nat, l \in Nat : k = heard[c] /\ l = f
      BY <1>f
    <3>2. \A n \in 1..k : n \in 1..(k + l)
      OBVIOUS
    <3> QED BY <1>f, <3>1, <3>2
  <2> QED BY <2>1, <2>2
<1>g. \A m \in ToSet(q) : \E i \in 1..f :
          /\ m = q[i] /\ m.ch = c /\ m.n = heard[c] + i /\ m.type = "user" /\ m.from = x
          /\ m.k = req[x][i].k
  <2>1. \A i \in 1..f : /\ q[i].ch = c /\ q[i].n = heard[c] + i /\ q[i].type = "user"
                         /\ q[i].from = x /\ q[i].k = req[x][i].k
    <3>1. Len(q) = f /\ Len(s) = f
      BY <1>d, <1>k DEF Says
    <3>2. ASSUME NEW i \in 1..f PROVE q[i].ch = c /\ q[i].n = heard[c] + i
      BY <1>d, <3>1 DEF Follow
    <3>3. ASSUME NEW i \in 1..f
          PROVE  q[i].type = s[i].type /\ q[i].from = s[i].from /\ q[i].k = s[i].k
      BY <1>d, <3>1 DEF Says
    <3>4. ASSUME NEW i \in 1..f
          PROVE  s[i].type = "user" /\ s[i].from = x /\ s[i].k = req[x][i].k
      BY <1>k
    <3> QED BY <3>2, <3>3, <3>4
  <2>2. DOMAIN q = 1..f
    BY <1>d, <1>k, LenProperties DEF Says
  <2>3. ASSUME NEW m \in ToSet(q)
        PROVE  \E i \in 1..f :
                   /\ m = q[i] /\ m.ch = c /\ m.n = heard[c] + i /\ m.type = "user"
                   /\ m.from = x /\ m.k = req[x][i].k
    <3>1. PICK i \in 1..f : m = q[i]
      BY <2>2 DEF ToSet
    <3> WITNESS i \in 1..f
    <3> QED BY <2>1, <3>1
  <2> QED BY <2>3
<1>i. /\ Requests(h, x)'
      /\ \A i \in DOMAIN req'[x] : \E j \in DOMAIN req[x] : j > f /\ req'[x][i] = req[x][j]
  BY <1>a, <1>b, <1>c, <1>t, RequestsRest DEF ReqInv
<1>j. \A y \in Clients : y # x => req'[y] = req[y]
  BY <1>a, <1>c DEF ClientTypeOK
<1>l. /\ DOMAIN req[x] = 1..Len(req[x]) /\ Len(req[x]) \in Nat /\ \A i \in 1..f : i \in DOMAIN req[x]
      /\ \A i \in DOMAIN req[x] : req[x][i].k <= said[x]
      /\ \A i, j \in DOMAIN req[x] : i < j => req[x][i].k < req[x][j].k
  <2>1. DOMAIN req[x] = 1..Len(req[x]) /\ Len(req[x]) \in Nat
    BY <1>a, LenProperties DEF ClientTypeOK
  <2>2. \A i \in 1..f : i \in DOMAIN req[x]
    BY <1>f, <2>1
  <2> QED BY <1>b, <2>1, <2>2 DEF ReqInv, Requests
<1>u. Still
  BY <1>t, StillIf
<1>v. Settled /\ NumInv' /\ \A d \in Channels : Low(d)' = Low(d)
  BY <1>b, <1>d, <1>t, AddsKeeps
<1>w. \A d \in Channels, y \in Clients : Live(d, y)' => Live(d, y)
  BY <1>t DEF Live, Lost, Open
<1>x. \A d \in Channels, y \in Clients : Upto(d, y)' = Upto(d, y)
  BY <1>t, <1>v DEF Upto, Settled
<1>y. \A d \in Channels : \A y \in todo[d] : y \in Clients
  BY <1>a DEF TickTypeOK
<1>s. TypeOK /\ Still /\ Settled /\ \A d \in Channels, y \in Clients : Live(d, y)' => Live(d, y) /\ Upto(d, y)' = Upto(d, y)
  BY <1>u, <1>v, <1>w, <1>x
<1>1. HomeInv(h)'
  <2>1. \A d \in Channels : \A e \in join_pool[d] : Received(e.who)' = Received(e.who)
    BY <1>a, <1>u DEF Still, PoolTypeOK, Entries
  <2>2. \A d \in Channels : events'[d] \subseteq events[d]
    BY <1>a, <1>t DEF TickTypeOK
  <2>3. \A d \in Channels : events'[d] \cup next_deletion'[d]
                                 \subseteq members[d] \cup events[d] \cup next_deletion[d]
    BY <1>t, <2>2
  <2> QED BY <1>b, <1>t, <2>1, <2>3, HomeKept
<1>2. RefusedInv(h)'
  BY <1>b, <1>t DEF RefusedInv
<1>3. StreamInv(h, a)'
  BY <1>b, <1>e, <1>s, StreamKept
<1>4. ReqInv(h)'
  <2>1. ASSUME NEW y \in Clients, y # x PROVE Requests(h, y)'
    <3>1. Requests(h, y) /\ req'[y] = req[y]
      BY <1>b, <1>j, <2>1 DEF ReqInv
    <3> QED BY <1>t, <3>1 DEF Requests
  <2> QED BY <1>i, <2>1 DEF ReqInv
<1>5. BookInv(h, a)'
  <2>1. \A m \in a : Known(h, m)'
    <3>1. ASSUME NEW m \in b PROVE Known(h, m)'
      <4>1. Known(h, m) /\ m.ch \in Channels /\ m.n \in Nat /\ m.from \in Clients
        BY <1>b DEF BookInv, Notices
      <4>2. m.n \in 1..heard'[m.ch]
        BY <1>n, <4>1 DEF Known
      <4>3. m.type = "user" => \A i \in DOMAIN req'[m.from] : m.k < req'[m.from][i].k
        <5>1. m.type = "user" => \A i \in DOMAIN req[m.from] : m.k < req[m.from][i].k
          BY <4>1 DEF Known
        <5>2. CASE m.from = x
          BY <1>i, <5>1, <5>2
        <5>3. CASE m.from # x
          BY <1>j, <4>1, <5>1, <5>3
        <5> QED BY <5>2, <5>3
      <4> QED BY <1>t, <4>1, <4>2, <4>3 DEF Known
    <3>2. ASSUME NEW m \in ToSet(q) PROVE Known(h, m)'
      <4>1. PICK i \in 1..f : /\ m.ch = c /\ m.n = heard[c] + i /\ m.from = x
                              /\ m.k = req[x][i].k
        BY <1>g
      <4>2. m.n \in 1..heard'[c]
        <5>1. PICK k \in Nat : k = heard[c]
          BY <1>f
        <5>2. m.n = k + i /\ heard'[c] = k + f
          BY <1>f, <4>1, <5>1
        <5>3. k + i \in 1..(k + f)
          BY <1>f
        <5> QED BY <5>2, <5>3
      <4>3. m.k <= said[x]
        BY <1>l, <4>1
      <4>4. \A j \in DOMAIN req'[x] : m.k < req'[x][j].k
        <5>1. ASSUME NEW j \in DOMAIN req'[x] PROVE m.k < req'[x][j].k
          <6>1. PICK l \in DOMAIN req[x] : l > f /\ req'[x][j] = req[x][l]
            BY <1>i
          <6>2. i \in DOMAIN req[x]
            BY <1>l
          <6>3. l \in Nat
            BY <1>l
          <6>4. i < l
            BY <1>f, <6>1, <6>3
          <6> QED BY <1>l, <4>1, <6>1, <6>2, <6>4
        <5> QED BY <5>1
      <4> QED BY <1>m, <1>t, <4>1, <4>2, <4>3, <4>4 DEF Known
    <3> QED BY <1>e, <3>1, <3>2
  <2>2. \A m, p \in a : SaidInOrder(m, p)
    <3>1. ASSUME NEW m \in b, NEW p \in b PROVE SaidInOrder(m, p)
      BY <1>b DEF BookInv
    <3>2. ASSUME NEW m \in b, NEW p \in ToSet(q) PROVE SaidInOrder(m, p)
      <4>1. PICK i \in 1..f : p.from = x /\ p.k = req[x][i].k
        BY <1>g
      <4>2. i \in DOMAIN req[x] /\ Known(h, m)
        BY <1>b, <1>l DEF BookInv
      <4> QED BY <4>1, <4>2 DEF SaidInOrder, Known
    <3>3. ASSUME NEW m \in ToSet(q), NEW p \in b PROVE SaidInOrder(m, p)
      <4>1. PICK i \in 1..f : m.from = x /\ m.n = heard[c] + i
        BY <1>g
      <4>2. Known(h, p) /\ p.n \in Nat
        BY <1>b DEF BookInv, Notices
      <4>3. CASE p.from = x
        <5>1. p.n \in 1..heard[c]
          BY <1>m, <4>2, <4>3 DEF Known
        <5>2. PICK n \in Nat, k \in Nat : n = p.n /\ k = heard[c]
          BY <1>f, <4>2
        <5>3. n <= k /\ m.n = k + i
          BY <4>1, <5>1, <5>2
        <5>4. ~(m.n < p.n)
          <6>1. i \in Nat \ {0}
            BY <1>f
          <6>2. n <= k
            BY <5>3
          <6>3. ~(k + i < n)
            BY <6>1, <6>2
          <6> QED BY <5>2, <5>3, <6>3
        <5> QED BY <5>4 DEF SaidInOrder
      <4>4. CASE p.from # x
        BY <4>1, <4>4 DEF SaidInOrder
      <4> QED BY <4>3, <4>4
    <3>4. ASSUME NEW m \in ToSet(q), NEW p \in ToSet(q) PROVE SaidInOrder(m, p)
      <4>1. PICK i \in 1..f : m.k = req[x][i].k /\ m.n = heard[c] + i
        BY <1>g
      <4>2. PICK j \in 1..f : p.k = req[x][j].k /\ p.n = heard[c] + j
        BY <1>g
      <4>3. m.n < p.n => i < j
        <5>1. PICK k \in Nat : k = heard[c]
          BY <1>f
        <5>2. i \in Nat /\ j \in Nat
          BY <1>f
        <5>3. k + i < k + j => i < j
          BY <5>2
        <5> QED BY <4>1, <4>2, <5>1, <5>3
      <4>4. i \in DOMAIN req[x] /\ j \in DOMAIN req[x]
        BY <1>l
      <4> QED BY <1>l, <4>1, <4>2, <4>3, <4>4 DEF SaidInOrder
    <3> QED BY <1>e, <3>1, <3>2, <3>3, <3>4
  <2>3. \A d \in Channels : ToSet(mq[d])' \subseteq a
    BY <1>b, <1>d, <1>e, AddsNotices
  <2>4. \A d \in Channels : ToSet(cur_msgs[d])' \subseteq a
    BY <1>b, <1>e, <1>t DEF BookInv, ToSet
  <2>5. \A m, p : SaidInOrder(m, p)' = SaidInOrder(m, p)
    BY DEF SaidInOrder
  <2> QED BY <2>1, <2>2, <2>3, <2>4, <2>5 DEF BookInv
<1>6. TickInv'
  <2>1. \A y \in Clients : Lost(y) => Lost(y)'
    BY <1>t DEF Lost, Open
  <2>2. \A d \in Channels : \A y \in next_deletion[d] : y \in Clients
    BY <1>a DEF TickTypeOK
  <2> QED BY <1>b, <1>t, <1>y, <2>1, <2>2 DEF TickInv
<1>7. NumInv'
  BY <1>v
<1>8. WinInv(v)'
  BY <1>b, <1>t, <1>v, WinKept
<1>9. OrderInv(v)'
  BY <1>b, <1>t, OrderKept
<1>10. TodoInv'
  BY <1>b, <1>t, <1>u, <1>v, <1>y, TodoKept
<1>11. AnswerInv'
  BY <1>b, <1>t, <1>u, <1>w, AnswerKept
<1>12. GapInv'
  BY <1>b, <1>s, GapKept
<1> QED BY <1>1, <1>2, <1>3, <1>4, <1>5, <1>6, <1>7, <1>8, <1>9, <1>10, <1>11, <1>12 DEF Inv

\* A window that has each number of a range once has as many notices.
LEMMA WindowSize ==
    ASSUME NEW w \in Seq(Notices), NEW d \in Nat, NEW r \in Nat,
           \A i \in 1..Len(w) : w[i].n \in (d + 1)..(d + r),
           \A n \in (d + 1)..(d + r) : \E i \in 1..Len(w) : w[i].n = n,
           \A i, j \in 1..Len(w) : w[i].n = w[j].n => i = j
    PROVE  Len(w) = r
<1>1. PICK m \in Nat : m = Len(w)
  BY LenProperties
<1>2. \A i \in 1..m : w[i].n \in Nat /\ w[i].n - d \in 1..r
  BY <1>1
<1>3. PICK F : F = [i \in 1..m |-> w[i].n - d]
  OBVIOUS
<1>4. F \in [1..m -> 1..r]
  BY <1>2, <1>3
<1>5. \A i, j \in 1..m : F[i] = F[j] => i = j
  <2>1. ASSUME NEW i \in 1..m, NEW j \in 1..m, F[i] = F[j] PROVE i = j
    <3>1. w[i].n - d = w[j].n - d
      BY <1>3, <2>1
    <3>2. PICK a \in Nat, b \in Nat : a = w[i].n /\ b = w[j].n
      BY <1>2
    <3>3. a - d = b - d => a = b
      OBVIOUS
    <3>4. w[i].n = w[j].n
      BY <3>1, <3>2, <3>3
    <3> QED BY <1>1, <3>4
  <2> QED BY <2>1
<1>6. \A k \in 1..r : \E i \in 1..m : F[i] = k
  <2>1. ASSUME NEW k \in 1..r PROVE \E i \in 1..m : F[i] = k
    <3>1. d + k \in (d + 1)..(d + r)
      OBVIOUS
    <3>2. PICK i \in 1..m : w[i].n = d + k
      BY <1>1, <3>1
    <3>3. F[i] = (d + k) - d
      BY <1>3, <3>2
    <3>4. (d + k) - d = k
      OBVIOUS
    <3> QED BY <3>3, <3>4
  <2> QED BY <2>1
<1>7. ExistsBijection(1..m, 1..r)
  <2>1. F \in Bijection(1..m, 1..r)
    BY <1>4, <1>5, <1>6, Fun_IsBij
  <2> QED BY <2>1 DEF ExistsBijection
<1>8. /\ IsFiniteSet(1..m) /\ Cardinality(1..m) = m
      /\ Cardinality(1..r) = r
  BY FS_Interval
<1>9. Cardinality(1..r) = Cardinality(1..m)
  BY <1>7, <1>8, FS_Bijection
<1> QED BY <1>1, <1>8, <1>9

\* The order on a screen is the same for v and u if they number all that is there
\* alike.
LEMMA OrderMoved ==
    ASSUME NEW s \in Screens, NEW z, NEW w \in Seq(Sends), NEW v, NEW u, Ordered(v, s, w),
           \A e \in Sent(s, z, w) : u[e.ch][e.n] = v[e.ch][e.n]
    PROVE  Ordered(u, s, w)
<1>1. \A i \in DOMAIN s : s[i] \in Sent(s, z, w)
  BY SentIs DEF Among
<1>2. \A k \in Bodies(w) : \A i \in DOMAIN w[k].win : w[k].win[i] \in Sent(s, z, w)
  BY SentIs DEF Among, Carried
<1>3. \A m, p \in Sent(s, z, w) : Precedes(v, m, p) => Precedes(u, m, p)
  BY DEF Precedes
<1>4. \A i, j \in DOMAIN s : i < j => Precedes(u, s[i], s[j])
  BY <1>1, <1>3 DEF Ordered
<1>5. ASSUME NEW k \in Bodies(w)
      PROVE  /\ \A i, j \in DOMAIN w[k].win : i < j => Precedes(u, w[k].win[i], w[k].win[j])
             /\ \A i \in DOMAIN s, j \in DOMAIN w[k].win : Precedes(u, s[i], w[k].win[j])
  BY <1>1, <1>2, <1>3 DEF Ordered
<1>6. ASSUME NEW k \in Bodies(w), NEW l \in Bodies(w), k < l,
             NEW i \in DOMAIN w[k].win, NEW j \in DOMAIN w[l].win
      PROVE  Precedes(u, w[k].win[i], w[l].win[j])
  BY <1>2, <1>3, <1>6 DEF Ordered
<1> QED BY <1>4, <1>5, <1>6 DEF Ordered

\* The window w of channel c takes all that is in the queue, and the notices q.
Fills(c, q, w) ==
    /\ mq'[c] = <<>> /\ cur_msgs'[c] = w /\ heard'[c] = heard[c] + Len(q)
    /\ \A d \in Channels : d # c =>
           mq'[d] = mq[d] /\ heard'[d] = heard[d] /\ cur_msgs'[d] = cur_msgs[d]
    /\ Done(c)' = Done(c) + Len(w) /\ Low(c)' = Done(c)
    /\ ToSet(w) = ToSet(mq[c]) \cup ToSet(q)
    /\ \A i \in 1..Len(w) :
           w[i].ch = c /\ w[i].n \in (Done(c) + 1)..(Done(c) + Len(w))
    /\ \A n \in (Done(c) + 1)..(Done(c) + Len(w)) : \E i \in 1..Len(w) : w[i].n = n
    /\ Chain(w)

\* Resolve makes a window of the queue and of the joins it adds.
LEMMA FillsIs ==
    ASSUME TypeOK, NumInv, NEW c \in Channels, cur_msgs[c] = <<>>,
           NEW s \in Seq(Heard), NEW w \in Seq(Notices), ResolvesTo(c, s, w)
    PROVE  \E q \in Seq(Notices) : Follow(c, q) /\ Says(q, s) /\ Fills(c, q, w)
<1>a. TickTypeOK
  BY TypeParts
<1>1. PICK d \in Nat, l \in Nat, k \in Nat : d = Done(c) /\ l = Len(mq[c]) /\ k = Len(s)
  BY DoneIs, LenProperties
<1>2. heard[c] \in Nat /\ heard[c] = d + l /\ DOMAIN mq[c] = 1..l /\ mq[c] \in Seq(Notices)
  BY <1>1, DoneIs
<1>3. PICK q \in Seq(Notices) :
          /\ q = Numbered(c, s) /\ Len(q) = k
          /\ \A i \in 1..k :
                 q[i] = [ch |-> c, n |-> heard[c] + i, type |-> s[i].type,
                         from |-> s[i].from, k |-> s[i].k, stamp |-> s[i].stamp]
  BY <1>1, <1>2, NumberedIs
<1>4. ASSUME NEW i \in 1..k
      PROVE  /\ q[i].ch = c /\ q[i].n = heard[c] + i
             /\ q[i].type = s[i].type /\ q[i].from = s[i].from /\ q[i].k = s[i].k
  <2>1. q[i] = [ch |-> c, n |-> heard[c] + i, type |-> s[i].type,
                from |-> s[i].from, k |-> s[i].k, stamp |-> s[i].stamp]
    BY <1>3
  <2> QED BY <2>1
<1>5. Follow(c, q) /\ Says(q, s)
  <2>1. Follow(c, q)
    BY <1>3, <1>4 DEF Follow
  <2>2. Says(q, s)
    BY <1>1, <1>3, <1>4 DEF Says
  <2> QED BY <2>1, <2>2
<1>6. /\ mq' = [mq EXCEPT ![c] = <<>>] /\ heard' = [heard EXCEPT ![c] = heard[c] + k]
      /\ cur_msgs' = [cur_msgs EXCEPT ![c] = w]
      /\ ToSet(w) = ToSet(cur_msgs[c]) \cup (ToSet(mq[c]) \cup ToSet(q))
      /\ \A i, j \in 1..Len(w) : i # j => w[i] # w[j]
      /\ \A i, j \in 1..Len(w) : i < j => Before(w[i], w[j])
  BY <1>1, <1>3 DEF ResolvesTo
<1>7. /\ mq'[c] = <<>> /\ cur_msgs'[c] = w /\ heard'[c] = heard[c] + k
      /\ \A e \in Channels : e # c =>
             mq'[e] = mq[e] /\ heard'[e] = heard[e] /\ cur_msgs'[e] = cur_msgs[e]
  BY <1>a, <1>6 DEF TickTypeOK
<1>8. ToSet(w) = ToSet(mq[c]) \cup ToSet(q)
  BY <1>6, SetOfEmpty
<1>9. DOMAIN q = 1..k /\ DOMAIN w = 1..Len(w) /\ Len(w) \in Nat
  BY <1>3, LenProperties
<1>10. \A i \in 1..l : mq[c][i].ch = c /\ mq[c][i].n = d + i
  BY <1>1, <1>2 DEF NumInv, QueueInv
<1>11. \A i \in 1..k : q[i].ch = c /\ q[i].n = (d + l) + i
  BY <1>2, <1>4
<1>12. ASSUME NEW i \in 1..Len(w)
       PROVE  \/ \E j \in 1..l : w[i] = mq[c][j]
              \/ \E j \in 1..k : w[i] = q[j]
  <2>1. w[i] \in ToSet(mq[c]) \cup ToSet(q)
    BY <1>8, <1>9 DEF ToSet
  <2> QED BY <1>2, <1>9, <2>1 DEF ToSet
<1>13. ASSUME NEW i \in 1..Len(w) PROVE w[i].ch = c /\ w[i].n \in (d + 1)..(d + (l + k))
  <2>1. CASE \E j \in 1..l : w[i] = mq[c][j]
    BY <1>10, <2>1
  <2>2. CASE \E j \in 1..k : w[i] = q[j]
    BY <1>11, <2>2
  <2> QED BY <1>12, <2>1, <2>2
<1>14. ASSUME NEW n \in (d + 1)..(d + (l + k)) PROVE \E i \in 1..Len(w) : w[i].n = n
  <2>1. CASE n <= d + l
    <3>1. n - d \in 1..l /\ d + (n - d) = n
      BY <2>1
    <3>2. mq[c][n - d].n = n /\ mq[c][n - d] \in ToSet(w)
      BY <1>2, <1>8, <1>10, <3>1 DEF ToSet
    <3> QED BY <1>9, <3>2 DEF ToSet
  <2>2. CASE n > d + l
    <3>1. n - (d + l) \in 1..k /\ (d + l) + (n - (d + l)) = n
      BY <2>2
    <3>2. q[n - (d + l)].n = n /\ q[n - (d + l)] \in ToSet(w)
      BY <1>8, <1>9, <1>11, <3>1 DEF ToSet
    <3> QED BY <1>9, <3>2 DEF ToSet
  <2> QED BY <2>1, <2>2
<1>15. ASSUME NEW i \in 1..Len(w), NEW j \in 1..Len(w), w[i].n = w[j].n PROVE i = j
  <2>1. \A e, f \in 1..l : mq[c][e].n = mq[c][f].n => e = f
    BY <1>10
  <2>2. \A e, f \in 1..k : q[e].n = q[f].n => e = f
    BY <1>11
  <2>3. \A e \in 1..l, f \in 1..k : mq[c][e].n # q[f].n
    BY <1>10, <1>11
  <2>4. CASE \E e \in 1..l : w[i] = mq[c][e]
    <3>1. PICK e \in 1..l : w[i] = mq[c][e]
      BY <2>4
    <3>2. \A f \in 1..k : w[j] # q[f]
      BY <1>15, <2>3, <3>1
    <3>3. PICK f \in 1..l : w[j] = mq[c][f]
      BY <1>12, <3>2
    <3>4. e = f
      BY <1>15, <2>1, <3>1, <3>3
    <3> QED BY <1>6, <3>1, <3>3, <3>4
  <2>5. CASE \E e \in 1..k : w[i] = q[e]
    <3>1. PICK e \in 1..k : w[i] = q[e]
      BY <2>5
    <3>2. \A f \in 1..l : w[j] # mq[c][f]
      <4>1. ASSUME NEW f \in 1..l, w[j] = mq[c][f] PROVE FALSE
        <5>1. mq[c][f].n = q[e].n
          BY <1>15, <3>1, <4>1
        <5> QED BY <2>3, <5>1
      <4> QED BY <4>1
    <3>3. PICK f \in 1..k : w[j] = q[f]
      BY <1>12, <3>2
    <3>4. e = f
      BY <1>15, <2>2, <3>1, <3>3
    <3> QED BY <1>6, <3>1, <3>3, <3>4
  <2> QED BY <1>12, <2>4, <2>5
<1>16. Len(w) = l + k
  <2>1. l + k \in Nat
    OBVIOUS
  <2> QED BY <1>13, <1>14, <1>15, <2>1, WindowSize
<1>17. Done(c)' = d + Len(w) /\ Low(c)' = d
  <2>1. Len(mq'[c]) = 0
    BY <1>7
  <2>2. heard'[c] = d + (l + k)
    BY <1>2, <1>7
  <2>3. heard'[c] - Len(mq'[c]) = d + (l + k)
    BY <2>1, <2>2
  <2>4. Done(c)' = d + (l + k)
    BY <2>3 DEF Done
  <2>5. Done(c)' - Len(cur_msgs'[c]) = d
    BY <1>7, <1>16, <2>4
  <2> QED BY <1>16, <2>4, <2>5 DEF Low
<1>18. Chain(w)
  BY <1>6, <1>9 DEF Chain
<1>19. \A i \in 1..Len(w) : w[i].ch = c /\ w[i].n \in (Done(c) + 1)..(Done(c) + Len(w))
  BY <1>1, <1>13, <1>16
<1>20. \A n \in (Done(c) + 1)..(Done(c) + Len(w)) : \E i \in 1..Len(w) : w[i].n = n
  BY <1>1, <1>14, <1>16
<1>21. Fills(c, q, w)
  BY <1>1, <1>3, <1>7, <1>8, <1>17, <1>18, <1>19, <1>20 DEF Fills
<1> QED BY <1>5, <1>21

\* NumInv after a window has been made.
LEMMA FillsNum ==
    ASSUME TypeOK, NumInv, NEW c \in Channels, NEW q \in Seq(Notices), NEW w \in Seq(Notices),
           Fills(c, q, w), \A d \in Channels : d # c => pc'[d] = pc[d]
    PROVE  NumInv'
<1>1. PICK d \in Nat, l \in Nat : d = Done(c) /\ l = Len(w)
  BY DoneIs, LenProperties
<1>2. mq'[c] = <<>> /\ cur_msgs'[c] = w /\ Done(c)' = d + l /\ Low(c)' = d
  BY <1>1 DEF Fills
<1>3. heard'[c] \in Nat
  <2>1. heard[c] \in Nat /\ Len(q) \in Nat
    BY DoneIs, LenProperties
  <2> QED BY <2>1 DEF Fills
<1>4. QueueInv(c)'
  <2>1. Len(mq'[c]) = 0 /\ DOMAIN mq'[c] = {}
    BY <1>2
  <2> QED BY <1>3, <2>1 DEF QueueInv
<1>5. WindowIs(c)'
  <2>1. Len(w) <= d + l /\ DOMAIN w = 1..Len(w)
    BY <1>1, LenProperties
  <2>2. \A i \in 1..Len(w) : w[i].ch = c /\ w[i].n \in (d + 1)..(d + l)
    BY <1>1 DEF Fills
  <2>3. \A n \in (d + 1)..(d + l) : \E i \in 1..Len(w) : w[i].n = n
    BY <1>1 DEF Fills
  <2>4. Chain(w)
    BY DEF Fills
  <2> QED BY <1>2, <2>1, <2>2, <2>3, <2>4 DEF WindowIs
<1>6. ASSUME NEW e \in Channels, e # c PROVE QueueInv(e)' /\ (pc'[e] = "send" => WindowIs(e)')
  <2>1. mq'[e] = mq[e] /\ heard'[e] = heard[e] /\ cur_msgs'[e] = cur_msgs[e] /\ pc'[e] = pc[e]
    BY <1>6 DEF Fills
  <2>2. Done(e)' = Done(e) /\ Low(e)' = Low(e)
    BY <2>1 DEF Done, Low
  <2>3. QueueInv(e) /\ (pc[e] = "send" => WindowIs(e))
    BY DEF NumInv
  <2>4. QueueInv(e)'
    BY <2>1, <2>2, <2>3 DEF QueueInv
  <2>5. WindowIs(e) => WindowIs(e)'
    BY <2>1, <2>2 DEF WindowIs
  <2> QED BY <2>1, <2>3, <2>4, <2>5
<1> QED BY <1>4, <1>5, <1>6 DEF NumInv

\* u numbers the windows as v does, and the new one.
Numbering(v, u, c, w) ==
    /\ \A n \in Nat : u[c][n] = IF n > Done(c) THEN Done(c) + Len(w) ELSE v[c][n]
    /\ \A d \in Channels : d # c => u[d] = v[d]

\* The notices of a new window can be given its number.
LEMMA NumberingExists ==
    ASSUME TypeOK, NumInv, NEW c \in Channels, NEW w \in Seq(Notices),
           NEW v \in [Channels -> [Nat -> Nat]]
    PROVE  \E u \in [Channels -> [Nat -> Nat]] : Numbering(v, u, c, w)
<1>1. PICK d \in Nat, l \in Nat : d = Done(c) /\ l = Len(w)
  BY DoneIs, LenProperties
<1>2. PICK f : f = [n \in Nat |-> IF n > d THEN d + l ELSE v[c][n]]
  OBVIOUS
<1>3. \A n \in Nat : v[c][n] \in Nat
  OBVIOUS
<1>4. f \in [Nat -> Nat]
  BY <1>2, <1>3
<1>5. PICK u \in [Channels -> [Nat -> Nat]] : u = [v EXCEPT ![c] = f]
  BY <1>4
<1>6. Numbering(v, u, c, w)
  BY <1>1, <1>2, <1>5 DEF Numbering
<1> QED BY <1>6

\* WinInv after it.
LEMMA FillsWin ==
    ASSUME TypeOK, NumInv, NEW c \in Channels, NEW q \in Seq(Notices), NEW w \in Seq(Notices),
           NEW v \in [Channels -> [Nat -> Nat]], NEW u \in [Channels -> [Nat -> Nat]],
           WinInv(v), Fills(c, q, w), Numbering(v, u, c, w),
           \A d \in Channels : d # c => pc'[d] = pc[d]
    PROVE  WinInv(u)'
<1>1. PICK d \in Nat, l \in Nat : d = Done(c) /\ l = Len(w)
  BY DoneIs, LenProperties
<1>2. Done(c)' = d + l /\ Low(c)' = d
  BY <1>1 DEF Fills
<1>3. PICK f \in [Nat -> Nat], g \in [Nat -> Nat] : f = v[c] /\ g = u[c]
  OBVIOUS
<1>4. \A n \in Nat : g[n] = IF n > d THEN d + l ELSE f[n]
  BY <1>1, <1>3 DEF Numbering
<1>5. /\ \A n \in 1..d : n <= f[n] /\ f[n] <= d
      /\ \A n, k \in 1..d : n <= k => f[n] <= f[k]
  BY <1>1, <1>3 DEF WinInv
<1>6. \A n \in (d + 1)..(d + l) : g[n] = d + l
  <2>1. \A n \in (d + 1)..(d + l) : n \in Nat /\ n > d
    OBVIOUS
  <2> QED BY <1>4, <2>1
<1>7. \A n \in 1..d : g[n] = f[n]
  <2>1. \A n \in 1..d : n \in Nat /\ ~(n > d)
    OBVIOUS
  <2> QED BY <1>4, <2>1
<1>s. \A n \in 1..(d + l) : n \in Nat /\ (n \in 1..d \/ n \in (d + 1)..(d + l))
  OBVIOUS
<1>8. ASSUME NEW n \in 1..(d + l) PROVE n <= g[n] /\ g[n] <= d + l
  <2>1. CASE n \in 1..d
    <3>1. n <= f[n] /\ f[n] <= d /\ f[n] \in Nat
      BY <1>5, <1>s, <2>1
    <3>2. f[n] <= d + l
      <4>1. PICK k \in Nat : k = f[n] /\ k <= d
        BY <3>1
      <4>2. k <= d + l
        BY <4>1
      <4> QED BY <4>1, <4>2
    <3> QED BY <1>7, <2>1, <3>1, <3>2
  <2>2. CASE n \in (d + 1)..(d + l)
    <3>1. g[n] = d + l
      BY <1>6, <2>2
    <3> QED BY <3>1
  <2> QED BY <1>s, <2>1, <2>2
<1>9. ASSUME NEW n \in 1..(d + l), NEW k \in 1..(d + l), n <= k PROVE g[n] <= g[k]
  <2>1. CASE k \in 1..d
    <3>1. n \in 1..d
      BY <1>9, <2>1
    <3> QED BY <1>5, <1>7, <1>9, <2>1, <3>1
  <2>2. CASE k \in (d + 1)..(d + l)
    BY <1>6, <1>8, <2>2
  <2> QED BY <1>s, <2>1, <2>2
<1>10. \A n \in 1..d : g[n] <= d
  BY <1>5, <1>7
<1>11. ASSUME NEW e \in Channels
       PROVE  /\ \A n \in 1..Done(e)' : n <= u[e][n] /\ u[e][n] <= Done(e)'
              /\ \A n, k \in 1..Done(e)' : n <= k => u[e][n] <= u[e][k]
              /\ pc'[e] = "send" =>
                     /\ \A n \in 1..Low(e)' : u[e][n] <= Low(e)'
                     /\ \A n \in (Low(e)' + 1)..Done(e)' : u[e][n] = Done(e)'
  <2>1. CASE e = c
    BY <1>2, <1>3, <1>6, <1>8, <1>9, <1>10, <2>1
  <2>2. CASE e # c
    <3>1. mq'[e] = mq[e] /\ heard'[e] = heard[e] /\ cur_msgs'[e] = cur_msgs[e] /\ pc'[e] = pc[e]
      BY <2>2 DEF Fills
    <3>2. Done(e)' = Done(e) /\ Low(e)' = Low(e) /\ u[e] = v[e]
      BY <2>2, <3>1 DEF Done, Low, Numbering
    <3> QED BY <3>1, <3>2 DEF WinInv
  <2> QED BY <2>1, <2>2
<1> QED BY <1>11 DEF WinInv

\* OrderInv after it: what was in a window before keeps its number.
LEMMA FillsOrder ==
    ASSUME TypeOK, NumInv, NEW c \in Channels, NEW w,
           NEW v \in [Channels -> [Nat -> Nat]], NEW u \in [Channels -> [Nat -> Nat]],
           Numbering(v, u, c, w), OrderInv(v),
           NEW h \in [Clients -> Channels \cup {None}], NEW b \in SUBSET Notices,
           StreamInv(h, b), RefusedInv(h), shown' = shown, wire' = wire
    PROVE  OrderInv(u)'
<1>1. ASSUME NEW x \in Clients PROVE Ordered(u, shown[x], wire[x])
  <2>1. wire[x] \in Seq(Sends) /\ shown[x] \in Screens
    BY StreamTyped
  <2>2. CASE h[x] = None
    <3>1. \/ wire[x] = <<>> /\ Len(shown[x]) <= 1
          \/ shown[x] = <<>> /\ wire[x] = FrameOf(<<Error>>)
      BY <2>2 DEF RefusedInv
    <3> QED BY <2>1, <3>1, RefusedOrder
  <2>3. CASE h[x] # None
    <3>1. ASSUME NEW e \in Received(x) PROVE u[e.ch][e.n] = v[e.ch][e.n]
      <4>1. e \in b /\ e.n <= Done(e.ch)
        BY <2>3, <3>1 DEF StreamInv
      <4>2. e.ch \in Channels /\ e.n \in Nat
        BY <4>1 DEF Notices
      <4>3. CASE e.ch = c
        <5>1. Done(c) \in Nat
          BY DoneIs
        <5>2. ~(e.n > Done(c))
          BY <4>1, <4>2, <4>3, <5>1
        <5> QED BY <4>2, <4>3, <5>2 DEF Numbering
      <4>4. CASE e.ch # c
        BY <4>2, <4>4 DEF Numbering
      <4> QED BY <4>3, <4>4
    <3>2. \A e \in Sent(shown[x], unseen[x], wire[x]) : u[e.ch][e.n] = v[e.ch][e.n]
      BY <3>1, ReceivedIs
    <3>3. Ordered(v, shown[x], wire[x])
      BY DEF OrderInv
    <3> QED BY <2>1, <3>2, <3>3, OrderMoved
  <2> QED BY <2>2, <2>3
<1> QED BY <1>1 DEF OrderInv

\* A worker takes in who is to come, and makes the window.
LEMMA ResolveKeeps ==
    ASSUME TypeOK, NEW h \in [Clients -> Channels \cup {None}], NEW b \in SUBSET Notices,
           NEW v \in [Channels -> [Nat -> Nat]], Inv(h, b, v), NEW c \in Channels, Resolve(c)
    PROVE  \E a \in SUBSET Notices, u \in [Channels -> [Nat -> Nat]] : Inv(h, a, u)'
<1>a. ClientTypeOK /\ PoolTypeOK /\ TickTypeOK
  BY TypeParts
<1>b. /\ HomeInv(h) /\ RefusedInv(h) /\ StreamInv(h, b) /\ ReqInv(h) /\ BookInv(h, b)
      /\ TickInv /\ NumInv /\ WinInv(v) /\ OrderInv(v) /\ TodoInv /\ AnswerInv /\ GapInv
  BY DEF Inv
<1>t. /\ phase' = phase /\ said' = said /\ shown' = shown /\ unseen' = unseen
      /\ lobby' = lobby /\ closed' = closed /\ req' = req /\ wire' = wire /\ events' = events
      /\ pc[c] = "events" /\ pc' = [pc EXCEPT ![c] = "send"]
      /\ join_pool' = [join_pool EXCEPT ![c] = {}] /\ leave_pool' = [leave_pool EXCEPT ![c] = {}]
  BY DEF Resolve, clientVars, netVars
<1>c. \/ /\ next_deletion' = [next_deletion EXCEPT ![c] = next_deletion[c] \cup members'[c]]
         /\ todo' = todo
      \/ todo' = [todo EXCEPT ![c] = members'[c]] /\ next_deletion' = next_deletion
  BY DEF Resolve, TooLarge
<1>d. cur_msgs[c] = <<>> /\ todo[c] = {} /\ \A y \in next_deletion[c] : Lost(y)
  BY <1>b, <1>t DEF TickInv
<1>e. PICK s \in Seq(Heard), w \in Seq(Notices) : ResolvesTo(c, s, w)
  <2>1. leave_pool[c] = {} /\ IsFiniteSet(join_pool[c])
    BY <1>b DEF HomeInv
  <2> QED BY <2>1, ResolveIs
<1>f. PICK q \in Seq(Notices) : Follow(c, q) /\ Says(q, s) /\ Fills(c, q, w)
  BY <1>b, <1>d, <1>e, FillsIs
<1>g. PICK u \in [Channels -> [Nat -> Nat]] : Numbering(v, u, c, w)
  BY <1>b, NumberingExists
<1>h. PICK a \in SUBSET Notices : a = b \cup ToSet(q)
  BY SetOfSeq
<1>i. \A d \in Channels : d # c =>
          /\ members'[d] = members[d] /\ pc'[d] = pc[d] /\ join_pool'[d] = join_pool[d]
          /\ next_deletion'[d] = next_deletion[d] /\ todo'[d] = todo[d]
          /\ leave_pool'[d] = leave_pool[d]
  <2>1. \A d \in Channels : d # c => members'[d] = members[d]
    BY <1>a, <1>e DEF ResolvesTo, PoolTypeOK
  <2>2. \A d \in Channels : d # c => next_deletion'[d] = next_deletion[d] /\ todo'[d] = todo[d]
    BY <1>a, <1>c DEF TickTypeOK
  <2>3. \A d \in Channels : d # c => /\ join_pool'[d] = join_pool[d] /\ pc'[d] = pc[d]
                                      /\ leave_pool'[d] = leave_pool[d]
    BY <1>a, <1>t DEF PoolTypeOK, TickTypeOK
  <2> QED BY <2>1, <2>2, <2>3
<1>j. /\ members'[c] = members[c] \cup {e.who : e \in Taken(c)} /\ pc'[c] = "send"
      /\ join_pool'[c] = {} /\ leave_pool'[c] = {}
  <2>1. members'[c] = members[c] \cup {e.who : e \in Taken(c)}
    BY <1>a, <1>e DEF ResolvesTo, PoolTypeOK
  <2> QED BY <1>a, <1>t, <2>1 DEF PoolTypeOK, TickTypeOK
<1>k. \/ next_deletion'[c] = next_deletion[c] \cup members'[c] /\ todo'[c] = {}
      \/ next_deletion'[c] = next_deletion[c] /\ todo'[c] = members'[c]
  BY <1>a, <1>c, <1>d DEF TickTypeOK
<1>l. \A y \in members'[c] :
          /\ y \in Clients /\ h[y] = c
          /\ y \in members[c] \/ (Received(y) = {} /\ \E e \in Taken(c) : e.who = y)
  <2>1. \A y \in members[c] : y \in Clients /\ h[y] = c
    BY <1>a, <1>b DEF HomeInv, PoolTypeOK
  <2>2. \A e \in Taken(c) : e.who \in Clients /\ h[e.who] = c /\ Received(e.who) = {}
    <3>1. ASSUME NEW e \in Taken(c) PROVE e.who \in Clients /\ h[e.who] = c /\ Received(e.who) = {}
      <4>1. e \in join_pool[c] /\ e \in Entries
        BY <1>a DEF PoolTypeOK, Taken
      <4>2. Awaited(h, c, e)
        BY <1>b, <4>1 DEF HomeInv
      <4> QED BY <4>1, <4>2 DEF Awaited, Entries
    <3> QED BY <3>1
  <2> QED BY <1>j, <2>1, <2>2
<1>m. /\ \A i \in 1..Len(q) : q[i].type = "join" /\ h[q[i].from] = c
      /\ \A e \in Taken(c) : \E i \in 1..Len(q) : IsJoinOf(q[i], e.who)
  <2>1. /\ \A i \in 1..Len(s) : s[i].type = "join" /\ \E e \in Taken(c) : s[i].from = e.who
        /\ \A e \in Taken(c) : \E i \in 1..Len(s) : s[i].from = e.who
    BY <1>e DEF ResolvesTo
  <2>2. \A e \in Taken(c) : h[e.who] = c
    BY <1>b DEF HomeInv, Taken, Awaited
  <2>3. Len(q) = Len(s) /\ \A i \in 1..Len(s) : q[i].type = s[i].type /\ q[i].from = s[i].from
    BY <1>f DEF Says
  <2>4. \A i \in 1..Len(q) : q[i].type = "join" /\ h[q[i].from] = c
    <3>1. ASSUME NEW i \in 1..Len(s) PROVE q[i].type = "join" /\ h[q[i].from] = c
      <4>1. PICK e \in Taken(c) : s[i].from = e.who
        BY <2>1
      <4>2. q[i].type = "join" /\ q[i].from = e.who
        BY <2>1, <2>3, <4>1
      <4> QED BY <2>2, <4>2
    <3> QED BY <2>3, <3>1
  <2>5. ASSUME NEW e \in Taken(c) PROVE \E i \in 1..Len(q) : IsJoinOf(q[i], e.who)
    <3>1. PICK i \in 1..Len(s) : s[i].from = e.who /\ s[i].type = "join"
      BY <2>1
    <3>2. i \in 1..Len(q) /\ q[i].type = "join" /\ q[i].from = e.who
      BY <2>3, <3>1
    <3> QED BY <3>2 DEF IsJoinOf, IsJoin
  <2> QED BY <2>4, <2>5
<1>n. Done(c)' = Done(c) + Len(w) /\ Low(c)' = Done(c) /\ cur_msgs'[c] = w /\ Done(c) \in Nat
      /\ Len(w) \in Nat
  <2>1. Done(c) \in Nat /\ Len(w) \in Nat
    BY <1>b, DoneIs, LenProperties
  <2> QED BY <1>f, <2>1 DEF Fills
<1>o. \A d \in Channels : d # c => /\ cur_msgs'[d] = cur_msgs[d] /\ mq'[d] = mq[d]
                                   /\ Done(d)' = Done(d) /\ Low(d)' = Low(d)
  <2>1. \A d \in Channels : d # c => /\ cur_msgs'[d] = cur_msgs[d] /\ mq'[d] = mq[d]
                                     /\ heard'[d] = heard[d]
    BY <1>f DEF Fills
  <2> QED BY <2>1 DEF Done, Low
<1>p. \A d \in Channels : Done(d) \in Nat /\ Done(d) <= Done(d)'
  <2>1. \A d \in Channels : Done(d) \in Nat
    BY <1>b, DoneIs
  <2>2. Done(c) <= Done(c)'
    BY <1>n
  <2>3. \A d \in Channels : d # c => Done(d) <= Done(d)'
    BY <1>o, <2>1
  <2> QED BY <2>1, <2>2, <2>3
<1>u. Still
  BY <1>t, StillIf
<1>r. \A y \in Clients : Received(y)' = Received(y) /\ Numbers(y)' = Numbers(y) /\ Lost(y)' = Lost(y)
  <2>1. \A y \in Clients : Received(y)' = Received(y) /\ Lost(y)' = Lost(y)
    BY <1>t, <1>u DEF Still, Lost, Open
  <2> QED BY <2>1, NumbersKept
<1>x. \A d \in Channels, y \in Clients : d # c =>
          /\ Live(d, y)' <=> Live(d, y)
          /\ Upto(d, y)' = Upto(d, y) /\ (y \in todo'[d] <=> y \in todo[d])
  BY <1>i, <1>o, <1>r DEF Live, Upto
<1>y. \A y \in Clients : Live(c, y)' =>
          /\ y \in members'[c] /\ y \in todo'[c] /\ Upto(c, y)' = Done(c)
          /\ y \in members[c] => Live(c, y) /\ Upto(c, y) = Done(c)
  <2>1. \A y \in Clients : Live(c, y)' => y \in members'[c] /\ y \notin next_deletion'[c] /\ ~Lost(y)
    BY <1>r DEF Live
  <2>2. \A y \in Clients : Live(c, y)' => y \in todo'[c] /\ y \notin next_deletion[c]
    BY <1>k, <2>1
  <2>3. \A y \in Clients : y \in todo'[c] => Upto(c, y)' = Done(c)
    BY <1>n DEF Upto
  <2>4. \A y \in Clients : Upto(c, y) = Done(c)
    BY <1>d DEF Upto
  <2> QED BY <2>1, <2>2, <2>3, <2>4 DEF Live
<1>1. HomeInv(h)'
  <2>1. \A y \in Clients : Fresh(h, y) => Fresh(h, y)'
    BY <1>t DEF Fresh
  <2>2. ASSUME NEW y \in Clients
        PROVE  /\ phase'[y] = "start" \/ y \in lobby' => Fresh(h, y)'
               /\ phase'[y] = "start" => y \notin lobby'
    BY <1>b, <1>t, <2>1 DEF HomeInv
  <2>3. ASSUME NEW d \in Channels, NEW y \in members'[d] \cup events'[d] \cup next_deletion'[d]
        PROVE  h[y] = d
    <3>1. \A z \in members[d] \cup events[d] \cup next_deletion[d] : h[z] = d
      BY <1>b DEF HomeInv
    <3>2. CASE d = c
      BY <1>k, <1>l, <1>t, <2>3, <3>1, <3>2
    <3>3. CASE d # c
      BY <1>i, <1>t, <2>3, <3>1, <3>3
    <3> QED BY <3>2, <3>3
  <2>4. ASSUME NEW d \in Channels, NEW e \in join_pool'[d] PROVE Awaited(h, d, e)'
    <3>1. d # c
      BY <1>j, <2>4
    <3>2. e \in join_pool[d] /\ e \in Entries
      BY <1>a, <1>i, <2>4, <3>1 DEF PoolTypeOK
    <3>3. Awaited(h, d, e) /\ e.who \in Clients
      BY <1>b, <3>2 DEF HomeInv, Entries
    <3> QED BY <1>i, <1>r, <3>1, <3>3 DEF Awaited
  <2>5. ASSUME NEW d \in Channels PROVE leave_pool'[d] = {} /\ IsFiniteSet(join_pool'[d])
    <3>1. leave_pool[d] = {} /\ IsFiniteSet(join_pool[d])
      BY <1>b DEF HomeInv
    <3> QED BY <1>i, <1>j, <3>1, FS_EmptySet
  <2> QED BY <2>2, <2>3, <2>4, <2>5 DEF HomeInv
<1>2. RefusedInv(h)'
  BY <1>b, <1>t DEF RefusedInv
<1>3. StreamInv(h, a)'
  <2>1. ASSUME NEW y \in Clients, NEW m \in Received(y)'
        PROVE  IF h[y] = None THEN m = Error
               ELSE m \in a /\ m.ch = h[y] /\ m.n <= Done(m.ch)'
    <3>1. m \in Received(y)
      BY <1>r, <2>1
    <3>2. CASE h[y] = None
      BY <1>b, <3>1, <3>2 DEF StreamInv
    <3>3. CASE h[y] # None
      <4>1. m \in b /\ m.ch = h[y] /\ m.n <= Done(m.ch)
        BY <1>b, <3>1, <3>3 DEF StreamInv
      <4>2. m.ch \in Channels /\ m.n \in Nat
        BY <4>1 DEF Notices
      <4>3. PICK d \in Nat : d = Done(m.ch) /\ d <= Done(m.ch)'
        BY <1>p, <4>2
      <4>k. PICK k : k = Done(m.ch)' /\ d <= k
        BY <4>3
      <4>4. k \in Nat
        <5>1. Done(c) + Len(w) \in Nat
          <6>1. PICK i \in Nat, j \in Nat : i = Done(c) /\ j = Len(w)
            BY <1>n
          <6>2. i + j \in Nat
            OBVIOUS
          <6> QED BY <6>1, <6>2
        <5>2. Done(c)' \in Nat
          BY <1>n, <5>1
        <5>3. m.ch # c => Done(m.ch)' = Done(m.ch)
          BY <1>o, <4>2
        <5> QED BY <4>3, <4>k, <5>2, <5>3
      <4>5. m.n <= k
        <5>1. PICK n \in Nat : n = m.n /\ n <= d
          BY <4>1, <4>2, <4>3
        <5>2. n <= d /\ d <= k
          BY <4>3, <4>k, <5>1
        <5>3. n <= k
          BY <4>4, <5>2
        <5> QED BY <5>1, <5>3
      <4> QED BY <1>h, <3>3, <4>1, <4>3, <4>k, <4>5
    <3> QED BY <3>2, <3>3
  <2> QED BY <2>1 DEF StreamInv
<1>4. ReqInv(h)'
  BY <1>b, <1>t DEF ReqInv, Requests
<1>5. BookInv(h, a)'
  <2>1. Booked(h, b \cup ToSet(q))'
    <3>1. \A d \in Channels : heard'[d] = IF d = c THEN heard[c] + Len(q) ELSE heard[d]
      BY <1>f DEF Fills
    <3>2. \A i \in 1..Len(q) : q[i].type # "user" /\ h[q[i].from] = c
      BY <1>m
    <3> QED BY <1>b, <1>f, <1>t, <3>1, <3>2, BookAdded
  <2>2. ASSUME NEW d \in Channels PROVE ToSet(mq'[d]) \cup ToSet(cur_msgs'[d]) \subseteq a
    <3>1. ToSet(mq[d]) \cup ToSet(cur_msgs[d]) \subseteq b
      BY <1>b DEF BookInv
    <3>2. CASE d = c
      <4>1. mq'[c] = <<>> /\ ToSet(w) = ToSet(mq[c]) \cup ToSet(q)
        BY <1>f DEF Fills
      <4> QED BY <1>h, <1>n, <3>1, <3>2, <4>1, SetOfEmpty
    <3>3. CASE d # c
      BY <1>h, <1>o, <3>1, <3>3
    <3> QED BY <3>2, <3>3
  <2>3. \A d \in Channels : ToSet(mq[d])' = ToSet(mq'[d]) /\ ToSet(cur_msgs[d])' = ToSet(cur_msgs'[d])
    BY DEF ToSet
  <2> QED BY <1>h, <2>1, <2>2, <2>3 DEF BookInv, Booked
<1>6. TickInv'
  <2>2. ASSUME NEW d \in Channels
        PROVE  /\ pc'[d] = "poll" => members'[d] \cap next_deletion'[d] = {}
               /\ pc'[d] = "events" =>
                      cur_msgs'[d] = <<>> /\ \A y \in next_deletion'[d] : Lost(y)
               /\ pc'[d] # "send" => todo'[d] = {}
               /\ todo'[d] \subseteq members'[d]
               /\ \A y \in todo'[d] \cap next_deletion'[d] : Lost(y)
    <3>1. CASE d = c
      BY <1>d, <1>j, <1>k, <3>1
    <3>2. CASE d # c
      BY <1>b, <1>i, <1>o, <3>2 DEF TickInv
    <3> QED BY <3>1, <3>2
  <2>3. \A y : Lost(y)' = Lost(y)
    BY <1>t DEF Lost, Open
  <2> QED BY <2>2, <2>3 DEF TickInv
<1>7. NumInv'
  BY <1>b, <1>f, <1>i, FillsNum
<1>8. WinInv(u)'
  BY <1>b, <1>f, <1>g, <1>i, FillsWin
<1>9. OrderInv(u)'
  BY <1>b, <1>g, <1>t, FillsOrder
<1>10. TodoInv'
  <2>1. ASSUME NEW d \in Channels, NEW y \in todo'[d], NEW m \in Received(y)' PROVE m.n <= Low(d)'
    <3>1. CASE d = c
      <4>1. y \in Clients /\ h[y] = c
        BY <1>k, <1>l, <2>1, <3>1
      <4>2. m \in Received(y)
        BY <1>r, <2>1, <4>1
      <4>3. m.ch = c /\ m.n <= Done(c)
        BY <1>b, <4>1, <4>2, NoneIsNone DEF StreamInv
      <4> QED BY <1>n, <3>1, <4>3
    <3>2. CASE d # c
      <4>1. y \in todo[d] /\ y \in Clients /\ Low(d)' = Low(d)
        BY <1>a, <1>i, <1>o, <2>1, <3>2 DEF TickTypeOK
      <4>2. m \in Received(y)
        BY <1>r, <2>1, <4>1
      <4> QED BY <1>b, <4>1, <4>2 DEF TodoInv
    <3> QED BY <3>1, <3>2
  <2> QED BY <2>1 DEF TodoInv
<1>11. AnswerInv'
  <2>1. ASSUME NEW d \in Channels, NEW y \in Clients, Live(d, y)'
        PROVE  \/ \E m \in Received(y)' : IsJoinOf(m, y)
               \/ y \in todo'[d] /\ \E i \in DOMAIN cur_msgs'[d] : IsJoinOf(cur_msgs'[d][i], y)
    <3>1. CASE d # c
      BY <1>b, <1>o, <1>r, <1>x, <2>1, <3>1 DEF AnswerInv
    <3>2. CASE d = c /\ y \in members[c]
      <4>1. Live(c, y)
        BY <1>y, <2>1, <3>2
      <4>2. \E m \in Received(y) : IsJoinOf(m, y)
        BY <1>b, <1>d, <4>1 DEF AnswerInv
      <4> QED BY <1>r, <4>2
    <3>3. CASE d = c /\ y \notin members[c]
      <4>1. y \in members'[c] /\ y \in todo'[c]
        BY <1>y, <2>1, <3>3
      <4>2. PICK e \in Taken(c) : e.who = y
        BY <1>l, <3>3, <4>1
      <4>3. PICK i \in 1..Len(q) : IsJoinOf(q[i], y)
        BY <1>m, <4>2
      <4>4. q[i] \in ToSet(w)
        <5>1. DOMAIN q = 1..Len(q)
          BY LenProperties
        <5>2. ToSet(w) = ToSet(mq[c]) \cup ToSet(q)
          BY <1>f DEF Fills
        <5> QED BY <5>1, <5>2 DEF ToSet
      <4>5. \E j \in DOMAIN w : w[j] = q[i]
        BY <4>4 DEF ToSet
      <4> QED BY <1>n, <3>3, <4>1, <4>3, <4>5
    <3> QED BY <3>1, <3>2, <3>3
  <2> QED BY <2>1 DEF AnswerInv, IsJoinOf, IsJoin
<1>12. GapInv'
  <2>1. \A y \in Clients : \E lo, hi \in Nat : Numbers(y)' = (lo + 1)..hi
    BY <1>b, <1>r DEF GapInv
  <2>2. ASSUME NEW d \in Channels, NEW y \in Clients, Live(d, y)'
        PROVE  \E lo \in Nat : lo <= Upto(d, y)' /\ Numbers(y)' = (lo + 1)..Upto(d, y)'
    <3>1. CASE d # c
      BY <1>b, <1>r, <1>x, <2>2, <3>1 DEF GapInv
    <3>2. CASE d = c /\ y \in members[c]
      <4>1. Live(c, y) /\ Upto(c, y)' = Upto(c, y)
        BY <1>y, <2>2, <3>2
      <4> QED BY <1>b, <1>r, <3>2, <4>1 DEF GapInv
    <3>3. CASE d = c /\ y \notin members[c]
      <4>1. y \in members'[c] /\ Upto(c, y)' = Done(c)
        BY <1>y, <2>2, <3>3
      <4>2. Numbers(y) = {}
        BY <1>l, <3>3, <4>1 DEF Numbers
      <4>3. (Done(c) + 1)..Done(c) = {} /\ Done(c) <= Done(c)
        <5>1. \A n \in Nat : (n + 1)..n = {} /\ n <= n
          OBVIOUS
        <5> QED BY <1>n, <5>1
      <4> QED BY <1>n, <1>r, <3>3, <4>1, <4>2, <4>3
    <3> QED BY <3>1, <3>2, <3>3
  <2> QED BY <2>1, <2>2 DEF GapInv
<1> QED BY <1>1, <1>2, <1>3, <1>4, <1>5, <1>6, <1>7, <1>8, <1>9, <1>10, <1>11, <1>12 DEF Inv

\* Nothing happens.
LEMMA StutterKeeps ==
    ASSUME TypeOK, NEW h \in [Clients -> Channels \cup {None}], NEW b \in SUBSET Notices,
           NEW v \in [Channels -> [Nat -> Nat]], Inv(h, b, v), UNCHANGED vars
    PROVE  Inv(h, b, v)'
<1>a. ClientTypeOK /\ PoolTypeOK /\ TickTypeOK
  BY TypeParts
<1>b. /\ HomeInv(h) /\ RefusedInv(h) /\ StreamInv(h, b) /\ ReqInv(h) /\ BookInv(h, b)
      /\ TickInv /\ NumInv /\ WinInv(v) /\ OrderInv(v) /\ TodoInv /\ AnswerInv /\ GapInv
  BY DEF Inv
<1>t. /\ phase' = phase /\ said' = said /\ shown' = shown /\ unseen' = unseen
      /\ lobby' = lobby /\ closed' = closed
      /\ join_pool' = join_pool /\ leave_pool' = leave_pool /\ members' = members
      /\ req' = req /\ wire' = wire /\ mq' = mq /\ heard' = heard /\ todo' = todo /\ half' = half
      /\ pc' = pc /\ cur_msgs' = cur_msgs /\ next_deletion' = next_deletion /\ events' = events
  BY DEF vars, clientVars, netVars, poolVars, tickVars
<1>u. Still
  BY <1>t, StillIf
<1>v. \A d \in Channels : Done(d)' = Done(d) /\ Low(d)' = Low(d)
  BY <1>t DEF Done, Low
<1>w. \A d \in Channels, y \in Clients : Live(d, y)' => Live(d, y)
  BY <1>t DEF Live, Lost, Open
<1>x. \A d \in Channels, y \in Clients : Upto(d, y)' = Upto(d, y)
  BY <1>t, <1>v DEF Upto
<1>y. \A d \in Channels : \A y \in todo[d] : y \in Clients
  BY <1>a DEF TickTypeOK
<1>s. TypeOK /\ Still /\ Settled /\ \A d \in Channels, y \in Clients : Live(d, y)' => Live(d, y) /\ Upto(d, y)' = Upto(d, y)
  BY <1>u, <1>v, <1>w, <1>x DEF Settled
<1>1. HomeInv(h)'
  <2>1. \A d \in Channels : \A e \in join_pool[d] : Received(e.who)' = Received(e.who)
    BY <1>a, <1>u DEF Still, PoolTypeOK, Entries
  <2> QED BY <1>b, <1>t, <2>1, HomeKept
<1>2. RefusedInv(h)'
  BY <1>b, <1>t DEF RefusedInv
<1>3. StreamInv(h, b)'
  BY <1>b, <1>s, StreamKept
<1>4. ReqInv(h)'
  BY <1>b, <1>t DEF ReqInv, Requests
<1>5. BookInv(h, b)'
  <2>1. \A m \in b : Known(h, m)'
    BY <1>b, <1>t DEF BookInv, Known
  <2> QED BY <1>b, <1>t, <2>1, BookKept
<1>6. TickInv'
  <2>1. \A y : Lost(y)' = Lost(y)
    BY <1>t DEF Lost, Open
  <2> QED BY <1>b, <1>t, <2>1 DEF TickInv
<1>7. NumInv'
  BY <1>b, <1>t, NumKept
<1>8. WinInv(v)'
  BY <1>b, <1>s, <1>t, WinKept
<1>9. OrderInv(v)'
  BY <1>b, <1>t, OrderKept
<1>10. TodoInv'
  BY <1>b, <1>t, <1>u, <1>v, <1>y, TodoKept
<1>11. AnswerInv'
  BY <1>b, <1>t, <1>u, <1>w, AnswerKept
<1>12. GapInv'
  BY <1>b, <1>s, GapKept
<1> QED BY <1>1, <1>2, <1>3, <1>4, <1>5, <1>6, <1>7, <1>8, <1>9, <1>10, <1>11, <1>12 DEF Inv

-----------------------------------------------------------------------------
(* The theorems.                                                           *)

\* The initial states have their types.
LEMMA InitTypes == Init => TypeOK
<1> SUFFICES ASSUME Init PROVE TypeOK
  OBVIOUS
<1>1. ClientTypeOK
  BY DEF Init, ClientTypeOK
<1>2. PoolTypeOK
  BY DEF Init, PoolTypeOK
<1>3. TickTypeOK
  <2>1. Cardinality({}) = 0
    BY FS_EmptySet
  <2> QED BY <2>1 DEF Init, TickTypeOK, Sorted
<1> QED BY <1>1, <1>2, <1>3, TypeParts

\* Nothing has been handed over, made or sent at first.
LEMMA InitInv == Init => WindowInv
<1> SUFFICES ASSUME Init PROVE WindowInv
  OBVIOUS
<1>1. PICK h \in [Clients -> Channels \cup {None}] : h = [x \in Clients |-> None]
  OBVIOUS
<1>2. PICK v \in [Channels -> [Nat -> Nat]] : v = [c \in Channels |-> [n \in Nat |-> 0]]
  OBVIOUS
<1>3. \A x \in Clients : /\ h[x] = None /\ shown[x] = <<>> /\ unseen[x] = {} /\ wire[x] = <<>>
                         /\ req[x] = <<>>
  BY <1>1 DEF Init
<1>4. \A c \in Channels :
          /\ mq[c] = <<>> /\ cur_msgs[c] = <<>> /\ heard[c] = 0 /\ pc[c] = "poll"
          /\ members[c] = {} /\ join_pool[c] = {} /\ leave_pool[c] = {}
          /\ events[c] = {} /\ todo[c] = {} /\ next_deletion[c] = {}
  BY DEF Init
<1>5. \A x \in Clients : Received(x) = {} /\ Numbers(x) = {}
  <2>1. Sent(<<>>, {}, <<>>) = {}
    <3>1. Bodies(<<>>) = {}
      BY DEF Bodies
    <3> QED BY <3>1, SetOfEmpty DEF Sent
  <2>2. \A x \in Clients : Received(x) = {}
    BY <1>3, <2>1, ReceivedIs
  <2> QED BY <2>2 DEF Numbers
<1>6. \A c \in Channels : Done(c) = 0 /\ Low(c) = 0
  <2>1. Len(<<>>) = 0 /\ 0 - 0 = 0
    OBVIOUS
  <2> QED BY <1>4, <2>1 DEF Done, Low
<1>7. HomeInv(h)
  BY <1>3, <1>4, FS_EmptySet DEF HomeInv, Fresh, Init
<1>8. RefusedInv(h)
  BY <1>3 DEF RefusedInv
<1>9. StreamInv(h, {})
  BY <1>5 DEF StreamInv
<1>10. ReqInv(h)
  BY <1>3 DEF ReqInv, Requests
<1>11. BookInv(h, {})
  BY <1>4, SetOfEmpty DEF BookInv
<1>12. TickInv
  BY <1>4 DEF TickInv
<1>13. NumInv
  BY <1>4, <1>6 DEF NumInv, QueueInv
<1>14. WinInv(v)
  <2>1. 1..0 = {}
    OBVIOUS
  <2> QED BY <1>4, <1>6, <2>1 DEF WinInv
<1>15. OrderInv(v)
  <2>1. ASSUME NEW x \in Clients PROVE Ordered(v, shown[x], wire[x])
    <3>1. <<>> \in Screens
      BY DEF Screens
    <3>2. Len(<<>>) <= 1
      OBVIOUS
    <3>3. Ordered(v, <<>>, <<>>)
      BY <3>1, <3>2, RefusedOrder
    <3> QED BY <1>3, <3>3
  <2> QED BY <2>1 DEF OrderInv
<1>16. TodoInv
  BY <1>4 DEF TodoInv
<1>17. AnswerInv
  BY <1>4 DEF AnswerInv, Live
<1>18. GapInv
  <2>1. (0 + 1)..0 = {} /\ 0 \in Nat
    OBVIOUS
  <2>2. \A x \in Clients : \E lo, hi \in Nat : Numbers(x) = (lo + 1)..hi
    BY <1>5, <2>1
  <2>3. \A c \in Channels, x \in Clients : ~Live(c, x)
    BY <1>4 DEF Live
  <2> QED BY <2>2, <2>3 DEF GapInv
<1>19. Inv(h, {}, v)
  BY <1>7, <1>8, <1>9, <1>10, <1>11, <1>12, <1>13, <1>14, <1>15, <1>16, <1>17, <1>18 DEF Inv
<1> QED BY <1>19 DEF WindowInv

\* What a client does, and what the lobby does with it.
LEMMA ClientStep ==
    ASSUME TypeOK, WindowInv, NEW x \in Clients,
           Client(x) \/ Reader(x) \/ LobbyReads(x) \/ LobbyDrops(x)
    PROVE  WindowInv'
<1>1. PICK h \in [Clients -> Channels \cup {None}], b \in SUBSET Notices,
           v \in [Channels -> [Nat -> Nat]] : Inv(h, b, v)
  BY DEF WindowInv
<1>2. CASE Connect(x)
  BY <1>1, <1>2, ConnectKeeps DEF WindowInv
<1>3. CASE Say(x)
  BY <1>1, <1>3, SayKeeps DEF WindowInv
<1>4. CASE Quit(x) \/ SeeEnd(x)
  <2>1. End(x)
    BY <1>4 DEF Quit, SeeEnd
  <2> QED BY <1>1, <2>1, EndKeeps DEF WindowInv
<1>5. CASE Show(x)
  BY <1>1, <1>5, ShowKeepsAll DEF WindowInv
<1>6. CASE Handshake(x)
  BY <1>1, <1>6, HandshakeKeepsAll DEF WindowInv
<1>7. CASE LobbyReads(x)
  BY <1>1, <1>7, LobbyReadsKeeps DEF WindowInv
<1>8. CASE LobbyDrops(x)
  BY <1>1, <1>8, LobbyDropsKeeps DEF WindowInv
<1> QED BY <1>2, <1>3, <1>4, <1>5, <1>6, <1>7, <1>8 DEF Client, Reader

\* What a worker does.
LEMMA WorkerStep ==
    ASSUME TypeOK, WindowInv, NEW c \in Channels, Worker(c)
    PROVE  WindowInv'
<1>1. PICK h \in [Clients -> Channels \cup {None}], b \in SUBSET Notices,
           v \in [Channels -> [Nat -> Nat]] : Inv(h, b, v)
  BY DEF WindowInv
<1>2. CASE Poll(c)
  BY <1>1, <1>2, PollKeeps DEF WindowInv
<1>3. CASE Resolve(c)
  BY <1>1, <1>3, ResolveKeeps DEF WindowInv
<1>4. CASE Delete(c)
  BY <1>1, <1>4, DeleteKeeps DEF WindowInv
<1>5. ASSUME NEW x \in Clients, Hear(c, x) PROVE WindowInv'
  BY <1>1, <1>5, HearKeeps DEF WindowInv
<1>6. ASSUME NEW x \in Clients, HearEnd(c, x) PROVE WindowInv'
  BY <1>1, <1>6, HearEndKeeps DEF WindowInv
<1>7. ASSUME NEW x \in Clients, SendHead(c, x) PROVE WindowInv'
  BY <1>1, <1>7, SendHeadKeeps DEF WindowInv
<1>8. ASSUME NEW x \in Clients, SendBody(c, x) PROVE WindowInv'
  BY <1>1, <1>8, SendBodyKeeps DEF WindowInv
<1>9. ASSUME NEW x \in Clients, SendLost(c, x) PROVE WindowInv'
  BY <1>1, <1>9, SendLostKeeps DEF WindowInv
<1> QED BY <1>2, <1>3, <1>4, <1>5, <1>6, <1>7, <1>8, <1>9 DEF Worker

\* Every step keeps the inductive invariant.
LEMMA WindowStep == TypeOK /\ WindowInv /\ [Next]_vars => TypeOK' /\ WindowInv'
<1> SUFFICES ASSUME TypeOK, WindowInv, [Next]_vars PROVE TypeOK' /\ WindowInv'
  OBVIOUS
<1>1. ASSUME NEW x \in Clients, Client(x) \/ Reader(x) \/ LobbyReads(x) \/ LobbyDrops(x)
      PROVE  TypeOK' /\ WindowInv'
  BY <1>1, ClientTypes, ClientStep
<1>2. ASSUME NEW c \in Channels, Worker(c) PROVE TypeOK' /\ WindowInv'
  <2>1. leave_pool[c] = {} /\ IsFiniteSet(join_pool[c]) /\ (pc[c] # "send" => todo[c] = {})
    BY DEF WindowInv, Inv, HomeInv, TickInv
  <2> QED BY <1>2, <2>1, WorkerTypes, WorkerStep
<1>3. CASE UNCHANGED vars
  <2>1. TypeOK'
    BY <1>3 DEF TypeOK, Sorted, vars, clientVars, netVars, poolVars, tickVars
  <2>2. PICK h \in [Clients -> Channels \cup {None}], b \in SUBSET Notices,
             v \in [Channels -> [Nat -> Nat]] : Inv(h, b, v)
    BY DEF WindowInv
  <2>3. Inv(h, b, v)'
    BY <1>3, <2>2, StutterKeeps
  <2> QED BY <2>1, <2>3 DEF WindowInv
<1> QED BY <1>1, <1>2, <1>3 DEF Next, Lobby

\* ChatWindow's variables have their types, cur_msgs is ordered by timestamp, and a
\* worker has sent the header alone to one client at most (chat_server.cpp:38-46,
\* communication.cpp:58).
THEOREM WindowTypesHold == Spec => []TypeOK
<1>1. Init => TypeOK /\ WindowInv
  BY InitTypes, InitInv
<1>2. TypeOK /\ WindowInv /\ [Next]_vars => (TypeOK /\ WindowInv)'
  BY WindowStep
<1> QED BY <1>1, <1>2, PTL DEF Spec

\* The inductive invariant: where every notice is, and in which order
\* (chat_server.cpp:9-46, channel.cpp:93-144).
THEOREM WindowInvHolds == Spec => []WindowInv
<1>1. Init => TypeOK /\ WindowInv
  BY InitTypes, InitInv
<1>2. TypeOK /\ WindowInv /\ [Next]_vars => (TypeOK /\ WindowInv)'
  BY WindowStep
<1> QED BY <1>1, <1>2, PTL DEF Spec

\* In the one order the notices of a channel come by their windows.
LEMMA PrecedesIs ==
    ASSUME NEW v \in [Channels -> [Nat -> Nat]], WinInv(v),
           NEW m \in Notices, NEW p \in Notices, m.ch = p.ch,
           m.n \in 1..Done(m.ch), p.n \in 1..Done(m.ch), Precedes(v, m, p)
    PROVE  /\ ~Precedes(v, p, m) /\ m # p
           /\ m.n < p.n \/ m.stamp < p.stamp
<1>1. m.ch \in Channels /\ m.n \in Nat /\ p.n \in Nat /\ m.stamp \in Nat /\ p.stamp \in Nat
  BY DEF Notices
<1>2. PICK i \in Nat, j \in Nat : i = v[m.ch][m.n] /\ j = v[m.ch][p.n]
  BY <1>1
<1>3. i < j \/ (i = j /\ Before(m, p))
  BY <1>2 DEF Precedes
<1>4. ~(Before(m, p) /\ Before(p, m)) /\ ~Before(m, m)
  BY <1>1 DEF Before
<1>5. ~Precedes(v, p, m)
  BY <1>2, <1>3, <1>4 DEF Precedes
<1>6. m # p
  BY <1>5
<1>7. CASE i < j
  <2>1. ~(p.n <= m.n)
    <3>1. p.n <= m.n => j <= i
      BY <1>1, <1>2 DEF WinInv
    <3> QED BY <1>7, <3>1
  <2> QED BY <1>1, <1>5, <1>6, <2>1
<1>8. CASE i = j /\ Before(m, p)
  BY <1>1, <1>5, <1>6, <1>8 DEF Before
<1> QED BY <1>3, <1>7, <1>8

\* Any two notices on a screen are in the one order, and among those made.
LEMMA ScreenIs ==
    ASSUME TypeOK, NEW h, NEW b \in SUBSET Notices,
           NEW v \in [Channels -> [Nat -> Nat]], Inv(h, b, v),
           NEW y \in Clients, NEW i \in DOMAIN shown[y], NEW j \in DOMAIN shown[y], i < j
    PROVE  /\ shown[y][i] \in b /\ shown[y][j] \in b /\ shown[y][i].ch = shown[y][j].ch
           /\ shown[y][i].n \in 1..Done(shown[y][i].ch)
           /\ shown[y][j].n \in 1..Done(shown[y][i].ch)
           /\ Precedes(v, shown[y][i], shown[y][j])
<1>1. shown[y] \in Screens /\ DOMAIN shown[y] = 1..Len(shown[y]) /\ Len(shown[y]) \in Nat
  BY StreamTyped, LenProperties DEF Screens
<1>2. h[y] # None
  <2>1. ASSUME h[y] = None PROVE FALSE
    <3>1. Len(shown[y]) <= 1
      <4>1. shown[y] = <<>> => Len(shown[y]) = 0
        OBVIOUS
      <4> QED BY <1>1, <2>1, <4>1 DEF Inv, RefusedInv
    <3> QED BY <1>1, <3>1
  <2> QED BY <2>1
<1>3. \A l \in DOMAIN shown[y] : shown[y][l] \in Received(y)
  BY DEF Received, ToSet
<1>4. \A m \in Received(y) : m \in b /\ m.ch = h[y] /\ m.n \in 1..Done(m.ch)
  <2>1. ASSUME NEW m \in Received(y) PROVE m \in b /\ m.ch = h[y] /\ m.n \in 1..Done(m.ch)
    <3>1. m \in b /\ m.ch = h[y] /\ m.n <= Done(m.ch)
      BY <1>2 DEF Inv, StreamInv
    <3>2. Known(h, m) /\ m.n \in Nat /\ m.ch \in Channels
      BY <3>1 DEF Inv, BookInv, Notices
    <3>3. Done(m.ch) \in Nat /\ heard[m.ch] \in Nat
      BY <3>2, DoneIs DEF Inv
    <3>4. m.n >= 1
      BY <3>2, <3>3 DEF Known
    <3> QED BY <3>1, <3>2, <3>3, <3>4
  <2> QED BY <2>1
<1>5. Precedes(v, shown[y][i], shown[y][j])
  BY DEF Inv, OrderInv, Ordered
<1> QED BY <1>3, <1>4, <1>5

\* SenderInOrder from OrderInv, and the numbers of BookInv.
LEMMA WindowSenders == TypeOK /\ WindowInv => SenderInOrder
<1> SUFFICES ASSUME TypeOK, WindowInv PROVE SenderInOrder
  OBVIOUS
<1>1. PICK h \in [Clients -> Channels \cup {None}], b \in SUBSET Notices,
           v \in [Channels -> [Nat -> Nat]] : Inv(h, b, v)
  BY DEF WindowInv
<1>2. ASSUME NEW y \in Clients, NEW i \in DOMAIN shown[y], NEW j \in DOMAIN shown[y], i < j,
             shown[y][i].type = "user", shown[y][j].type = "user",
             shown[y][i].from = shown[y][j].from
      PROVE  shown[y][i].k < shown[y][j].k \/ shown[y][i].stamp < shown[y][j].stamp
  <2>1. PICK m, p : m = shown[y][i] /\ p = shown[y][j]
    OBVIOUS
  <2>2. /\ m \in b /\ p \in b /\ m.ch = p.ch /\ m.n \in 1..Done(m.ch) /\ p.n \in 1..Done(m.ch)
        /\ Precedes(v, m, p)
    BY <1>1, <1>2, <2>1, ScreenIs
  <2>3. m.n < p.n \/ m.stamp < p.stamp
    BY <1>1, <2>2, PrecedesIs DEF Inv
  <2>4. SaidInOrder(m, p)
    BY <1>1, <2>2 DEF Inv, BookInv
  <2> QED BY <1>2, <2>1, <2>3, <2>4 DEF SaidInOrder
<1> QED BY <1>2 DEF SenderInOrder

\* ScreensAgree from OrderInv, which is the same for all screens.
LEMMA WindowScreens == TypeOK /\ WindowInv => ScreensAgree
<1> SUFFICES ASSUME TypeOK, WindowInv,
                    NEW y \in Clients, NEW z \in Clients,
                    NEW i \in DOMAIN shown[y], NEW j \in DOMAIN shown[y],
                    NEW p \in DOMAIN shown[z], NEW q \in DOMAIN shown[z],
                    i < j, shown[y][i] = shown[z][p], shown[y][j] = shown[z][q]
             PROVE  p < q
  BY DEF ScreensAgree
<1>1. PICK h \in [Clients -> Channels \cup {None}], b \in SUBSET Notices,
           v \in [Channels -> [Nat -> Nat]] : Inv(h, b, v)
  BY DEF WindowInv
<1>2. PICK m, e : m = shown[y][i] /\ e = shown[y][j]
  OBVIOUS
<1>3. /\ m \in b /\ e \in b /\ m.ch = e.ch /\ m.n \in 1..Done(m.ch) /\ e.n \in 1..Done(m.ch)
      /\ Precedes(v, m, e)
  BY <1>1, <1>2, ScreenIs
<1>4. ~Precedes(v, e, m) /\ m # e
  BY <1>1, <1>3, PrecedesIs DEF Inv
<1>5. p # q
  BY <1>2, <1>4
<1>6. ~(q < p)
  <2>1. q < p => Precedes(v, e, m)
    BY <1>1, <1>2 DEF Inv, OrderInv, Ordered
  <2> QED BY <1>4, <2>1
<1>7. p \in Nat /\ q \in Nat
  <2>1. shown[z] \in Screens
    BY StreamTyped
  <2>2. PICK l \in Nat : DOMAIN shown[z] = 1..l
    BY <2>1, LenProperties DEF Screens
  <2>3. p \in 1..l /\ q \in 1..l
    BY <2>2
  <2> QED BY <2>3
<1>8. \A k, l \in Nat : k # l /\ ~(l < k) => k < l
  OBVIOUS
<1> QED BY <1>5, <1>6, <1>7, <1>8

\* NoGap from GapInv.
LEMMA WindowGaps == TypeOK /\ WindowInv => NoGap
<1> SUFFICES ASSUME TypeOK, WindowInv, NEW x \in Clients, NEW c \in Channels,
                    NEW i \in NumbersAt(x, c), NEW j \in NumbersAt(x, c), NEW n \in i..j
             PROVE  n \in NumbersAt(x, c)
  BY DEF NoGap
<1>1. PICK h \in [Clients -> Channels \cup {None}], b \in SUBSET Notices,
           v \in [Channels -> [Nat -> Nat]] : Inv(h, b, v)
  BY DEF WindowInv
<1>2. PICK m : m \in Received(x) /\ ~IsError(m) /\ m.ch = c
  BY DEF NumbersAt
<1>3. h[x] # None
  BY <1>1, <1>2 DEF Inv, StreamInv, Error, IsError
<1>4. h[x] = c /\ \A p \in Received(x) : p.ch = c
  BY <1>1, <1>2, <1>3 DEF Inv, StreamInv
<1>5. NumbersAt(x, c) = Numbers(x)
  BY <1>4 DEF NumbersAt, Numbers
<1>6. PICK lo \in Nat, hi \in Nat : Numbers(x) = (lo + 1)..hi
  BY <1>1 DEF Inv, GapInv
<1>7. i \in (lo + 1)..hi /\ j \in (lo + 1)..hi
  BY <1>5, <1>6
<1>8. n \in (lo + 1)..hi
  BY <1>7
<1> QED BY <1>5, <1>6, <1>8

\* For any numbers of clients and channels, two messages of one sender stand on a
\* screen in the order in which they were sent, unless the second bears an earlier
\* time (chat_server.cpp:44).
THEOREM SenderInOrderHolds == Spec => []SenderInOrder
BY WindowTypesHold, WindowInvHolds, WindowSenders, PTL

\* What is on two screens is there in the same order, and nothing twice
\* (chat_server.cpp:9, 86).
THEOREM ScreensAgreeHolds == Spec => []ScreensAgree
BY WindowTypesHold, WindowInvHolds, WindowScreens, PTL

\* Nothing that a channel sends is missing between two notices that a client gets
\* (channel.cpp:93-144, chat_server.cpp:38-46).
THEOREM NoGapHolds == Spec => []NoGap
BY WindowTypesHold, WindowInvHolds, WindowGaps, PTL

\* No action but a connect and a send makes what is under way to a client longer.
LEMMA WireShorter ==
    ASSUME TypeOK, NEW y \in Clients, NEW x \in Clients,
           Say(x) \/ Quit(x) \/ Show(x) \/ Handshake(x) \/ SeeEnd(x)
               \/ LobbyReads(x) \/ LobbyDrops(x)
    PROVE  DOMAIN wire'[y] \subseteq DOMAIN wire[y]
<1>1. CASE wire' = wire
  BY <1>1
<1>2. ASSUME NEW k \in 0..Len(wire[x]), wire'[x] = SubSeq(wire[x], k + 1, Len(wire[x])),
             \A z \in Clients : z # x => wire'[z] = wire[z]
      PROVE  DOMAIN wire'[y] \subseteq DOMAIN wire[y]
  <2>1. PICK w \in Seq(Sends) : w = wire[x] /\ Len(w) \in Nat /\ DOMAIN w = 1..Len(w)
    BY StreamTyped, LenProperties
  <2>2. Len(SubSeq(w, k + 1, Len(w))) = Len(w) - k /\ SubSeq(w, k + 1, Len(w)) \in Seq(Sends)
    BY <1>2, <2>1, RestIs
  <2>3. DOMAIN SubSeq(w, k + 1, Len(w)) = 1..(Len(w) - k)
    BY <2>2, LenProperties
  <2>4. 1..(Len(w) - k) \subseteq 1..Len(w)
    BY <1>2, <2>1
  <2>5. DOMAIN wire'[x] \subseteq DOMAIN wire[x]
    BY <1>2, <2>1, <2>3, <2>4
  <2> QED BY <1>2, <2>5
<1>3. CASE Show(x)
  <2>1. 2 \in 0..Len(wire[x])
    <3>1. PICK n \in Nat : n = Len(wire[x])
      BY StreamTyped
    <3>2. n >= 2
      BY <1>3, <3>1, ShowIs
    <3>3. 2 \in 0..n
      BY <3>2
    <3> QED BY <3>1, <3>3
  <2>2. wire'[x] = SubSeq(wire[x], 2 + 1, Len(wire[x])) /\ \A z \in Clients : z # x => wire'[z] = wire[z]
    <3>1. wire'[x] = SubSeq(wire[x], 3, Len(wire[x])) /\ \A z \in Clients : z # x => wire'[z] = wire[z]
      BY <1>3, ShowIs
    <3>2. 2 + 1 = 3
      OBVIOUS
    <3> QED BY <3>1, <3>2
  <2> QED BY <1>2, <2>1, <2>2
<1>4. CASE Handshake(x)
  <2>1. PICK f \in 1..(Len(wire[x]) \div 2) :
            wire'[x] = SubSeq(wire[x], 2 * f + 1, Len(wire[x]))
    BY <1>4, HandshakeIs
  <2>2. 2 * f \in 0..Len(wire[x])
    BY <2>1, StreamTyped, Halves
  <2>3. \A z \in Clients : z # x => wire'[z] = wire[z]
    BY <1>4, HandshakeIs
  <2> QED BY <1>2, <2>1, <2>2, <2>3
<1>5. CASE ~(Show(x) \/ Handshake(x))
  <2>1. wire' = wire
    BY <1>5 DEF Say, Quit, SeeEnd, End, LobbyReads, LobbyDrops, netVars
  <2> QED BY <2>1
<1> QED BY <1>3, <1>4, <1>5

\* A send to x, of either half.
LEMMA SendAnswers ==
    ASSUME TypeOK, WindowInv, NEW c \in Channels, NEW x \in Clients,
           SendHead(c, x) \/ SendBody(c, x), NEW y \in Clients
    PROVE  JoinIsFirst(y)
<1>1. PICK h \in [Clients -> Channels \cup {None}], b \in SUBSET Notices,
           v \in [Channels -> [Nat -> Nat]] : Inv(h, b, v)
  BY DEF WindowInv
<1>2. PICK t \in {"head", "body"} :
          wire' = [wire EXCEPT ![x] = Append(wire[x], [part |-> t, win |-> cur_msgs[c]])]
  BY DEF SendHead, SendBody
<1>3. pc[c] = "send" /\ x \in todo[c] /\ ~Lost(x)
  BY DEF SendHead, SendBody, Sending, Lost
<1>4. wire \in [Clients -> Seq(Sends)]
  BY TypeParts DEF ClientTypeOK
<1>5. CASE y # x
  BY <1>2, <1>4, <1>5 DEF JoinIsFirst
<1>6. CASE y = x
  <2>1. Live(c, x)
    BY <1>1, <1>3 DEF Inv, TickInv, Live
  <2>2. \/ \E m \in Received(x) : IsJoinOf(m, x)
        \/ \E i \in DOMAIN cur_msgs[c] : IsJoinOf(cur_msgs[c][i], x)
    BY <1>1, <2>1 DEF Inv, AnswerInv
  <2>3. PICK w \in Seq(Sends), l \in Nat : w = wire[x] /\ l = Len(w) /\ DOMAIN w = 1..l
    BY <1>4, LenProperties
  <2>4. PICK e \in Sends : e = [part |-> t, win |-> cur_msgs[c]]
    BY SendTyped
  <2>5. wire'[x] = Append(w, e)
    BY <1>2, <1>4, <2>3, <2>4
  <2>6. Len(Append(w, e)) = l + 1 /\ Append(w, e) \in Seq(Sends) /\ Append(w, e)[l + 1] = e
    BY <2>3, AppendProperties
  <2>7. DOMAIN Append(w, e) = 1..(l + 1)
    BY <2>6, LenProperties
  <2>8. ASSUME NEW i \in (DOMAIN wire'[x]) \ DOMAIN wire[x]
        PROVE  wire'[x][i].win = cur_msgs[c]
    <3>1. i \in 1..(l + 1) /\ i \notin 1..l
      BY <2>3, <2>5, <2>7, <2>8
    <3>3. i = l + 1
      BY <3>1
    <3> QED BY <2>4, <2>5, <2>6, <3>3
  <2> QED BY <1>6, <2>2, <2>8 DEF JoinIsFirst, IsJoinOf
<1> QED BY <1>5, <1>6

\* A connect sends nothing but errors.
LEMMA ConnectAnswers ==
    ASSUME TypeOK, NEW x \in Clients, Connect(x), NEW y \in Clients
    PROVE  JoinIsFirst(y)
<1>1. wire' = wire \/ wire' = [wire EXCEPT ![x] = FrameOf(<<Error>>)]
  BY DEF Connect
<1>2. wire \in [Clients -> Seq(Sends)]
  BY TypeParts DEF ClientTypeOK
<1>3. CASE wire'[y] = wire[y]
  BY <1>3 DEF JoinIsFirst
<1>4. CASE wire'[y] = FrameOf(<<Error>>)
  <2>1. PICK r \in Seq(Sends) : /\ r = FrameOf(<<Error>>) /\ Len(r) = 2
                                /\ r[1] = [part |-> "head", win |-> <<Error>>]
                                /\ r[2] = [part |-> "body", win |-> <<Error>>]
    BY ErrorTyped, FrameTyped
  <2>2. DOMAIN r = 1..2
    BY <2>1, LenProperties
  <2>3. \A i \in 1..2 : r[i].win = <<Error>>
    <3>1. \A i \in 1..2 : i = 1 \/ i = 2
      OBVIOUS
    <3> QED BY <2>1, <3>1
  <2>4. 1 \in DOMAIN <<Error>> /\ IsError(<<Error>>[1])
    BY DEF IsError, Error
  <2> QED BY <1>4, <2>1, <2>2, <2>3, <2>4 DEF JoinIsFirst
<1> QED BY <1>1, <1>2, <1>3, <1>4

\* Whatever is sent to a client whose join has not been is its join.
LEMMA WindowAnswers ==
    TypeOK /\ WindowInv /\ [Next]_vars => [\A x \in Clients : JoinIsFirst(x)]_vars
<1> SUFFICES ASSUME TypeOK, WindowInv, Next, NEW y \in Clients PROVE JoinIsFirst(y)
  OBVIOUS
<1>1. CASE DOMAIN wire'[y] \subseteq DOMAIN wire[y]
  BY <1>1 DEF JoinIsFirst
<1>2. ASSUME NEW x \in Clients, Client(x) \/ Reader(x) PROVE JoinIsFirst(y)
  <2>1. CASE Connect(x)
    BY <2>1, ConnectAnswers
  <2>2. CASE ~Connect(x)
    <3>1. DOMAIN wire'[y] \subseteq DOMAIN wire[y]
      BY <1>2, <2>2, WireShorter DEF Client, Reader
    <3> QED BY <1>1, <3>1
  <2> QED BY <2>1, <2>2
<1>3. ASSUME NEW x \in Clients, LobbyReads(x) \/ LobbyDrops(x) PROVE JoinIsFirst(y)
  BY <1>1, <1>3, WireShorter
<1>4. ASSUME NEW c \in Channels, Worker(c) PROVE JoinIsFirst(y)
  <2>1. CASE Poll(c) \/ Resolve(c) \/ Delete(c)
    <3>1. wire' = wire
      BY <2>1 DEF Poll, Resolve, Delete, netVars
    <3> QED BY <1>1, <3>1
  <2>2. ASSUME NEW x \in Clients, Hear(c, x) \/ HearEnd(c, x) \/ SendLost(c, x) PROVE JoinIsFirst(y)
    <3>1. wire' = wire
      BY <2>2 DEF Hear, HearEnd, SendLost, netVars
    <3> QED BY <1>1, <3>1
  <2>3. ASSUME NEW x \in Clients, SendHead(c, x) \/ SendBody(c, x) PROVE JoinIsFirst(y)
    BY <2>3, SendAnswers
  <2> QED BY <1>4, <2>1, <2>2, <2>3 DEF Worker
<1> QED BY <1>2, <1>3, <1>4 DEF Next, Lobby

\* A worker gives up somebody who is there only in resolve_timestamps.
LEMMA WindowGivesUp ==
    TypeOK /\ [Next]_vars =>
        [\A c \in Channels : GivenUp(c) # {} =>
             members'[c] \subseteq next_deletion'[c] /\ Len(cur_msgs'[c]) > MaxFrame]_vars
<1> SUFFICES ASSUME TypeOK, Next, NEW c \in Channels, NEW y \in GivenUp(c)
             PROVE  members'[c] \subseteq next_deletion'[c] /\ Len(cur_msgs'[c]) > MaxFrame
  OBVIOUS
<1>a. TickTypeOK /\ PoolTypeOK
  BY TypeParts
<1>b. y \in next_deletion'[c] /\ y \notin next_deletion[c] /\ ~Lost(y)
  BY DEF GivenUp, Lost
<1>1. next_deletion' # next_deletion
  BY <1>b
<1>2. ASSUME NEW x \in Clients, Client(x) \/ Reader(x) \/ LobbyReads(x) \/ LobbyDrops(x)
      PROVE  FALSE
  <2>1. next_deletion' = next_deletion
    BY <1>2 DEF Client, Reader, Connect, Say, Quit, Show, Handshake, SeeEnd, End,
                LobbyReads, LobbyDrops, tickVars
  <2> QED BY <1>1, <2>1
<1>3. ASSUME NEW d \in Channels, Worker(d)
      PROVE  members'[c] \subseteq next_deletion'[c] /\ Len(cur_msgs'[c]) > MaxFrame
  <2>1. CASE Poll(d)
    <3>1. next_deletion'[c] \subseteq next_deletion[c]
      BY <1>a, <2>1 DEF Poll, TickTypeOK
    <3> QED BY <1>b, <3>1
  <2>2. CASE Resolve(d)
    <3>1. CASE TooLarge(cur_msgs'[d])
      <4>1. next_deletion' = [next_deletion EXCEPT ![d] = next_deletion[d] \cup members'[d]]
        BY <2>2, <3>1 DEF Resolve
      <4>2. c = d /\ next_deletion'[c] = next_deletion[c] \cup members'[c]
        BY <1>a, <1>b, <4>1 DEF TickTypeOK
      <4> QED BY <3>1, <4>2 DEF TooLarge
    <3>2. CASE ~TooLarge(cur_msgs'[d])
      BY <1>1, <2>2, <3>2 DEF Resolve
    <3> QED BY <3>1, <3>2
  <2>3. CASE Delete(d)
    BY <1>1, <2>3 DEF Delete
  <2>4. ASSUME NEW x \in Clients, Hear(d, x) \/ SendHead(d, x) \/ SendBody(d, x) PROVE FALSE
    BY <1>1, <2>4 DEF Hear, SendHead, SendBody
  <2>5. ASSUME NEW x \in Clients, HearEnd(d, x) \/ SendLost(d, x) PROVE FALSE
    <3>1. next_deletion' = [next_deletion EXCEPT ![d] = next_deletion[d] \cup {x}] /\ Lost(x)
      BY <1>1, <2>5 DEF HearEnd, SendLost, Lost
    <3>2. y = x
      <4>1. next_deletion'[c] \subseteq next_deletion[c] \cup {x}
        BY <1>a, <3>1 DEF TickTypeOK
      <4> QED BY <1>b, <4>1
    <3> QED BY <1>b, <3>1, <3>2
  <2> QED BY <1>3, <2>1, <2>2, <2>3, <2>4, <2>5 DEF Worker
<1> QED BY <1>2, <1>3 DEF Next, Lobby

\* The first window that a client gets has its own join, or an error: it is with
\* that that the handshake ends (channel.cpp:9, 122-123, client.cpp:257).
THEOREM AnsweredFirstHolds == Spec => AnsweredFirst
<1>1. TypeOK /\ WindowInv /\ [Next]_vars => [\A x \in Clients : JoinIsFirst(x)]_vars
  BY WindowAnswers
<1> QED BY <1>1, WindowTypesHold, WindowInvHolds, PTL DEF Spec, AnsweredFirst

\* Somebody who is still there is given up only together with the whole channel, for
\* a window that no frame holds (communication.cpp:58, chat_server.cpp:86).
THEOREM GivenUpTogetherHolds == Spec => GivenUpTogether
<1>1. TypeOK /\ [Next]_vars =>
          [\A c \in Channels : GivenUp(c) # {} =>
               members'[c] \subseteq next_deletion'[c] /\ Len(cur_msgs'[c]) > MaxFrame]_vars
  BY WindowGivesUp
<1> QED BY <1>1, WindowTypesHold, PTL DEF Spec, GivenUpTogether
=============================================================================
