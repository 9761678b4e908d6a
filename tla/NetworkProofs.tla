---------------------------- MODULE NetworkProofs ----------------------------
(* Proofs about Socket, for any helpers, capacities, sizes of calls and       *)
(* amounts written: every byte is in one place and in order.                  *)
(* And about HttpClient, for any responses, chunks and readers: transfers     *)
(* are watched, and what they bring reaches whoever reads it.                 *)
EXTENDS Socket, HttpClient, SequenceTheorems, FiniteSetTheorems, TLAPS

(* Socket                                                                    *)

Bytes == Jobs \X Nat
CallKinds == {"none", "accept", "connect", "read", "write"}

SocketTypes ==
    /\ listening \in BOOLEAN /\ knocking \in BOOLEAN
    /\ link \in [Ends -> {"none", "open", "closed"}]
    /\ wire \in [Ends -> Seq(Bytes)]
    /\ op \in [Jobs -> [call : CallKinds, size : 0..MaxSize, done : Nat, buf : Seq(Bytes)]]
    /\ asleep \in SUBSET Jobs /\ exception \in SUBSET Jobs
    /\ written \in [Jobs -> Nat]
    /\ returned \in [Jobs -> Seq(Bytes)] /\ discarded \in [Jobs -> Seq(Bytes)]

\* What a call has done so far, and what it may still write.
CallIsKnown(j) ==
    /\ op[j].call # "read" => op[j].buf = <<>>
    /\ op[j].call = "read" => Len(op[j].buf) = op[j].done
    /\ op[j].size > 0 => op[j].done <= op[j].size
    /\ op[j].call = "write" => op[j].size > 0
    /\ op[j].call \notin {"read", "write"} => op[j].size = 0
    /\ written[j] <= MaxWritten[j]
    /\ op[j].call = "write" => written[j] + (op[j].size - op[j].done) <= MaxWritten[j]

CallsAreKnown == \A j \in Jobs : CallIsKnown(j)

\* The ends: what is closed stays closed, and nothing comes for it.
EndsAreKnown ==
    /\ \A j \in Jobs : op[j].call = "connect" => j = Client
    /\ \A j \in Jobs : op[j].call = "accept" => j = Server
    /\ op[Client].call = "connect" /\ Client \in asleep => link["client"] = "none"
    /\ \A e \in Ends : Len(wire[e]) <= Capacity
    /\ \A e \in Ends : link[e] = "closed" => wire[e] = <<>>

\* The bytes that were written for an end, and those its reader r has taken.
WrittenFor(e) == {b \in Bytes : EndOf(b[1]) # e /\ b[2] \in 1..written[b[1]]}
Got(r) == ToSet(Taken(r))
Gone(r) == Got(r) \cup ToSet(discarded[r])

\* Of one writer, every byte of S was written before every byte of T.
Before(S, T) == \A a \in S : \A b \in T : a[1] = b[1] => a[2] < b[2]

BytesInOrder ==
    /\ \A e \in Ends : InWriteOrder(wire[e]) /\ ToSet(wire[e]) \subseteq WrittenFor(e)
    /\ \A r \in Jobs :
        /\ InWriteOrder(Taken(r)) /\ InWriteOrder(discarded[r] \o op[r].buf)
        /\ Gone(r) \subseteq WrittenFor(EndOf(r))
        /\ Before(Gone(r), ToSet(wire[EndOf(r)]))

BytesApart ==
    /\ \A r \in Jobs : Got(r) \cap ToSet(discarded[r]) = {}
    /\ \A q, r \in Jobs : q # r => Gone(q) \cap Gone(r) = {}

NoneIsLost ==
    \A e \in Ends : link[e] # "closed" =>
        \A b \in WrittenFor(e) :
            b \in ToSet(wire[e]) \/ \E r \in Jobs : EndOf(r) = e /\ b \in Gone(r)

SocketInv ==
    /\ SocketTypes /\ CallsAreKnown /\ EndsAreKnown /\ ErrorsReachTheirCall
    /\ BytesInOrder /\ BytesApart /\ NoneIsLost

-----------------------------------------------------------------------------
(* Sequences of bytes.                                                      *)

LEMMA CatFact ==
    ASSUME NEW s \in Seq(Bytes), NEW t \in Seq(Bytes)
    PROVE  /\ s \o t \in Seq(Bytes) /\ Len(s \o t) = Len(s) + Len(t)
           /\ ToSet(s \o t) = ToSet(s) \cup ToSet(t)
           /\ InWriteOrder(s \o t) <=>
                InWriteOrder(s) /\ InWriteOrder(t) /\ Before(ToSet(s), ToSet(t))
<1> DEFINE u == s \o t
<1>1. /\ Len(s) \in Nat /\ DOMAIN s = 1..Len(s)
      /\ Len(t) \in Nat /\ DOMAIN t = 1..Len(t)
      /\ u \in Seq(Bytes) /\ DOMAIN u = 1..Len(s) + Len(t)
      /\ Len(u) = Len(s) + Len(t)
    BY ConcatProperties, LenProperties
<1>2. /\ \A i \in DOMAIN s : i \in DOMAIN u /\ u[i] = s[i]
      /\ \A i \in DOMAIN t : i + Len(s) \in DOMAIN u /\ u[i + Len(s)] = t[i]
      /\ \A i \in DOMAIN u : i \in DOMAIN s \/ (i - Len(s) \in DOMAIN t /\ u[i] = t[i - Len(s)])
  <2>1. \A i \in 1..Len(s) + Len(t) : u[i] = IF i <= Len(s) THEN s[i] ELSE t[i - Len(s)]
      BY ConcatProperties
  <2> HIDE DEF u
  <2> QED
      BY <1>1, <2>1
<1> HIDE DEF u
<1>3. ToSet(u) = ToSet(s) \cup ToSet(t)
    BY <1>2 DEF ToSet
<1>4. ASSUME InWriteOrder(u)
      PROVE  InWriteOrder(s) /\ InWriteOrder(t) /\ Before(ToSet(s), ToSet(t))
  <2>1. InWriteOrder(s)
      BY <1>1, <1>2, <1>4 DEF InWriteOrder
  <2>2. InWriteOrder(t)
    <3> SUFFICES ASSUME NEW i \in DOMAIN t, NEW k \in DOMAIN t, i < k, t[i][1] = t[k][1]
                 PROVE  t[i][2] < t[k][2]
        BY DEF InWriteOrder
    <3>1. i + Len(s) < k + Len(s)
        BY <1>1
    <3>2. /\ i + Len(s) \in DOMAIN u /\ u[i + Len(s)] = t[i]
          /\ k + Len(s) \in DOMAIN u /\ u[k + Len(s)] = t[k]
        BY <1>2
    <3> QED
        BY <1>4, <3>1, <3>2 DEF InWriteOrder
  <2>3. ASSUME NEW i \in DOMAIN s, NEW k \in DOMAIN t, s[i][1] = t[k][1]
        PROVE  s[i][2] < t[k][2]
    <3>1. i < k + Len(s)
        BY <1>1
    <3> QED
        BY <1>2, <1>4, <2>3, <3>1 DEF InWriteOrder
  <2> QED
      BY <2>1, <2>2, <2>3 DEF Before, ToSet
<1>5. ASSUME InWriteOrder(s), InWriteOrder(t), Before(ToSet(s), ToSet(t))
      PROVE  InWriteOrder(u)
  <2> SUFFICES ASSUME NEW i \in DOMAIN u, NEW k \in DOMAIN u, i < k, u[i][1] = u[k][1]
               PROVE  u[i][2] < u[k][2]
      BY DEF InWriteOrder
  <2>1. CASE i \in DOMAIN s /\ k \in DOMAIN s
      BY <1>2, <1>5, <2>1 DEF InWriteOrder
  <2>2. CASE i \in DOMAIN s /\ k - Len(s) \in DOMAIN t /\ u[k] = t[k - Len(s)]
    <3>1. s[i] \in ToSet(s) /\ t[k - Len(s)] \in ToSet(t)
        BY <2>2 DEF ToSet
    <3> QED
        BY <1>2, <1>5, <2>2, <3>1 DEF Before
  <2>3. CASE i - Len(s) \in DOMAIN t /\ u[i] = t[i - Len(s)]
    <3>1. k - Len(s) \in DOMAIN t /\ u[k] = t[k - Len(s)] /\ i - Len(s) < k - Len(s)
        BY <1>1, <1>2, <2>3
    <3> QED
        BY <1>5, <2>3, <3>1 DEF InWriteOrder
  <2> QED
      BY <1>2, <2>1, <2>2, <2>3
<1> QED
    BY <1>1, <1>3, <1>4, <1>5 DEF u

LEMMA CatAssociative ==
    \A s, t, u \in Seq(Bytes) : s \o (t \o u) = (s \o t) \o u
<1> TAKE s, t, u \in Seq(Bytes)
<1> QED
    BY ConcatAssociative, SMTT(60)

\* The first n bytes of a sequence, and the others.
LEMMA SocketSplitFact ==
    ASSUME NEW s \in Seq(Bytes), NEW n \in Nat, n <= Len(s)
    PROVE  /\ SubSeq(s, 1, n) \in Seq(Bytes) /\ SubSeq(s, n + 1, Len(s)) \in Seq(Bytes)
           /\ Len(SubSeq(s, 1, n)) = n /\ Len(SubSeq(s, n + 1, Len(s))) = Len(s) - n
           /\ s = SubSeq(s, 1, n) \o SubSeq(s, n + 1, Len(s))
<1> DEFINE a == SubSeq(s, 1, n)
           b == SubSeq(s, n + 1, Len(s))
           u == a \o b
<1>1. Len(s) \in Nat /\ \A i \in 1..Len(s) : s[i] \in Bytes
    BY LenProperties, ElementOfSeq
<1>2. /\ a \in Seq(Bytes) /\ Len(a) = n
      /\ \A i \in 1..n : a[i] = s[i]
    BY <1>1, SubSeqProperties
<1>3. /\ b \in Seq(Bytes) /\ Len(b) = Len(s) - n
      /\ \A i \in 1..Len(s) - n : b[i] = s[n + i]
    BY <1>1, SubSeqProperties
<1>4. /\ u \in Seq(Bytes) /\ Len(u) = Len(s)
      /\ \A i \in 1..Len(s) : u[i] = IF i <= n THEN a[i] ELSE b[i - n]
  <2> HIDE DEF a, b
  <2>1. Len(a) + Len(b) = Len(s)
      BY <1>1, <1>2, <1>3
  <2>2. /\ u \in Seq(Bytes) /\ Len(u) = Len(a) + Len(b)
        /\ \A i \in 1..Len(a) + Len(b) : u[i] = IF i <= Len(a) THEN a[i] ELSE b[i - Len(a)]
      BY <1>2, <1>3, ConcatProperties
  <2> QED
      BY <1>2, <2>1, <2>2
<1>5. s = u
  <2> HIDE DEF a, b, u
  <2> QED
      BY <1>1, <1>2, <1>3, <1>4, SeqEqual
<1> QED
    BY <1>2, <1>3, <1>5

\* Bytes of which some come before the others are not the same.
LEMMA BeforeApart ==
    ASSUME NEW S \in SUBSET Bytes, NEW T, Before(S, T)
    PROVE  S \cap T = {}
<1> SUFFICES ASSUME NEW b \in S, b \in T
             PROVE  FALSE
    OBVIOUS
<1>1. b[2] < b[2] /\ b[2] \in Nat
    BY DEF Before, Bytes
<1> QED
    BY <1>1

LEMMA BeforeCup ==
    ASSUME NEW S, NEW T, NEW U
    PROVE  /\ Before(S \cup T, U) <=> Before(S, U) /\ Before(T, U)
           /\ Before(U, S \cup T) <=> Before(U, S) /\ Before(U, T)
    BY DEF Before

\* The bytes a writer j sends after the first n.
LEMMA FreshFact ==
    ASSUME NEW j \in Jobs, NEW w \in Nat, NEW n \in Nat
    PROVE  LET s == [i \in 1..n |-> <<j, w + 1 + i - 1>>]
           IN  /\ s \in Seq(Bytes) /\ Len(s) = n /\ InWriteOrder(s)
               /\ ToSet(s) = {j} \X (w + 1 .. w + n)
<1> DEFINE s == [i \in 1..n |-> <<j, w + 1 + i - 1>>]
<1>1. /\ s \in [1..n -> Bytes] /\ \A i \in 1..n : s[i] = <<j, w + i>>
    BY DEF Bytes
<1>2. s \in Seq(Bytes) /\ Len(s) = n /\ DOMAIN s = 1..n
    BY <1>1
<1> HIDE DEF s
<1>3. InWriteOrder(s)
  <2> SUFFICES ASSUME NEW i \in 1..n, NEW k \in 1..n, i < k
               PROVE  s[i][2] < s[k][2]
      BY <1>2 DEF InWriteOrder
  <2>1. s[i][2] = w + i /\ s[k][2] = w + k
      BY <1>1
  <2> QED
      BY <2>1
<1>4. ToSet(s) = {j} \X (w + 1 .. w + n)
  <2>1. ASSUME NEW i \in 1..n
        PROVE  s[i] \in {j} \X (w + 1 .. w + n)
    <3>1. s[i] = <<j, w + i>> /\ w + i \in w + 1 .. w + n
        BY <1>1
    <3> QED
        BY <3>1
  <2>2. ASSUME NEW m \in w + 1 .. w + n
        PROVE  <<j, m>> \in ToSet(s)
    <3>1. m - w \in 1..n /\ s[m - w] = <<j, w + (m - w)>> /\ w + (m - w) = m
        BY <1>1
    <3> QED
        BY <1>2, <3>1 DEF ToSet
  <2>3. ToSet(s) \subseteq {j} \X (w + 1 .. w + n)
      BY <1>2, <2>1 DEF ToSet
  <2>4. {j} \X (w + 1 .. w + n) \subseteq ToSet(s)
      BY <2>2
  <2> QED
      BY <2>3, <2>4
<1> QED
    BY <1>2, <1>3, <1>4 DEF s

-----------------------------------------------------------------------------
(* The ends, and the operation of a job.                                    *)

LEMMA EndsFact ==
    /\ Server \in Jobs /\ Client \in Jobs /\ Server # Client
    /\ EndOf(Server) = "server" /\ EndOf(Client) = "client"
    /\ \A j \in Jobs : EndOf(j) \in Ends
    /\ \A e \in Ends : Peer(e) \in Ends /\ Peer(e) # e
    BY SocketAssumption DEF Jobs, EndOf, Ends, Peer

LEMMA SizesFact == MaxSize \in Nat /\ 0 \in 0..MaxSize /\ \A n \in 1..MaxSize : n \in Nat /\ n \in 0..MaxSize
    BY SocketAssumption

Ops == [call : CallKinds, size : 0..MaxSize, done : Nat, buf : Seq(Bytes)]

LEMMA NoOpFact ==
    /\ NoOp \in Ops
    /\ NoOp.call = "none" /\ NoOp.size = 0 /\ NoOp.done = 0 /\ NoOp.buf = <<>>
<1>1. <<>> \in Seq(Bytes)
    BY EmptySeq
<1> QED
    BY <1>1, SizesFact DEF NoOp, Ops, CallKinds

LEMMA BegunFact ==
    ASSUME NEW call \in CallKinds, NEW size \in 0..MaxSize
    PROVE  LET o == [NoOp EXCEPT !.call = call, !.size = size]
           IN  o \in Ops /\ o.call = call /\ o.size = size /\ o.done = 0 /\ o.buf = <<>>
<1>1. <<>> \in Seq(Bytes)
    BY EmptySeq
<1> QED
    BY <1>1 DEF NoOp, Ops

\* A call begins: the job has no operation, and gets one that waits.
Begins(j, call, size) ==
    /\ Calls(j) /\ Start(j, call, size)
    /\ UNCHANGED <<listening, knocking, link, wire, exception, written, returned, discarded>>

\* Every step of the sockets is one of these.
LEMMA SocketForms ==
    ASSUME SocketNext
    PROVE  \/ Listen \/ Connected \/ Refused \/ Accepted
           \/ Begins(Server, "accept", 0) /\ link["server"] = "none"
           \/ Begins(Client, "connect", 0) /\ link["client"] = "none"
           \/ \E j \in Jobs :
                \/ Close(j) \/ Error(j) \/ Throw(j) \/ Again(j) \/ Return(j)
                \/ \E size \in 0..MaxSize : Begins(j, "read", size)
                \/ \E size \in 1..MaxSize :
                      Begins(j, "write", size) /\ written[j] + size <= MaxWritten[j]
                \/ \E n \in 1..MaxSize : Arrived(j, n) \/ Sent(j, n)
<1>1. CASE Call
    BY <1>1 DEF Call, Accept, Connect, Read, Write, Begins
<1>2. CASE Completion
    BY <1>2 DEF Completion, Transfers
<1>3. ASSUME NEW j \in Jobs, Resume(j)
      PROVE  Throw(j) \/ Again(j) \/ Return(j)
    BY <1>3 DEF Resume
<1> QED
    BY <1>1, <1>2, <1>3 DEF SocketNext

\* What a completed operation moves is typed.
LEMMA ArrivedFact ==
    ASSUME SocketTypes, CallsAreKnown, NEW j \in Jobs, NEW n \in 1..MaxSize, Arrived(j, n)
    PROVE  LET e == EndOf(j)
               a == SubSeq(wire[e], 1, n)
               b == SubSeq(wire[e], n + 1, Len(wire[e]))
           IN  /\ e \in Ends /\ a \in Seq(Bytes) /\ b \in Seq(Bytes)
               /\ Len(a) = n /\ Len(b) = Len(wire[e]) - n
               /\ wire[e] = a \o b /\ n <= Len(wire[e])
               /\ op[j].call = "read" /\ j \in asleep /\ n <= ToRead(j)
               /\ op[j].buf \o a \in Seq(Bytes) /\ Len(op[j].buf \o a) = op[j].done + n
               /\ wire' = [wire EXCEPT ![e] = b]
               /\ op' = [op EXCEPT ![j] = [op[j] EXCEPT !.done = op[j].done + n, !.buf = op[j].buf \o a]]
               /\ asleep' = asleep \ {j}
               /\ UNCHANGED <<listening, knocking, link, exception, written, returned, discarded>>
<1> DEFINE e == EndOf(j)
           a == SubSeq(wire[e], 1, n)
           b == SubSeq(wire[e], n + 1, Len(wire[e]))
<1>1. e \in Ends /\ wire[e] \in Seq(Bytes) /\ n \in Nat /\ n <= Len(wire[e])
      /\ op[j].call = "read" /\ j \in asleep /\ n <= ToRead(j)
  <2>1. e \in Ends /\ n \in Nat
      BY EndsFact, SizesFact
  <2>2. wire[e] \in Seq(Bytes)
      BY <2>1 DEF SocketTypes
  <2>3. n <= Len(wire[e]) /\ op[j].call = "read" /\ j \in asleep /\ n <= ToRead(j)
      BY DEF Arrived, Waits
  <2> QED
      BY <2>1, <2>2, <2>3
<1>2. /\ a \in Seq(Bytes) /\ b \in Seq(Bytes) /\ Len(a) = n
      /\ Len(b) = Len(wire[e]) - n /\ wire[e] = a \o b
    BY <1>1, SocketSplitFact
<1>3. op[j].buf \in Seq(Bytes) /\ Len(op[j].buf) = op[j].done
    BY <1>1 DEF SocketTypes, CallsAreKnown, CallIsKnown
<1>4. op[j].buf \o a \in Seq(Bytes) /\ Len(op[j].buf \o a) = op[j].done + n
    BY <1>2, <1>3, CatFact
<1>5. /\ wire' = [wire EXCEPT ![e] = b]
      /\ op' = [op EXCEPT ![j] = [op[j] EXCEPT !.done = op[j].done + n, !.buf = op[j].buf \o a]]
      /\ asleep' = asleep \ {j}
      /\ UNCHANGED <<listening, knocking, link, exception, written, returned, discarded>>
  <2>1. op' = [op EXCEPT ![j].done = @ + n, ![j].buf = op[j].buf \o a]
      BY DEF Arrived, Filled
  <2>2. op \in [Jobs -> Ops]
      BY DEF SocketTypes, Ops
  <2>3. op' = [op EXCEPT ![j] = [op[j] EXCEPT !.done = op[j].done + n, !.buf = op[j].buf \o a]]
    <3> HIDE DEF a
    <3> QED
        BY <2>1, <2>2 DEF Ops
  <2>4. /\ wire' = [wire EXCEPT ![e] = b] /\ asleep' = asleep \ {j}
        /\ UNCHANGED <<listening, knocking, link, exception, written, returned, discarded>>
      BY DEF Arrived, WakesUp
  <2> QED
      BY <2>3, <2>4
<1> QED
    BY <1>1, <1>2, <1>4, <1>5

LEMMA SentFact ==
    ASSUME SocketTypes, NEW j \in Jobs, NEW n \in 1..MaxSize, Sent(j, n)
    PROVE  LET to == Peer(EndOf(j))
           IN  \E s \in Seq(Bytes) :
                 /\ to \in Ends /\ Len(s) = n /\ InWriteOrder(s) /\ n \in Nat
                 /\ ToSet(s) = {j} \X (written[j] + 1 .. written[j] + n)
                 /\ wire[to] \o s \in Seq(Bytes) /\ Len(wire[to] \o s) <= Capacity
                 /\ wire' = [wire EXCEPT ![to] = IF link[to] = "closed" THEN <<>> ELSE @ \o s]
                 /\ op' = [op EXCEPT ![j] = [op[j] EXCEPT !.done = op[j].done + n]]
                 /\ written' = [written EXCEPT ![j] = @ + n]
                 /\ op[j].call = "write" /\ j \in asleep /\ n <= ToWrite(j)
                 /\ asleep' = asleep \ {j}
                 /\ UNCHANGED <<listening, knocking, link, exception, returned, discarded>>
<1> DEFINE to == Peer(EndOf(j))
           s == [i \in 1..n |-> <<j, written[j] + 1 + i - 1>>]
<1>1. to \in Ends /\ wire[to] \in Seq(Bytes) /\ n \in Nat /\ written[j] \in Nat
  <2>1. to \in Ends /\ n \in Nat
      BY EndsFact, SizesFact
  <2> QED
      BY <2>1 DEF SocketTypes
<1>2. /\ s \in Seq(Bytes) /\ Len(s) = n /\ InWriteOrder(s)
      /\ ToSet(s) = {j} \X (written[j] + 1 .. written[j] + n)
    BY <1>1, FreshFact
<1>3. /\ wire' = [wire EXCEPT ![to] = IF link[to] = "closed" THEN <<>> ELSE @ \o s]
      /\ Len(wire[to]) + n <= Capacity
      /\ op' = [op EXCEPT ![j] = [op[j] EXCEPT !.done = op[j].done + n]]
      /\ written' = [written EXCEPT ![j] = @ + n]
      /\ op[j].call = "write" /\ j \in asleep /\ n <= ToWrite(j)
      /\ asleep' = asleep \ {j}
      /\ UNCHANGED <<listening, knocking, link, exception, returned, discarded>>
  <2>1. op' = [op EXCEPT ![j] = [op[j] EXCEPT !.done = op[j].done + n]]
      BY DEF Sent, SocketTypes
  <2> QED
      BY <2>1 DEF Sent, NextByte, WakesUp, Waits
<1> HIDE DEF s
<1>4. wire[to] \o s \in Seq(Bytes) /\ Len(wire[to] \o s) = Len(wire[to]) + n
    BY <1>1, <1>2, CatFact
<1> QED
    BY <1>1, <1>2, <1>3, <1>4

LEMMA SocketTypesStep ==
    ASSUME SocketTypes, CallsAreKnown, [SocketNext]_socketVars
    PROVE  SocketTypes'
<1> USE DEF SocketTypes
<1>1. CASE Listen \/ Connected \/ Refused \/ Accepted \/ UNCHANGED socketVars
    BY <1>1, EndsFact DEF Listen, Connected, Refused, Accepted, socketVars, WakesUp, Fails, Ends
<1>2. ASSUME NEW j \in Jobs, NEW call \in CallKinds, NEW size \in 0..MaxSize, Begins(j, call, size)
      PROVE  SocketTypes'
  <2> DEFINE o == [NoOp EXCEPT !.call = call, !.size = size]
  <2>1. op' = [op EXCEPT ![j] = o] /\ asleep' = asleep \cup {j}
      BY <1>2 DEF Begins, Start
  <2>2. o \in Ops
      BY BegunFact
  <2> HIDE DEF o
  <2> QED
      BY <1>2, <2>1, <2>2 DEF Begins, Ops
<1>3. ASSUME NEW j \in Jobs, Close(j) \/ Error(j) \/ Again(j)
      PROVE  SocketTypes'
  <2>1. <<>> \in Seq(Bytes)
      BY EmptySeq
  <2>2. CASE Close(j)
      BY <2>1, <2>2 DEF Close
  <2>3. CASE Error(j) \/ Again(j)
      BY <2>3 DEF Error, Again, WakesUp, Fails
  <2> QED
      BY <1>3, <2>2, <2>3
<1>4. ASSUME NEW j \in Jobs, Throw(j) \/ Return(j)
      PROVE  SocketTypes'
  <2>1. op' = [op EXCEPT ![j] = NoOp] /\ exception' \in SUBSET Jobs /\ NoOp \in Ops
      BY <1>4, NoOpFact DEF Throw, Return
  <2>2. discarded[j] \o op[j].buf \in Seq(Bytes) /\ returned[j] \o op[j].buf \in Seq(Bytes)
      BY CatFact
  <2>3. op' \in [Jobs -> Ops]
      BY <2>1 DEF Ops
  <2>4. CASE Throw(j)
      BY <2>1, <2>2, <2>3, <2>4 DEF Throw, Ops
  <2>5. CASE Return(j)
      BY <2>1, <2>2, <2>3, <2>5 DEF Return, Ops
  <2> QED
      BY <1>4, <2>4, <2>5
<1>5. ASSUME NEW j \in Jobs, NEW n \in 1..MaxSize, Arrived(j, n)
      PROVE  SocketTypes'
  <2> DEFINE e == EndOf(j)
             a == SubSeq(wire[e], 1, n)
             b == SubSeq(wire[e], n + 1, Len(wire[e]))
             o == [op[j] EXCEPT !.done = op[j].done + n, !.buf = op[j].buf \o a]
  <2>1. /\ e \in Ends /\ b \in Seq(Bytes) /\ op[j].buf \o a \in Seq(Bytes)
        /\ wire' = [wire EXCEPT ![e] = b] /\ op' = [op EXCEPT ![j] = o]
        /\ asleep' = asleep \ {j}
        /\ UNCHANGED <<listening, knocking, link, exception, written, returned, discarded>>
      BY <1>5, ArrivedFact
  <2>2. o \in Ops
    <3>1. op[j] \in Ops /\ op[j].done + n \in Nat
        BY SizesFact DEF Ops
    <3> HIDE DEF a, SocketTypes
    <3> QED
        BY <2>1, <3>1 DEF Ops
  <2> HIDE DEF o, a, b, e
  <2> QED
      BY <2>1, <2>2 DEF Ops
<1>6. ASSUME NEW j \in Jobs, NEW n \in 1..MaxSize, Sent(j, n)
      PROVE  SocketTypes'
  <2> DEFINE to == Peer(EndOf(j))
             o == [op[j] EXCEPT !.done = op[j].done + n]
  <2>1. PICK s \in Seq(Bytes) :
          /\ to \in Ends /\ n \in Nat /\ wire[to] \o s \in Seq(Bytes)
          /\ wire' = [wire EXCEPT ![to] = IF link[to] = "closed" THEN <<>> ELSE @ \o s]
          /\ op' = [op EXCEPT ![j] = o]
          /\ written' = [written EXCEPT ![j] = @ + n] /\ asleep' = asleep \ {j}
          /\ UNCHANGED <<listening, knocking, link, exception, returned, discarded>>
      BY <1>6, SentFact
  <2>2. o \in Ops /\ written[j] + n \in Nat
    <3>1. op[j] \in Ops /\ op[j].done + n \in Nat /\ written[j] + n \in Nat
        BY SizesFact DEF Ops
    <3> HIDE DEF SocketTypes
    <3> QED
        BY <3>1 DEF Ops
  <2>3. <<>> \in Seq(Bytes)
      BY EmptySeq
  <2> HIDE DEF o, to
  <2> QED
      BY <2>1, <2>2, <2>3 DEF Ops
<1>7. /\ {"accept", "connect", "read", "write"} \subseteq CallKinds
      /\ 0 \in 0..MaxSize /\ \A n \in 1..MaxSize : n \in 0..MaxSize
    BY SizesFact DEF CallKinds
<1> QED
    BY <1>1, <1>2, <1>3, <1>4, <1>5, <1>6, <1>7, SocketForms, EndsFact

LEMMA CallsStep ==
    ASSUME SocketTypes, CallsAreKnown, [SocketNext]_socketVars
    PROVE  CallsAreKnown'
<1> SUFFICES ASSUME NEW k \in Jobs
             PROVE  CallIsKnown(k)'
    BY DEF CallsAreKnown
<1>1. CallIsKnown(k)
    BY DEF CallsAreKnown
<1>2. op[k] \in Ops /\ written[k] \in Nat /\ MaxWritten[k] \in Nat
    BY SocketAssumption DEF SocketTypes, Ops
<1>3. ASSUME op'[k] = op[k], written'[k] = written[k]
      PROVE  CallIsKnown(k)'
    BY <1>1, <1>3 DEF CallIsKnown
<1>4. ASSUME NEW j \in Jobs, j # k, NEW o, op' = [op EXCEPT ![j] = o]
      PROVE  op'[k] = op[k]
    BY <1>4 DEF SocketTypes
<1>5. CASE Listen \/ Connected \/ Refused \/ Accepted \/ UNCHANGED socketVars
    BY <1>3, <1>5 DEF Listen, Connected, Refused, Accepted, socketVars
<1>6. ASSUME NEW j \in Jobs, Close(j) \/ Error(j) \/ Again(j)
      PROVE  CallIsKnown(k)'
    BY <1>3, <1>6 DEF Close, Error, Again
<1>7. ASSUME NEW j \in Jobs, NEW call \in CallKinds, NEW size \in 0..MaxSize, Begins(j, call, size),
             call \notin {"read", "write"} => size = 0,
             call = "write" => size > 0 /\ written[j] + size <= MaxWritten[j]
      PROVE  CallIsKnown(k)'
  <2> DEFINE o == [NoOp EXCEPT !.call = call, !.size = size]
  <2>1. op' = [op EXCEPT ![j] = o] /\ written' = written
      BY <1>7 DEF Begins, Start
  <2>2. o.call = call /\ o.size = size /\ o.done = 0 /\ o.buf = <<>>
      BY BegunFact
  <2> HIDE DEF o
  <2>3. CASE j # k
      BY <1>3, <1>4, <2>1, <2>3
  <2>4. CASE j = k
    <3>1. op'[k] = o /\ written'[k] = written[k]
        BY <2>1, <2>4 DEF SocketTypes
    <3>2. size \in Nat /\ Len(<<>>) = 0
        BY SizesFact
    <3> QED
        BY <1>1, <1>2, <1>7, <2>2, <2>4, <3>1, <3>2 DEF CallIsKnown
  <2> QED
      BY <2>3, <2>4
<1>8. ASSUME NEW j \in Jobs, Throw(j) \/ Return(j)
      PROVE  CallIsKnown(k)'
  <2>1. op' = [op EXCEPT ![j] = NoOp] /\ written' = written
      BY <1>8 DEF Throw, Return
  <2>2. CASE j # k
      BY <1>3, <1>4, <2>1, <2>2
  <2>3. CASE j = k
    <3>1. op'[k] = NoOp /\ written'[k] = written[k]
        BY <2>1, <2>3 DEF SocketTypes
    <3> QED
        BY <1>1, <1>2, <3>1, NoOpFact DEF CallIsKnown
  <2> QED
      BY <2>2, <2>3
<1>9. ASSUME NEW j \in Jobs, NEW n \in 1..MaxSize, Arrived(j, n)
      PROVE  CallIsKnown(k)'
  <2> DEFINE buf == op[j].buf \o SubSeq(wire[EndOf(j)], 1, n)
             o == [op[j] EXCEPT !.done = op[j].done + n, !.buf = buf]
  <2>1. op' = [op EXCEPT ![j] = o] /\ written' = written
        /\ op[j].call = "read" /\ n <= ToRead(j) /\ Len(buf) = op[j].done + n
      BY <1>9, ArrivedFact
  <2> HIDE DEF buf
  <2>2. CASE j # k
    <3> HIDE DEF o
    <3> QED
        BY <1>3, <1>4, <2>1, <2>2
  <2>3. CASE j = k
    <3>1. op'[k] = o /\ written'[k] = written[k]
        BY <2>1, <2>3 DEF SocketTypes
    <3>2. o.call = "read" /\ o.size = op[k].size /\ o.done = op[k].done + n /\ o.buf = buf
        BY <1>2, <2>1, <2>3 DEF Ops
    <3>3. n \in Nat /\ op[k].size \in Nat /\ op[k].done \in Nat
          /\ (op[k].size > 0 => n <= op[k].size - op[k].done)
        BY <1>2, <2>1, <2>3, SizesFact DEF Ops, ToRead
    <3> HIDE DEF o
    <3> QED
        BY <1>1, <2>1, <2>3, <3>1, <3>2, <3>3 DEF CallIsKnown
  <2> QED
      BY <2>2, <2>3
<1>10. ASSUME NEW j \in Jobs, NEW n \in 1..MaxSize, Sent(j, n)
      PROVE  CallIsKnown(k)'
  <2> DEFINE o == [op[j] EXCEPT !.done = op[j].done + n]
  <2>1. op' = [op EXCEPT ![j] = o] /\ written' = [written EXCEPT ![j] = @ + n]
        /\ op[j].call = "write" /\ n <= ToWrite(j)
      BY <1>10, SentFact
  <2>2. CASE j # k
    <3>1. written'[k] = written[k]
        BY <2>1, <2>2 DEF SocketTypes
    <3> HIDE DEF o
    <3> QED
        BY <1>3, <1>4, <2>1, <2>2, <3>1
  <2>3. CASE j = k
    <3>1. op'[k] = o /\ written'[k] = written[k] + n
        BY <2>1, <2>3 DEF SocketTypes
    <3>2. o.call = "write" /\ o.size = op[k].size /\ o.done = op[k].done + n /\ o.buf = op[k].buf
        BY <1>2, <2>1, <2>3 DEF Ops
    <3>3. n \in Nat /\ op[k].size \in Nat /\ op[k].done \in Nat /\ n <= op[k].size - op[k].done
        BY <1>2, <2>1, <2>3, SizesFact DEF Ops, ToWrite
    <3>4. CallIsKnown(k) /\ op[k].call = "write"
        BY <2>1, <2>3, <1>1
    <3>5. written[k] \in Nat /\ MaxWritten[k] \in Nat
        BY <1>2
    <3> HIDE DEF o
    <3>6. /\ op'[k].call = "write" /\ op'[k].size = op[k].size
          /\ op'[k].done = op[k].done + n /\ op'[k].buf = op[k].buf
        BY <3>1, <3>2
    <3>7. /\ op[k].buf = <<>> /\ op[k].size > 0
          /\ written[k] + (op[k].size - op[k].done) <= MaxWritten[k]
        BY <3>4 DEF CallIsKnown
    <3>8. /\ written[k] + n <= MaxWritten[k] /\ op[k].done + n <= op[k].size
          /\ (written[k] + n) + (op[k].size - (op[k].done + n)) <= MaxWritten[k]
      <4>1. op[k].done + n <= op[k].size
          BY <3>3
      <4>2. n <= op[k].size - op[k].done /\ written[k] + (op[k].size - op[k].done) <= MaxWritten[k]
          BY <3>3, <3>7
      <4>3. (written[k] + n) + (op[k].size - (op[k].done + n)) <= MaxWritten[k]
          BY <3>3, <3>5, <4>2
      <4>4. written[k] + n <= MaxWritten[k]
          BY <3>3, <3>5, <4>2
      <4> QED
          BY <4>1, <4>3, <4>4
    <3> QED
        BY <3>1, <3>6, <3>7, <3>8 DEF CallIsKnown
  <2> QED
      BY <2>2, <2>3
<1>11. /\ {"accept", "connect", "read", "write"} \subseteq CallKinds
       /\ 0 \in 0..MaxSize /\ \A n \in 1..MaxSize : n \in 0..MaxSize /\ n > 0
    BY SizesFact DEF CallKinds
<1> QED
    BY <1>5, <1>6, <1>7, <1>8, <1>9, <1>10, <1>11, SocketForms, EndsFact

LEMMA EndsStep ==
    ASSUME SocketTypes, CallsAreKnown, EndsAreKnown, [SocketNext]_socketVars
    PROVE  EndsAreKnown'
<1> USE DEF EndsAreKnown
<1>0. /\ op \in [Jobs -> Ops] /\ Server \in Jobs /\ Client \in Jobs /\ Server # Client
      /\ link \in [Ends -> {"none", "open", "closed"}] /\ wire \in [Ends -> Seq(Bytes)]
      /\ Ends = {"server", "client"}
    BY EndsFact DEF SocketTypes, Ops, Ends
<1>1. CASE Listen \/ UNCHANGED socketVars
    BY <1>1 DEF Listen, socketVars
<1>2. CASE Connected \/ Refused \/ Accepted
    BY <1>0, <1>2 DEF Connected, Refused, Accepted, WakesUp, Waits
<1>3. ASSUME NEW j \in Jobs, NEW call \in CallKinds, NEW size \in 0..MaxSize, Begins(j, call, size),
             call = "accept" => j = Server,
             call = "connect" => j = Client /\ link["client"] = "none"
      PROVE  EndsAreKnown'
  <2> DEFINE o == [NoOp EXCEPT !.call = call, !.size = size]
  <2>1. /\ op' = [op EXCEPT ![j] = o] /\ asleep' = asleep \cup {j}
        /\ UNCHANGED <<link, wire>>
      BY <1>3 DEF Begins, Start
  <2>2. o.call = call
      BY BegunFact
  <2> HIDE DEF o
  <2> QED
      BY <1>0, <1>3, <2>1, <2>2
<1>4. ASSUME NEW j \in Jobs, Close(j)
      PROVE  EndsAreKnown'
  <2>1. /\ UNCHANGED <<op, asleep>> /\ EndOf(j) \in Ends /\ Len(<<>>) = 0
        /\ link' = [link EXCEPT ![EndOf(j)] = "closed"]
        /\ wire' = [wire EXCEPT ![EndOf(j)] = <<>>]
        /\ \A k \in Jobs : EndOf(k) = EndOf(j) => op[k].call = "none"
      BY <1>4, EndsFact DEF Close, Calls
  <2>2. Capacity \in Nat
      BY SocketAssumption
  <2>3. EndOf(j) = "client" => op[Client].call = "none"
      BY <2>1, EndsFact
  <2> QED
      BY <1>0, <2>1, <2>2, <2>3
<1>5. ASSUME NEW j \in Jobs, Error(j) \/ Again(j)
      PROVE  EndsAreKnown'
    BY <1>0, <1>5 DEF Error, Again, WakesUp, GoesOn
<1>6. ASSUME NEW j \in Jobs, Throw(j) \/ Return(j)
      PROVE  EndsAreKnown'
    BY <1>0, <1>6, NoOpFact DEF Throw, Return
<1>7. ASSUME NEW j \in Jobs, NEW n \in 1..MaxSize, Arrived(j, n)
      PROVE  EndsAreKnown'
  <2> DEFINE e == EndOf(j)
             a == SubSeq(wire[e], 1, n)
             b == SubSeq(wire[e], n + 1, Len(wire[e]))
             o == [op[j] EXCEPT !.done = op[j].done + n, !.buf = op[j].buf \o a]
  <2>1. /\ e \in Ends /\ op' = [op EXCEPT ![j] = o] /\ wire' = [wire EXCEPT ![e] = b]
        /\ Len(b) = Len(wire[e]) - n /\ n <= Len(wire[e]) /\ asleep' = asleep \ {j}
        /\ UNCHANGED link
      BY <1>7, ArrivedFact
  <2>2. o.call = op[j].call
      BY <1>0 DEF Ops
  <2> HIDE DEF o, a, b, e
  <2>3. n \in Nat /\ n > 0 /\ Capacity \in Nat /\ Len(<<>>) = 0
      BY SizesFact, SocketAssumption
  <2>4. Len(wire[e]) \in Nat /\ Len(wire[e]) <= Capacity
    <3>1. wire[e] \in Seq(Bytes)
        BY <2>1 DEF SocketTypes
    <3> QED
        BY <2>1, <3>1, LenProperties
  <2>5. Len(b) <= Capacity /\ link[e] # "closed"
      BY <2>1, <2>3, <2>4
  <2> QED
      BY <1>0, <2>1, <2>2, <2>5
<1>8. ASSUME NEW j \in Jobs, NEW n \in 1..MaxSize, Sent(j, n)
      PROVE  EndsAreKnown'
  <2> DEFINE to == Peer(EndOf(j))
             o == [op[j] EXCEPT !.done = op[j].done + n]
  <2>1. PICK s \in Seq(Bytes) :
          /\ to \in Ends /\ Len(wire[to] \o s) <= Capacity
          /\ wire' = [wire EXCEPT ![to] = IF link[to] = "closed" THEN <<>> ELSE @ \o s]
          /\ op' = [op EXCEPT ![j] = o] /\ asleep' = asleep \ {j}
          /\ UNCHANGED link
      BY <1>8, SentFact
  <2>2. o.call = op[j].call
      BY <1>0 DEF Ops
  <2>3. Capacity \in Nat /\ Len(<<>>) = 0
      BY SocketAssumption
  <2> HIDE DEF o, to
  <2> QED
      BY <1>0, <2>1, <2>2, <2>3
<1>9. /\ {"accept", "connect", "read", "write"} \subseteq CallKinds
      /\ 0 \in 0..MaxSize /\ \A n \in 1..MaxSize : n \in 0..MaxSize
    BY SizesFact DEF CallKinds
<1> QED
    BY <1>1, <1>2, <1>3, <1>4, <1>5, <1>6, <1>7, <1>8, <1>9, SocketForms, EndsFact

LEMMA ErrorsAreKnown ==
    ASSUME SocketTypes, ErrorsReachTheirCall, [SocketNext]_socketVars
    PROVE  ErrorsReachTheirCall'
<1> USE DEF ErrorsReachTheirCall
<1>0. op \in [Jobs -> Ops] /\ Client \in Jobs
    BY EndsFact DEF SocketTypes, Ops
<1>1. CASE Listen \/ Connected \/ Refused \/ Accepted \/ UNCHANGED socketVars
    BY <1>0, <1>1 DEF Listen, Connected, Refused, Accepted, WakesUp, Fails, Waits, socketVars
<1>2. ASSUME NEW j \in Jobs, NEW call, NEW size, Begins(j, call, size)
      PROVE  ErrorsReachTheirCall'
  <2> DEFINE o == [NoOp EXCEPT !.call = call, !.size = size]
  <2>1. /\ op' = [op EXCEPT ![j] = o] /\ asleep' = asleep \cup {j}
        /\ UNCHANGED exception /\ op[j].call = "none"
      BY <1>2 DEF Begins, Start, Calls
  <2> HIDE DEF o
  <2> QED
      BY <1>0, <2>1
<1>3. ASSUME NEW j \in Jobs, Close(j) \/ Error(j) \/ Again(j)
      PROVE  ErrorsReachTheirCall'
    BY <1>3 DEF Close, Error, Again, WakesUp, Fails, Throws
<1>4. ASSUME NEW j \in Jobs, Throw(j) \/ Return(j)
      PROVE  ErrorsReachTheirCall'
    BY <1>0, <1>4 DEF Throw, Return, Throws
<1>5. ASSUME NEW j \in Jobs, NEW n \in 1..MaxSize, Arrived(j, n) \/ Sent(j, n)
      PROVE  ErrorsReachTheirCall'
  <2>1. /\ asleep' = asleep \ {j} /\ j \in asleep /\ UNCHANGED exception
        /\ \A k \in Jobs : k # j => op'[k] = op[k]
      BY <1>0, <1>5 DEF Arrived, Sent, WakesUp, Waits
  <2> QED
      BY <2>1
<1> QED
    BY <1>1, <1>2, <1>3, <1>4, <1>5, SocketForms, EndsFact

-----------------------------------------------------------------------------
(* Where the bytes are, and in what order.                                  *)

BytesKept == BytesInOrder /\ BytesApart /\ NoneIsLost

LEMMA PlacesFact ==
    ASSUME SocketTypes, NEW r \in Jobs
    PROVE  /\ returned[r] \in Seq(Bytes) /\ discarded[r] \in Seq(Bytes) /\ op[r].buf \in Seq(Bytes)
           /\ Taken(r) \in Seq(Bytes) /\ discarded[r] \o op[r].buf \in Seq(Bytes)
           /\ Got(r) = ToSet(returned[r]) \cup ToSet(op[r].buf)
           /\ Got(r) \in SUBSET Bytes /\ ToSet(discarded[r]) \in SUBSET Bytes
           /\ Gone(r) \in SUBSET Bytes
<1>1. returned[r] \in Seq(Bytes) /\ discarded[r] \in Seq(Bytes) /\ op[r].buf \in Seq(Bytes)
    BY DEF SocketTypes
<1>2. /\ Taken(r) \in Seq(Bytes) /\ discarded[r] \o op[r].buf \in Seq(Bytes)
      /\ Got(r) = ToSet(returned[r]) \cup ToSet(op[r].buf)
    BY <1>1, CatFact DEF Taken, Got
<1>3. \A s \in Seq(Bytes) : ToSet(s) \in SUBSET Bytes
    BY ElementOfSeq, LenProperties DEF ToSet
<1> QED
    BY <1>1, <1>2, <1>3 DEF Got, Gone

LEMMA EmptyFact == ToSet(<<>>) = {} /\ InWriteOrder(<<>>)
    BY DEF ToSet, InWriteOrder

\* No byte moves.
Quiet ==
    /\ UNCHANGED <<wire, written, returned, discarded>>
    /\ \A r \in Jobs : op'[r].buf = op[r].buf
    /\ \A e \in Ends : link[e] = "closed" => link'[e] = "closed"

LEMMA ByteForms ==
    ASSUME SocketTypes, CallsAreKnown, EndsAreKnown, [SocketNext]_socketVars
    PROVE  \/ Quiet
           \/ \E j \in Jobs : \/ Close(j) \/ Throw(j) \/ Return(j)
                              \/ \E n \in 1..MaxSize : Arrived(j, n) \/ Sent(j, n)
<1>0. /\ op \in [Jobs -> Ops] /\ Server \in Jobs /\ Client \in Jobs
      /\ link \in [Ends -> {"none", "open", "closed"}]
      /\ Ends = {"server", "client"}
    BY EndsFact DEF SocketTypes, Ops, Ends
<1>1. CASE Listen \/ UNCHANGED socketVars
    BY <1>1 DEF Listen, socketVars, Quiet
<1>2. CASE Connected \/ Refused \/ Accepted
    BY <1>0, <1>2 DEF Connected, Refused, Accepted, Waits, EndsAreKnown, Quiet
<1>3. ASSUME NEW j \in Jobs, NEW call \in CallKinds, NEW size \in 0..MaxSize, Begins(j, call, size)
      PROVE  Quiet
  <2> DEFINE o == [NoOp EXCEPT !.call = call, !.size = size]
  <2>1. /\ op' = [op EXCEPT ![j] = o] /\ op[j].call = "none"
        /\ UNCHANGED <<link, wire, written, returned, discarded>>
      BY <1>3 DEF Begins, Start, Calls
  <2>2. o.buf = <<>> /\ op[j].buf = <<>>
      BY <2>1, BegunFact DEF CallsAreKnown, CallIsKnown
  <2> HIDE DEF o
  <2> QED
      BY <1>0, <2>1, <2>2 DEF Quiet
<1>4. ASSUME NEW j \in Jobs, Error(j) \/ Again(j)
      PROVE  Quiet
    BY <1>4 DEF Error, Again, Quiet
<1>5. /\ {"accept", "connect", "read", "write"} \subseteq CallKinds
      /\ 0 \in 0..MaxSize /\ \A n \in 1..MaxSize : n \in 0..MaxSize
    BY SizesFact DEF CallKinds
<1> QED
    BY <1>1, <1>2, <1>3, <1>4, <1>5, SocketForms, EndsFact

LEMMA QuietStep ==
    ASSUME BytesKept, Quiet
    PROVE  BytesKept'
<1>1. /\ \A e \in Ends : WrittenFor(e)' = WrittenFor(e) /\ wire'[e] = wire[e]
      /\ \A r \in Jobs : /\ Taken(r)' = Taken(r) /\ Got(r)' = Got(r) /\ Gone(r)' = Gone(r)
                         /\ discarded'[r] = discarded[r] /\ op'[r].buf = op[r].buf
    BY DEF Quiet, Taken, Got, Gone, WrittenFor
<1>2. \A r \in Jobs : wire'[EndOf(r)] = wire[EndOf(r)] /\ WrittenFor(EndOf(r))' = WrittenFor(EndOf(r))
    BY <1>1, EndsFact
<1>3. BytesInOrder'
    BY <1>1, <1>2 DEF BytesKept, BytesInOrder
<1>4. BytesApart'
    BY <1>1 DEF BytesKept, BytesApart
<1>5. NoneIsLost'
    BY <1>1 DEF BytesKept, NoneIsLost, Quiet
<1> QED
    BY <1>3, <1>4, <1>5 DEF BytesKept

LEMMA CloseStep ==
    ASSUME SocketTypes, BytesKept, NEW j \in Jobs, Close(j)
    PROVE  BytesKept'
<1>0. /\ wire' = [wire EXCEPT ![EndOf(j)] = <<>>] /\ EndOf(j) \in Ends
      /\ link' = [link EXCEPT ![EndOf(j)] = "closed"]
      /\ UNCHANGED <<op, written, returned, discarded>>
    BY EndsFact DEF Close
<1>1. /\ \A e \in Ends : /\ WrittenFor(e)' = WrittenFor(e)
                         /\ wire'[e] = wire[e] \/ wire'[e] = <<>>
                         /\ link'[e] # "closed" => link[e] # "closed" /\ wire'[e] = wire[e]
      /\ \A r \in Jobs : /\ Taken(r)' = Taken(r) /\ Got(r)' = Got(r) /\ Gone(r)' = Gone(r)
                         /\ discarded'[r] = discarded[r] /\ op'[r].buf = op[r].buf
    BY <1>0 DEF SocketTypes, Taken, Got, Gone, WrittenFor
<1>2. \A r \in Jobs : EndOf(r) \in Ends
    BY EndsFact
<1>3. BytesInOrder'
    BY <1>1, <1>2, EmptyFact DEF BytesKept, BytesInOrder, Before
<1>4. BytesApart'
    BY <1>1 DEF BytesKept, BytesApart
<1>5. NoneIsLost'
    BY <1>1 DEF BytesKept, NoneIsLost
<1> QED
    BY <1>3, <1>4, <1>5 DEF BytesKept

\* A call that ends: its buffer goes to the caller, or is thrown away.
LEMMA EndStep ==
    ASSUME SocketTypes, BytesKept, NEW j \in Jobs, Throw(j) \/ Return(j)
    PROVE  BytesKept'
<1>0. /\ op' = [op EXCEPT ![j] = NoOp] /\ NoOp.buf = <<>>
      /\ UNCHANGED <<link, wire, written>>
      /\ \/ /\ discarded' = [discarded EXCEPT ![j] = @ \o op[j].buf] /\ UNCHANGED returned
         \/ /\ returned' = [returned EXCEPT ![j] = @ \o op[j].buf] /\ UNCHANGED discarded
    BY NoOpFact DEF Throw, Return
<1> DEFINE b == op[j].buf
           d == discarded[j]
           t == returned[j]
<1>1. /\ b \in Seq(Bytes) /\ d \in Seq(Bytes) /\ t \in Seq(Bytes)
      /\ Taken(j) = t \o b /\ Got(j) = ToSet(t) \cup ToSet(b) /\ Gone(j) = Got(j) \cup ToSet(d)
      /\ ToSet(t) \in SUBSET Bytes /\ ToSet(d) \in SUBSET Bytes
    BY PlacesFact DEF Taken, Gone
<1>2. /\ op'[j].buf = <<>>
      /\ \/ discarded'[j] = d \o b /\ returned'[j] = t
         \/ discarded'[j] = d /\ returned'[j] = t \o b
    BY <1>0 DEF SocketTypes
<1>3. /\ InWriteOrder(t \o b) /\ InWriteOrder(d \o b) /\ Got(j) \cap ToSet(d) = {}
    BY <1>1 DEF BytesKept, BytesInOrder, BytesApart
<1>4. /\ \A s \in {t, d, t \o b, d \o b} : s \in Seq(Bytes) /\ s \o <<>> = s
      /\ ToSet(t \o b) = ToSet(t) \cup ToSet(b) /\ ToSet(d \o b) = ToSet(d) \cup ToSet(b)
      /\ InWriteOrder(t) /\ InWriteOrder(d) /\ Before(ToSet(t), ToSet(b))
    BY <1>1, <1>3, CatFact, ConcatEmptySeq
<1>5. ToSet(t) \cap ToSet(b) = {}
    BY <1>1, <1>4, BeforeApart
<1>6. /\ Taken(j)' = returned'[j] /\ (discarded[j] \o op[j].buf)' = discarded'[j]
      /\ Got(j)' = ToSet(returned'[j])
      /\ Gone(j)' = ToSet(returned'[j]) \cup ToSet(discarded'[j])
    BY <1>2, <1>4 DEF Taken, Got, Gone
<1> HIDE DEF b, d, t
<1>7. /\ InWriteOrder(Taken(j))' /\ InWriteOrder(discarded[j] \o op[j].buf)'
      /\ Gone(j)' = Gone(j) /\ Got(j)' \cap ToSet(discarded'[j]) = {}
    BY <1>1, <1>2, <1>3, <1>4, <1>5, <1>6
<1>8. /\ \A e \in Ends : WrittenFor(e)' = WrittenFor(e) /\ wire'[e] = wire[e] /\ link'[e] = link[e]
      /\ \A r \in Jobs : EndOf(r) \in Ends
      /\ \A r \in Jobs : r # j => /\ op'[r].buf = op[r].buf /\ discarded'[r] = discarded[r]
                                  /\ returned'[r] = returned[r]
    BY <1>0, EndsFact DEF WrittenFor, SocketTypes
<1>9. \A r \in Jobs : r # j => Taken(r)' = Taken(r) /\ Got(r)' = Got(r) /\ Gone(r)' = Gone(r)
    BY <1>8 DEF Taken, Got, Gone
<1>10. \A r \in Jobs : /\ InWriteOrder(Taken(r))' /\ InWriteOrder(discarded[r] \o op[r].buf)'
                       /\ Gone(r)' = Gone(r) /\ Got(r)' \cap ToSet(discarded'[r]) = {}
    BY <1>7, <1>8, <1>9 DEF BytesKept, BytesInOrder, BytesApart
<1>11. BytesInOrder'
    BY <1>8, <1>10 DEF BytesKept, BytesInOrder
<1>12. BytesApart'
    BY <1>8, <1>10 DEF BytesKept, BytesApart
<1>13. NoneIsLost'
    BY <1>8, <1>10 DEF BytesKept, NoneIsLost
<1> QED
    BY <1>11, <1>12, <1>13 DEF BytesKept

LEMMA WrittenApart ==
    ASSUME NEW e \in Ends, NEW f \in Ends, e # f
    PROVE  WrittenFor(e) \cap WrittenFor(f) = {}
<1> SUFFICES ASSUME NEW b \in WrittenFor(e), b \in WrittenFor(f)
             PROVE  FALSE
    OBVIOUS
<1>1. b[1] \in Jobs /\ EndOf(b[1]) # e /\ EndOf(b[1]) # f
    BY DEF WrittenFor, Bytes
<1>2. EndOf(b[1]) \in Ends
    BY <1>1, EndsFact
<1> QED
    BY <1>1, <1>2 DEF Ends

\* Some bytes reach the buffer of a reader: those that came first.
LEMMA ArrivedStep ==
    ASSUME SocketTypes, CallsAreKnown, BytesKept, NEW j \in Jobs, NEW n \in 1..MaxSize,
           Arrived(j, n)
    PROVE  BytesKept'
<1> DEFINE e == EndOf(j)
           a == SubSeq(wire[e], 1, n)
           b == SubSeq(wire[e], n + 1, Len(wire[e]))
           c == op[j].buf
           d == discarded[j]
           t == returned[j]
           o == [op[j] EXCEPT !.done = op[j].done + n, !.buf = c \o a]
           A == ToSet(a)
           B == ToSet(b)
<1>0. /\ e \in Ends /\ a \in Seq(Bytes) /\ b \in Seq(Bytes) /\ wire[e] = a \o b
      /\ wire' = [wire EXCEPT ![e] = b] /\ op' = [op EXCEPT ![j] = o]
      /\ UNCHANGED <<link, written, returned, discarded>>
    BY ArrivedFact
<1>1. /\ t \in Seq(Bytes) /\ d \in Seq(Bytes) /\ c \in Seq(Bytes)
      /\ Taken(j) = t \o c /\ t \o c \in Seq(Bytes) /\ d \o c \in Seq(Bytes)
      /\ Gone(j) = Got(j) \cup ToSet(d) /\ Got(j) = ToSet(t) \cup ToSet(c)
      /\ Gone(j) \in SUBSET Bytes
    BY PlacesFact DEF Taken, Gone
<1>2. op'[j].buf = c \o a
  <2>1. op \in [Jobs -> Ops]
      BY DEF SocketTypes, Ops
  <2>2. o.buf = c \o a
    <3> HIDE DEF a, c
    <3> QED
        BY <2>1 DEF Ops
  <2> HIDE DEF o
  <2> QED
      BY <1>0, <2>1, <2>2
<1>3. /\ InWriteOrder(t \o c) /\ InWriteOrder(d \o c) /\ InWriteOrder(a \o b)
      /\ ToSet(a \o b) \subseteq WrittenFor(e)
      /\ Gone(j) \subseteq WrittenFor(e) /\ Before(Gone(j), ToSet(a \o b))
    BY <1>0, <1>1 DEF BytesKept, BytesInOrder
<1>4. /\ ToSet(wire[e]) = A \cup B /\ InWriteOrder(a) /\ InWriteOrder(b) /\ Before(A, B)
      /\ A \subseteq WrittenFor(e) /\ B \subseteq WrittenFor(e)
  <2> HIDE DEF a, b
  <2> QED
      BY <1>0, <1>3, CatFact
<1>5. Before(Gone(j), A)
  <2>1. Before(Gone(j), A \cup B)
    <3> HIDE DEF a, b, A, B
    <3> QED
        BY <1>0, <1>3, <1>4
  <2> HIDE DEF A, B
  <2> QED
      BY <2>1, BeforeCup
<1>6. /\ Taken(j)' = (t \o c) \o a /\ (discarded[j] \o op[j].buf)' = (d \o c) \o a
  <2>1. Taken(j)' = t \o (c \o a) /\ (discarded[j] \o op[j].buf)' = d \o (c \o a)
      BY <1>0, <1>2 DEF Taken
  <2> HIDE DEF a, b, c, d, t, o
  <2>2. a \in Seq(Bytes) /\ c \in Seq(Bytes) /\ d \in Seq(Bytes) /\ t \in Seq(Bytes)
      BY <1>0, <1>1
  <2>3. t \o (c \o a) = (t \o c) \o a
      BY <2>2, CatAssociative, Zenon
  <2>4. d \o (c \o a) = (d \o c) \o a
      BY <2>2, CatAssociative, Zenon
  <2> QED
      BY <2>1, <2>3, <2>4
<1> HIDE DEF a, b, c, d, t, o
<1>7. /\ ToSet(d \o c) = ToSet(d) \cup ToSet(c)
      /\ Before(ToSet(t \o c), A) /\ Before(ToSet(d \o c), A)
  <2>1. ToSet(d \o c) = ToSet(d) \cup ToSet(c) /\ ToSet(t \o c) = ToSet(t) \cup ToSet(c)
      BY <1>1, CatFact
  <2> QED
      BY <1>1, <1>5, <2>1 DEF Before
<1>8. /\ InWriteOrder(Taken(j))' /\ InWriteOrder(discarded[j] \o op[j].buf)'
      /\ Got(j)' = Got(j) \cup A
  <2>1. InWriteOrder((t \o c) \o a) /\ ToSet((t \o c) \o a) = ToSet(t \o c) \cup A
      BY <1>0, <1>1, <1>3, <1>4, <1>7, CatFact
  <2>2. InWriteOrder((d \o c) \o a)
      BY <1>0, <1>1, <1>3, <1>4, <1>7, CatFact
  <2> QED
      BY <1>1, <1>6, <2>1, <2>2 DEF Got
<1>9. Gone(j)' = Gone(j) \cup A /\ discarded' = discarded
    BY <1>0, <1>8 DEF Gone
<1>10. /\ \A f \in Ends : WrittenFor(f)' = WrittenFor(f) /\ link'[f] = link[f]
       /\ wire'[e] = b /\ \A f \in Ends : f # e => wire'[f] = wire[f]
       /\ \A r \in Jobs : EndOf(r) \in Ends
       /\ \A r \in Jobs : r # j => op'[r].buf = op[r].buf
    BY <1>0, EndsFact DEF WrittenFor, SocketTypes
<1>11. \A r \in Jobs : r # j => Taken(r)' = Taken(r) /\ Got(r)' = Got(r) /\ Gone(r)' = Gone(r)
    BY <1>0, <1>10 DEF Taken, Got, Gone
<1>12. ASSUME NEW r \in Jobs
       PROVE  /\ Gone(r)' \subseteq WrittenFor(EndOf(r))
              /\ Before(Gone(r)', ToSet(wire'[EndOf(r)]))
              /\ r # j => Gone(r) \cap A = {}
  <2>1. /\ Gone(r) \subseteq WrittenFor(EndOf(r)) /\ Before(Gone(r), ToSet(wire[EndOf(r)]))
        /\ Gone(r) \in SUBSET Bytes
      BY PlacesFact DEF BytesKept, BytesInOrder
  <2>2. CASE EndOf(r) = e
    <3>1. Before(Gone(r), A) /\ Before(Gone(r), B)
        BY <1>4, <2>1, <2>2, BeforeCup
    <3>2. Gone(r)' = Gone(r) \/ Gone(r)' = Gone(r) \cup A
        BY <1>9, <1>11
    <3>3. Before(Gone(r)', B) /\ Gone(r)' \subseteq WrittenFor(e)
        BY <1>4, <2>1, <2>2, <3>1, <3>2, BeforeCup
    <3> QED
        BY <1>10, <2>1, <2>2, <3>1, <3>3, BeforeApart
  <2>3. CASE EndOf(r) # e
    <3>1. r # j /\ wire'[EndOf(r)] = wire[EndOf(r)] /\ Gone(r)' = Gone(r)
        BY <1>10, <1>11, <2>3
    <3>2. WrittenFor(EndOf(r)) \cap WrittenFor(e) = {}
        BY <1>0, <1>10, <2>3, WrittenApart
    <3> QED
        BY <1>4, <2>1, <3>1, <3>2
  <2> QED
      BY <2>2, <2>3
<1>13. BytesInOrder'
  <2>1. \A f \in Ends : InWriteOrder(wire'[f]) /\ ToSet(wire'[f]) \subseteq WrittenFor(f)'
      BY <1>4, <1>10 DEF BytesKept, BytesInOrder
  <2>2. \A r \in Jobs : InWriteOrder(Taken(r))' /\ InWriteOrder(discarded[r] \o op[r].buf)'
      BY <1>8, <1>9, <1>10, <1>11 DEF BytesKept, BytesInOrder
  <2> QED
      BY <1>10, <1>12, <2>1, <2>2 DEF BytesInOrder
<1>14. BytesApart'
  <2>1. Gone(j) \cap A = {} /\ ToSet(discarded[j]) \subseteq Gone(j)
      BY <1>1, <1>5, BeforeApart DEF Gone
  <2>2. \A r \in Jobs : Got(r)' \cap ToSet(discarded'[r]) = {}
      BY <1>8, <1>9, <1>11, <2>1 DEF BytesKept, BytesApart
  <2>3. \A q, r \in Jobs : q # r => Gone(q)' \cap Gone(r)' = {}
      BY <1>9, <1>11, <1>12 DEF BytesKept, BytesApart
  <2> QED
      BY <2>2, <2>3 DEF BytesApart
<1>15. NoneIsLost'
  <2> SUFFICES ASSUME NEW f \in Ends, link[f] # "closed", NEW x \in WrittenFor(f)
               PROVE  x \in ToSet(wire'[f]) \/ \E r \in Jobs : EndOf(r) = f /\ x \in Gone(r)'
      BY <1>10 DEF NoneIsLost
  <2>1. x \in ToSet(wire[f]) \/ \E r \in Jobs : EndOf(r) = f /\ x \in Gone(r)
      BY DEF BytesKept, NoneIsLost
  <2> QED
      BY <1>4, <1>9, <1>10, <1>11, <2>1
<1> QED
    BY <1>13, <1>14, <1>15 DEF BytesKept

\* Some bytes leave a writer: later than all it wrote before.
LEMMA SentStep ==
    ASSUME SocketTypes, CallsAreKnown, EndsAreKnown, BytesKept,
           NEW j \in Jobs, NEW n \in 1..MaxSize, Sent(j, n)
    PROVE  BytesKept'
<1> DEFINE to == Peer(EndOf(j))
           o == [op[j] EXCEPT !.done = op[j].done + n]
           w == written[j]
           F == {j} \X (w + 1 .. w + n)
<1>0. PICK s \in Seq(Bytes) :
        /\ to \in Ends /\ InWriteOrder(s) /\ n \in Nat /\ ToSet(s) = F
        /\ wire' = [wire EXCEPT ![to] = IF link[to] = "closed" THEN <<>> ELSE @ \o s]
        /\ op' = [op EXCEPT ![j] = o] /\ written' = [written EXCEPT ![j] = @ + n]
        /\ UNCHANGED <<link, returned, discarded>>
    BY SentFact
<1>1. /\ op \in [Jobs -> Ops] /\ w \in Nat /\ EndOf(j) \in Ends /\ to # EndOf(j)
      /\ \A r \in Jobs : EndOf(r) \in Ends
      /\ wire[to] \in Seq(Bytes) /\ (link[to] = "closed" => wire[to] = <<>>)
    BY <1>0, EndsFact DEF SocketTypes, Ops, EndsAreKnown
<1>2. \A r \in Jobs : op'[r].buf = op[r].buf
  <2>1. o.buf = op[j].buf
      BY <1>1 DEF Ops
  <2> HIDE DEF o
  <2> QED
      BY <1>0, <1>1, <2>1
<1>3. /\ \A r \in Jobs : /\ Taken(r)' = Taken(r) /\ Got(r)' = Got(r) /\ Gone(r)' = Gone(r)
                         /\ (discarded[r] \o op[r].buf)' = discarded[r] \o op[r].buf
      /\ UNCHANGED <<link, discarded>>
    BY <1>0, <1>2 DEF Taken, Got, Gone
<1>4. /\ \A f \in Ends : f # to => wire'[f] = wire[f]
      /\ link[to] = "closed" => wire'[to] = wire[to]
      /\ link[to] # "closed" => wire'[to] = wire[to] \o s
    BY <1>0, <1>1 DEF SocketTypes
<1>5. ASSUME NEW f \in Ends
      PROVE  WrittenFor(f)' = IF f = to THEN WrittenFor(f) \cup F ELSE WrittenFor(f)
  <2>1. /\ written'[j] = w + n
        /\ \A k \in Jobs : k # j => written'[k] = written[k]
        /\ \A m \in Nat : m \in 1..w + n <=> m \in 1..w \/ m \in w + 1 .. w + n
      BY <1>0, <1>1 DEF SocketTypes
  <2>2. EndOf(j) # f <=> f = to
      BY <1>0, <1>1 DEF Ends
  <2>3. F \in SUBSET Bytes /\ \A x \in Bytes : x \in F <=> x[1] = j /\ x[2] \in w + 1 .. w + n
      BY <1>0, <1>1 DEF Bytes
  <2>4. ASSUME NEW x \in Bytes
        PROVE  x \in WrittenFor(f)' <=> x \in WrittenFor(f) \/ (f = to /\ x \in F)
    <3>1. /\ x \in WrittenFor(f)' <=> EndOf(x[1]) # f /\ x[2] \in 1..written'[x[1]]
          /\ x \in WrittenFor(f) <=> EndOf(x[1]) # f /\ x[2] \in 1..written[x[1]]
          /\ x[1] \in Jobs /\ x[2] \in Nat
        BY DEF WrittenFor, Bytes
    <3> HIDE DEF to, w, F
    <3>2. CASE x[1] = j
      <4>1. written[j] = w
          BY DEF w
      <4> QED
          BY <2>1, <2>2, <2>3, <3>1, <3>2, <4>1
    <3>3. CASE x[1] # j
        BY <2>1, <2>3, <3>1, <3>3
    <3> QED
        BY <3>2, <3>3
  <2>5. WrittenFor(f)' \subseteq Bytes /\ WrittenFor(f) \subseteq Bytes
      BY DEF WrittenFor
  <2> HIDE DEF F, to
  <2> QED
      BY <2>3, <2>4, <2>5
<1>6. \A f \in Ends : Before(WrittenFor(f), F)
  <2> SUFFICES ASSUME NEW f \in Ends, NEW x \in WrittenFor(f), NEW y \in F, x[1] = y[1]
               PROVE  x[2] < y[2]
      BY DEF Before
  <2>1. y[1] = j /\ y[2] \in w + 1 .. w + n
      OBVIOUS
  <2>2. x[2] \in 1..w
      BY <2>1 DEF WrittenFor
  <2> QED
      BY <1>0, <1>1, <2>1, <2>2
<1> HIDE DEF F, to, o, w
<1>7. /\ InWriteOrder(wire[to]) /\ ToSet(wire[to]) \subseteq WrittenFor(to)
      /\ Before(ToSet(wire[to]), F)
    BY <1>0, <1>6 DEF BytesKept, BytesInOrder, Before
<1>8. link[to] # "closed" =>
        InWriteOrder(wire'[to]) /\ ToSet(wire'[to]) = ToSet(wire[to]) \cup F
  <2>1. wire[to] \in Seq(Bytes) /\ s \in Seq(Bytes) /\ InWriteOrder(s) /\ ToSet(s) = F
      BY <1>0, <1>1
  <2>2. InWriteOrder(wire[to] \o s) /\ ToSet(wire[to] \o s) = ToSet(wire[to]) \cup F
      BY <1>7, <2>1, CatFact
  <2> QED
      BY <1>4, <2>2
<1>9. \A f \in Ends :
        /\ InWriteOrder(wire'[f]) /\ ToSet(wire'[f]) \subseteq WrittenFor(f)'
        /\ ToSet(wire'[f]) \subseteq ToSet(wire[f]) \cup F
        /\ WrittenFor(f) \subseteq WrittenFor(f)'
    BY <1>4, <1>5, <1>7, <1>8 DEF BytesKept, BytesInOrder
<1>10. BytesInOrder'
  <2> SUFFICES ASSUME NEW r \in Jobs
               PROVE  /\ Gone(r) \subseteq WrittenFor(EndOf(r))'
                      /\ Before(Gone(r), ToSet(wire'[EndOf(r)]))
      BY <1>3, <1>9 DEF BytesKept, BytesInOrder
  <2>1. Gone(r) \subseteq WrittenFor(EndOf(r)) /\ Before(Gone(r), ToSet(wire[EndOf(r)]))
      BY DEF BytesKept, BytesInOrder
  <2>2. Before(Gone(r), ToSet(wire[EndOf(r)]) \cup F)
      BY <1>1, <1>6, <2>1 DEF Before
  <2> QED
      BY <1>1, <1>9, <2>1, <2>2 DEF Before
<1>11. BytesApart'
    BY <1>3 DEF BytesKept, BytesApart
<1>12. NoneIsLost'
  <2> SUFFICES ASSUME NEW f \in Ends, link[f] # "closed", NEW x \in WrittenFor(f)'
               PROVE  x \in ToSet(wire'[f]) \/ \E r \in Jobs : EndOf(r) = f /\ x \in Gone(r)'
      BY <1>3 DEF NoneIsLost
  <2>1. \A y \in WrittenFor(f) :
          y \in ToSet(wire[f]) \/ \E r \in Jobs : EndOf(r) = f /\ y \in Gone(r)
      BY DEF BytesKept, NoneIsLost
  <2>2. ToSet(wire[f]) \subseteq ToSet(wire'[f]) /\ (f = to => F \subseteq ToSet(wire'[f]))
      BY <1>4, <1>8
  <2> QED
      BY <1>3, <1>5, <2>1, <2>2
<1> QED
    BY <1>10, <1>11, <1>12 DEF BytesKept

-----------------------------------------------------------------------------
(* The invariant, and the properties of the sockets.                        *)

LEMMA SocketInvariant == SocketSpec => []SocketInv
<1>1. SocketInit => SocketInv
  <2> SUFFICES ASSUME SocketInit
               PROVE  SocketInv
      OBVIOUS
  <2>1. <<>> \in Seq(Bytes) /\ Len(<<>>) = 0 /\ <<>> \o <<>> = <<>>
      BY EmptySeq, ConcatEmptySeq
  <2>2. SocketTypes
    <3>1. op \in [Jobs -> [call : CallKinds, size : 0..MaxSize, done : Nat, buf : Seq(Bytes)]]
        BY NoOpFact DEF SocketInit, Ops
    <3> QED
        BY <2>1, <3>1 DEF SocketInit, SocketTypes
  <2>3. CallsAreKnown
    <3> SUFFICES ASSUME NEW j \in Jobs
                 PROVE  CallIsKnown(j)
        BY DEF CallsAreKnown
    <3>1. op[j] = NoOp /\ written[j] = 0 /\ MaxWritten[j] \in Nat
        BY SocketAssumption DEF SocketInit
    <3> QED
        BY <3>1, NoOpFact DEF CallIsKnown
  <2>4. EndsAreKnown /\ ErrorsReachTheirCall
      BY <2>1, NoOpFact, EndsFact, SocketAssumption
      DEF SocketInit, EndsAreKnown, ErrorsReachTheirCall
  <2>5. /\ \A r \in Jobs : /\ Taken(r) = <<>> /\ discarded[r] \o op[r].buf = <<>>
                           /\ Got(r) = {} /\ Gone(r) = {} /\ discarded[r] = <<>>
        /\ \A e \in Ends : wire[e] = <<>> /\ WrittenFor(e) = {}
    <3>1. \A r \in Jobs : op[r].buf = <<>> /\ discarded[r] = <<>> /\ returned[r] = <<>>
        BY NoOpFact DEF SocketInit
    <3>2. \A e \in Ends : WrittenFor(e) = {}
        BY DEF SocketInit, WrittenFor, Bytes
    <3> QED
        BY <2>1, <3>1, <3>2, EmptyFact DEF SocketInit, Taken, Got, Gone
  <2>6. BytesInOrder /\ BytesApart /\ NoneIsLost
      BY <2>5, EmptyFact, EndsFact DEF BytesInOrder, BytesApart, NoneIsLost, Before
  <2> QED
      BY <2>2, <2>3, <2>4, <2>6 DEF SocketInv
<1>2. SocketInv /\ [SocketNext]_socketVars => SocketInv'
  <2> SUFFICES ASSUME SocketInv, [SocketNext]_socketVars
               PROVE  SocketInv'
      OBVIOUS
  <2>1. SocketTypes' /\ CallsAreKnown' /\ EndsAreKnown' /\ ErrorsReachTheirCall'
      BY SocketTypesStep, CallsStep, EndsStep, ErrorsAreKnown DEF SocketInv
  <2>2. BytesKept'
      BY ByteForms, QuietStep, CloseStep, EndStep, ArrivedStep, SentStep DEF SocketInv, BytesKept
  <2> QED
      BY <2>1, <2>2 DEF SocketInv, BytesKept
<1> QED
    BY <1>1, <1>2, PTL DEF SocketSpec

\* A byte is once on the wire, or once with one of the readers.
LEMMA EachByteIsOnce ==
    ASSUME SocketTypes, BytesKept
    PROVE  EachByteOnce
<1> SUFFICES ASSUME NEW e \in Ends
             PROVE  LET readers == {j \in Jobs : EndOf(j) = e}
                        places  == {<<"wire", "wire">>} \cup (readers \X {"taken", "lost"})
                        spot(p) == IF p = <<"wire", "wire">> THEN wire[e]
                                 ELSE IF p[2] = "taken" THEN Taken(p[1]) ELSE discarded[p[1]]
                    IN /\ \A p \in places : IsInjective(spot(p))
                       /\ \A p, q \in places : p # q => ToSet(spot(p)) \cap ToSet(spot(q)) = {}
                       /\ link[e] # "closed" =>
                            UNION {ToSet(spot(p)) : p \in places} =
                            UNION {{w} \X (1 .. written[w]) : w \in {j \in Jobs : EndOf(j) # e}}
    BY DEF EachByteOnce
<1> DEFINE readers == {j \in Jobs : EndOf(j) = e}
           onwire == <<"wire", "wire">>
           places == {onwire} \cup (readers \X {"taken", "lost"})
           spot(p) == IF p = onwire THEN wire[e]
                    ELSE IF p[2] = "taken" THEN Taken(p[1]) ELSE discarded[p[1]]
<1>1. \A p \in places :
        \/ p = onwire /\ spot(p) = wire[e]
        \/ \E r \in readers : p = <<r, "taken">> /\ spot(p) = Taken(r)
        \/ \E r \in readers : p = <<r, "lost">> /\ spot(p) = discarded[r]
    OBVIOUS
<1>2. /\ onwire \in places /\ spot(onwire) = wire[e]
      /\ \A r \in readers : /\ <<r, "taken">> \in places /\ spot(<<r, "taken">>) = Taken(r)
                            /\ <<r, "lost">> \in places /\ spot(<<r, "lost">>) = discarded[r]
    OBVIOUS
<1>3. /\ wire[e] \in Seq(Bytes) /\ InWriteOrder(wire[e])
      /\ \A r \in Jobs : /\ Taken(r) \in Seq(Bytes) /\ InWriteOrder(Taken(r))
                         /\ discarded[r] \in Seq(Bytes) /\ InWriteOrder(discarded[r])
  <2>1. ASSUME NEW r \in Jobs
        PROVE  InWriteOrder(discarded[r])
    <3>1. InWriteOrder(discarded[r] \o op[r].buf)
        BY DEF BytesKept, BytesInOrder
    <3> QED
        BY <3>1, CatFact, PlacesFact
  <2> QED
      BY <2>1, PlacesFact DEF BytesKept, BytesInOrder, SocketTypes
<1>4. ASSUME NEW s \in Seq(Bytes), InWriteOrder(s)
      PROVE  IsInjective(s)
  <2> SUFFICES ASSUME NEW i \in DOMAIN s, NEW k \in DOMAIN s, s[i] = s[k], i < k
               PROVE  FALSE
    <3>1. DOMAIN s \subseteq Int
        BY LenProperties
    <3> QED
        BY <3>1 DEF IsInjective
  <2>1. s[i][2] < s[i][2]
      BY <1>4 DEF InWriteOrder
  <2>2. s[i] \in Bytes
      BY ElementOfSeq, LenProperties
  <2>3. s[i][2] \in Nat
      BY <2>2 DEF Bytes
  <2> QED
      BY <2>1, <2>3
<1>5. \A p \in places : IsInjective(spot(p))
  <2> HIDE DEF spot, places, onwire
  <2> QED
      BY <1>1, <1>3, <1>4
<1>6. /\ \A r \in readers : /\ ToSet(Taken(r)) \cap ToSet(discarded[r]) = {}
                            /\ ToSet(wire[e]) \cap ToSet(Taken(r)) = {}
                            /\ ToSet(wire[e]) \cap ToSet(discarded[r]) = {}
      /\ \A q, r \in readers : q # r =>
            /\ ToSet(Taken(q)) \cap ToSet(Taken(r)) = {}
            /\ ToSet(Taken(q)) \cap ToSet(discarded[r]) = {}
            /\ ToSet(discarded[q]) \cap ToSet(Taken(r)) = {}
            /\ ToSet(discarded[q]) \cap ToSet(discarded[r]) = {}
  <2>1. \A r \in readers : Gone(r) \cap ToSet(wire[e]) = {}
      BY PlacesFact, BeforeApart DEF BytesKept, BytesInOrder
  <2>2. /\ \A r \in readers : Got(r) \cap ToSet(discarded[r]) = {}
        /\ \A q, r \in readers : q # r => Gone(q) \cap Gone(r) = {}
      BY DEF BytesKept, BytesApart
  <2>3. \A r \in readers : Gone(r) = ToSet(Taken(r)) \cup ToSet(discarded[r])
      BY DEF Gone, Got
  <2> HIDE DEF readers
  <2> QED
      BY <2>1, <2>2, <2>3 DEF Got
<1>7. ASSUME NEW p \in places, NEW q \in places, p # q
      PROVE  ToSet(spot(p)) \cap ToSet(spot(q)) = {}
  <2> HIDE DEF spot, places, readers
  <2>1. CASE p = onwire
      BY <1>1, <1>6, <1>7, <2>1
  <2>2. CASE q = onwire
      BY <1>1, <1>6, <1>7, <2>2
  <2>3. CASE p # onwire /\ q # onwire
      BY <1>1, <1>6, <1>7, <2>3
  <2> QED
      BY <2>1, <2>2, <2>3
<1>8. ASSUME link[e] # "closed"
      PROVE  UNION {ToSet(spot(p)) : p \in places} =
             UNION {{w} \X (1 .. written[w]) : w \in {j \in Jobs : EndOf(j) # e}}
  <2>1. UNION {{w} \X (1 .. written[w]) : w \in {j \in Jobs : EndOf(j) # e}} = WrittenFor(e)
      BY DEF WrittenFor, Bytes
  <2>2. ASSUME NEW x \in WrittenFor(e)
        PROVE  \E p \in places : x \in ToSet(spot(p))
    <3>1. x \in ToSet(wire[e]) \/ \E r \in Jobs : EndOf(r) = e /\ x \in Gone(r)
        BY <1>8 DEF BytesKept, NoneIsLost
    <3>2. CASE x \in ToSet(wire[e])
        BY <1>2, <3>2
    <3>3. ASSUME NEW r \in Jobs, EndOf(r) = e, x \in Gone(r)
          PROVE  \E p \in places : x \in ToSet(spot(p))
      <4>1. x \in ToSet(Taken(r)) \/ x \in ToSet(discarded[r])
          BY <3>3 DEF Gone, Got
      <4>2. r \in readers
          BY <3>3
      <4> HIDE DEF spot, places, readers
      <4> QED
          BY <1>2, <4>1, <4>2
    <3> QED
        BY <3>1, <3>2, <3>3
  <2>3. \A p \in places : ToSet(spot(p)) \subseteq WrittenFor(e)
    <3>1. \A r \in readers : ToSet(Taken(r)) \cup ToSet(discarded[r]) \subseteq WrittenFor(e)
        BY DEF BytesKept, BytesInOrder, Gone, Got
    <3>2. ToSet(wire[e]) \subseteq WrittenFor(e)
        BY DEF BytesKept, BytesInOrder
    <3> HIDE DEF spot, places, readers
    <3> QED
        BY <1>1, <3>1, <3>2
  <2> HIDE DEF spot, places
  <2> QED
      BY <2>1, <2>2, <2>3
<1> QED
    BY <1>5, <1>7, <1>8

\* The streams of a connection are whole, whoever reads and writes: each byte
\* is once on the wire or with one reader, none is lost while its end is open,
\* the bytes of a writer stay in order, and an error is thrown in the call
\* that waits for it (Socket.cpp:85-95, 112-138, 160-177, 216-222).
THEOREM StreamsStayWhole == SocketSpec => []StreamsAreWhole
<1>1. SocketInv => StreamsAreWhole
  <2> SUFFICES ASSUME SocketInv
               PROVE  StreamsAreWhole
      OBVIOUS
  <2>1. SocketTypeOK
      BY DEF SocketInv, SocketTypes, CallsAreKnown, CallIsKnown, EndsAreKnown, SocketTypeOK, CallKinds
  <2>2. EachByteOnce
      BY EachByteIsOnce DEF SocketInv, BytesKept
  <2>3. StreamInOrder
      BY DEF SocketInv, BytesInOrder, StreamInOrder
  <2> QED
      BY <2>1, <2>2, <2>3 DEF SocketInv, StreamsAreWhole
<1> QED
    BY <1>1, SocketInvariant, PTL

\* A read(size) that returns has read size bytes, a write() has written all of
\* its data, and a read(0) never returns (Socket.cpp:112-141, 153-180).
THEOREM CallsStayWhole == SocketSpec => CallsAreWhole
<1> DEFINE Whole(j) ==
        op[j].call \in {"read", "write"} /\ op'[j].call = "none" =>
            \/ j \in exception
            \/ op[j].size > 0 /\ op[j].done = op[j].size
               /\ Len(returned'[j]) - Len(returned[j]) =
                    (IF op[j].call = "read" THEN op[j].size ELSE 0)
<1>1. SocketInv /\ [SocketNext]_socketVars => [\A j \in Jobs : Whole(j)]_socketVars
  <2> SUFFICES ASSUME SocketInv, SocketNext, NEW k \in Jobs,
                      op[k].call \in {"read", "write"}, op'[k].call = "none", k \notin exception
               PROVE  /\ op[k].size > 0 /\ op[k].done = op[k].size
                      /\ Len(returned'[k]) - Len(returned[k]) =
                            (IF op[k].call = "read" THEN op[k].size ELSE 0)
      BY Zenon DEF socketVars
  <2>0. SocketTypes /\ CallsAreKnown /\ op \in [Jobs -> Ops]
      BY DEF SocketInv, SocketTypes, Ops
  <2>1. Return(k)
    <3>1. CASE Listen \/ Connected \/ Refused \/ Accepted
        BY <3>1 DEF Listen, Connected, Refused, Accepted
    <3>2. ASSUME NEW j \in Jobs, NEW call, NEW size, Begins(j, call, size)
          PROVE  FALSE
      <4> DEFINE o == [NoOp EXCEPT !.call = call, !.size = size]
      <4>1. op' = [op EXCEPT ![j] = o] /\ op[j].call = "none"
          BY <3>2 DEF Begins, Start, Calls
      <4> HIDE DEF o
      <4> QED
          BY <2>0, <4>1
    <3>3. ASSUME NEW j \in Jobs, Close(j) \/ Error(j) \/ Again(j)
          PROVE  FALSE
        BY <3>3 DEF Close, Error, Again
    <3>4. ASSUME NEW j \in Jobs, Throw(j)
          PROVE  FALSE
        BY <2>0, <3>4 DEF Throw, Throws
    <3>5. ASSUME NEW j \in Jobs, NEW n \in 1..MaxSize, Arrived(j, n)
          PROVE  FALSE
      <4> DEFINE o == [op[j] EXCEPT !.done = op[j].done + n,
                          !.buf = op[j].buf \o SubSeq(wire[EndOf(j)], 1, n)]
      <4>1. op' = [op EXCEPT ![j] = o]
          BY <2>0, <3>5, ArrivedFact
      <4>2. o.call = op[j].call
          BY <2>0 DEF Ops
      <4> HIDE DEF o
      <4> QED
          BY <2>0, <4>1, <4>2
    <3>6. ASSUME NEW j \in Jobs, NEW n \in 1..MaxSize, Sent(j, n)
          PROVE  FALSE
      <4> DEFINE o == [op[j] EXCEPT !.done = op[j].done + n]
      <4>1. op' = [op EXCEPT ![j] = o]
          BY <2>0, <3>6, SentFact
      <4>2. o.call = op[j].call
          BY <2>0 DEF Ops
      <4> HIDE DEF o
      <4> QED
          BY <2>0, <4>1, <4>2
    <3>7. ASSUME NEW j \in Jobs, Return(j)
          PROVE  Return(k)
        BY <2>0, <3>7 DEF Return
    <3> QED
        BY <3>1, <3>2, <3>3, <3>4, <3>5, <3>6, <3>7, SocketForms, EndsFact
  <2>2. op[k].size > 0 /\ op[k].done = op[k].size
    <3>1. /\ op[k].size \in Nat /\ op[k].done \in Nat
          /\ op[k].size > 0 => op[k].done <= op[k].size
          /\ op[k].call = "write" => op[k].size > 0
        BY <2>0, SizesFact DEF CallsAreKnown, CallIsKnown, Ops
    <3>2. ~GoesOn(k)
        BY <2>1 DEF Return
    <3> QED
        BY <3>1, <3>2 DEF GoesOn
  <2>3. Len(returned'[k]) = Len(returned[k]) + Len(op[k].buf)
    <3>1. returned'[k] = returned[k] \o op[k].buf
        BY <2>0, <2>1 DEF Return, SocketTypes
    <3> QED
        BY <2>0, <3>1, PlacesFact, CatFact
  <2>4. /\ op[k].call = "read" => Len(op[k].buf) = op[k].done
        /\ op[k].call # "read" => op[k].buf = <<>>
        /\ Len(returned[k]) \in Nat /\ Len(<<>>) = 0 /\ op[k].size \in Nat
    <3>1. Len(returned[k]) \in Nat
        BY <2>0, PlacesFact, LenProperties
    <3> QED
        BY <2>0, <3>1, EmptySeq, SizesFact DEF CallsAreKnown, CallIsKnown, Ops
  <2> QED
      BY <2>2, <2>3, <2>4
<1> QED
    BY <1>1, SocketInvariant, PTL DEF SocketSpec, CallsAreWhole
-----------------------------------------------------------------------------
(* HttpClient                                                                *)

Steps == {"none", "curl", "info", "remove"}
Reads == {"reading", "asleep", "woken"}

HttpTypes ==
    /\ queue \in Seq(Responses) /\ frozen \in SUBSET Responses
    /\ current \in Responses \cup {None} /\ freed \in BOOLEAN
    /\ handler \in [step : Steps, on : Responses \cup {None}, dead : Responses \cup {None}]
    /\ at \in [Responses -> {"idle", "reading", "asleep", "woken", "ended"}]
    /\ left \in [Responses -> 0..Everything] /\ reads \in [Responses -> 0..MaxReads]
    /\ context \in [Responses -> BOOLEAN]
    /\ in_data \in [Responses -> Seq(1..MaxChunks)] /\ got \in [Responses -> Seq(1..MaxChunks)]
    /\ transfer \in [Responses -> {"none", "pending", "active", "over", "gone"}]
    /\ sent \in [Responses -> 0..MaxChunks] /\ dropped \in [Responses -> SUBSET (1..MaxChunks)]
    /\ running \in [Responses -> BOOLEAN]
    /\ checks \in [Responses -> Nat]
    /\ runningHandles \in 0..Cardinality(Responses) /\ timer \in BOOLEAN

\* What the handler that runs is about.
HandlerIsKnown ==
    /\ handler.step = "none" => handler = Idle
    /\ handler.step = "curl" => handler.on \in Responses
    /\ handler.step = "remove" => handler.dead \in Responses /\ transfer[handler.dead] = "gone"

\* The client's tables follow curl's: what runs has a response, and what is
\* active a socket that somebody looks after.
TransfersAreKnown ==
    /\ sockets = Active(transfer)
    /\ responses = {r \in Responses : transfer[r] \in {"pending", "active", "over"}}
    /\ \A r \in Responses : running[r] <=> transfer[r] # "gone"
    /\ \A r \in Active(transfer) : checks[r] > 0 \/ handler.on = r

ReadersAreKnown ==
    \A r \in Responses :
        /\ context[r] <=> at[r] \in Reads
        /\ context[r] => reads[r] > 0

\* A polite reader has fired its request and not let go of the thread until it
\* read; it reads once, to the end, and holds all that was sent so far.
PoliteIsServed(r) ==
    /\ reads[r] \in {0, 1}
    /\ reads[r] = 0 =>
        /\ sent[r] = 0 /\ left[r] = 0
        /\ transfer[r] # "none" => current = r /\ transfer[r] \in {"pending", "active"}
    /\ reads[r] > 0 => transfer[r] # "none"
    /\ context[r] => left[r] = Everything - Len(got[r])
    /\ reads[r] > 0 /\ ~context[r] => transfer[r] = "gone" /\ in_data[r] = <<>>
    /\ context[r] /\ ~running[r] => handler.step = "remove" /\ handler.dead = r
    /\ dropped[r] = {}

PoliteAreServed == \A r \in Polite : PoliteIsServed(r)

Kept(r) == got[r] \o in_data[r]
Increases(s) == \A i, j \in DOMAIN s : i < j => s[i] < s[j]

\* Of n chunks k are kept in order, and all of them unless some, d, were dropped.
Gathered(k, n, d) ==
    /\ Increases(k)
    /\ ToSet(k) \cap d = {}
    /\ ToSet(k) \cup d = 1..n
    /\ d = {} => k = [i \in 1..n |-> i]

ChunksOf(r) == Gathered(Kept(r), sent[r], dropped[r])

ChunksAreKept == \A r \in Responses : ChunksOf(r)

HttpInv ==
    /\ HttpTypes /\ HandlerIsKnown /\ TransfersAreKnown
    /\ ReadersAreKnown /\ PoliteAreServed /\ ChunksAreKept

-----------------------------------------------------------------------------
(* Sequences of chunks, and transfers that are active.                      *)

Chunks == 1..MaxChunks

LEMMA HttpSplitFact ==
    ASSUME NEW s \in Seq(Chunks), NEW t \in Seq(Chunks), NEW n \in Nat, n <= Len(t)
    PROVE  /\ SubSeq(t, 1, n) \in Seq(Chunks) /\ SubSeq(t, n + 1, Len(t)) \in Seq(Chunks)
           /\ Len(SubSeq(t, 1, n)) = n /\ Len(SubSeq(t, n + 1, Len(t))) = Len(t) - n
           /\ s \o SubSeq(t, 1, n) \in Seq(Chunks)
           /\ Len(s \o SubSeq(t, 1, n)) = Len(s) + n
           /\ (s \o SubSeq(t, 1, n)) \o SubSeq(t, n + 1, Len(t)) = s \o t
<1> DEFINE a == SubSeq(t, 1, n)
           b == SubSeq(t, n + 1, Len(t))
           u == a \o b
<1>1. Len(t) \in Nat /\ \A i \in 1..Len(t) : t[i] \in Chunks
    BY LenProperties, ElementOfSeq
<1>2. /\ a \in Seq(Chunks) /\ Len(a) = n
      /\ \A i \in 1..n : a[i] = t[i]
    BY <1>1, SubSeqProperties
<1>3. /\ b \in Seq(Chunks) /\ Len(b) = Len(t) - n
      /\ \A i \in 1..Len(t) - n : b[i] = t[n + i]
    BY <1>1, SubSeqProperties
<1> HIDE DEF a, b
<1>4. /\ u \in Seq(Chunks) /\ Len(u) = Len(t)
      /\ \A i \in 1..Len(t) : u[i] = IF i <= n THEN a[i] ELSE b[i - n]
  <2>1. Len(a) + Len(b) = Len(t)
      BY <1>1, <1>2, <1>3
  <2>2. /\ u \in Seq(Chunks) /\ Len(u) = Len(a) + Len(b)
        /\ \A i \in 1..Len(a) + Len(b) : u[i] = IF i <= Len(a) THEN a[i] ELSE b[i - Len(a)]
      BY <1>2, <1>3, ConcatProperties
  <2> QED
      BY <1>2, <2>1, <2>2
<1>5. t = u
  <2> HIDE DEF u
  <2>1. ASSUME NEW i \in 1..Len(t)
        PROVE  t[i] = u[i]
    <3>1. u[i] = IF i <= n THEN a[i] ELSE b[i - n]
        BY <1>4
    <3>2. CASE i <= n
        BY <1>2, <3>1, <3>2
    <3>3. CASE ~ (i <= n)
      <4>1. i - n \in 1..Len(t) - n /\ n + (i - n) = i
          BY <1>1, <3>3
      <4> QED
          BY <1>3, <3>1, <3>3, <4>1
    <3> QED
        BY <3>2, <3>3
  <2> QED
      BY <1>1, <1>4, <2>1, SeqEqual
<1>6. s \o a \in Seq(Chunks) /\ Len(s \o a) = Len(s) + n
    BY <1>2, ConcatProperties
<1>7. (s \o a) \o b = s \o u
    BY <1>2, <1>3, ConcatAssociative, SMTT(60)
<1> QED
    BY <1>2, <1>3, <1>5, <1>6, <1>7 DEF a, b

\* What a sequence of chunks becomes when one more comes.
Grown(k, l, c) ==
    /\ k \in Seq(Chunks) /\ l \in Seq(Chunks)
    /\ Len(k) \in Nat /\ DOMAIN k = 1..Len(k)
    /\ Len(l) = Len(k) + 1 /\ DOMAIN l = 1..Len(k) + 1
    /\ l[Len(k) + 1] = c /\ \A i \in 1..Len(k) : l[i] = k[i]
    /\ ToSet(l) = ToSet(k) \cup {c}

LEMMA AppendFact ==
    ASSUME NEW s \in Seq(Chunks), NEW t \in Seq(Chunks), NEW c \in Chunks
    PROVE  Append(t, c) \in Seq(Chunks) /\ Grown(s \o t, s \o Append(t, c), c)
<1> DEFINE u == Append(t, c)
           k == s \o t
           l == s \o u
<1>1. /\ Len(s) \in Nat /\ Len(t) \in Nat
    BY LenProperties
<1>2. /\ u \in Seq(Chunks) /\ Len(u) = Len(t) + 1
      /\ \A i \in 1..Len(t) : u[i] = t[i]
      /\ u[Len(t) + 1] = c
    BY <1>1, AppendProperties
<1> HIDE DEF u
<1>3. /\ k \in Seq(Chunks) /\ Len(k) = Len(s) + Len(t)
      /\ \A i \in 1..Len(s) + Len(t) : k[i] = IF i <= Len(s) THEN s[i] ELSE t[i - Len(s)]
    BY ConcatProperties
<1>4. /\ l \in Seq(Chunks) /\ Len(l) = Len(s) + Len(u)
      /\ \A i \in 1..Len(s) + Len(u) : l[i] = IF i <= Len(s) THEN s[i] ELSE u[i - Len(s)]
    BY <1>2, ConcatProperties
<1> HIDE DEF k, l
<1>5. DOMAIN k = 1..Len(k) /\ DOMAIN l = 1..Len(l) /\ Len(k) \in Nat /\ Len(l) = Len(k) + 1
    BY <1>1, <1>2, <1>3, <1>4, LenProperties
<1>6. l[Len(k) + 1] = c /\ \A i \in 1..Len(k) : l[i] = k[i]
  <2>1. l[Len(k) + 1] = c
    <3>1. /\ Len(k) + 1 \in 1..Len(s) + Len(u) /\ ~ (Len(k) + 1 <= Len(s))
          /\ (Len(k) + 1) - Len(s) = Len(t) + 1
        BY <1>1, <1>2, <1>3
    <3> QED
        BY <1>2, <1>4, <3>1
  <2>2. ASSUME NEW i \in 1..Len(k)
        PROVE  l[i] = k[i]
    <3>1. i \in 1..Len(s) + Len(u) /\ i \in 1..Len(s) + Len(t)
        BY <1>1, <1>2, <1>3
    <3>2. CASE i <= Len(s)
        BY <1>3, <1>4, <3>1, <3>2
    <3>3. CASE ~ (i <= Len(s))
      <4>1. i - Len(s) \in 1..Len(t)
          BY <1>1, <3>1, <3>3
      <4> QED
          BY <1>2, <1>3, <1>4, <3>1, <3>3, <4>1
    <3> QED
        BY <3>2, <3>3
  <2> QED
      BY <2>1, <2>2
<1>7. ToSet(l) = ToSet(k) \cup {c}
  <2>1. \A i \in 1..Len(k) + 1 : i \in 1..Len(k) \/ i = Len(k) + 1
      BY <1>5
  <2> QED
      BY <1>5, <1>6, <2>1 DEF ToSet
<1>8. u \in Seq(Chunks) /\ Grown(k, l, c)
    BY <1>2, <1>3, <1>4, <1>5, <1>6, <1>7 DEF Grown
<1> QED
    BY <1>8 DEF k, l, u

LEMMA ActiveFact ==
    \A t : /\ Active(t) \in SUBSET Responses
           /\ Cardinality(Active(t)) \in 0..Cardinality(Responses)
<1> TAKE t
<1>1. Active(t) \in SUBSET Responses
    BY DEF Active
<1>2. Cardinality(Active(t)) <= Cardinality(Responses) /\ Cardinality(Responses) \in Nat
      /\ Cardinality(Active(t)) \in Nat
    BY <1>1, HttpAssumption, FS_Subset, FS_CardinalityType
<1> QED
    BY <1>1, <1>2

-----------------------------------------------------------------------------
(* The scheduler takes a job of the queue.                                  *)

TakesJob ==
    /\ queue' \in Seq(Responses) /\ frozen' \in SUBSET Responses
    /\ current' \in Responses \cup {None} /\ freed' \in BOOLEAN
    /\ at' \in [Responses -> {"idle", "reading", "asleep", "woken", "ended"}]
    /\ \A r \in Responses : at'[r] \in Reads <=> at[r] \in Reads

LEMMA RunFact ==
    ASSUME HttpTypes, NEW q \in Seq(Responses), q # <<>>, RunFirst(q),
           frozen' \in SUBSET Responses
    PROVE  TakesJob
<1> DEFINE j == Head(q)
<1>1. j \in Responses /\ Tail(q) \in Seq(Responses)
    BY HeadTailProperties
<1>2. /\ queue' = Tail(q)
      /\ current' = IF j \in frozen' \/ Ended(j) THEN None ELSE j
      /\ freed' = Ended(j)
      /\ at' = IF j \notin frozen' /\ at[j] = "asleep" THEN [at EXCEPT ![j] = "woken"] ELSE at
    BY DEF RunFirst
<1> HIDE DEF j
<1>3. /\ at' \in [Responses -> {"idle", "reading", "asleep", "woken", "ended"}]
      /\ \A r \in Responses : at'[r] \in Reads <=> at[r] \in Reads
    BY <1>1, <1>2 DEF HttpTypes, Reads
<1> QED
    BY <1>1, <1>2, <1>3 DEF TakesJob, Ended

LEMMA PollFact ==
    ASSUME HttpTypes, Poll
    PROVE  /\ TakesJob /\ current = None /\ ~freed
           /\ UNCHANGED <<handler, left, reads, context, in_data, got, curlVars>>
<1>1. queue \in Seq(Responses) /\ queue # <<>> /\ frozen' \in SUBSET Responses
    BY DEF HttpTypes, Poll
<1> QED
    BY <1>1, RunFact DEF Poll

LEMMA WakeFact ==
    ASSUME HttpTypes, NEW r \in Responses, Wakeup(r)
    PROVE  TakesJob
<1>1. Append(queue, r) \in Seq(Responses) /\ Append(queue, r) # <<>>
  <2>1. queue \in Seq(Responses)
      BY DEF HttpTypes
  <2>2. Append(queue, r) \in Seq(Responses) /\ Len(Append(queue, r)) = Len(queue) + 1
      BY <2>1, AppendProperties
  <2>3. Len(queue) \in Nat /\ Len(<<>>) = 0
      BY <2>1, LenProperties, EmptySeq
  <2> QED
      BY <2>2, <2>3
<1>2. frozen' \in SUBSET Responses
    BY DEF HttpTypes, Wakeup, Thawed
<1> QED
    BY <1>1, <1>2, RunFact DEF Wakeup

-----------------------------------------------------------------------------
(* TransferRecords start.                                                         *)

TransferRecords == {"none", "pending", "active", "over", "gone"}

LEMMA FireFact ==
    ASSUME HttpTypes, NEW r \in Responses, Fire(r)
    PROVE  /\ current = r /\ transfer[r] = "none" /\ responses' = responses \cup {r}
           /\ transfer' \in [Responses -> TransferRecords] /\ checks' \in [Responses -> Nat]
           /\ runningHandles' \in 0..Cardinality(Responses) /\ timer' \in BOOLEAN
           /\ transfer'[r] \in {"pending", "active"}
           /\ \A q \in Responses : q # r =>
                \/ transfer'[q] = transfer[q]
                \/ transfer[q] = "pending" /\ transfer'[q] = "active"
           /\ sockets' = sockets \cup
                {q \in Responses : transfer[q] # "active" /\ transfer'[q] = "active"}
           /\ \A q \in Responses : checks'[q] >= checks[q]
           /\ \A q \in Responses :
                transfer[q] # "active" /\ transfer'[q] = "active" => checks'[q] > 0
           /\ UNCHANGED <<queue, frozen, current, freed, handler, jobVars, sent, dropped, running>>
<1> DEFINE t == [transfer EXCEPT ![r] = "pending"]
           now == [q \in Responses |-> IF q \in {p \in Responses : t[p] = "pending"}
                                       THEN "active" ELSE t[q]]
<1>1. /\ transfer \in [Responses -> TransferRecords] /\ checks \in [Responses -> Nat]
      /\ transfer[r] = "none" /\ current = r /\ responses' = responses \cup {r}
      /\ UNCHANGED <<queue, frozen, current, freed, handler, jobVars, sent, dropped, running>>
    BY DEF Fire, Runs, HttpTypes, TransferRecords
<1>2. /\ t \in [Responses -> TransferRecords] /\ t[r] = "pending"
      /\ \A q \in Responses : q # r => t[q] = transfer[q]
    BY <1>1 DEF TransferRecords
<1>3. CASE runningHandles = 0
  <2>1. Kickstart(t)
      BY <1>3 DEF Fire
  <2> HIDE DEF t
  <2>2. /\ transfer' = now
        /\ sockets' = sockets \cup {q \in Responses : t[q] = "pending"}
        /\ checks' = [q \in Responses |-> checks[q] +
                        IF q \in {p \in Responses : t[p] = "pending"} THEN 1 ELSE 0]
        /\ runningHandles' = Cardinality(Active(now))
        /\ timer' = (Active(now) # {})
      BY <2>1 DEF Kickstart
  <2>3. /\ now \in [Responses -> TransferRecords]
        /\ \A q \in Responses : now[q] = IF t[q] = "pending" THEN "active" ELSE t[q]
      BY <1>2 DEF TransferRecords
  <2> HIDE DEF now
  <2>4. runningHandles' \in 0..Cardinality(Responses) /\ timer' \in BOOLEAN
      BY <2>2, ActiveFact
  <2>5. /\ checks' \in [Responses -> Nat]
        /\ \A q \in Responses : checks'[q] = checks[q] + IF t[q] = "pending" THEN 1 ELSE 0
      BY <1>1, <2>2
  <2>6. /\ \A q \in Responses : checks'[q] >= checks[q]
        /\ \A q \in Responses : t[q] = "pending" => checks'[q] > 0
      BY <1>1, <2>5
  <2>7. \A q \in Responses :
          transfer[q] # "active" /\ transfer'[q] = "active" <=> t[q] = "pending"
      BY <1>1, <1>2, <2>2, <2>3
  <2>8. sockets' = sockets \cup
          {q \in Responses : transfer[q] # "active" /\ transfer'[q] = "active"}
      BY <2>2, <2>7
  <2> QED
      BY <1>1, <1>2, <2>2, <2>3, <2>4, <2>5, <2>6, <2>7, <2>8
<1>4. CASE runningHandles # 0
  <2>1. transfer' = t /\ UNCHANGED <<sockets, checks, runningHandles, timer>>
      BY <1>4 DEF Fire
  <2> HIDE DEF t
  <2>2. {q \in Responses : transfer[q] # "active" /\ transfer'[q] = "active"} = {}
      BY <1>2, <2>1
  <2>3. runningHandles \in 0..Cardinality(Responses) /\ timer \in BOOLEAN
      BY DEF HttpTypes
  <2> QED
      BY <1>1, <1>2, <2>1, <2>2, <2>3
<1> QED
    BY <1>3, <1>4

LEMMA TimerFact ==
    ASSUME HttpTypes, NEW late \in SUBSET Responses, TimerFires(late)
    PROVE  /\ current = None /\ handler.step = "none"
           /\ late \subseteq Active(transfer)
           /\ transfer' \in [Responses -> TransferRecords] /\ checks' \in [Responses -> Nat]
           /\ runningHandles' \in 0..Cardinality(Responses) /\ timer' \in BOOLEAN
           /\ \A q \in Responses : transfer'[q] = IF q \in late THEN "over"
                                                  ELSE IF transfer[q] = "pending" THEN "active"
                                                  ELSE transfer[q]
           /\ sockets' = (sockets \ late) \cup {q \in Responses : transfer[q] = "pending"}
           /\ \A q \in Responses : checks'[q] >= checks[q]
           /\ \A q \in Responses : transfer[q] = "pending" => checks'[q] > 0
           /\ handler' = [step |-> "info", on |-> None, dead |-> None]
           /\ UNCHANGED <<queue, frozen, current, freed, jobVars, sent, dropped, running, responses>>
<1> DEFINE now == [q \in Responses |-> CASE q \in late    -> "over"
                                         [] q \in Started -> "active"
                                         [] OTHER         -> transfer[q]]
<1>1. /\ transfer \in [Responses -> TransferRecords] /\ checks \in [Responses -> Nat]
      /\ current = None /\ handler.step = "none" /\ late \subseteq Active(transfer)
      /\ handler' = [step |-> "info", on |-> None, dead |-> None]
      /\ UNCHANGED <<queue, frozen, current, freed, jobVars, sent, dropped, running, responses>>
    BY DEF TimerFires, Handles, HttpTypes, TransferRecords
<1>2. /\ transfer' = now /\ sockets' = (sockets \ late) \cup Started
      /\ checks' = [q \in Responses |-> checks[q] + IF q \in Started THEN 1 ELSE 0]
      /\ runningHandles' = Cardinality(Active(now)) /\ timer' = (Active(now) # {})
    BY DEF TimerFires
<1>3. /\ Started = {q \in Responses : transfer[q] = "pending"}
      /\ \A q \in late : transfer[q] = "active"
    BY <1>1 DEF Started, Active
<1>4. /\ now \in [Responses -> TransferRecords]
      /\ \A q \in Responses : now[q] = IF q \in late THEN "over"
                                       ELSE IF transfer[q] = "pending" THEN "active"
                                       ELSE transfer[q]
    BY <1>1, <1>3 DEF TransferRecords
<1> HIDE DEF now
<1>5. runningHandles' \in 0..Cardinality(Responses) /\ timer' \in BOOLEAN
    BY <1>2, ActiveFact
<1>6. /\ checks' \in [Responses -> Nat]
      /\ \A q \in Responses : checks'[q] = checks[q] + IF transfer[q] = "pending" THEN 1 ELSE 0
    BY <1>1, <1>2, <1>3
<1>7. /\ \A q \in Responses : checks'[q] >= checks[q]
      /\ \A q \in Responses : transfer[q] = "pending" => checks'[q] > 0
    BY <1>1, <1>6
<1> QED
    BY <1>1, <1>2, <1>3, <1>4, <1>5, <1>6, <1>7

\* A chunk comes: it is kept for a reader, who is woken up, or dropped.
LEMMA ChunkFact ==
    ASSUME HttpTypes, HandlerIsKnown, Chunk
    PROVE  LET r == handler.on
               c == sent[r] + 1
           IN  /\ r \in Responses /\ transfer[r] = "active" /\ c \in Chunks
               /\ current = None /\ handler.step = "curl"
               /\ sent' = [sent EXCEPT ![r] = c]
               /\ TakesJob
               /\ \/ /\ context[r] /\ in_data' = [in_data EXCEPT ![r] = Append(in_data[r], c)]
                     /\ UNCHANGED dropped
                  \/ /\ ~context[r] /\ dropped' = [dropped EXCEPT ![r] = dropped[r] \cup {c}]
                     /\ UNCHANGED in_data
               /\ UNCHANGED <<handler, left, reads, context, got, transfer, running, responses,
                              sockets, checks, runningHandles, timer>>
<1> DEFINE r == handler.on
<1>1. /\ r \in Responses /\ transfer[r] = "active" /\ sent[r] < MaxChunks
      /\ current = None /\ handler.step = "curl"
      /\ sent' = [sent EXCEPT ![r] = @ + 1]
      /\ UNCHANGED <<handler, left, reads, context, got, transfer, running, responses,
                     sockets, checks, runningHandles, timer>>
    BY DEF Chunk, Handles, HandlerIsKnown
<1>2. sent[r] \in Nat /\ sent[r] + 1 \in Chunks
  <2>1. MaxChunks \in Nat /\ sent \in [Responses -> 0..MaxChunks]
      BY HttpAssumption DEF HttpTypes
  <2>2. sent[r] \in 0..MaxChunks
      BY <1>1, <2>1
  <2> QED
      BY <1>1, <2>1, <2>2 DEF Chunks
<1>3. CASE context[r]
  <2>1. in_data' = Received(r) /\ Wakeup(r) /\ UNCHANGED dropped
      BY <1>3 DEF Chunk
  <2> QED
      BY <1>1, <1>2, <1>3, <2>1, WakeFact DEF Received
<1>4. CASE ~context[r]
  <2>1. /\ dropped' = [dropped EXCEPT ![r] = @ \cup {sent[r] + 1}]
        /\ UNCHANGED <<in_data, queue, frozen, current, freed, at>>
      BY <1>4 DEF Chunk
  <2> QED
      BY <1>1, <1>2, <1>4, <2>1 DEF TakesJob, HttpTypes
<1> QED
    BY <1>3, <1>4

\* One turn of the loop of read(): some chunks go to the caller.
LEMMA CopyFact ==
    ASSUME HttpTypes, NEW r \in Responses, Copy(r)
    PROVE  \E n \in Nat :
             LET a == got[r] \o SubSeq(in_data[r], 1, n)
                 b == SubSeq(in_data[r], n + 1, Len(in_data[r]))
                 wanted == left[r] - n
                 returns == ~running[r] \/ wanted = 0
             IN  /\ n <= Len(in_data[r]) /\ wanted \in Nat /\ wanted <= Everything
                 /\ n = Len(in_data[r]) \/ wanted = 0
                 /\ a \in Seq(Chunks) /\ b \in Seq(Chunks)
                 /\ Len(a) = Len(got[r]) + n /\ Len(b) = Len(in_data[r]) - n
                 /\ a \o b = Kept(r)
                 /\ got' = [got EXCEPT ![r] = a] /\ in_data' = [in_data EXCEPT ![r] = b]
                 /\ left' = [left EXCEPT ![r] = wanted]
                 /\ at' = [at EXCEPT ![r] = IF returns THEN "idle" ELSE "reading"]
                 /\ context' = [context EXCEPT ![r] = ~returns]
                 /\ at[r] \in Reads /\ current = r
                 /\ UNCHANGED <<queue, frozen, current, freed, handler, reads, curlVars>>
<1> DEFINE s == in_data[r]
           g == got[r]
           n == ToCopy(r)
<1>1. /\ s \in Seq(Chunks) /\ g \in Seq(Chunks) /\ left[r] \in Nat /\ left[r] <= Everything
      /\ Everything \in Nat /\ Len(s) \in Nat
    BY HttpAssumption, LenProperties DEF HttpTypes, Chunks, Everything
<1>2. n \in Nat /\ n <= Len(s) /\ left[r] - n \in Nat /\ left[r] - n <= Everything
      /\ (n = Len(s) \/ left[r] - n = 0)
  <2> HIDE DEF s
  <2>1. n = IF left[r] < Len(s) THEN left[r] ELSE Len(s)
      BY DEF ToCopy, s
  <2> HIDE DEF n
  <2> QED
      BY <1>1, <2>1
<1>3. /\ got' = [got EXCEPT ![r] = g \o SubSeq(s, 1, n)]
      /\ in_data' = [in_data EXCEPT ![r] = SubSeq(s, n + 1, Len(s))]
      /\ left' = [left EXCEPT ![r] = left[r] - n]
      /\ at' = [at EXCEPT ![r] = IF ~running[r] \/ left[r] - n = 0 THEN "idle" ELSE "reading"]
      /\ context' = [context EXCEPT ![r] = ~ (~running[r] \/ left[r] - n = 0)]
      /\ at[r] \in Reads /\ current = r
      /\ UNCHANGED <<queue, frozen, current, freed, handler, reads, curlVars>>
    BY DEF Copy, Runs, Rest, Terminates, StillReads, Reads
<1>4. /\ SubSeq(s, n + 1, Len(s)) \in Seq(Chunks)
      /\ Len(SubSeq(s, n + 1, Len(s))) = Len(s) - n
      /\ g \o SubSeq(s, 1, n) \in Seq(Chunks)
      /\ Len(g \o SubSeq(s, 1, n)) = Len(g) + n
      /\ (g \o SubSeq(s, 1, n)) \o SubSeq(s, n + 1, Len(s)) = g \o s
  <2> HIDE DEF s, g, n
  <2> QED
      BY <1>1, <1>2, HttpSplitFact
<1>5. Kept(r) = g \o s
    BY DEF Kept
<1> HIDE DEF n
<1> WITNESS n \in Nat
<1> QED
    BY <1>2, <1>3, <1>4, <1>5

-----------------------------------------------------------------------------
(* Every step keeps the types.                                              *)

LEMMA HttpTypesStep ==
    ASSUME HttpTypes, HandlerIsKnown, [Next]_vars
    PROVE  HttpTypes'
<1>1. CASE UNCHANGED vars
    BY <1>1 DEF vars, jobVars, curlVars, HttpTypes
<1>2. CASE Poll
  <2>1. /\ TakesJob
        /\ UNCHANGED <<handler, left, reads, context, in_data, got, transfer, sent, dropped,
                       running, checks, runningHandles, timer>>
      BY <1>2, PollFact DEF curlVars
  <2> QED
      BY <2>1 DEF TakesJob, HttpTypes
<1>3. ASSUME NEW r \in Responses, Fire(r)
      PROVE  HttpTypes'
    BY <1>3, FireFact DEF HttpTypes, jobVars, TransferRecords
<1>4. ASSUME NEW r \in Responses, NEW size \in 1..Everything, StartRead(r, size)
      PROVE  HttpTypes'
  <2>1. size \in 0..Everything /\ reads[r] + 1 \in 0..MaxReads
    <3>1. MaxReads \in Nat /\ MaxReads > 0 /\ Everything \in Nat /\ reads[r] \in 0..MaxReads
        BY HttpAssumption DEF Everything, HttpTypes
    <3>2. reads[r] < IF r \in Polite THEN 1 ELSE MaxReads
        BY <1>4 DEF StartRead
    <3> QED
        BY <3>1, <3>2
  <2> QED
      BY <1>4, <2>1 DEF StartRead, HttpTypes, curlVars
<1>5. ASSUME NEW r \in Responses, Freeze(r) \/ End(r)
      PROVE  HttpTypes'
  <2>1. CASE Freeze(r)
      BY <2>1 DEF Freeze, HttpTypes, curlVars
  <2>2. CASE End(r)
      BY <2>2 DEF End, HttpTypes, curlVars
  <2> QED
      BY <1>5, <2>1, <2>2
<1>6. ASSUME NEW r \in Responses, Copy(r)
      PROVE  HttpTypes'
  <2>1. Everything \in Nat
      BY HttpAssumption DEF Everything
  <2>2. PICK n \in Nat :
          LET a == got[r] \o SubSeq(in_data[r], 1, n)
              b == SubSeq(in_data[r], n + 1, Len(in_data[r]))
              wanted == left[r] - n
              returns == ~running[r] \/ wanted = 0
          IN  /\ wanted \in Nat /\ wanted <= Everything
              /\ a \in Seq(Chunks) /\ b \in Seq(Chunks)
              /\ got' = [got EXCEPT ![r] = a] /\ in_data' = [in_data EXCEPT ![r] = b]
              /\ left' = [left EXCEPT ![r] = wanted]
              /\ at' = [at EXCEPT ![r] = IF returns THEN "idle" ELSE "reading"]
              /\ context' = [context EXCEPT ![r] = ~returns]
              /\ UNCHANGED <<queue, frozen, current, freed, handler, reads, curlVars>>
      BY <1>6, CopyFact
  <2> DEFINE a == got[r] \o SubSeq(in_data[r], 1, n)
             b == SubSeq(in_data[r], n + 1, Len(in_data[r]))
  <2>3. /\ a \in Seq(Chunks) /\ b \in Seq(Chunks) /\ left[r] - n \in 0..Everything
        /\ got' = [got EXCEPT ![r] = a] /\ in_data' = [in_data EXCEPT ![r] = b]
      BY <2>1, <2>2
  <2> HIDE DEF a, b
  <2>4. got' \in [Responses -> Seq(Chunks)] /\ in_data' \in [Responses -> Seq(Chunks)]
      BY <2>3 DEF HttpTypes, Chunks
  <2>5. left' \in [Responses -> 0..Everything]
      BY <2>2, <2>3 DEF HttpTypes
  <2>6. /\ at' \in [Responses -> {"idle", "reading", "asleep", "woken", "ended"}]
        /\ context' \in [Responses -> BOOLEAN]
      BY <2>2 DEF HttpTypes
  <2> QED
      BY <2>2, <2>4, <2>5, <2>6 DEF HttpTypes, Chunks, curlVars
<1>7. ASSUME NEW r \in Responses, Yield(r)
      PROVE  HttpTypes'
  <2>1. Append(queue, r) \in Seq(Responses)
      BY AppendProperties DEF HttpTypes
  <2> QED
      BY <1>7, <2>1 DEF Yield, HttpTypes, jobVars, curlVars
<1>8. ASSUME NEW r \in Responses, SocketReady(r)
      PROVE  HttpTypes'
  <2>1. handler' \in [step : Steps, on : Responses \cup {None}, dead : Responses \cup {None}]
      BY <1>8 DEF SocketReady, HttpTypes, Steps
  <2>2. checks' \in [Responses -> Nat]
    <3>1. checks \in [Responses -> Nat] /\ checks[r] > 0
          /\ checks' = [checks EXCEPT ![r] = checks[r] - 1]
        BY <1>8 DEF SocketReady, HttpTypes
    <3>2. checks[r] - 1 \in Nat
        BY <3>1
    <3> QED
        BY <3>1, <3>2
  <2> QED
      BY <1>8, <2>1, <2>2 DEF SocketReady, HttpTypes, jobVars
<1>9. CASE Chunk
  <2> DEFINE r == handler.on
             c == sent[r] + 1
             d == Append(in_data[r], c)
  <2>1. /\ r \in Responses /\ c \in Chunks /\ c \in 0..MaxChunks /\ TakesJob
        /\ sent' = [sent EXCEPT ![r] = c]
        /\ \/ in_data' = [in_data EXCEPT ![r] = d] /\ UNCHANGED dropped
           \/ dropped' = [dropped EXCEPT ![r] = dropped[r] \cup {c}] /\ UNCHANGED in_data
        /\ UNCHANGED <<handler, left, reads, context, got, transfer, running, responses,
                       sockets, checks, runningHandles, timer>>
      BY <1>9, ChunkFact DEF Chunks
  <2>2. d \in Seq(Chunks)
      BY <2>1, AppendProperties DEF HttpTypes, Chunks
  <2> HIDE DEF d, c, r
  <2>3. /\ in_data' \in [Responses -> Seq(Chunks)] /\ sent' \in [Responses -> 0..MaxChunks]
        /\ dropped' \in [Responses -> SUBSET Chunks]
    <3>1. /\ in_data \in [Responses -> Seq(Chunks)] /\ sent \in [Responses -> 0..MaxChunks]
          /\ dropped \in [Responses -> SUBSET Chunks]
        BY DEF HttpTypes, Chunks
    <3>2. sent' \in [Responses -> 0..MaxChunks]
        BY <2>1, <3>1
    <3>3. in_data' \in [Responses -> Seq(Chunks)]
        BY <2>1, <2>2, <3>1
    <3>4. dropped' \in [Responses -> SUBSET Chunks]
      <4>1. dropped[r] \cup {c} \in SUBSET Chunks
          BY <2>1, <3>1
      <4> QED
          BY <2>1, <3>1, <4>1
    <3> QED
        BY <3>2, <3>3, <3>4
  <2> QED
      BY <2>1, <2>3 DEF TakesJob, HttpTypes, Chunks
<1>10. CASE Complete \/ WouldBlock
    BY <1>10 DEF Complete, WouldBlock, HttpTypes, jobVars, curlVars, Steps
<1>11. CASE CheckInfo
    BY <1>11 DEF CheckInfo, HttpTypes, jobVars, Steps
<1>12. CASE WakeReader
  <2>1. handler.dead \in Responses
      BY <1>12 DEF WakeReader, Handles, HandlerIsKnown
  <2> QED
      BY <1>12, <2>1, WakeFact DEF WakeReader, TakesJob, HttpTypes, curlVars
<1>13. CASE RemoveSocket
    BY <1>13 DEF RemoveSocket, HttpTypes, jobVars, Steps
<1>14. CASE EndEvent
  <2>1. checks' \in [Responses -> Nat]
    <3>1. checks' = checks \/ checks' = [checks EXCEPT ![handler.on] = @ + 1]
        BY <1>14 DEF EndEvent, Rearmed
    <3>2. checks \in [Responses -> Nat]
        BY DEF HttpTypes
    <3> QED
        BY <3>1, <3>2
  <2>2. handler' \in [step : Steps, on : Responses \cup {None}, dead : Responses \cup {None}]
      BY <1>14 DEF EndEvent, Idle, Steps
  <2> QED
      BY <1>14, <2>1, <2>2 DEF EndEvent, HttpTypes, jobVars
<1>15. ASSUME NEW late \in SUBSET Responses, TimerFires(late)
       PROVE  HttpTypes'
    BY <1>15, TimerFact DEF HttpTypes, jobVars, TransferRecords, Steps
<1> QED
    BY <1>1, <1>2, <1>3, <1>4, <1>5, <1>6, <1>7, <1>8, <1>9, <1>10, <1>11, <1>12, <1>13, <1>14,
       <1>15 DEF Next, Job, Handler

-----------------------------------------------------------------------------
(* The client, curl and the handlers.                                       *)

LEMMA HandlerStep ==
    ASSUME HttpTypes, HandlerIsKnown, [Next]_vars
    PROVE  HandlerIsKnown'
<1> USE DEF HandlerIsKnown
<1>1. CASE UNCHANGED vars
    BY <1>1 DEF vars, curlVars
<1>2. CASE Poll
    BY <1>2 DEF Poll, curlVars
<1>3. ASSUME NEW r \in Responses, Fire(r)
      PROVE  HandlerIsKnown'
    BY <1>3, FireFact
<1>4. ASSUME NEW r \in Responses,
             Freeze(r) \/ Copy(r) \/ Yield(r) \/ End(r) \/ \E size \in 1..Everything : StartRead(r, size)
      PROVE  HandlerIsKnown'
    BY <1>4 DEF Freeze, Copy, Yield, End, StartRead, curlVars
<1>5. ASSUME NEW r \in Responses, SocketReady(r)
      PROVE  HandlerIsKnown'
    BY <1>5 DEF SocketReady, Handles
<1>6. CASE Chunk
    BY <1>6, ChunkFact
<1>7. CASE Complete \/ WouldBlock
    BY <1>7 DEF Complete, WouldBlock, Handles, HttpTypes, curlVars
<1>8. CASE CheckInfo
    BY <1>8 DEF CheckInfo, Handles, HttpTypes
<1>9. CASE WakeReader
    BY <1>9 DEF WakeReader, curlVars
<1>10. CASE RemoveSocket
    BY <1>10 DEF RemoveSocket, HttpTypes
<1>11. CASE EndEvent
    BY <1>11 DEF EndEvent, Idle
<1>12. ASSUME NEW late \in SUBSET Responses, TimerFires(late)
       PROVE  HandlerIsKnown'
    BY <1>12, TimerFact
<1> QED
    BY <1>1, <1>2, <1>3, <1>4, <1>5, <1>6, <1>7, <1>8, <1>9, <1>10, <1>11, <1>12
    DEF Next, Job, Handler

LEMMA TransfersStep ==
    ASSUME HttpTypes, HandlerIsKnown, TransfersAreKnown, [Next]_vars
    PROVE  TransfersAreKnown'
<1> USE DEF TransfersAreKnown, Active
<1>1. CASE UNCHANGED <<transfer, sockets, responses, running, checks, handler>>
    BY <1>1
<1>2. ASSUME Poll \/ WakeReader \/ Chunk \/ UNCHANGED vars
      PROVE  TransfersAreKnown'
    BY <1>1, <1>2, ChunkFact DEF Poll, WakeReader, vars, curlVars
<1>3. ASSUME NEW r \in Responses,
             Freeze(r) \/ Copy(r) \/ Yield(r) \/ End(r) \/ \E size \in 1..Everything : StartRead(r, size)
      PROVE  TransfersAreKnown'
    BY <1>1, <1>3 DEF Freeze, Copy, Yield, End, StartRead, curlVars
<1>4. ASSUME NEW r \in Responses, Fire(r)
      PROVE  TransfersAreKnown'
  <2>1. /\ transfer[r] = "none" /\ transfer'[r] \in {"pending", "active"}
        /\ responses' = responses \cup {r}
        /\ \A q \in Responses : q # r =>
                \/ transfer'[q] = transfer[q]
                \/ transfer[q] = "pending" /\ transfer'[q] = "active"
        /\ sockets' = sockets \cup
                {q \in Responses : transfer[q] # "active" /\ transfer'[q] = "active"}
        /\ \A q \in Responses : checks'[q] >= checks[q]
        /\ \A q \in Responses :
                transfer[q] # "active" /\ transfer'[q] = "active" => checks'[q] > 0
        /\ UNCHANGED <<handler, running>>
      BY <1>4, FireFact
  <2>2. \A q \in Responses : checks[q] \in Nat
      BY DEF HttpTypes
  <2>3. \A q \in Responses : transfer'[q] = "active" => checks'[q] > 0 \/ handler'.on = q
    <3>1. checks' \in [Responses -> Nat]
        BY <1>4, FireFact
    <3> QED
        BY <2>1, <2>2, <3>1
  <2>4. sockets' = Active(transfer')
      BY <2>1
  <2>5. responses' = {q \in Responses : transfer'[q] \in {"pending", "active", "over"}}
      BY <2>1
  <2>6. \A q \in Responses : running'[q] <=> transfer'[q] # "gone"
      BY <2>1
  <2> QED
      BY <2>3, <2>4, <2>5, <2>6
<1>5. ASSUME NEW r \in Responses, SocketReady(r)
      PROVE  TransfersAreKnown'
  <2>1. /\ handler.step = "none" /\ handler = Idle /\ handler.on = None
        /\ checks' = [checks EXCEPT ![r] = checks[r] - 1]
        /\ IF r \in sockets /\ running[r] THEN handler'.on = r ELSE handler' = handler
        /\ UNCHANGED <<transfer, responses, running, sockets>>
      BY <1>5 DEF SocketReady, Handles, HandlerIsKnown, Idle
  <2>2. \A q \in Responses : q # None
      BY HttpAssumption
  <2>3. \A q \in Responses : q # r => checks'[q] = checks[q]
      BY <2>1 DEF HttpTypes
  <2>4. transfer[r] = "active" => handler'.on = r
      BY <2>1
  <2> QED
      BY <2>1, <2>2, <2>3, <2>4
<1>6. CASE Complete
    BY <1>6 DEF Complete, Handles, HandlerIsKnown, HttpTypes
<1>7. CASE WouldBlock
    BY <1>7 DEF WouldBlock, HttpTypes, curlVars
<1>8. CASE CheckInfo
    BY <1>8 DEF CheckInfo, HttpTypes
<1>9. CASE RemoveSocket
    BY <1>9 DEF RemoveSocket, Handles, HandlerIsKnown, HttpTypes
<1>10. CASE EndEvent
  <2>1. /\ handler.on # None /\ handler.on \in sockets =>
             checks' = [checks EXCEPT ![handler.on] = @ + 1]
        /\ \A q \in Responses : q # handler.on => checks'[q] = checks[q]
        /\ UNCHANGED <<transfer, responses, running, sockets>>
      BY <1>10 DEF EndEvent, Rearmed, HttpTypes
  <2>2. ASSUME NEW q \in Responses, transfer[q] = "active"
        PROVE  checks'[q] > 0
    <3>1. CASE q # handler.on
        BY <2>1, <2>2, <3>1
    <3>2. CASE q = handler.on
      <4>1. q # None /\ q \in sockets
          BY <2>2, HttpAssumption
      <4>2. checks'[q] = checks[q] + 1 /\ checks[q] \in Nat
          BY <2>1, <3>2, <4>1 DEF HttpTypes
      <4> QED
          BY <4>2
    <3> QED
        BY <3>1, <3>2
  <2> QED
      BY <2>1, <2>2
<1>11. ASSUME NEW late \in SUBSET Responses, TimerFires(late)
       PROVE  TransfersAreKnown'
  <2>1. /\ handler.step = "none" /\ handler = Idle /\ handler.on = None
        /\ late \subseteq Active(transfer)
        /\ \A q \in Responses : transfer'[q] = IF q \in late THEN "over"
                                               ELSE IF transfer[q] = "pending" THEN "active"
                                               ELSE transfer[q]
        /\ sockets' = (sockets \ late) \cup {q \in Responses : transfer[q] = "pending"}
        /\ checks' \in [Responses -> Nat]
        /\ \A q \in Responses : checks'[q] >= checks[q]
        /\ \A q \in Responses : transfer[q] = "pending" => checks'[q] > 0
        /\ UNCHANGED <<running, responses>>
      BY <1>11, TimerFact DEF HandlerIsKnown, Idle
  <2>2. \A q \in Responses : checks[q] \in Nat /\ checks'[q] \in Nat /\ q # None
      BY <2>1, HttpAssumption DEF HttpTypes
  <2>3. \A q \in Responses : transfer'[q] = "active" => checks'[q] > 0
      BY <2>1, <2>2
  <2>4. sockets' = Active(transfer')
      BY <2>1
  <2>5. responses' = {q \in Responses : transfer'[q] \in {"pending", "active", "over"}}
      BY <2>1
  <2>6. \A q \in Responses : running'[q] <=> transfer'[q] # "gone"
      BY <2>1
  <2> QED
      BY <2>3, <2>4, <2>5, <2>6
<1> QED
    BY <1>2, <1>3, <1>4, <1>5, <1>6, <1>7, <1>8, <1>9, <1>10, <1>11 DEF Next, Job, Handler

-----------------------------------------------------------------------------
(* The readers, and the chunks they are given.                              *)

LEMMA ReadersStep ==
    ASSUME HttpTypes, HandlerIsKnown, ReadersAreKnown, [Next]_vars
    PROVE  ReadersAreKnown'
<1> USE DEF ReadersAreKnown
<1>1. CASE UNCHANGED <<at, reads, context>>
    BY <1>1
<1>2. ASSUME TakesJob, UNCHANGED <<reads, context>>
      PROVE  ReadersAreKnown'
    BY <1>2 DEF TakesJob
<1>3. CASE Poll
    BY <1>2, <1>3, PollFact
<1>4. ASSUME NEW r \in Responses, NEW size \in 1..Everything, StartRead(r, size)
      PROVE  ReadersAreKnown'
  <2>1. reads[r] + 1 > 0
      BY DEF HttpTypes
  <2> QED
      BY <1>4, <2>1 DEF StartRead, HttpTypes, Reads
<1>5. ASSUME NEW r \in Responses, Freeze(r)
      PROVE  ReadersAreKnown'
    BY <1>5 DEF Freeze, HttpTypes, Reads
<1>6. ASSUME NEW r \in Responses, Copy(r)
      PROVE  ReadersAreKnown'
  <2>1. PICK n \in Nat :
          LET returns == ~running[r] \/ left[r] - n = 0
          IN  /\ at' = [at EXCEPT ![r] = IF returns THEN "idle" ELSE "reading"]
              /\ context' = [context EXCEPT ![r] = ~returns]
              /\ at[r] \in Reads /\ UNCHANGED reads
      BY <1>6, CopyFact
  <2> DEFINE returns == ~running[r] \/ left[r] - n = 0
  <2>2. /\ at' = [at EXCEPT ![r] = IF returns THEN "idle" ELSE "reading"]
        /\ context' = [context EXCEPT ![r] = ~returns]
        /\ at[r] \in Reads /\ UNCHANGED reads
      BY <2>1
  <2> HIDE DEF returns
  <2> QED
      BY <2>2 DEF HttpTypes, Reads
<1>7. ASSUME NEW r \in Responses, End(r)
      PROVE  ReadersAreKnown'
    BY <1>7 DEF End, HttpTypes, Reads
<1>8. CASE Chunk
    BY <1>2, <1>8, ChunkFact
<1>9. CASE WakeReader
  <2>1. handler.dead \in Responses /\ Wakeup(handler.dead) /\ UNCHANGED <<reads, context>>
      BY <1>9 DEF WakeReader, Handles, HandlerIsKnown
  <2> QED
      BY <1>2, <2>1, WakeFact
<1>10. ASSUME NEW r \in Responses, Fire(r) \/ Yield(r) \/ SocketReady(r)
       PROVE  ReadersAreKnown'
    BY <1>1, <1>10 DEF Fire, Yield, SocketReady, jobVars
<1>11. CASE Complete \/ WouldBlock \/ CheckInfo \/ RemoveSocket \/ EndEvent
    BY <1>1, <1>11 DEF Complete, WouldBlock, CheckInfo, RemoveSocket, EndEvent, jobVars
<1>12. ASSUME NEW late \in SUBSET Responses, TimerFires(late)
       PROVE  ReadersAreKnown'
    BY <1>1, <1>12 DEF TimerFires, jobVars
<1>13. CASE UNCHANGED vars
    BY <1>1, <1>13 DEF vars, jobVars
<1> QED
    BY <1>3, <1>4, <1>5, <1>6, <1>7, <1>8, <1>9, <1>10, <1>11, <1>12, <1>13
    DEF Next, Job, Handler

LEMMA IntervalFact ==
    ASSUME NEW m \in Nat, NEW n \in Nat, 1..m = 1..n
    PROVE  m = n
<1>1. \A i \in Nat : i \in 1..m <=> i \in 1..n
    OBVIOUS
<1>2. CASE m < n
  <2>1. n \in 1..n /\ n \notin 1..m
      BY <1>2
  <2> QED
      BY <1>1, <2>1
<1>3. CASE n < m
  <2>1. m \in 1..m /\ m \notin 1..n
      BY <1>3
  <2> QED
      BY <1>1, <2>1
<1> QED
    BY <1>2, <1>3

\* One more chunk, kept after all the others.
LEMMA GrowFact ==
    ASSUME NEW k, NEW l, NEW n \in Nat, NEW d, Grown(k, l, n + 1), Gathered(k, n, d),
           n + 1 \notin d
    PROVE  Gathered(l, n + 1, d)
<1>1. 1..n + 1 = (1..n) \cup {n + 1} /\ n + 1 \notin 1..n
    OBVIOUS
<1>2. /\ Len(k) \in Nat /\ DOMAIN k = 1..Len(k) /\ DOMAIN l = 1..Len(k) + 1
      /\ l[Len(k) + 1] = n + 1 /\ \A i \in 1..Len(k) : l[i] = k[i]
      /\ ToSet(l) = ToSet(k) \cup {n + 1}
    BY DEF Grown
<1>3. \A i \in 1..Len(k) : k[i] \in 1..n
    BY <1>2 DEF Gathered, ToSet
<1>4. Increases(l)
  <2>1. SUFFICES ASSUME NEW i \in 1..Len(k) + 1, NEW j \in 1..Len(k) + 1, i < j
                 PROVE  l[i] < l[j]
      BY <1>2 DEF Increases
  <2>2. i \in 1..Len(k)
      BY <1>2, <2>1
  <2>3. CASE j \in 1..Len(k)
    <3>1. k[i] < k[j]
        BY <1>2, <2>1, <2>2, <2>3 DEF Gathered, Increases
    <3> QED
        BY <1>2, <2>2, <2>3, <3>1
  <2>4. CASE j = Len(k) + 1
    <3>1. k[i] \in 1..n /\ l[i] = k[i]
        BY <1>2, <1>3, <2>2
    <3> QED
        BY <1>2, <2>4, <3>1
  <2> QED
      BY <1>2, <2>3, <2>4
<1>5. ToSet(l) \cap d = {} /\ ToSet(l) \cup d = 1..n + 1
  <2>1. ToSet(k) \cap d = {} /\ ToSet(k) \cup d = 1..n /\ ToSet(l) = ToSet(k) \cup {n + 1}
      BY <1>2 DEF Gathered
  <2> QED
      BY <1>1, <2>1, Zenon
<1>6. ASSUME d = {}
      PROVE  l = [i \in 1..n + 1 |-> i]
  <2>1. k = [i \in 1..n |-> i]
      BY <1>6 DEF Gathered
  <2>2. 1..Len(k) = 1..n
      BY <1>2, <2>1
  <2>3. Len(k) = n
      BY <1>2, <2>2, IntervalFact
  <2>4. \A i \in 1..n : l[i] = i
      BY <1>2, <2>1, <2>3
  <2>5. \A i \in 1..n + 1 : l[i] = i
      BY <1>1, <1>2, <2>3, <2>4
  <2>6. l = [i \in DOMAIN l |-> l[i]]
    <3>1. l \in Seq(Chunks)
        BY DEF Grown
    <3> QED
        BY <3>1
  <2> QED
      BY <1>2, <2>3, <2>5, <2>6
<1> QED
    BY <1>4, <1>5, <1>6 DEF Gathered

LEMMA ChunksStep ==
    ASSUME HttpTypes, HandlerIsKnown, ChunksAreKept, [Next]_vars
    PROVE  ChunksAreKept'
<1> SUFFICES ASSUME NEW q \in Responses
             PROVE  ChunksOf(q)'
    BY DEF ChunksAreKept
<1>1. ChunksOf(q)
    BY DEF ChunksAreKept
<1>2. ASSUME got'[q] \o in_data'[q] = got[q] \o in_data[q],
             sent'[q] = sent[q], dropped'[q] = dropped[q]
      PROVE  ChunksOf(q)'
    BY <1>1, <1>2 DEF ChunksOf, Kept
<1>3. ASSUME NEW r \in Responses, Copy(r)
      PROVE  ChunksOf(q)'
  <2>1. PICK n \in Nat :
          LET a == got[r] \o SubSeq(in_data[r], 1, n)
              b == SubSeq(in_data[r], n + 1, Len(in_data[r]))
          IN  /\ a \o b = Kept(r)
              /\ got' = [got EXCEPT ![r] = a] /\ in_data' = [in_data EXCEPT ![r] = b]
              /\ UNCHANGED <<sent, dropped>>
      BY <1>3, CopyFact DEF curlVars
  <2> DEFINE a == got[r] \o SubSeq(in_data[r], 1, n)
             b == SubSeq(in_data[r], n + 1, Len(in_data[r]))
  <2>2. /\ a \o b = Kept(r)
        /\ got' = [got EXCEPT ![r] = a] /\ in_data' = [in_data EXCEPT ![r] = b]
        /\ UNCHANGED <<sent, dropped>>
      BY <2>1
  <2> HIDE DEF a, b
  <2>3. CASE q = r
    <3>1. got'[q] = a /\ in_data'[q] = b
        BY <2>2, <2>3 DEF HttpTypes
    <3> QED
        BY <1>2, <2>2, <2>3, <3>1 DEF Kept
  <2>4. CASE q # r
    <3>1. got'[q] = got[q] /\ in_data'[q] = in_data[q]
        BY <2>2, <2>4 DEF HttpTypes
    <3> QED
        BY <1>2, <2>2, <3>1
  <2> QED
      BY <2>3, <2>4
<1>4. CASE Chunk
  <2> DEFINE r == handler.on
             c == sent[r] + 1
             k == got[r] \o in_data[r]
             l == got[r] \o Append(in_data[r], c)
  <2>1. /\ r \in Responses /\ c \in Chunks /\ UNCHANGED got
        /\ sent' = [sent EXCEPT ![r] = c]
        /\ \/ /\ in_data' = [in_data EXCEPT ![r] = Append(in_data[r], c)]
              /\ UNCHANGED dropped
           \/ /\ dropped' = [dropped EXCEPT ![r] = dropped[r] \cup {c}]
              /\ UNCHANGED in_data
      BY <1>4, ChunkFact
  <2>2. CASE q # r
      BY <1>2, <2>1, <2>2 DEF HttpTypes
  <2>3. CASE q = r /\ in_data' = [in_data EXCEPT ![r] = Append(in_data[r], c)] /\ UNCHANGED dropped
    <3>1. /\ got[r] \in Seq(Chunks) /\ in_data[r] \in Seq(Chunks)
          /\ sent[r] \in 0..MaxChunks /\ dropped[r] \in SUBSET Chunks
        BY <2>1 DEF HttpTypes, Chunks
    <3>2. Grown(k, l, c)
        BY <2>1, <3>1, AppendFact
    <3>3. /\ got'[q] \o in_data'[q] = l /\ sent'[q] = c /\ dropped'[q] = dropped[r]
        BY <2>1, <2>3 DEF HttpTypes
    <3>4. Gathered(k, sent[r], dropped[r])
        BY <1>1, <2>3 DEF ChunksOf, Kept
    <3> HIDE DEF k, l
    <3>5. sent[r] \in Nat /\ sent[r] + 1 \notin dropped[r]
      <4>1. sent[r] \in Nat /\ dropped[r] \subseteq 1..sent[r]
          BY <3>1, <3>4, HttpAssumption DEF Gathered
      <4> QED
          BY <4>1
    <3>6. Gathered(l, c, dropped[r])
        BY <3>2, <3>4, <3>5, GrowFact
    <3> QED
        BY <3>3, <3>6 DEF ChunksOf, Kept
  <2>4. CASE q = r /\ dropped' = [dropped EXCEPT ![r] = dropped[r] \cup {c}] /\ UNCHANGED in_data
    <3>1. sent[q] \in Nat /\ MaxChunks \in Nat
        BY HttpAssumption DEF HttpTypes
    <3>2. /\ Kept(q)' = Kept(q) /\ sent'[q] = sent[q] + 1
          /\ dropped'[q] = dropped[q] \cup {sent[q] + 1}
        BY <2>1, <2>4 DEF HttpTypes, Kept
    <3>3. 1..sent[q] + 1 = (1..sent[q]) \cup {sent[q] + 1} /\ sent[q] + 1 \notin 1..sent[q]
        BY <3>1
    <3> QED
        BY <1>1, <3>2, <3>3 DEF ChunksOf, Gathered
  <2> QED
      BY <2>1, <2>2, <2>3, <2>4
<1>5. CASE Poll \/ WakeReader \/ UNCHANGED vars
    BY <1>2, <1>5 DEF Poll, WakeReader, vars, jobVars, curlVars
<1>6. ASSUME NEW r \in Responses,
             Fire(r) \/ Freeze(r) \/ Yield(r) \/ End(r) \/ \E size \in 1..Everything : StartRead(r, size)
      PROVE  ChunksOf(q)'
    BY <1>2, <1>6 DEF Fire, Freeze, Yield, End, StartRead, jobVars, curlVars
<1>7. ASSUME NEW r \in Responses, SocketReady(r)
      PROVE  ChunksOf(q)'
    BY <1>2, <1>7 DEF SocketReady, jobVars
<1>8. CASE Complete \/ WouldBlock \/ CheckInfo \/ RemoveSocket \/ EndEvent
    BY <1>2, <1>8 DEF Complete, WouldBlock, CheckInfo, RemoveSocket, EndEvent, jobVars, curlVars
<1>9. ASSUME NEW late \in SUBSET Responses, TimerFires(late)
      PROVE  ChunksOf(q)'
    BY <1>2, <1>9 DEF TimerFires, jobVars
<1> QED
    BY <1>3, <1>4, <1>5, <1>6, <1>7, <1>8, <1>9 DEF Next, Job, Handler

-----------------------------------------------------------------------------
(* Polite readers.                                                          *)

\* Whoever lost nothing holds what was sent.
LEMMA WholeFact ==
    ASSUME HttpTypes, NEW r \in Responses, ChunksOf(r), dropped[r] = {}
    PROVE  Len(got[r]) \in Nat /\ Len(in_data[r]) \in Nat /\ sent[r] \in Nat
           /\ Len(got[r]) + Len(in_data[r]) = sent[r]
<1>1. /\ got[r] \in Seq(Chunks) /\ in_data[r] \in Seq(Chunks) /\ sent[r] \in Nat
    BY HttpAssumption DEF HttpTypes, Chunks
<1>2. /\ Kept(r) \in Seq(Chunks) /\ Len(Kept(r)) = Len(got[r]) + Len(in_data[r])
    BY <1>1, ConcatProperties DEF Kept
<1>3. DOMAIN Kept(r) = 1..Len(Kept(r)) /\ Len(Kept(r)) \in Nat
    BY <1>2, LenProperties
<1>4. Kept(r) = [i \in 1..sent[r] |-> i]
    BY DEF ChunksOf, Gathered
<1>5. 1..Len(Kept(r)) = 1..sent[r]
    BY <1>3, <1>4
<1>6. Len(Kept(r)) = sent[r]
    BY <1>1, <1>3, <1>5, IntervalFact
<1> QED
    BY <1>1, <1>2, <1>6, LenProperties

LEMMA PoliteStep ==
    ASSUME HttpTypes, HandlerIsKnown, TransfersAreKnown, ReadersAreKnown, PoliteAreServed,
           ChunksAreKept, [Next]_vars
    PROVE  PoliteAreServed'
<1> SUFFICES ASSUME NEW p \in Polite
             PROVE  PoliteIsServed(p)'
    BY DEF PoliteAreServed
<1>1. /\ p \in Responses /\ p # None /\ PoliteIsServed(p) /\ ChunksOf(p)
      /\ context[p] <=> at[p] \in Reads
      /\ running[p] <=> transfer[p] # "gone"
      /\ context[p] => reads[p] > 0
    BY HttpAssumption DEF PoliteAreServed, ChunksAreKept, ReadersAreKnown, TransfersAreKnown
<1>2. current # p /\ reads[p] = 0 => transfer[p] = "none"
    BY <1>1 DEF PoliteIsServed
<1>3. ASSUME handler.step # "remove"
      PROVE  ~ (context[p] /\ ~running[p])
    BY <1>1, <1>3 DEF PoliteIsServed
\* What p reads and has read is left alone.
<1>4. ASSUME UNCHANGED <<left, reads, context, got, in_data, transfer, sent, dropped,
                         running, handler>>,
             current' = current \/ current # p \/ reads[p] > 0 \/ transfer[p] = "none"
      PROVE  PoliteIsServed(p)'
    BY <1>1, <1>2, <1>4 DEF PoliteIsServed
<1>5. CASE Poll \/ WakeReader \/ UNCHANGED vars
    BY <1>1, <1>4, <1>5 DEF Poll, WakeReader, Handles, vars, jobVars, curlVars
<1>6. ASSUME NEW r \in Responses, Freeze(r) \/ Yield(r) \/ End(r)
      PROVE  PoliteIsServed(p)'
  <2>1. UNCHANGED <<left, reads, context, got, in_data, transfer, sent, dropped, running, handler>>
      BY <1>6 DEF Freeze, Yield, End, jobVars, curlVars
  <2>2. current = r
      BY <1>6 DEF Freeze, Yield, End, Runs
  <2>3. CASE r # p
      BY <1>4, <2>1, <2>2, <2>3
  <2>4. CASE r = p
    <3>1. reads[p] \in {0, 1}
        BY <1>1 DEF PoliteIsServed
    <3>2. CASE Freeze(p)
        BY <1>1, <1>4, <2>1, <3>2 DEF Freeze, Reads
    <3>3. CASE Yield(p) \/ End(p)
        BY <1>4, <2>1, <3>3 DEF Yield, End
    <3> QED
        BY <1>6, <2>4, <3>2, <3>3
  <2> QED
      BY <2>3, <2>4
<1>7. ASSUME NEW r \in Responses, Fire(r)
      PROVE  PoliteIsServed(p)'
  <2>1. /\ current = r /\ transfer[r] = "none" /\ transfer'[r] \in {"pending", "active"}
        /\ \A q \in Responses : q # r =>
             \/ transfer'[q] = transfer[q]
             \/ transfer[q] = "pending" /\ transfer'[q] = "active"
        /\ UNCHANGED <<current, handler, left, reads, context, got, in_data, sent, dropped, running>>
      BY <1>7, FireFact DEF jobVars
  <2>2. CASE r = p
      BY <1>1, <2>1, <2>2 DEF PoliteIsServed
  <2>3. CASE r # p
      BY <1>1, <1>2, <2>1, <2>3 DEF PoliteIsServed
  <2> QED
      BY <2>2, <2>3
<1>8. ASSUME NEW r \in Responses, NEW size \in 1..Everything, StartRead(r, size)
      PROVE  PoliteIsServed(p)'
  <2>1. /\ current = r /\ transfer[r] # "none"
        /\ r \in Polite => reads[r] < 1 /\ size = Everything
        /\ left' = [left EXCEPT ![r] = size]
        /\ reads' = [reads EXCEPT ![r] = reads[r] + 1]
        /\ context' = [context EXCEPT ![r] = TRUE]
        /\ UNCHANGED <<current, handler, in_data, got, transfer, sent, dropped, running>>
      BY <1>8 DEF StartRead, Runs, curlVars
  <2>2. CASE r # p
    <3>1. left'[p] = left[p] /\ reads'[p] = reads[p] /\ (context'[p] <=> context[p])
        BY <1>1, <2>1, <2>2 DEF HttpTypes
    <3> QED
        BY <1>1, <2>1, <3>1 DEF PoliteIsServed
  <2>3. CASE r = p
    <3>1. reads[p] = 0 /\ sent[p] = 0 /\ dropped[p] = {} /\ transfer[p] \in {"pending", "active"}
        BY <1>1, <2>1, <2>3 DEF PoliteIsServed
    <3>2. Len(got[p]) = 0
      <4>1. Len(got[p]) \in Nat /\ Len(in_data[p]) \in Nat
            /\ Len(got[p]) + Len(in_data[p]) = sent[p]
          BY <1>1, <3>1, WholeFact
      <4> DEFINE x == Len(got[p])
                 y == Len(in_data[p])
      <4>2. x \in Nat /\ y \in Nat /\ x + y = 0
          BY <3>1, <4>1
      <4> HIDE DEF x, y
      <4>3. x = 0
          BY <4>2
      <4> QED
          BY <4>3 DEF x
    <3>3. left'[p] = Everything /\ reads'[p] = 1 /\ context'[p]
        BY <1>1, <2>1, <2>3, <3>1 DEF HttpTypes
    <3>4. Everything - 0 = Everything
        BY HttpAssumption DEF Everything
    <3> QED
        BY <1>1, <2>1, <3>1, <3>2, <3>3, <3>4 DEF PoliteIsServed
  <2> QED
      BY <2>2, <2>3
<1>9. ASSUME NEW r \in Responses, Copy(r)
      PROVE  PoliteIsServed(p)'
  <2>1. PICK n \in Nat :
          LET a == got[r] \o SubSeq(in_data[r], 1, n)
              b == SubSeq(in_data[r], n + 1, Len(in_data[r]))
              wanted == left[r] - n
              returns == ~running[r] \/ wanted = 0
          IN  /\ n <= Len(in_data[r])
              /\ n = Len(in_data[r]) \/ wanted = 0
              /\ b \in Seq(Chunks)
              /\ Len(a) = Len(got[r]) + n /\ Len(b) = Len(in_data[r]) - n
              /\ got' = [got EXCEPT ![r] = a] /\ in_data' = [in_data EXCEPT ![r] = b]
              /\ left' = [left EXCEPT ![r] = wanted]
              /\ context' = [context EXCEPT ![r] = ~returns]
              /\ at[r] \in Reads
              /\ UNCHANGED <<current, handler, reads, transfer, sent, dropped, running>>
      BY <1>9, CopyFact DEF curlVars
  <2> DEFINE a == got[r] \o SubSeq(in_data[r], 1, n)
             b == SubSeq(in_data[r], n + 1, Len(in_data[r]))
  <2>2. /\ n <= Len(in_data[r])
        /\ n = Len(in_data[r]) \/ left[r] - n = 0
        /\ b \in Seq(Chunks)
        /\ Len(a) = Len(got[r]) + n /\ Len(b) = Len(in_data[r]) - n
        /\ got' = [got EXCEPT ![r] = a] /\ in_data' = [in_data EXCEPT ![r] = b]
        /\ left' = [left EXCEPT ![r] = left[r] - n]
        /\ context' = [context EXCEPT ![r] = ~ (~running[r] \/ left[r] - n = 0)]
        /\ at[r] \in Reads
        /\ UNCHANGED <<current, handler, reads, transfer, sent, dropped, running>>
      BY <2>1
  <2> HIDE DEF a, b
  <2>3. CASE r # p
    <3>1. /\ left'[p] = left[p] /\ (context'[p] <=> context[p])
          /\ got'[p] = got[p] /\ in_data'[p] = in_data[p]
        BY <1>1, <2>2, <2>3 DEF HttpTypes
    <3> QED
        BY <1>1, <2>2, <3>1 DEF PoliteIsServed
  <2>4. CASE r = p
    <3>1. /\ context[p] /\ reads[p] > 0 /\ left[p] = Everything - Len(got[p]) /\ dropped[p] = {}
        BY <1>1, <2>2, <2>4 DEF PoliteIsServed
    <3>2. /\ Len(got[p]) \in Nat /\ Len(in_data[p]) \in Nat
          /\ Len(got[p]) + Len(in_data[p]) <= MaxChunks
          /\ MaxChunks \in Nat /\ Everything = MaxChunks + 1
      <4>1. sent[p] \in 0..MaxChunks
          BY <1>1 DEF HttpTypes
      <4>2. Len(got[p]) \in Nat /\ Len(in_data[p]) \in Nat
            /\ Len(got[p]) + Len(in_data[p]) = sent[p]
          BY <1>1, <3>1, WholeFact
      <4>3. MaxChunks \in Nat /\ Everything = MaxChunks + 1
          BY HttpAssumption DEF Everything
      <4> DEFINE x == Len(got[p])
                 y == Len(in_data[p])
                 z == sent[p]
      <4>4. x \in Nat /\ y \in Nat /\ z \in 0..MaxChunks /\ x + y = z
          BY <4>1, <4>2
      <4> HIDE DEF x, y, z
      <4>5. x + y <= MaxChunks
          BY <4>3, <4>4
      <4> QED
          BY <4>3, <4>4, <4>5 DEF x, y
    <3>3. left[p] - n > 0 /\ left[p] - n = Everything - Len(a)
      <4> DEFINE x == Len(got[p])
                 y == Len(in_data[p])
                 z == Len(a)
                 w == left[p]
      <4>1. z = x + n /\ n <= y /\ w = Everything - x
          BY <2>2, <2>4, <3>1
      <4>2. /\ x \in Nat /\ y \in Nat /\ x + y <= MaxChunks
            /\ MaxChunks \in Nat /\ Everything = MaxChunks + 1
          BY <3>2
      <4> HIDE DEF x, y, z, w
      <4>3. w - n > 0 /\ w - n = Everything - z
          BY <4>1, <4>2
      <4> QED
          BY <4>3 DEF w, z
    <3>4. n = Len(in_data[p]) /\ b = <<>>
      <4>1. n = Len(in_data[p])
          BY <2>2, <2>4, <3>2, <3>3
      <4>2. Len(b) = 0
          BY <2>2, <2>4, <3>2, <4>1
      <4> QED
          BY <2>2, <4>1, <4>2, EmptySeq
    <3>5. /\ left'[p] = left[p] - n /\ got'[p] = a /\ in_data'[p] = b
          /\ context'[p] <=> running[p]
      <4>1. context'[p] <=> ~ (~running[p] \/ left[p] - n = 0)
          BY <1>1, <2>2, <2>4 DEF HttpTypes
      <4>2. left'[p] = left[p] - n /\ got'[p] = a /\ in_data'[p] = b
          BY <1>1, <2>2, <2>4 DEF HttpTypes
      <4> QED
          BY <2>2, <3>3, <4>1, <4>2
    <3>6. left'[p] = Everything - Len(got'[p]) /\ in_data'[p] = <<>>
        BY <3>3, <3>4, <3>5
    <3>7. reads[p] = 1 /\ transfer[p] # "none"
        BY <1>1, <3>1 DEF PoliteIsServed
    <3>8. UNCHANGED <<current, handler, reads, transfer, sent, dropped, running>>
        BY <2>2
    <3>9. context'[p] <=> running'[p]
        BY <3>5, <3>8
    <3> QED
        BY <1>1, <3>1, <3>6, <3>7, <3>8, <3>9 DEF PoliteIsServed
  <2> QED
      BY <2>3, <2>4
<1>10. CASE Chunk
  <2> DEFINE r == handler.on
             c == sent[r] + 1
  <2>1. /\ r \in Responses /\ transfer[r] = "active" /\ current = None /\ handler.step = "curl"
        /\ sent' = [sent EXCEPT ![r] = c]
        /\ \/ context[r] /\ in_data' = [in_data EXCEPT ![r] = Append(in_data[r], c)]
              /\ UNCHANGED dropped
           \/ ~context[r] /\ dropped' = [dropped EXCEPT ![r] = dropped[r] \cup {c}]
              /\ UNCHANGED in_data
        /\ UNCHANGED <<handler, left, reads, context, got, transfer, running>>
      BY <1>10, ChunkFact
  <2> HIDE DEF r, c
  <2>2. CASE r # p
    <3>1. sent'[p] = sent[p] /\ in_data'[p] = in_data[p] /\ dropped'[p] = dropped[p]
        BY <1>1, <2>1, <2>2 DEF HttpTypes
    <3> QED
        BY <1>1, <1>2, <2>1, <3>1 DEF PoliteIsServed
  <2>3. CASE r = p
    <3>1. reads[p] > 0 /\ context[p]
        BY <1>1, <1>2, <2>1, <2>3 DEF PoliteIsServed
    <3>2. UNCHANGED dropped
        BY <2>1, <2>3, <3>1
    <3>3. reads[p] = 1
        BY <1>1, <3>1 DEF PoliteIsServed
    <3> QED
        BY <1>1, <2>1, <2>3, <3>1, <3>2, <3>3 DEF PoliteIsServed
  <2> QED
      BY <2>2, <2>3
<1>11. ASSUME NEW r \in Responses, SocketReady(r)
       PROVE  PoliteIsServed(p)'
  <2>1. /\ handler.step = "none" /\ current = None
        /\ UNCHANGED <<left, reads, context, got, in_data, transfer, sent, dropped, running>>
      BY <1>11 DEF SocketReady, Handles, jobVars
  <2> QED
      BY <1>1, <1>2, <1>3, <2>1 DEF PoliteIsServed
<1>12. CASE WouldBlock \/ EndEvent
  <2>1. /\ handler.step # "remove" /\ current = None
        /\ UNCHANGED <<left, reads, context, got, in_data, transfer, sent, dropped, running>>
      BY <1>12 DEF WouldBlock, EndEvent, Handles, jobVars, curlVars
  <2> QED
      BY <1>1, <1>2, <1>3, <2>1 DEF PoliteIsServed
<1>13. CASE Complete
  <2>1. /\ handler.step = "curl" /\ current = None
        /\ transfer[handler.on] = "active"
        /\ transfer' = [transfer EXCEPT ![handler.on] = "over"]
        /\ UNCHANGED <<left, reads, context, got, in_data, sent, dropped, running>>
      BY <1>13 DEF Complete, Handles, jobVars
  <2>2. IF p = handler.on THEN transfer'[p] = "over" ELSE transfer'[p] = transfer[p]
      BY <1>1, <2>1 DEF HttpTypes
  <2> QED
      BY <1>1, <1>2, <1>3, <2>1, <2>2 DEF PoliteIsServed
<1>14. CASE CheckInfo
  <2>1. PICK r \in Responses :
          /\ transfer[r] = "over"
          /\ transfer' = [transfer EXCEPT ![r] = "gone"]
          /\ running' = [running EXCEPT ![r] = FALSE]
          /\ handler' = [handler EXCEPT !.step = "remove", !.dead = r]
      BY <1>14 DEF CheckInfo
  <2>2. /\ handler.step = "info" /\ current = None
        /\ UNCHANGED <<left, reads, context, got, in_data, sent, dropped>>
      BY <1>14 DEF CheckInfo, Handles, jobVars
  <2>3. handler'.step = "remove" /\ handler'.dead = r
      BY <2>1 DEF HttpTypes
  <2>4. CASE r = p
    <3>1. transfer'[p] = "gone" /\ ~running'[p] /\ reads[p] > 0 /\ context[p]
        BY <1>1, <1>2, <2>1, <2>2, <2>4 DEF HttpTypes, PoliteIsServed
    <3> QED
        BY <1>1, <2>2, <2>3, <2>4, <3>1 DEF PoliteIsServed
  <2>5. CASE r # p
    <3>1. transfer'[p] = transfer[p] /\ (running'[p] <=> running[p])
        BY <1>1, <2>1, <2>5 DEF HttpTypes
    <3> QED
        BY <1>1, <1>2, <1>3, <2>2, <3>1 DEF PoliteIsServed
  <2> QED
      BY <2>4, <2>5
<1>15. CASE RemoveSocket
  <2>1. /\ handler.step = "remove" /\ ~context[handler.dead] /\ current = None
        /\ UNCHANGED <<left, reads, context, got, in_data, transfer, sent, dropped, running>>
      BY <1>15 DEF RemoveSocket, Handles, Awaited, jobVars
  <2>2. ~ (context[p] /\ ~running[p])
      BY <1>1, <2>1 DEF PoliteIsServed
  <2> QED
      BY <1>1, <1>2, <2>1, <2>2 DEF PoliteIsServed
<1>16. ASSUME NEW late \in SUBSET Responses, TimerFires(late)
       PROVE  PoliteIsServed(p)'
  <2>1. /\ current = None /\ handler.step = "none" /\ late \subseteq Active(transfer)
        /\ \A q \in Responses : transfer'[q] = IF q \in late THEN "over"
                                               ELSE IF transfer[q] = "pending" THEN "active"
                                               ELSE transfer[q]
        /\ UNCHANGED <<left, reads, context, got, in_data, sent, dropped, running>>
      BY <1>16, TimerFact DEF jobVars
  <2>2. p \in late => transfer[p] = "active"
      BY <2>1 DEF Active
  <2> QED
      BY <1>1, <1>2, <1>3, <2>1, <2>2 DEF PoliteIsServed
<1> QED
    BY <1>5, <1>6, <1>7, <1>8, <1>9, <1>10, <1>11, <1>12, <1>13, <1>14, <1>15, <1>16
    DEF Next, Job, Handler

-----------------------------------------------------------------------------
LEMMA HttpInvariant == Spec => []HttpInv
<1>1. Init => HttpInv
  <2> SUFFICES ASSUME Init
               PROVE  HttpInv
      OBVIOUS
  <2>1. Everything \in Nat /\ MaxReads \in Nat /\ MaxChunks \in Nat
      BY HttpAssumption DEF Everything
  <2>2. Cardinality(Responses) \in Nat
      BY HttpAssumption, FS_CardinalityType
  <2>10. queue \in Seq(Responses)
    <3>1. queue \in [1..Cardinality(Responses) -> Responses]
        BY DEF Init, SetToSeqs
    <3> QED
        BY <2>2, <3>1, SeqDef
  <2>3. <<>> \in Seq(Chunks)
      BY EmptySeq
  <2>4. HttpTypes
    <3>1. /\ at \in [Responses -> {"idle", "reading", "asleep", "woken", "ended"}]
          /\ left \in [Responses -> 0..Everything] /\ reads \in [Responses -> 0..MaxReads]
          /\ context \in [Responses -> BOOLEAN] /\ running \in [Responses -> BOOLEAN]
        BY <2>1 DEF Init
    <3>2. in_data \in [Responses -> Seq(Chunks)] /\ got \in [Responses -> Seq(Chunks)]
        BY <2>3 DEF Init
    <3>3. /\ transfer \in [Responses -> {"none", "pending", "active", "over", "gone"}]
          /\ sent \in [Responses -> 0..MaxChunks] /\ dropped \in [Responses -> SUBSET Chunks]
          /\ checks \in [Responses -> Nat]
        BY <2>1 DEF Init
    <3>4. handler \in [step : Steps, on : Responses \cup {None}, dead : Responses \cup {None}]
        BY DEF Init, Idle, Steps
    <3>5. /\ frozen \in SUBSET Responses /\ current \in Responses \cup {None} /\ freed \in BOOLEAN
          /\ runningHandles \in 0..Cardinality(Responses) /\ timer \in BOOLEAN
      <4>1. /\ frozen = {} /\ current = None /\ runningHandles = 0
            /\ freed = FALSE /\ timer = FALSE
          BY DEF Init
      <4>2. 0 \in 0..Cardinality(Responses)
          BY <2>2
      <4>3. freed \in BOOLEAN /\ timer \in BOOLEAN
          BY <4>1
      <4> QED
          BY <4>1, <4>2, <4>3
    <3> QED
        BY <2>10, <3>1, <3>2, <3>3, <3>4, <3>5 DEF HttpTypes, Chunks
  <2>5. HandlerIsKnown
      BY DEF Init, HandlerIsKnown, Idle
  <2>6. TransfersAreKnown
      BY DEF Init, TransfersAreKnown, Active
  <2>7. ReadersAreKnown
      BY DEF Init, ReadersAreKnown, Reads
  <2>8. PoliteAreServed
      BY HttpAssumption DEF Init, PoliteAreServed, PoliteIsServed
  <2>9. ChunksAreKept
    <3>1. ASSUME NEW r \in Responses
          PROVE  ChunksOf(r)
      <4>1. Kept(r) = <<>> \o <<>> /\ sent[r] = 0 /\ dropped[r] = {}
          BY DEF Init, Kept
      <4>2. Kept(r) = <<>>
          BY <4>1, <2>3, ConcatEmptySeq
      <4>3. ToSet(Kept(r)) = {} /\ Increases(Kept(r)) /\ Kept(r) = [i \in 1..0 |-> i]
          BY <4>2 DEF ToSet, Increases
      <4> QED
          BY <4>1, <4>3 DEF ChunksOf, Gathered
    <3> QED
        BY <3>1 DEF ChunksAreKept
  <2> QED
      BY <2>4, <2>5, <2>6, <2>7, <2>8, <2>9 DEF HttpInv
<1>2. HttpInv /\ [Next]_vars => HttpInv'
    BY HttpTypesStep, HandlerStep, TransfersStep, ReadersStep, PoliteStep, ChunksStep DEF HttpInv
<1> QED
    BY <1>1, <1>2, PTL DEF Spec

\* TransferRecords are watched until they are over, and chunks reach their readers in
\* order, once and, for who reads to the end with the request, all of them
\* (setup_read_check, remove_handle, _write_callback, read()).
THEOREM TransfersStayServed == Spec => []TransfersAreServed
<1>1. HttpInv => TransfersAreServed
  <2> SUFFICES ASSUME HttpInv
               PROVE  TransfersAreServed
      OBVIOUS
  <2> USE DEF HttpInv
  <2>1. sockets = Active(transfer) /\ Active(transfer) \in SUBSET Responses
      BY ActiveFact DEF TransfersAreKnown
  <2>2. TypeOK
    <3>1. \A r \in Responses :
            /\ sent[r] \in 0..MaxChunks /\ reads[r] \in 0..MaxReads
            /\ context[r] = (at[r] \in {"reading", "asleep", "woken"})
            /\ in_data[r] \in Seq(1..MaxChunks) /\ checks[r] \in Nat
      <4>1. \A r \in Responses : context[r] \in BOOLEAN
          BY DEF HttpTypes
      <4>2. \A r \in Responses : context[r] <=> at[r] \in {"reading", "asleep", "woken"}
          BY DEF ReadersAreKnown, Reads
      <4>3. \A r \in Responses : context[r] = (at[r] \in {"reading", "asleep", "woken"})
          BY <4>1, <4>2
      <4> QED
          BY <4>3 DEF HttpTypes
    <3>2. responses \subseteq Responses /\ sockets \subseteq Responses
        BY <2>1 DEF TransfersAreKnown
    <3> QED
        BY <3>1, <3>2 DEF HttpTypes, TypeOK
  <2>3. ActiveIsWatched
      BY <2>1 DEF TransfersAreKnown, ActiveIsWatched
  <2>4. SocketsHaveResponses
      BY <2>1 DEF TransfersAreKnown, SocketsHaveResponses, Active
  <2>5. ChunksAccountedFor
      BY DEF ChunksAreKept, ChunksOf, Gathered, Increases, Kept, ChunksAccountedFor
  <2>6. SleepersAreRunning
    <3>1. SUFFICES ASSUME handler = Idle, NEW r \in Polite, at[r] = "asleep"
                   PROVE  running[r]
        BY DEF SleepersAreRunning, NobodyIsForgotten
    <3>2. r \in Responses /\ context[r] /\ PoliteIsServed(r)
        BY <3>1, HttpAssumption DEF ReadersAreKnown, PoliteAreServed, Reads
    <3>3. handler.step # "remove"
        BY <3>1 DEF Idle
    <3> QED
        BY <3>2, <3>3 DEF PoliteIsServed
  <2>7. ReadIsComplete
    <3>1. SUFFICES ASSUME NEW r \in Polite, at[r] \in {"idle", "ended"}, reads[r] > 0
                   PROVE  transfer[r] = "gone" /\ got[r] = [i \in 1..sent[r] |-> i]
        BY DEF ReadIsComplete
    <3>2. r \in Responses /\ ~context[r] /\ PoliteIsServed(r) /\ ChunksOf(r)
        BY <3>1, HttpAssumption DEF ReadersAreKnown, PoliteAreServed, ChunksAreKept, Reads
    <3>3. transfer[r] = "gone" /\ in_data[r] = <<>> /\ dropped[r] = {}
        BY <3>1, <3>2 DEF PoliteIsServed
    <3>4. got[r] \in Seq(Chunks)
        BY <3>2 DEF HttpTypes, Chunks
    <3>5. Kept(r) = got[r]
        BY <3>3, <3>4, ConcatEmptySeq DEF Kept
    <3> QED
        BY <3>2, <3>3, <3>5 DEF ChunksOf, Gathered
  <2> QED
      BY <2>2, <2>3, <2>4, <2>5, <2>6, <2>7
      DEF TransfersAreServed, TransfersAreWatched, ChunksReachReaders
<1> QED
    BY <1>1, HttpInvariant, PTL
=============================================================================
