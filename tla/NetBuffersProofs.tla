-------------------------- MODULE NetBuffersProofs --------------------------
(***************************************************************************)
(* What the pieces of NetBuffers preserve, for any kind of byte: their     *)
(* types, and the order and the number of the bytes in flight.             *)
(***************************************************************************)
EXTENDS NetBuffers, SequenceTheorems, TLAPS

\* Every end has a peer, which is the other end.
LEMMA PeerOfEnd ==
  \A e \in End : Peer(e) \in End /\ Peer(e) # e /\ Peer(Peer(e)) = e
BY DEF End, Peer

\* A waker names a task, never NoTask, and every task belongs to an end.
LEMMA TaskEnd == \A t \in Task : EndOf(t) \in End /\ t # NoTask
BY DEF Task, EndOf, End, NoTask

\* What the caller takes from the front of a buffer and what it leaves there
\* are together the buffer (BytesMut::advance, ReadBuf).
LEMMA SplitSeq ==
  ASSUME NEW S, NEW s \in Seq(S), NEW n \in 0 .. Len(s)
  PROVE  /\ SubSeq(s, 1, n) \in Seq(S)
         /\ SubSeq(s, n + 1, Len(s)) \in Seq(S)
         /\ SubSeq(s, 1, n) \o SubSeq(s, n + 1, Len(s)) = s
         /\ Len(SubSeq(s, 1, n)) = n
         /\ Len(SubSeq(s, n + 1, Len(s))) = Len(s) - n
<1>1. Len(s) \in Nat /\ \A i \in 1 .. Len(s) : s[i] \in S
  BY LenProperties, ElementOfSeq
<1>2. (\A i \in 1 .. n : s[i] \in S) /\ \A i \in n + 1 .. Len(s) : s[i] \in S
  BY <1>1
<1>3. /\ SubSeq(s, 1, n) \in Seq(S)
      /\ Len(SubSeq(s, 1, n)) = IF 1 <= n THEN n - 1 + 1 ELSE 0
  BY <1>1, <1>2, SubSeqProperties
<1>4. /\ SubSeq(s, n + 1, Len(s)) \in Seq(S)
      /\ Len(SubSeq(s, n + 1, Len(s))) = IF n + 1 <= Len(s) THEN Len(s) - (n + 1) + 1 ELSE 0
  BY <1>1, <1>2, SubSeqProperties
<1>5. SubSeq(s, 1, n) \o SubSeq(s, n + 1, Len(s)) = SubSeq(s, 1, Len(s))
  <2>1. \A m \in 1 .. Len(s) + 1 : \A k \in m - 1 .. Len(s) : \A j \in k .. Len(s) :
          SubSeq(s, m, k) \o SubSeq(s, k + 1, j) = SubSeq(s, m, j)
    BY ConcatAdjacentSubSeq, Zenon
  <2>2. 1 \in 1 .. Len(s) + 1 /\ n \in 1 - 1 .. Len(s) /\ Len(s) \in n .. Len(s)
    BY <1>1
  <2>3. \A k \in 1 - 1 .. Len(s) : \A j \in k .. Len(s) :
          SubSeq(s, 1, k) \o SubSeq(s, k + 1, j) = SubSeq(s, 1, j)
    BY <2>1, <2>2, Zenon
  <2> QED BY <2>2, <2>3, Zenon
<1>6. SubSeq(s, 1, Len(s)) = s
  BY SubSeqFull
<1>7. Len(SubSeq(s, 1, n)) = n
  BY <1>1, <1>3
<1>8. Len(SubSeq(s, n + 1, Len(s))) = Len(s) - n
  BY <1>1, <1>4
<1>9. SubSeq(s, 1, n) \in Seq(S) /\ SubSeq(s, n + 1, Len(s)) \in Seq(S)
  BY <1>3, <1>4
<1>10. SubSeq(s, 1, n) \o SubSeq(s, n + 1, Len(s)) = s
  BY <1>5, <1>6, Zenon
<1> QED BY <1>7, <1>8, <1>9, <1>10, Zenon

\* Waking and suspending tasks keeps parked a predicate on tasks.
LEMMA ParkedType ==
  ASSUME parked \in [Task -> BOOLEAN], NEW ts, NEW t
  PROVE  Woken(ts) \in [Task -> BOOLEAN] /\ Suspended(t) \in [Task -> BOOLEAN]
BY Zenon DEF Woken, Suspended

-----------------------------------------------------------------------------
(* fill_net_in.                                                            *)

\* A fill_net_in that is Ready moves bytes from the transport to the end of
\* net_in, in order, and keeps the types.
LEMMA FillReadyStep ==
  ASSUME NEW B, NetTypeOK(B), NEW e \in End, FillReady(e),
         UNCHANGED <<fin, dropped, rwaker, net_out>>
  PROVE  /\ NetTypeOK(B)'
         /\ \A x \in End : net_in'[Peer(x)] \o wire'[x] = net_in[Peer(x)] \o wire[x]
<1> DEFINE p == Peer(e)
<1>1. p \in End /\ p # e /\ Peer(p) = e
  BY PeerOfEnd
<1>2. wire[p] \in Seq(B) /\ net_in[e] \in Seq(B) /\ Len(wire[p]) \in Nat
  BY <1>1, LenProperties DEF NetTypeOK
<1>3. PICK n \in 1 .. FillMax :
        /\ n <= Len(wire[p])
        /\ net_in' = [net_in EXCEPT ![e] = net_in[e] \o SubSeq(wire[p], 1, n)]
        /\ wire' = [wire EXCEPT ![p] = SubSeq(wire[p], n + 1, Len(wire[p]))]
  BY DEF FillReady
<1>4. n \in 0 .. Len(wire[p])
  BY <1>2, <1>3, NetAssumption
<1> DEFINE taken == SubSeq(wire[p], 1, n)
           left == SubSeq(wire[p], n + 1, Len(wire[p]))
<1>5. taken \in Seq(B) /\ left \in Seq(B) /\ taken \o left = wire[p]
  BY <1>2, <1>4, SplitSeq
<1>6. net_in[e] \o taken \in Seq(B)
  BY <1>2, <1>5, ConcatProperties
<1> HIDE DEF taken, left
<1>7. /\ net_in' \in [End -> Seq(B)] /\ wire' \in [End -> Seq(B)]
      /\ net_in'[e] = net_in[e] \o taken /\ wire'[p] = left
      /\ net_in'[p] = net_in[p] /\ wire'[e] = wire[e]
  BY <1>1, <1>3, <1>5, <1>6 DEF NetTypeOK, taken, left
<1>8. parked' \in [Task -> BOOLEAN] /\ wwaker' \in [End -> Task \cup {NoTask}]
  <2>1. parked' = Woken({wwaker[p]}) /\ wwaker' = [wwaker EXCEPT ![p] = NoTask]
    BY DEF FillReady
  <2>2. parked' \in [Task -> BOOLEAN]
    BY <2>1, ParkedType DEF NetTypeOK
  <2> QED BY <2>1, <2>2 DEF NetTypeOK
<1>9. NetTypeOK(B)'
  BY <1>7, <1>8 DEF NetTypeOK
<1>10. net_in'[e] \o wire'[p] = net_in[e] \o wire[p]
  <2>1. \A a, b, c \in Seq(B) : (a \o b) \o c = a \o (b \o c)
    BY ConcatAssociative
  <2>2. (net_in[e] \o taken) \o left = net_in[e] \o (taken \o left)
    BY <1>2, <1>5, <2>1, Zenon
  <2> QED BY <1>5, <1>7, <2>2
<1>11. \A x \in End : x = e \/ x = p
  BY DEF End, Peer
<1> QED BY <1>1, <1>7, <1>9, <1>10, <1>11

\* A fill_net_in that is Pending keeps the types.
LEMMA FillPendingStep ==
  ASSUME NEW B, NetTypeOK(B), NEW e \in End, NEW t \in Task \cup {NoTask},
         FillPending(e, t), UNCHANGED <<transport, wwaker, buffers>>
  PROVE  NetTypeOK(B)'
<1>1. parked' \in [Task -> BOOLEAN]
  BY ParkedType DEF FillPending, NetTypeOK
<1> QED BY <1>1 DEF FillPending, NetTypeOK, transport, buffers

-----------------------------------------------------------------------------
(* flush_net_out.                                                          *)

\* One write of flush_net_out moves bytes from net_out to the end of the
\* transport, in order, and keeps the types.
LEMMA FlushChunkStep ==
  ASSUME NEW B, NetTypeOK(B), NEW e \in End, FlushChunk(e),
         UNCHANGED <<fin, dropped, wwaker, net_in>>
  PROVE  /\ NetTypeOK(B)'
         /\ \A x \in End : wire'[x] \o net_out'[x] = wire[x] \o net_out[x]
<1> DEFINE p == Peer(e)
           room == PipeCap - Len(wire[e])
           n == IF Len(net_out[e]) < room THEN Len(net_out[e]) ELSE room
           taken == SubSeq(net_out[e], 1, n)
           left == SubSeq(net_out[e], n + 1, Len(net_out[e]))
<1>1. p \in End /\ p # e /\ Peer(p) = e
  BY PeerOfEnd
<1>2. /\ wire[e] \in Seq(B) /\ net_out[e] \in Seq(B)
      /\ Len(wire[e]) \in Nat /\ Len(net_out[e]) \in Nat
  BY LenProperties DEF NetTypeOK
<1>3. n \in 0 .. Len(net_out[e])
  BY <1>2, NetAssumption DEF FlushChunk, Writable
<1>4. taken \in Seq(B) /\ left \in Seq(B) /\ taken \o left = net_out[e]
  BY <1>2, <1>3, SplitSeq
<1>5. /\ wire' = [wire EXCEPT ![e] = wire[e] \o taken]
      /\ net_out' = [net_out EXCEPT ![e] = left]
      /\ rwaker' = [rwaker EXCEPT ![p] = NoTask]
      /\ parked' = Woken({rwaker[p]})
  BY DEF FlushChunk
<1>6. wire[e] \o taken \in Seq(B)
  BY <1>2, <1>4, ConcatProperties
<1> HIDE DEF taken, left, n
<1>7. /\ wire' \in [End -> Seq(B)] /\ net_out' \in [End -> Seq(B)]
      /\ wire'[e] = wire[e] \o taken /\ net_out'[e] = left
      /\ wire'[p] = wire[p] /\ net_out'[p] = net_out[p]
  BY <1>1, <1>4, <1>5, <1>6 DEF NetTypeOK
<1>8. parked' \in [Task -> BOOLEAN] /\ rwaker' \in [End -> Task \cup {NoTask}]
  <2>1. parked' \in [Task -> BOOLEAN]
    BY <1>5, ParkedType DEF NetTypeOK
  <2> QED BY <1>5, <2>1 DEF NetTypeOK
<1>9. NetTypeOK(B)'
  BY <1>7, <1>8 DEF NetTypeOK
<1>10. wire'[e] \o net_out'[e] = wire[e] \o net_out[e]
  <2>1. \A a, b, c \in Seq(B) : (a \o b) \o c = a \o (b \o c)
    BY ConcatAssociative
  <2>2. (wire[e] \o taken) \o left = wire[e] \o (taken \o left)
    BY <1>2, <1>4, <2>1, Zenon
  <2> QED BY <1>4, <1>7, <2>2
<1>11. \A x \in End : x = e \/ x = p
  BY DEF End, Peer
<1> QED BY <1>7, <1>9, <1>10, <1>11

\* A flush_net_out that is Pending keeps the types, whether or not its caller
\* goes on.
LEMMA FlushPendingStep ==
  ASSUME NEW B, NetTypeOK(B), NEW e \in End, NEW t \in Task \cup {NoTask},
         FlushPending(e, t), UNCHANGED <<transport, rwaker, buffers>>,
         parked' = parked \/ parked' = Suspended(t)
  PROVE  NetTypeOK(B)'
<1>1. parked' \in [Task -> BOOLEAN]
  <2>1. parked \in [Task -> BOOLEAN]
    BY DEF NetTypeOK
  <2> QED BY <2>1, ParkedType
<1> QED BY <1>1 DEF FlushPending, NetTypeOK, transport, buffers

-----------------------------------------------------------------------------
(* The ends of a direction.                                                *)

\* Shutting the transport down keeps the types.
LEMMA CloseWriteStep ==
  ASSUME NEW B, NetTypeOK(B), NEW e \in End, CloseWrite(e),
         UNCHANGED <<wire, dropped, wwaker, buffers>>
  PROVE  NetTypeOK(B)'
<1>1. parked' \in [Task -> BOOLEAN]
  BY ParkedType DEF CloseWrite, NetTypeOK
<1>2. fin' \in [End -> BOOLEAN]
  BY Zenon DEF CloseWrite, NetTypeOK
<1> QED BY <1>1, <1>2 DEF CloseWrite, NetTypeOK, buffers

\* Dropping the transport handle with the stream keeps the types.
LEMMA DropIoStep ==
  ASSUME NEW B, NetTypeOK(B), NEW e \in End, DropIo(e), UNCHANGED wire
  PROVE  NetTypeOK(B)'
<1>1. parked' \in [Task -> BOOLEAN]
  BY ParkedType DEF DropIo, NetTypeOK
<1>2. fin' \in [End -> BOOLEAN] /\ dropped' \in [End -> BOOLEAN]
  BY Zenon DEF DropIo, NetTypeOK
<1>3. <<>> \in Seq(B)
  BY EmptySeq
<1> QED BY <1>1, <1>2, <1>3 DEF DropIo, NetTypeOK
=============================================================================
