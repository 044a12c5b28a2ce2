------------------------ MODULE TlsStreamFlowProofs -------------------------
(***************************************************************************)
(* No byte is lost, duplicated or reordered between the two wolfSSL        *)
(* sessions of TlsStream, wherever polls are suspended or cancelled, and   *)
(* wolfSSL therefore never fails on a network that corrupts nothing.       *)
(*                                                                         *)
(* Conservation is not inductive as it stands: a stream that was dropped   *)
(* loses what was left in its net_out while its peer goes on reading.  The *)
(* inductive invariant names those bytes, lost, and says that what arrives *)
(* is still a prefix of what was produced.                                 *)
(*                                                                         *)
(* The second half of the module shows that the two streams implement      *)
(* ByteStream, on any network.  Its inductive invariant, StreamInv, reads  *)
(* the byte sequences as records: what an endpoint produced is a sequence  *)
(* of whole records with the application records numbered and no record    *)
(* after a close_notify (LogInv); no more bytes arrive than were produced, *)
(* and never those of a close_notify that Drop could not flush (LenInv);   *)
(* the caller and read_buf have the application records of what was        *)
(* accepted (ReadInv).                                                     *)
(***************************************************************************)
EXTENDS TlsStreamProofs, FiniteSets, FiniteSetTheorems

\* Concatenation, as a name of its own: below, only its laws matter.
Cat(a, b) == a \o b

\* Bytes on their way from e to its peer, and after them the lost ones.
Way(e, lost) ==
  Cat(ssl_in[Peer(e)], Cat(net_in[Peer(e)], Cat(wire[e], Cat(net_out[e], lost))))

Flow(e) ==
  \E lost \in Seq(Byte) :
    /\ log[e] = Cat(got[Peer(e)], Way(e, lost))
    /\ ~dropped[e] => lost = <<>>

FlowInv == \A e \in End : tampered = 0 /\ ~dropped[Peer(e)] => Flow(e)

-----------------------------------------------------------------------------
(* Facts about concatenation.                                              *)

\* Concatenation of byte sequences is closed, associative and has a unit.
LEMMA CatLaws ==
  /\ <<>> \in Seq(Byte)
  /\ \A a, b \in Seq(Byte) : Cat(a, b) \in Seq(Byte)
  /\ \A a, b, c \in Seq(Byte) : Cat(Cat(a, b), c) = Cat(a, Cat(b, c))
  /\ \A a \in Seq(Byte) : Cat(a, <<>>) = a /\ Cat(<<>>, a) = a
<1>1. \A a, b \in Seq(Byte) : Cat(a, b) \in Seq(Byte)
  BY ConcatProperties DEF Cat
<1>2. \A a, b, c \in Seq(Byte) : Cat(Cat(a, b), c) = Cat(a, Cat(b, c))
  BY ConcatAssociative DEF Cat
<1>3. \A a \in Seq(Byte) : Cat(a, <<>>) = a /\ Cat(<<>>, a) = a
  BY ConcatEmptySeq DEF Cat
<1> QED BY <1>1, <1>2, <1>3, EmptySeq

\* Associativity alone.
LEMMA CatAssoc ==
  \A a, b, c \in Seq(Byte) : Cat(Cat(a, b), c) = Cat(a, Cat(b, c))
BY CatLaws

\* Bytes that move from one buffer to the next one keep their place.
LEMMA Move ==
  ASSUME NEW a \in Seq(Byte), NEW b \in Seq(Byte), NEW c \in Seq(Byte),
         NEW d \in Seq(Byte), NEW x \in Seq(Byte), Cat(a, b) = Cat(c, d)
  PROVE  Cat(a, Cat(b, x)) = Cat(c, Cat(d, x))
BY CatLaws

\* A record that is produced goes to the end of every buffer.
LEMMA Extend ==
  ASSUME NEW g \in Seq(Byte), NEW i \in Seq(Byte), NEW n \in Seq(Byte),
         NEW w \in Seq(Byte), NEW o \in Seq(Byte), NEW r \in Seq(Byte)
  PROVE  Cat(Cat(g, Cat(i, Cat(n, Cat(w, o)))), r) =
         Cat(g, Cat(i, Cat(n, Cat(w, Cat(o, r)))))
BY CatLaws

\* What follows a prefix of known length is found at that place.
LEMMA AfterPrefix ==
  ASSUME NEW g \in Seq(Byte), NEW r \in Seq(Byte), NEW z \in Seq(Byte), Len(r) > 0
  PROVE  SubSeq(Cat(g, Cat(r, z)), Len(g) + 1, Len(g) + Len(r)) = r
<1> DEFINE y == Cat(r, z)
<1>1. /\ Len(g) \in Nat /\ Len(r) \in Nat /\ Len(z) \in Nat
  BY LenProperties
<1>2. y \in Seq(Byte) /\ Len(y) = Len(r) + Len(z)
  BY ConcatProperties DEF Cat
<1>3. SubSeq(y, 1, Len(r)) = r
  <2>1. 1 \in 1 .. Len(r) /\ Len(r) \in 1 .. Len(r)
    BY <1>1
  <2>2. SubSeq(r \o z, 1, Len(r)) = SubSeq(r, 1, Len(r))
    BY <2>1, SubSeqOfConcat1
  <2>3. SubSeq(r, 1, Len(r)) = r
    BY SubSeqFull
  <2> QED BY <2>2, <2>3 DEF Cat
<1> HIDE DEF y
<1>4. SubSeq(g \o y, Len(g) + 1, Len(g) + Len(r)) = SubSeq(y, 1, Len(r))
  <2>1. /\ Len(g) + 1 \in Len(g) + 1 .. Len(g) + Len(y)
        /\ Len(g) + Len(r) \in Len(g) + 1 .. Len(g) + Len(y)
        /\ (Len(g) + 1) - Len(g) = 1 /\ (Len(g) + Len(r)) - Len(g) = Len(r)
    BY <1>1, <1>2
  <2>2. SubSeq(g \o y, Len(g) + 1, Len(g) + Len(r))
          = SubSeq(y, (Len(g) + 1) - Len(g), (Len(g) + Len(r)) - Len(g))
    BY <1>2, <2>1, SubSeqOfConcat2
  <2> QED BY <2>1, <2>2
<1> QED BY <1>3, <1>4 DEF Cat, y

-----------------------------------------------------------------------------
(* The flow in one direction.                                              *)

\* The buffers of one direction are byte sequences.
LEMMA FlowTypes ==
  ASSUME TypeOK, NEW e \in End
  PROVE  /\ log[e] \in Seq(Byte) /\ got[Peer(e)] \in Seq(Byte)
         /\ ssl_in[Peer(e)] \in Seq(Byte) /\ net_in[Peer(e)] \in Seq(Byte)
         /\ wire[e] \in Seq(Byte) /\ net_out[e] \in Seq(Byte)
BY PeerOfEnd DEF TypeOK, NetTypeOK

\* A whole record in the buffers is the next one the peer produced, as long as
\* the network corrupts nothing: wolfSSL_read has no reason to fail.
LEMMA NextIsRecord ==
  ASSUME TypeOK, FlowInv, NEW x \in End, tampered = 0, ~dropped[x], HasRecord(x)
  PROVE  Record(x) = NextRecord(x)
<1> DEFINE e == Peer(x)
           rest == SubSeq(Held(x), RecLen + 1, Len(Held(x)))
<1>1. e \in End /\ Peer(e) = x
  BY PeerOfEnd
<1>2. Flow(e)
  BY <1>1 DEF FlowInv
<1>3. PICK lost \in Seq(Byte) : log[e] = Cat(got[x], Way(e, lost))
  BY <1>1, <1>2 DEF Flow
<1> DEFINE after == Cat(wire[e], Cat(net_out[e], lost))
<1>4. /\ got[x] \in Seq(Byte) /\ ssl_in[x] \in Seq(Byte) /\ net_in[x] \in Seq(Byte)
      /\ wire[e] \in Seq(Byte) /\ net_out[e] \in Seq(Byte)
  BY <1>1 DEF TypeOK, NetTypeOK
<1>5. after \in Seq(Byte)
  BY <1>4, CatLaws
<1>6. Way(e, lost) = Cat(ssl_in[x], Cat(net_in[x], after))
  BY <1>1 DEF Way
<1>7. /\ Record(x) \in Seq(Byte) /\ rest \in Seq(Byte) /\ Len(Record(x)) = RecLen
      /\ Cat(Record(x), rest) = Held(x)
  BY RecordType DEF Cat
<1>8. Held(x) = Cat(ssl_in[x], net_in[x])
  BY DEF Held, Cat
<1> HIDE DEF after, rest
<1>9. Cat(ssl_in[x], Cat(net_in[x], after)) = Cat(Record(x), Cat(rest, after))
  BY <1>4, <1>5, <1>7, <1>8, Move
<1> DEFINE z == Cat(rest, after)
<1>10. z \in Seq(Byte)
  BY <1>5, <1>7, CatLaws
<1> HIDE DEF z
<1>11. log[e] = Cat(got[x], Cat(Record(x), z))
  BY <1>3, <1>6, <1>9 DEF z
<1>12. Len(Record(x)) > 0
  BY <1>7, StreamAssumption
<1>13. SubSeq(Cat(got[x], Cat(Record(x), z)), Len(got[x]) + 1, Len(got[x]) + Len(Record(x)))
         = Record(x)
  BY <1>4, <1>7, <1>10, <1>12, AfterPrefix
<1> QED BY <1>7, <1>11, <1>13 DEF NextRecord

-----------------------------------------------------------------------------
(* What the steps do to the flow.                                          *)

\* A step that touches no buffer.
LEMMA FlowSame ==
  ASSUME FlowInv,
         UNCHANGED <<log, got, ssl_in, net_in, wire, net_out, dropped, tampered>>
  PROVE  FlowInv'
BY DEF FlowInv, Flow, Way

\* fill_net_in and flush_net_out move bytes between neighbouring buffers.
LEMMA FlowMove ==
  ASSUME TypeOK, TypeOK', FlowInv, UNCHANGED <<log, got, ssl_in, dropped, tampered>>,
         \A e \in End :
           \/ /\ net_in'[Peer(e)] \o wire'[e] = net_in[Peer(e)] \o wire[e]
              /\ net_out'[e] = net_out[e]
           \/ /\ wire'[e] \o net_out'[e] = wire[e] \o net_out[e]
              /\ net_in'[Peer(e)] = net_in[Peer(e)]
  PROVE  FlowInv'
<1> SUFFICES ASSUME NEW e \in End, tampered' = 0, ~dropped'[Peer(e)] PROVE Flow(e)'
  BY DEF FlowInv
<1>1. PICK lost \in Seq(Byte) : /\ log[e] = Cat(got[Peer(e)], Way(e, lost))
                                /\ ~dropped[e] => lost = <<>>
  BY DEF FlowInv, Flow
<1>2. /\ net_in[Peer(e)] \in Seq(Byte) /\ wire[e] \in Seq(Byte) /\ net_out[e] \in Seq(Byte)
      /\ net_in'[Peer(e)] \in Seq(Byte) /\ wire'[e] \in Seq(Byte) /\ net_out'[e] \in Seq(Byte)
  BY PeerOfEnd DEF TypeOK, NetTypeOK
<1>3. Cat(net_in'[Peer(e)], Cat(wire'[e], Cat(net_out'[e], lost)))
        = Cat(net_in[Peer(e)], Cat(wire[e], Cat(net_out[e], lost)))
  <2>1. CASE /\ Cat(net_in'[Peer(e)], wire'[e]) = Cat(net_in[Peer(e)], wire[e])
             /\ net_out'[e] = net_out[e]
    <3>1. Cat(net_out[e], lost) \in Seq(Byte)
      BY <1>2, CatLaws
    <3>2. /\ Cat(Cat(net_in'[Peer(e)], wire'[e]), Cat(net_out[e], lost))
               = Cat(net_in'[Peer(e)], Cat(wire'[e], Cat(net_out[e], lost)))
          /\ Cat(Cat(net_in[Peer(e)], wire[e]), Cat(net_out[e], lost))
               = Cat(net_in[Peer(e)], Cat(wire[e], Cat(net_out[e], lost)))
      BY <1>2, <3>1, CatAssoc
    <3> QED BY <2>1, <3>2
  <2>2. CASE /\ Cat(wire'[e], net_out'[e]) = Cat(wire[e], net_out[e])
             /\ net_in'[Peer(e)] = net_in[Peer(e)]
    <3>1. /\ Cat(Cat(wire'[e], net_out'[e]), lost) = Cat(wire'[e], Cat(net_out'[e], lost))
          /\ Cat(Cat(wire[e], net_out[e]), lost) = Cat(wire[e], Cat(net_out[e], lost))
      BY <1>2, CatAssoc
    <3> QED BY <2>2, <3>1
  <2> QED BY <2>1, <2>2 DEF Cat
<1>4. Way(e, lost)' = Way(e, lost)
  BY <1>3 DEF Way
<1> QED BY <1>1, <1>4 DEF Flow

\* A record is accepted at x, or wolfSSL takes net_in without having one: what
\* was accepted and what is held are together the same bytes as before.
LEMMA FlowTake ==
  ASSUME TypeOK, FlowInv, NEW x \in End, NEW r \in Seq(Byte), NEW i \in Seq(Byte),
         NEW m \in Seq(Byte),
         ssl_in[x] \o net_in[x] = r \o (i \o m),
         got' = [got EXCEPT ![x] = got[x] \o r],
         ssl_in' = [ssl_in EXCEPT ![x] = i],
         net_in' = [net_in EXCEPT ![x] = m],
         UNCHANGED <<log, wire, net_out, dropped, tampered>>
  PROVE  FlowInv'
<1> SUFFICES ASSUME NEW e \in End, tampered' = 0, ~dropped'[Peer(e)] PROVE Flow(e)'
  BY DEF FlowInv
<1>1. PICK lost \in Seq(Byte) : /\ log[e] = Cat(got[Peer(e)], Way(e, lost))
                                /\ ~dropped[e] => lost = <<>>
  BY DEF FlowInv, Flow
<1>2. CASE Peer(e) # x
  <2>1. /\ got'[Peer(e)] = got[Peer(e)] /\ ssl_in'[Peer(e)] = ssl_in[Peer(e)]
        /\ net_in'[Peer(e)] = net_in[Peer(e)]
    BY <1>2, PeerOfEnd DEF TypeOK, NetTypeOK
  <2>2. Way(e, lost)' = Way(e, lost)
    BY <2>1 DEF Way
  <2> QED BY <1>1, <2>1, <2>2 DEF Flow
<1>3. CASE Peer(e) = x
  <2> DEFINE after == Cat(wire[e], Cat(net_out[e], lost))
  <2>1. /\ got[x] \in Seq(Byte) /\ ssl_in[x] \in Seq(Byte) /\ net_in[x] \in Seq(Byte)
        /\ wire[e] \in Seq(Byte) /\ net_out[e] \in Seq(Byte)
    BY DEF TypeOK, NetTypeOK
  <2>2. after \in Seq(Byte)
    BY <2>1, CatLaws
  <2>3. got'[x] = Cat(got[x], r) /\ ssl_in'[x] = i /\ net_in'[x] = m
    BY DEF TypeOK, NetTypeOK, Cat
  <2>4. Cat(ssl_in[x], net_in[x]) = Cat(r, Cat(i, m))
    BY DEF Cat
  <2>5. /\ Way(e, lost) = Cat(ssl_in[x], Cat(net_in[x], after))
        /\ Way(e, lost)' = Cat(i, Cat(m, after))
    BY <1>3, <2>3 DEF Way
  <2> HIDE DEF after
  <2>6. Cat(ssl_in[x], Cat(net_in[x], after)) = Cat(r, Cat(i, Cat(m, after)))
    <3>1. /\ Cat(Cat(ssl_in[x], net_in[x]), after) = Cat(ssl_in[x], Cat(net_in[x], after))
          /\ Cat(Cat(i, m), after) = Cat(i, Cat(m, after))
      BY <2>1, <2>2, CatAssoc
    <3>2. Cat(i, m) \in Seq(Byte)
      BY CatLaws
    <3>3. Cat(Cat(r, Cat(i, m)), after) = Cat(r, Cat(Cat(i, m), after))
      BY <2>2, <3>2, CatAssoc
    <3> QED BY <2>4, <3>1, <3>3
  <2>7. Cat(got[x], Cat(r, Cat(i, Cat(m, after)))) = Cat(Cat(got[x], r), Cat(i, Cat(m, after)))
    <3>1. Cat(m, after) \in Seq(Byte)
      BY <2>2, CatLaws
    <3>2. Cat(i, Cat(m, after)) \in Seq(Byte)
      BY <3>1, CatLaws
    <3> QED BY <2>1, <3>2, CatAssoc
  <2>8. log[e] = Cat(got'[x], Way(e, lost)')
    BY <1>1, <1>3, <2>3, <2>5, <2>6, <2>7
  <2> QED BY <1>1, <1>3, <2>8 DEF Flow
<1> QED BY <1>2, <1>3

\* wolfSSL produces a record at an endpoint that is in use.
LEMMA FlowProduce ==
  ASSUME TypeOK, FlowInv, NEW x \in End, ~dropped[x], NEW kind \in Kind, NEW v \in Nat,
         Produce(x, kind, v), UNCHANGED <<got, ssl_in, net_in, wire, dropped, tampered>>
  PROVE  FlowInv'
<1> DEFINE r == Encode(kind, v)
<1> SUFFICES ASSUME NEW e \in End, tampered' = 0, ~dropped'[Peer(e)] PROVE Flow(e)'
  BY DEF FlowInv
<1>1. PICK lost \in Seq(Byte) : /\ log[e] = Cat(got[Peer(e)], Way(e, lost))
                                /\ ~dropped[e] => lost = <<>>
  BY DEF FlowInv, Flow
<1>2. CASE e # x
  <2>1. log'[e] = log[e] /\ net_out'[e] = net_out[e]
    BY <1>2 DEF Produce, TypeOK, NetTypeOK
  <2>2. Way(e, lost)' = Way(e, lost)
    BY <2>1 DEF Way
  <2> QED BY <1>1, <2>1, <2>2 DEF Flow
<1>3. CASE e = x
  <2>1. lost = <<>>
    BY <1>1, <1>3
  <2>2. r \in Seq(Byte)
    BY EncodeType
  <2> HIDE DEF r
  <2>3. log'[e] = Cat(log[e], r) /\ net_out'[e] = Cat(net_out[e], r)
    BY <1>3 DEF Produce, TypeOK, NetTypeOK, Cat, r
  <2>4. /\ got[Peer(e)] \in Seq(Byte) /\ ssl_in[Peer(e)] \in Seq(Byte)
        /\ net_in[Peer(e)] \in Seq(Byte) /\ wire[e] \in Seq(Byte) /\ net_out[e] \in Seq(Byte)
    BY FlowTypes
  <2>5. Cat(net_out[e], lost) = net_out[e] /\ Cat(net_out'[e], lost) = net_out'[e]
    BY <2>1, <2>2, <2>3, <2>4, CatLaws
  <2>6. /\ Way(e, lost) = Cat(ssl_in[Peer(e)], Cat(net_in[Peer(e)], Cat(wire[e], net_out[e])))
        /\ Way(e, lost)'
             = Cat(ssl_in[Peer(e)], Cat(net_in[Peer(e)], Cat(wire[e], Cat(net_out[e], r))))
    BY <2>3, <2>5 DEF Way
  <2>7. Cat(Cat(got[Peer(e)], Way(e, lost)), r) = Cat(got[Peer(e)], Way(e, lost)')
    <3>1. Cat(Cat(got[Peer(e)], Cat(ssl_in[Peer(e)], Cat(net_in[Peer(e)], Cat(wire[e], net_out[e])))), r)
            = Cat(got[Peer(e)], Cat(ssl_in[Peer(e)], Cat(net_in[Peer(e)], Cat(wire[e], Cat(net_out[e], r)))))
      <4> DEFINE g == got[Peer(e)]
                 i == ssl_in[Peer(e)]
                 n == net_in[Peer(e)]
                 w == wire[e]
                 o == net_out[e]
      <4>1. /\ g \in Seq(Byte) /\ i \in Seq(Byte) /\ n \in Seq(Byte)
            /\ w \in Seq(Byte) /\ o \in Seq(Byte)
        BY <2>4
      <4> HIDE DEF g, i, n, w, o
      <4>2. Cat(Cat(g, Cat(i, Cat(n, Cat(w, o)))), r) = Cat(g, Cat(i, Cat(n, Cat(w, Cat(o, r)))))
        BY <2>2, <4>1, Extend, SMTT(30)
      <4> QED BY <4>2 DEF g, i, n, w, o
    <3> QED BY <2>6, <3>1
  <2>8. log'[e] = Cat(got[Peer(e)], Way(e, lost)')
    BY <1>1, <2>3, <2>7
  <2> QED BY <2>1, <2>8 DEF Flow
<1> QED BY <1>2, <1>3

\* Dropping a stream loses its net_out and the close_notify that nothing can
\* flush any more, and nothing that comes before them.
LEMMA FlowDrop ==
  ASSUME TypeOK, FlowInv, NEW x \in End, Drop(x)
  PROVE  FlowInv'
<1> DEFINE r == IF MustNotify(x) THEN Encode("close_notify", 0) ELSE <<>>
           p == Peer(x)
           g == got[p]
           i == ssl_in[p]
           n == net_in[p]
           w == wire[x]
           o == net_out[x]
<1>1. /\ got' = got /\ ssl_in' = ssl_in /\ wire' = wire /\ tampered' = tampered
      /\ dropped' = [dropped EXCEPT ![x] = TRUE] /\ ~dropped[x]
      /\ net_in' = [net_in EXCEPT ![x] = <<>>] /\ net_out' = [net_out EXCEPT ![x] = <<>>]
  BY DEF Drop, DropIo, session
<1>2. /\ dropped \in [End -> BOOLEAN] /\ net_in \in [End -> Seq(Byte)]
      /\ net_out \in [End -> Seq(Byte)] /\ log \in [End -> Seq(Byte)]
  BY DEF TypeOK, NetTypeOK
<1>3. p \in End /\ p # x /\ Peer(p) = x
  BY PeerOfEnd
<1>4. r \in Seq(Byte)
  BY EncodeType, EmptySeq DEF Kind
<1>5. log'[x] = Cat(log[x], r)
  <2>1. CASE MustNotify(x)
    BY <1>2, <2>1 DEF Drop, Cat
  <2>2. CASE ~MustNotify(x)
    <3>1. log[x] \in Seq(Byte)
      BY <1>2
    <3> QED BY <2>2, <3>1, CatLaws DEF Drop
  <2> QED BY <2>1, <2>2
<1>6. /\ g \in Seq(Byte) /\ i \in Seq(Byte) /\ n \in Seq(Byte)
      /\ w \in Seq(Byte) /\ o \in Seq(Byte)
  BY FlowTypes
<1>7. SUFFICES ASSUME tampered = 0, ~dropped[p] PROVE Flow(x)'
  BY <1>1, <1>2, <1>3 DEF FlowInv, End, Peer
<1>8. log[x] = Cat(g, Cat(i, Cat(n, Cat(w, o))))
  <2>1. PICK lost \in Seq(Byte) : /\ log[x] = Cat(got[Peer(x)], Way(x, lost))
                                  /\ ~dropped[x] => lost = <<>>
    BY <1>7 DEF FlowInv, Flow
  <2>2. lost = <<>> /\ Cat(net_out[x], <<>>) = net_out[x]
    BY <1>1, <1>6, <2>1, CatLaws
  <2> QED BY <2>1, <2>2 DEF Way
<1>9. /\ got'[p] = g /\ ssl_in'[p] = i /\ net_in'[p] = n /\ wire'[x] = w
      /\ net_out'[x] = <<>> /\ dropped'[x]
  BY <1>1, <1>2, <1>3
<1> HIDE DEF g, i, n, w, o, r
<1>10. Cat(o, r) \in Seq(Byte) /\ Cat(<<>>, Cat(o, r)) = Cat(o, r)
  BY <1>4, <1>6, CatLaws
<1>11. PICK lost \in Seq(Byte) : lost = Cat(o, r)
  BY <1>10
<1>12. log'[x] = Cat(g, Cat(i, Cat(n, Cat(w, lost))))
  BY <1>4, <1>5, <1>6, <1>8, <1>11, Extend, SMTT(30)
<1>13. Way(x, lost)' = Cat(i, Cat(n, Cat(w, lost)))
  BY <1>9, <1>10, <1>11 DEF Way
<1> QED BY <1>9, <1>12, <1>13 DEF Flow

\* The session tickets in flight after the handshake are split in order
\* between the transport and net_in.
LEMMA FlowInit == Init => FlowInv
<1> SUFFICES ASSUME Init, NEW e \in End PROVE Flow(e)
  BY DEF FlowInv
<1>1. InFlight(e) \in Seq(Byte)
  BY EncodeType, EmptySeq DEF InFlight, Kind
<1>2. PICK n \in [End -> 0 .. RecLen] :
        /\ \A x \in End : n[x] <= Len(InFlight(x))
        /\ NetInit([x \in End |-> SubSeq(InFlight(x), n[x] + 1, Len(InFlight(x)))],
                   [x \in End |-> SubSeq(InFlight(Peer(x)), 1, n[Peer(x)])])
  BY DEF Init
<1> DEFINE front == SubSeq(InFlight(e), 1, n[e])
           back == SubSeq(InFlight(e), n[e] + 1, Len(InFlight(e)))
<1>3. n[e] \in 0 .. Len(InFlight(e))
  BY <1>1, <1>2, StreamAssumption, LenProperties
<1>4. front \in Seq(Byte) /\ back \in Seq(Byte) /\ Cat(front, back) = InFlight(e)
  BY <1>1, <1>3, SplitSeq DEF Cat
<1>5. /\ wire[e] = back /\ net_in[Peer(e)] = front /\ net_out[e] = <<>>
  BY <1>2, PeerOfEnd DEF NetInit
<1>6. ssl_in[Peer(e)] = <<>> /\ got[Peer(e)] = <<>> /\ log[e] = InFlight(e)
  BY PeerOfEnd DEF Init
<1> HIDE DEF front, back
<1>7. /\ <<>> \in Seq(Byte) /\ Cat(<<>>, <<>>) = <<>> /\ Cat(back, <<>>) = back
      /\ Cat(front, back) \in Seq(Byte)
      /\ Cat(<<>>, Cat(front, back)) = Cat(front, back)
  BY <1>4, CatLaws
<1>8. log[e] = Cat(got[Peer(e)], Way(e, <<>>))
  BY <1>4, <1>5, <1>6, <1>7 DEF Way
<1> QED BY <1>7, <1>8 DEF Flow

-----------------------------------------------------------------------------
(* The theorems.                                                           *)

\* A record that is accepted keeps the flow.
LEMMA FlowAccept ==
  ASSUME TypeOK, FlowInv, NEW x \in End, NEW kind, Accept(x, kind),
         UNCHANGED <<log, wire, net_out, dropped, tampered>>
  PROVE  FlowInv'
<1> DEFINE r == Record(x)
           m == SubSeq(Held(x), RecLen + 1, Len(Held(x)))
<1>1. r \in Seq(Byte) /\ m \in Seq(Byte) /\ Cat(r, m) = ssl_in[x] \o net_in[x]
  BY RecordType DEF Accept, Held, Cat
<1>2. <<>> \in Seq(Byte) /\ Cat(<<>>, m) = m
  BY <1>1, CatLaws
<1>3. /\ got' = [got EXCEPT ![x] = got[x] \o r] /\ ssl_in' = [ssl_in EXCEPT ![x] = <<>>]
      /\ net_in' = [net_in EXCEPT ![x] = m]
  BY DEF Accept, TakeRecord
<1> HIDE DEF r, m
<1>4. ssl_in[x] \o net_in[x] = r \o (<<>> \o m)
  BY <1>1, <1>2 DEF Cat
<1> QED BY <1>1, <1>2, <1>3, <1>4, FlowTake

\* The steps of poll_read keep the flow.
LEMMA FlowRead ==
  ASSUME TypeOK, TypeOK', ControlInv, FlowInv, NEW x \in End, ReadStep(x)
  PROVE  FlowInv'
<1>1. CASE ReadBuffered(x) \/ ReadSkipFill(x)
  BY <1>1, FlowSame DEF ReadBuffered, ReadSkipFill, netVars, session, history
<1>2. CASE ReadFill(x)
  <2>1. UNCHANGED <<log, got, ssl_in, tampered>>
    BY <1>2 DEF ReadFill, history
  <2>2. CASE FillReady(x) /\ UNCHANGED <<fin, dropped, rwaker, net_out>>
    <3>1. \A e \in End : net_in'[Peer(e)] \o wire'[e] = net_in[Peer(e)] \o wire[e]
      BY <2>2, FillReadyStep DEF TypeOK
    <3> QED BY <2>1, <2>2, <3>1, FlowMove
  <2>3. CASE UNCHANGED <<transport, buffers>> \/ UNCHANGED netVars
    BY <2>1, <2>3, FlowSame DEF transport, buffers, netVars
  <2> QED BY <1>2, <2>2, <2>3 DEF ReadFill
<1>3. CASE ReadRecord(x) \/ ReadTicket(x) \/ ReadCloseNotify(x)
  BY <1>3, FlowAccept DEF ReadRecord, ReadTicket, ReadCloseNotify, transport
<1>4. CASE ReadWantRead(x)
  <2>1. /\ UNCHANGED <<log, got, wire, net_out, dropped, tampered>>
        /\ ssl_in' = [ssl_in EXCEPT ![x] = Held(x)] /\ net_in' = [net_in EXCEPT ![x] = <<>>]
    BY <1>4 DEF ReadWantRead, transport
  <2>2. Held(x) \in Seq(Byte) /\ <<>> \in Seq(Byte) /\ got[x] \in Seq(Byte)
    BY HeldType, EmptySeq DEF TypeOK
  <2>3. /\ Cat(Held(x), <<>>) = Held(x) /\ Cat(<<>>, Held(x)) = Held(x)
        /\ Cat(got[x], <<>>) = got[x]
    BY <2>2, CatLaws
  <2>4. ssl_in[x] \o net_in[x] = <<>> \o (Held(x) \o <<>>)
    BY <2>3 DEF Cat, Held
  <2>5. got' = [got EXCEPT ![x] = got[x] \o <<>>]
    BY <2>1, <2>3 DEF Cat, TypeOK
  <2> QED BY <2>1, <2>2, <2>4, <2>5, FlowTake
<1>5. CASE ReadFatal(x)
  <2>1. UNCHANGED <<log, got, wire, net_out, dropped, tampered>>
    BY <1>5 DEF ReadFatal, transport, history
  <2>2. ~dropped[x]
    BY <1>5, CallAtPlace DEF ReadFatal
  <2>3. tampered # 0
    BY <1>5, <2>2, NextIsRecord DEF ReadFatal
  <2> QED BY <2>1, <2>3 DEF FlowInv
<1> QED BY <1>1, <1>2, <1>3, <1>4, <1>5 DEF ReadStep

\* The steps of poll_write, poll_flush and poll_shutdown keep the flow.
LEMMA FlowWrite ==
  ASSUME TypeOK, TypeOK', ControlInv, FlowInv, NEW x \in End, WriteStep(x)
  PROVE  FlowInv'
<1>1. CASE WriteRecord(x)
  <2>1. ~dropped[x]
    BY <1>1, CallAtPlace DEF WriteRecord
  <2>2. Len(written[x]) + 1 \in Nat /\ "data" \in Kind
    BY LenProperties DEF TypeOK, Kind
  <2> QED BY <1>1, <2>1, <2>2, FlowProduce DEF WriteRecord, transport, session
<1>2. CASE WriteFatal(x) \/ ShutdownIo(x)
  BY <1>2, FlowSame DEF WriteFatal, ShutdownIo, netVars, buffers, session, history
<1>3. CASE FlushNetOut(x)
  <2>1. UNCHANGED <<log, got, ssl_in, tampered>>
    BY <1>3 DEF FlushNetOut, session, history
  <2>2. CASE FlushChunk(x) /\ UNCHANGED <<fin, dropped, wwaker, net_in>>
    <3>1. \A e \in End : wire'[e] \o net_out'[e] = wire[e] \o net_out[e]
      BY <2>2, FlushChunkStep DEF TypeOK
    <3> QED BY <2>1, <2>2, <3>1, FlowMove
  <2>3. CASE UNCHANGED <<transport, buffers>> \/ UNCHANGED netVars
    BY <2>1, <2>3, FlowSame DEF transport, buffers, netVars
  <2> QED BY <1>3, <2>2, <2>3 DEF FlushNetOut
<1>4. CASE ShutdownSsl(x)
  <2>1. ~dropped[x] /\ UNCHANGED <<got, ssl_in, net_in, wire, dropped, tampered>>
    BY <1>4, CallAtPlace DEF ShutdownSsl, transport
  <2>2. CASE Produce(x, "close_notify", 0)
    BY <2>1, <2>2, FlowProduce DEF Kind
  <2>3. CASE UNCHANGED <<net_out, log>>
    BY <2>1, <2>3, FlowSame
  <2> QED BY <1>4, <2>2, <2>3 DEF ShutdownSsl
<1> QED BY <1>1, <1>2, <1>3, <1>4 DEF WriteStep

\* Every step keeps the flow.
LEMMA FlowNext ==
  ASSUME TypeOK, TypeOK', ControlInv, FlowInv, [Next]_vars
  PROVE  FlowInv'
<1>1. ASSUME NEW x \in End, Tamper(x) PROVE FlowInv'
  <2>1. tampered' # 0
    BY <1>1 DEF Tamper, TypeOK
  <2> QED BY <2>1 DEF FlowInv
<1>2. ASSUME NEW t \in Task, Poll(t) \/ Cancel(t) \/ \E c \in Operation : Invoke(t, c)
      PROVE  FlowInv'
  BY <1>2, FlowSame DEF Poll, Cancel, Invoke, netVars, transport, buffers, session, history
<1>3. CASE UNCHANGED vars
  BY <1>3, FlowSame DEF vars, session, history
<1> QED BY <1>1, <1>2, <1>3, FlowRead, FlowWrite, FlowDrop DEF Next, Step

\* The inductive invariant behind Conservation.
THEOREM FlowHolds == Spec => []FlowInv
<1>1. TypeOK /\ TypeOK' /\ ControlInv /\ FlowInv /\ [Next]_vars => FlowInv'
  BY FlowNext
<1> QED BY <1>1, FlowInit, TypeCorrect, ControlHolds, PTL DEF Spec

\* Nothing is lost, duplicated or reordered on the way from one wolfSSL session
\* to the other by recv, send, fill_net_in and flush_net_out, for every
\* capacity of the transport, length of a record and size of a chunk.
THEOREM NothingIsLost == Spec => []Conservation
<1>1. TypeOK /\ FlowInv => Conservation
  <2> SUFFICES ASSUME TypeOK, FlowInv, NEW e \in End, tampered = 0,
                      ~dropped[e], ~dropped[Peer(e)]
               PROVE  log[e] = got[Peer(e)] \o InTransit(e)
    BY DEF Conservation
  <2> DEFINE i == ssl_in[Peer(e)]
             n == net_in[Peer(e)]
             w == wire[e]
             o == net_out[e]
  <2>1. log[e] = Cat(got[Peer(e)], Way(e, <<>>))
    BY DEF FlowInv, Flow
  <2>2. i \in Seq(Byte) /\ n \in Seq(Byte) /\ w \in Seq(Byte) /\ o \in Seq(Byte)
    BY FlowTypes
  <2>3. Way(e, <<>>) = Cat(i, Cat(n, Cat(w, Cat(o, <<>>))))
    BY DEF Way
  <2>4. InTransit(e) = Cat(Cat(Cat(i, n), w), o)
    BY DEF InTransit, Cat
  <2> HIDE DEF i, n, w, o
  <2>5. Cat(i, Cat(n, Cat(w, Cat(o, <<>>)))) = Cat(Cat(Cat(i, n), w), o)
    BY <2>2, CatLaws
  <2>6. log[e] = Cat(got[Peer(e)], InTransit(e))
    BY <2>1, <2>3, <2>4, <2>5
  <2> QED BY <2>6 DEF Cat
<1> QED BY <1>1, FlowHolds, TypeCorrect, PTL

\* poll_read reports no fatal error of wolfSSL unless the network corrupted a
\* byte: however the stream is chopped up, the record layer sees what the
\* other session produced.
THEOREM ReadsDoNotFail == Spec => []NoSpuriousFailure
<1>1. Init => NoSpuriousFailure
  BY DEF Init, NoSpuriousFailure
<1>2. TypeOK /\ TypeOK' /\ ControlInv /\ FlowInv /\ NoSpuriousFailure /\ [Next]_vars
        => NoSpuriousFailure'
  <2> SUFFICES ASSUME TypeOK, TypeOK', ControlInv, FlowInv, NoSpuriousFailure, [Next]_vars,
                      tampered' = 0, NEW e \in End, ended'[e] = "fatal"
               PROVE  FALSE
    BY DEF NoSpuriousFailure
  <2>1. tampered = 0
    <3>1. CASE UNCHANGED vars
      BY <3>1 DEF vars
    <3>2. ASSUME NEW x \in End, Step(x) PROVE tampered' = tampered
      BY <3>2 DEF Step, ReadStep, WriteStep, ReadBuffered, ReadSkipFill, ReadFill, ReadRecord,
         ReadTicket, ReadCloseNotify, ReadWantRead, ReadFatal, WriteRecord, WriteFatal,
         FlushNetOut, ShutdownSsl, ShutdownIo
    <3>3. ASSUME NEW x \in End, Drop(x) PROVE tampered' = tampered
      BY <3>3 DEF Drop
    <3>4. ASSUME NEW x \in End, Tamper(x) PROVE FALSE
      BY <3>4 DEF Tamper, TypeOK
    <3>5. ASSUME NEW t \in Task, Poll(t) \/ Cancel(t) \/ \E c \in Operation : Invoke(t, c)
          PROVE  tampered' = tampered
      BY <3>5 DEF Poll, Cancel, Invoke
    <3> QED BY <3>1, <3>2, <3>3, <3>4, <3>5 DEF Next
  <2>2. ended[e] # "fatal" /\ ended \in [End -> {"no", "eof", "unexpected_eof", "fatal"}]
    BY <2>1 DEF NoSpuriousFailure, TypeOK
  <2>3. ASSUME NEW x \in End, ReadStep(x) PROVE FALSE
    <3>1. CASE UNCHANGED ended
      BY <2>2, <3>1
    <3>2. CASE ended' = [ended EXCEPT ![x] = EofResult(x)] \/ ended' = [ended EXCEPT ![x] = "eof"]
      BY <2>2, <3>2 DEF EofResult
    <3>3. CASE ReadFatal(x)
      <4>1. ~dropped[x]
        BY <3>3, CallAtPlace DEF ReadFatal
      <4> QED BY <2>1, <3>3, <4>1, NextIsRecord DEF ReadFatal
    <3> QED
      BY <2>3, <3>1, <3>2, <3>3 DEF ReadStep, ReadBuffered, ReadSkipFill, ReadFill, ReadRecord,
         ReadTicket, ReadCloseNotify, ReadWantRead, Finish, ReturnEnd, session
  <2>4. CASE UNCHANGED ended
    BY <2>2, <2>4
  <2>5. (\E x \in End : ReadStep(x)) \/ UNCHANGED ended
    BY DEF Next, vars, Step, WriteStep, WriteRecord, WriteFatal, FlushNetOut,
       ShutdownSsl, ShutdownIo, Drop, Tamper, Poll, Cancel, Invoke, session
  <2> QED BY <2>3, <2>4, <2>5
<1> QED BY <1>1, <1>2, TypeCorrect, ControlHolds, FlowHolds, PTL DEF Spec

-----------------------------------------------------------------------------
(* The log, record by record.                                              *)

\* Where record b begins: the records before it are whole.
Off(b) == RecLen * b

\* The application records among the first a records of s.
DataIn(s, a) == Cardinality({b \in 0 .. a - 1 : s[Off(b) + 1][1] = "data"})

\* s consists of a records; the application records are numbered.
Shape(s, a) ==
  /\ Len(s) = Off(a)
  /\ \A i \in 1 .. Len(s) : \E b \in 0 .. a - 1 : i \in Off(b) + 1 .. Off(b) + RecLen
  /\ \A b \in 0 .. a - 1 : \E kind \in Kind, v \in Nat :
       /\ \A k \in 1 .. RecLen : s[Off(b) + k] = <<kind, v, k>>
       /\ kind = "data" => v = DataIn(s, b) + 1

\* No close_notify among the first a records of s.
Unclosed(s, a) == \A b \in 0 .. a - 1 : s[Off(b) + 1][1] # "close_notify"

\* The offsets of records.
LEMMA Multiples ==
  /\ RecLen \in Nat \ {0} /\ Off(0) = 0
  /\ \A a \in Nat : Off(a) \in Nat /\ Off(a + 1) = Off(a) + RecLen
<1>1. RecLen \in Nat \ {0}
  BY StreamAssumption
<1>2. RecLen * 0 = 0 /\ \A a \in Nat : RecLen * a \in Nat /\ RecLen * (a + 1) = RecLen * a + RecLen
  BY <1>1
<1> QED BY <1>1, <1>2 DEF Off

\* Records do not overlap.
LEMMA Before ==
  ASSUME NEW a \in Nat, NEW b \in Nat, b < a
  PROVE  Off(b) + RecLen <= Off(a)
<1>1. RecLen \in Nat \ {0}
  BY StreamAssumption
<1>2. RecLen * (a - b - 1) >= 0
  BY <1>1
<1>3. RecLen * (a - b - 1) = RecLen * a - RecLen * b - RecLen
  BY <1>1
<1>4. RecLen * a \in Int /\ RecLen * b \in Int
  BY <1>1
<1> QED BY <1>1, <1>2, <1>3, <1>4 DEF Off

\* The numbers of application records.
LEMMA DataFacts ==
  ASSUME NEW s
  PROVE  /\ DataIn(s, 0) = 0
         /\ \A a \in Nat :
              /\ DataIn(s, a) \in Nat
              /\ DataIn(s, a + 1) = IF s[Off(a) + 1][1] = "data" THEN DataIn(s, a) + 1 ELSE DataIn(s, a)
              /\ \A b \in 0 .. a : DataIn(s, b) <= DataIn(s, a)
<1> DEFINE S(a) == {b \in 0 .. a - 1 : s[Off(b) + 1][1] = "data"}
<1>1. S(0) = {}
  OBVIOUS
<1>2. ASSUME NEW a \in Nat PROVE IsFiniteSet(S(a)) /\ Cardinality(S(a)) \in Nat
  <2>1. IsFiniteSet(0 .. a - 1)
    BY FS_Interval
  <2>2. IsFiniteSet(S(a))
    BY <2>1, FS_Subset
  <2> QED BY <2>2, FS_CardinalityType
<1>3. ASSUME NEW a \in Nat
      PROVE  S(a + 1) = IF s[Off(a) + 1][1] = "data" THEN S(a) \cup {a} ELSE S(a)
  <2>1. \A k : k \in 0 .. (a + 1) - 1 <=> k \in 0 .. a - 1 \/ k = a
    OBVIOUS
  <2> QED BY <2>1
<1>4. \A a \in Nat : a \notin S(a)
  OBVIOUS
<1>5. \A a \in Nat : \A b \in 0 .. a : S(b) \subseteq S(a)
  OBVIOUS
<1>6. \A a \in Nat : DataIn(s, a) = Cardinality(S(a))
  BY DEF DataIn
<1> HIDE DEF S
<1>7. Cardinality(S(0)) = 0
  BY <1>1, FS_EmptySet
<1>8. ASSUME NEW a \in Nat
      PROVE  Cardinality(S(a + 1)) = IF s[Off(a) + 1][1] = "data" THEN Cardinality(S(a)) + 1 ELSE Cardinality(S(a))
  <2>1. IsFiniteSet(S(a)) /\ a \notin S(a)
    BY <1>2, <1>4
  <2>2. Cardinality(S(a) \cup {a}) = Cardinality(S(a)) + 1
    BY <2>1, FS_AddElement
  <2> QED BY <1>3, <2>2
<1>9. ASSUME NEW a \in Nat, NEW b \in 0 .. a PROVE Cardinality(S(b)) <= Cardinality(S(a))
  BY <1>2, <1>5, FS_Subset
<1> QED BY <1>2, <1>6, <1>7, <1>8, <1>9

\* A record is appended: those before it stay as they are.
LEMMA ShapeExtend ==
  ASSUME NEW s \in Seq(Byte), NEW a \in Nat, Shape(s, a), NEW kind \in Kind, NEW v \in Nat,
         kind = "data" => v = DataIn(s, a) + 1
  PROVE  LET s2 == s \o Encode(kind, v)
         IN /\ Shape(s2, a + 1) /\ Len(s2) = Len(s) + RecLen
            /\ \A b \in 0 .. a : DataIn(s2, b) = DataIn(s, b)
            /\ \A b \in 0 .. a - 1 : s2[Off(b) + 1] = s[Off(b) + 1]
            /\ s2[Off(a) + 1][1] = kind
<1> DEFINE r == Encode(kind, v)
           s2 == s \o r
<1>1. RecLen \in Nat \ {0} /\ Off(a) \in Nat /\ Off(a + 1) = Off(a) + RecLen /\ Len(s) = Off(a)
  BY Multiples DEF Shape
<1>2. r \in Seq(Byte) /\ Len(r) = RecLen /\ \A k \in 1 .. RecLen : r[k] = <<kind, v, k>>
  BY EncodeType DEF Encode
<1> HIDE DEF r
<1>3. /\ s2 \in Seq(Byte) /\ Len(s2) = Len(s) + RecLen
      /\ \A i \in 1 .. Len(s) + RecLen : s2[i] = IF i <= Len(s) THEN s[i] ELSE r[i - Len(s)]
  BY <1>2, ConcatProperties
<1> HIDE DEF s2
<1>4. \A i \in 1 .. Len(s) : s2[i] = s[i]
  BY <1>1, <1>3
<1>5. \A k \in 1 .. RecLen : s2[Off(a) + k] = <<kind, v, k>>
  <2> TAKE k \in 1 .. RecLen
  <2>1. Off(a) + k \in 1 .. Len(s) + RecLen /\ ~(Off(a) + k <= Len(s)) /\ (Off(a) + k) - Len(s) = k
    BY <1>1
  <2> QED BY <1>2, <1>3, <2>1
<1>6. ASSUME NEW b \in 0 .. a - 1, NEW k \in 1 .. RecLen
      PROVE  Off(b) + k \in 1 .. Len(s) /\ s2[Off(b) + k] = s[Off(b) + k]
  <2>1. b \in Nat /\ b < a
    OBVIOUS
  <2>2. Off(b) \in Nat
    BY <2>1, Multiples
  <2>3. Off(b) + RecLen <= Off(a)
    BY <2>1, Before
  <2>4. Off(b) + k \in 1 .. Len(s)
    BY <1>1, <2>2, <2>3
  <2> QED BY <1>4, <2>4
<1>7. ASSUME NEW b \in 0 .. a - 1 PROVE s2[Off(b) + 1] = s[Off(b) + 1]
  <2>1. 1 \in 1 .. RecLen
    BY <1>1
  <2> QED BY <1>6, <2>1
<1>8. ASSUME NEW b \in 0 .. a PROVE DataIn(s2, b) = DataIn(s, b)
  <2>1. {c \in 0 .. b - 1 : s2[Off(c) + 1][1] = "data"} = {c \in 0 .. b - 1 : s[Off(c) + 1][1] = "data"}
    BY <1>7
  <2> QED BY <2>1 DEF DataIn
<1>9. Shape(s2, a + 1)
  <2>1. Len(s2) = Off(a + 1)
    BY <1>1, <1>3
  <2>2. ASSUME NEW i \in 1 .. Len(s2)
        PROVE  \E b \in 0 .. (a + 1) - 1 : i \in Off(b) + 1 .. Off(b) + RecLen
    <3>1. CASE i <= Len(s)
      <4>1. i \in 1 .. Len(s)
        BY <1>1, <3>1
      <4>2. PICK b \in 0 .. a - 1 : i \in Off(b) + 1 .. Off(b) + RecLen
        BY <4>1 DEF Shape
      <4> QED BY <4>2
    <3>2. CASE i > Len(s)
      <4>1. i \in Off(a) + 1 .. Off(a) + RecLen
        BY <1>1, <1>3, <2>2, <3>2
      <4> QED BY <4>1
    <3> QED BY <1>1, <3>1, <3>2
  <2>3. ASSUME NEW b \in 0 .. (a + 1) - 1
        PROVE  \E kd \in Kind, w \in Nat : /\ \A k \in 1 .. RecLen : s2[Off(b) + k] = <<kd, w, k>>
                                           /\ kd = "data" => w = DataIn(s2, b) + 1
    <3>1. CASE b = a
      <4>1. DataIn(s2, a) = DataIn(s, a)
        BY <1>8
      <4>2. \A k \in 1 .. RecLen : s2[Off(b) + k] = <<kind, v, k>>
        BY <1>5, <3>1
      <4>3. kind = "data" => v = DataIn(s2, b) + 1
        BY <3>1, <4>1
      <4> QED BY <4>2, <4>3
    <3>2. CASE b # a
      <4>1. b \in 0 .. a - 1
        BY <3>2
      <4>2. PICK kd \in Kind, w \in Nat : /\ \A k \in 1 .. RecLen : s[Off(b) + k] = <<kd, w, k>>
                                          /\ kd = "data" => w = DataIn(s, b) + 1
        BY <4>1 DEF Shape
      <4>3. \A k \in 1 .. RecLen : s2[Off(b) + k] = <<kd, w, k>>
        BY <1>6, <4>1, <4>2
      <4>4. DataIn(s2, b) = DataIn(s, b)
        BY <1>8, <4>1
      <4> QED BY <4>2, <4>3, <4>4
    <3> QED BY <3>1, <3>2
  <2> QED BY <2>1, <2>2, <2>3 DEF Shape
<1>10. s2[Off(a) + 1][1] = kind
  BY <1>1, <1>5
<1> QED BY <1>3, <1>7, <1>8, <1>9, <1>10 DEF s2, r

-----------------------------------------------------------------------------
(* The order of poll_shutdown: notify, flush, shut the transport down.     *)

ShutAt(e) ==
  /\ at[e] \in {"sd_flush", "sd_io"} => shutdown_sent[e]
  /\ at[e] = "sd_io" => net_out[e] = <<>>
  /\ fin[e] /\ ~dropped[e] => shutdown_sent[e] /\ net_out[e] = <<>>

ShutInv == \A e \in End : ShutAt(e)

\* A step that fills no net_out that was flushed for good and closes nothing.
LEMMA ShutKept ==
  ASSUME ShutInv, UNCHANGED <<fin, dropped>>,
         \A e \in End : /\ at'[e] = at[e] \/ at'[e] \notin {"sd_flush", "sd_io"}
                        /\ shutdown_sent[e] => shutdown_sent'[e]
                        /\ shutdown_sent[e] /\ net_out[e] = <<>> => net_out'[e] = <<>>
  PROVE  ShutInv'
BY DEF ShutInv, ShutAt

\* Where the control goes that is not part of a shutdown.
LEMMA Elsewhere ==
  ASSUME TypeOK, NEW e \in End, NEW place, place \notin {"sd_flush", "sd_io"},
         Goto(e, place) \/ \E r : Return(e, r)
  PROVE  \A x \in End : at'[x] = at[x] \/ at'[x] \notin {"sd_flush", "sd_io"}
BY DEF TypeOK, Goto, Return

\* poll_read keeps the order of a shutdown.
LEMMA ShutRead ==
  ASSUME TypeOK, ShutInv, NEW e \in End, ReadStep(e)
  PROVE  ShutInv'
<1>1. CASE ReadTicket(e)
  BY <1>1, ShutKept DEF ReadTicket, control, transport
<1>2. CASE ~ReadTicket(e)
  <2>1. UNCHANGED <<fin, dropped, shutdown_sent, net_out>>
    BY <1>2 DEF ReadStep, ReadBuffered, ReadSkipFill, ReadFill, ReadRecord, ReadCloseNotify,
                ReadWantRead, ReadFatal, netVars, session, transport, buffers
  <2>2. \E place \in {"rd_ssl", "rd_flush", "rd_top", "idle"} : Goto(e, place) \/ \E r : Return(e, r)
    BY <1>2 DEF ReadStep, ReadBuffered, ReadSkipFill, ReadFill, ReadRecord, ReadCloseNotify,
                ReadWantRead, ReadFatal, Deliver, Finish, ReturnEnd, Yield
  <2> QED BY <2>1, <2>2, Elsewhere, ShutKept
<1> QED BY <1>1, <1>2

\* poll_write, poll_flush and poll_shutdown keep it.
LEMMA ShutWrite ==
  ASSUME TypeOK, ControlInv, CallsInv, ShutInv, NEW e \in End, WriteStep(e)
  PROVE  ShutInv'
<1>1. CASE WriteRecord(e)
  <2>1. ~shutdown_sent[e]
    BY <1>1, CallAtPlace DEF WriteRecord, CallsInv
  <2>2. /\ Goto(e, "wr_flush") /\ UNCHANGED <<fin, dropped, shutdown_sent>>
        /\ \A x \in End : x # e => net_out'[x] = net_out[x]
    BY <1>1 DEF WriteRecord, Produce, transport, session, TypeOK, NetTypeOK
  <2>3. \A x \in End : at'[x] = at[x] \/ at'[x] \notin {"sd_flush", "sd_io"}
    BY <2>2, Elsewhere
  <2> QED BY <2>1, <2>2, <2>3, ShutKept
<1>2. CASE WriteFatal(e)
  <2>1. \A x \in End : at'[x] = at[x] \/ at'[x] \notin {"sd_flush", "sd_io"}
    BY <1>2, Elsewhere DEF WriteFatal
  <2> QED BY <1>2, <2>1, ShutKept DEF WriteFatal, netVars, session
<1>3. CASE FlushNetOut(e)
  <2>1. UNCHANGED <<fin, dropped, shutdown_sent>>
    BY <1>3 DEF FlushNetOut, session, netVars, transport
  <2>2. ASSUME FlushChunk(e), UNCHANGED control PROVE ShutInv'
    <3>1. net_out[e] # <<>> /\ \A x \in End : x # e => net_out'[x] = net_out[x]
      BY <2>2 DEF FlushChunk, Flushed, TypeOK, NetTypeOK
    <3> QED BY <2>1, <2>2, <3>1, ShutKept DEF control
  <2>3. ASSUME UNCHANGED net_out, Goto(e, "rd_ssl") \/ Yield(e) \/ \E r : Return(e, r) PROVE ShutInv'
    <3>1. \A x \in End : at'[x] = at[x] \/ at'[x] \notin {"sd_flush", "sd_io"}
      BY <2>3, Elsewhere DEF Yield
    <3> QED BY <2>1, <2>3, <3>1, ShutKept
  <2>4. ASSUME UNCHANGED net_out, Flushed(e), at[e] = "sd_flush", Goto(e, "sd_io") PROVE ShutInv'
    <3>1. at'[e] = "sd_io" /\ shutdown_sent'[e] /\ net_out'[e] = <<>>
      BY <2>1, <2>4 DEF Goto, TypeOK, Flushed, ShutInv, ShutAt
    <3>2. \A x \in End : x # e => at'[x] = at[x]
      BY <2>4 DEF Goto, TypeOK
    <3> QED BY <2>1, <2>4, <3>1, <3>2 DEF ShutInv, ShutAt
  <2>5. \/ FlushChunk(e) /\ UNCHANGED control
        \/ UNCHANGED net_out /\ Flushed(e) /\ AfterFlush(e)
        \/ UNCHANGED net_out /\ BestEffort(e) /\ AfterFlush(e)
        \/ UNCHANGED net_out /\ (Yield(e) \/ Return(e, "broken_pipe"))
    BY <1>3 DEF FlushNetOut, netVars, buffers
  <2>6. ASSUME UNCHANGED net_out, BestEffort(e), AfterFlush(e) PROVE ShutInv'
    BY <2>3, <2>6 DEF BestEffort, AfterFlush
  <2>7. ASSUME UNCHANGED net_out, Flushed(e), AfterFlush(e) PROVE ShutInv'
    <3>1. at[e] \in FlushAt
      BY <1>3 DEF FlushNetOut
    <3> QED BY <2>3, <2>4, <2>7, <3>1 DEF FlushAt, AfterFlush
  <2> QED BY <2>2, <2>3, <2>5, <2>6, <2>7
<1>4. CASE ShutdownSsl(e)
  <2>1. /\ UNCHANGED <<fin, dropped>> /\ shutdown_sent'[e]
        /\ \A x \in End : x # e => /\ shutdown_sent'[x] = shutdown_sent[x]
                                   /\ net_out'[x] = net_out[x]
        /\ shutdown_sent[e] => net_out'[e] = net_out[e]
    BY <1>4 DEF ShutdownSsl, Produce, transport, MustNotify, TypeOK, NetTypeOK
  <2>2. \A x \in End : /\ x # e => at'[x] = at[x]
                       /\ at'[x] # "sd_io" \/ at'[x] = at[x]
    BY <1>4 DEF ShutdownSsl, Goto, Return, TypeOK
  <2>3. at[e] = "sd_ssl" /\ at'[e] # "sd_io"
    BY <1>4, <2>2 DEF ShutdownSsl
  <2>4. fin[e] /\ ~dropped[e] => net_out'[e] = <<>>
    BY <2>1 DEF ShutInv, ShutAt
  <2> QED BY <2>1, <2>2, <2>3, <2>4 DEF ShutInv, ShutAt
<1>5. CASE ShutdownIo(e)
  <2>1. /\ at[e] = "sd_io" /\ fin' = [fin EXCEPT ![e] = TRUE] /\ UNCHANGED <<dropped, net_out, shutdown_sent>>
        /\ Return(e, "ok")
    BY <1>5 DEF ShutdownIo, CloseWrite, buffers, session
  <2>2. /\ at'[e] = "idle" /\ \A x \in End : x # e => at'[x] = at[x] /\ fin'[x] = fin[x]
    BY <2>1 DEF Return, TypeOK, NetTypeOK
  <2> QED BY <2>1, <2>2 DEF ShutInv, ShutAt
<1> QED BY <1>1, <1>2, <1>3, <1>4, <1>5 DEF WriteStep

\* Drop, the network, the executor and the application keep it.
LEMMA ShutOutside ==
  ASSUME TypeOK, ShutInv,
         \/ \E e \in End : Drop(e) \/ Tamper(e)
         \/ \E t \in Task : Poll(t) \/ Cancel(t) \/ \E c \in Operation : Invoke(t, c)
  PROVE  ShutInv'
<1>1. ASSUME NEW e \in End, Drop(e) PROVE ShutInv'
  <2>1. /\ UNCHANGED <<at, shutdown_sent>> /\ net_out'[e] = <<>> /\ dropped'[e]
        /\ \A x \in End : x # e => /\ net_out'[x] = net_out[x] /\ fin'[x] = fin[x]
                                   /\ dropped'[x] = dropped[x]
    BY <1>1 DEF Drop, DropIo, session, control, TypeOK, NetTypeOK
  <2> QED BY <2>1 DEF ShutInv, ShutAt
<1>2. ASSUME NEW e \in End, Tamper(e) PROVE ShutInv'
  BY <1>2, ShutKept DEF Tamper, session, control, buffers
<1>3. ASSUME NEW t \in Task, Poll(t) PROVE ShutInv'
  <2>1. at' = [at EXCEPT ![EndOf(t)] = Entry(call[t])] /\ UNCHANGED <<fin, dropped, shutdown_sent, net_out>>
    BY <1>3 DEF Poll, netVars, session
  <2>2. call[t] \in Operation
    BY <1>3 DEF Poll, TypeOK
  <2>3. Entry(call[t]) \in {"rd_top", "wr_ssl", "fl_flush", "sd_ssl"}
    BY <2>2 DEF Operation, Entry
  <2>4. \A x \in End : at'[x] = at[x] \/ at'[x] = Entry(call[t])
    BY <2>1 DEF TypeOK
  <2> QED BY <2>1, <2>3, <2>4, ShutKept
<1>4. ASSUME NEW t \in Task, Cancel(t) \/ \E c \in Operation : Invoke(t, c) PROVE ShutInv'
  BY <1>4, ShutKept DEF Cancel, Invoke, netVars, transport, buffers, session
<1> QED BY <1>1, <1>2, <1>3, <1>4

\* The transport is shut down only once the close_notify and everything before
\* it has left net_out, however often poll_shutdown is suspended, cancelled and
\* called again, and nothing is put into net_out afterwards.
THEOREM CloseComesLast == Spec => []CloseAfterFlush
<1>1. Init => ShutInv
  <2> SUFFICES ASSUME Init, NEW e \in End PROVE ShutAt(e)
    BY DEF ShutInv
  <2>1. at[e] = "idle" /\ ~fin[e]
    BY DEF Init, NetInit
  <2> QED BY <2>1 DEF ShutAt
<1>2. TypeOK /\ ControlInv /\ CallsInv /\ ShutInv /\ [Next]_vars => ShutInv'
  <2> SUFFICES ASSUME TypeOK, ControlInv, CallsInv, ShutInv, [Next]_vars PROVE ShutInv'
    OBVIOUS
  <2>1. CASE UNCHANGED vars
    BY <2>1, ShutKept DEF vars, control, session
  <2>2. CASE Next
    BY <2>2, ShutOutside, ShutRead, ShutWrite DEF Next, Step
  <2> QED BY <2>1, <2>2
<1>3. ShutInv => CloseAfterFlush
  BY DEF ShutInv, ShutAt, CloseAfterFlush
<1> QED BY <1>1, <1>2, <1>3, TypeCorrect, ControlHolds, CallsHold, PTL DEF Spec

-----------------------------------------------------------------------------
(* What an endpoint has produced: whole records, the application records   *)
(* numbered as they were written, and nothing after a close_notify.        *)

Upto(n) == [i \in 1 .. n |-> i]

LogAt(e, a) ==
  /\ Shape(log[e], a)
  /\ Unclosed(log[e], a - 1)
  /\ ~shutdown_sent[e] /\ ~dropped[e] => Unclosed(log[e], a)
  /\ written[e] = Upto(DataIn(log[e], a))

LogInv == \A e \in End : \E a \in Nat : LogAt(e, a)

\* What was produced before stays as it is.
LogGrows ==
  \A e \in End : /\ Len(log[e]) <= Len(log'[e])
                 /\ \A b \in Nat : Off(b) <= Len(log[e]) => DataIn(log'[e], b) = DataIn(log[e], b)

\* The numbers up to n, and one more.
LEMMA UptoFacts ==
  ASSUME NEW n \in Nat
  PROVE  /\ Upto(n) \in Seq(Nat) /\ Len(Upto(n)) = n
         /\ \A i \in 1 .. n : Upto(n)[i] = i
         /\ Append(Upto(n), n + 1) = Upto(n + 1)
<1>1. Upto(n) \in Seq(Nat) /\ Len(Upto(n)) = n /\ \A i \in 1 .. n : Upto(n)[i] = i
  BY DEF Upto
<1>2. Upto(n + 1) \in Seq(Nat) /\ Len(Upto(n + 1)) = n + 1 /\ \A i \in 1 .. n + 1 : Upto(n + 1)[i] = i
  BY DEF Upto
<1>3. /\ Append(Upto(n), n + 1) \in Seq(Nat) /\ Len(Append(Upto(n), n + 1)) = n + 1
      /\ \A i \in 1 .. n : Append(Upto(n), n + 1)[i] = Upto(n)[i]
      /\ Append(Upto(n), n + 1)[n + 1] = n + 1
  BY <1>1, AppendProperties
<1>4. \A i \in 1 .. n + 1 : Append(Upto(n), n + 1)[i] = Upto(n + 1)[i]
  BY <1>1, <1>2, <1>3
<1>5. Append(Upto(n), n + 1) = Upto(n + 1)
  BY <1>2, <1>3, <1>4, SeqEqual
<1> QED BY <1>1, <1>5

\* A step that produces nothing and reopens nothing.
LEMMA LogSame ==
  ASSUME LogInv, UNCHANGED <<log, written>>,
         \A e \in End : ~shutdown_sent'[e] /\ ~dropped'[e] => ~shutdown_sent[e] /\ ~dropped[e]
  PROVE  LogInv' /\ LogGrows
<1>1. LogInv'
  <2> SUFFICES ASSUME NEW e \in End PROVE \E a \in Nat : LogAt(e, a)'
    BY DEF LogInv
  <2>1. PICK a \in Nat : LogAt(e, a)
    BY DEF LogInv
  <2> QED BY <2>1 DEF LogAt
<1>2. LogGrows
  <2> SUFFICES ASSUME NEW e \in End PROVE Len(log[e]) <= Len(log[e])
    BY DEF LogGrows
  <2>1. PICK a \in Nat : Len(log[e]) = Off(a)
    BY DEF LogInv, LogAt, Shape
  <2> QED BY <2>1, Multiples
<1> QED BY <1>1, <1>2

\* A record is appended to a log that has no close_notify.
LEMMA LogProduce ==
  ASSUME TypeOK, LogInv, NEW e \in End, ~shutdown_sent[e], ~dropped[e],
         NEW kind \in Kind, NEW v \in Nat,
         log' = [log EXCEPT ![e] = log[e] \o Encode(kind, v)],
         \A x \in End : x # e => shutdown_sent'[x] = shutdown_sent[x] /\ dropped'[x] = dropped[x],
         \/ /\ kind = "data" /\ v = Len(written[e]) + 1
            /\ written' = [written EXCEPT ![e] = Append(written[e], v)]
         \/ /\ kind = "close_notify" /\ UNCHANGED written
            /\ shutdown_sent'[e] \/ dropped'[e]
  PROVE  LogInv' /\ LogGrows
<1> DEFINE s == log[e]
           s2 == log[e] \o Encode(kind, v)
<1>1. s \in Seq(Byte)
  BY DEF TypeOK
<1>2. PICK a \in Nat : LogAt(e, a)
  BY DEF LogInv
<1>3. Shape(s, a) /\ Unclosed(s, a) /\ written[e] = Upto(DataIn(s, a))
  BY <1>2 DEF LogAt
<1>4. DataIn(s, a) \in Nat
  BY DataFacts
<1>5. Len(written[e]) = DataIn(s, a)
  BY <1>3, <1>4, UptoFacts
<1>6. kind = "data" => v = DataIn(s, a) + 1
  BY <1>5
<1>7. /\ Shape(s2, a + 1) /\ Len(s2) = Len(s) + RecLen
      /\ \A b \in 0 .. a : DataIn(s2, b) = DataIn(s, b)
      /\ \A b \in 0 .. a - 1 : s2[Off(b) + 1] = s[Off(b) + 1]
      /\ s2[Off(a) + 1][1] = kind
  BY <1>1, <1>3, <1>6, ShapeExtend, ZenonT(60)
<1>8. log'[e] = s2 /\ \A x \in End : x # e => log'[x] = log[x]
  BY DEF TypeOK
<1> HIDE DEF s2
<1>9. Unclosed(s2, (a + 1) - 1)
  BY <1>3, <1>7 DEF Unclosed
<1>10. DataIn(s2, a + 1) = IF kind = "data" THEN DataIn(s, a) + 1 ELSE DataIn(s, a)
  <2>1. DataIn(s2, a + 1) = IF s2[Off(a) + 1][1] = "data" THEN DataIn(s2, a) + 1 ELSE DataIn(s2, a)
    BY DataFacts
  <2>2. DataIn(s2, a) = DataIn(s, a)
    BY <1>7
  <2> QED BY <1>7, <2>1, <2>2
<1>11. written'[e] = Upto(DataIn(s2, a + 1))
  <2>1. CASE kind = "data"
    <3>1. written'[e] = Append(written[e], DataIn(s, a) + 1)
      BY <1>6, <2>1 DEF TypeOK
    <3>2. Append(Upto(DataIn(s, a)), DataIn(s, a) + 1) = Upto(DataIn(s, a) + 1)
      BY <1>4, UptoFacts
    <3> QED BY <1>3, <1>10, <2>1, <3>1, <3>2
  <2>2. CASE kind = "close_notify"
    BY <1>3, <1>10, <2>2
  <2> QED BY <2>1, <2>2
<1>12. ~shutdown_sent'[e] /\ ~dropped'[e] => Unclosed(s2, a + 1)
  <2> SUFFICES ASSUME kind = "data" PROVE Unclosed(s2, a + 1)
    OBVIOUS
  <2>1. ASSUME NEW b \in 0 .. (a + 1) - 1 PROVE s2[Off(b) + 1][1] # "close_notify"
    <3>1. CASE b = a
      BY <1>7, <3>1
    <3>2. CASE b \in 0 .. a - 1
      BY <1>3, <1>7, <3>2 DEF Unclosed
    <3> QED BY <2>1, <3>1, <3>2
  <2> QED BY <2>1 DEF Unclosed
<1>13. LogAt(e, a + 1)'
  BY <1>7, <1>8, <1>9, <1>11, <1>12 DEF LogAt
<1>14. ASSUME NEW x \in End, x # e PROVE \E c \in Nat : LogAt(x, c)'
  <2>1. PICK c \in Nat : LogAt(x, c)
    BY DEF LogInv
  <2>2. written'[x] = written[x] /\ log'[x] = log[x]
    BY <1>8, <1>14 DEF TypeOK
  <2> QED BY <1>14, <2>1, <2>2 DEF LogAt
<1>15. LogInv'
  BY <1>13, <1>14 DEF LogInv
<1>16. LogGrows
  <2>1. RecLen \in Nat /\ Len(s) = Off(a) /\ Off(a) \in Nat
    BY <1>3, Multiples DEF Shape
  <2>2. Len(s) <= Len(s2)
    BY <1>7, <2>1
  <2>3. ASSUME NEW b \in Nat, Off(b) <= Len(s) PROVE DataIn(s2, b) = DataIn(s, b)
    <3>1. b <= a
      <4> SUFFICES ASSUME a < b PROVE FALSE
        OBVIOUS
      <4>1. Off(a) + RecLen <= Off(b)
        BY Before
      <4>2. RecLen \in Nat \ {0} /\ Off(b) \in Nat
        BY Multiples
      <4> QED BY <2>1, <2>3, <4>1, <4>2
    <3> QED BY <1>7, <3>1
  <2>4. ASSUME NEW x \in End, x # e PROVE Len(log[x]) <= Len(log'[x])
    <3>1. log[x] \in Seq(Byte)
      BY DEF TypeOK
    <3> QED BY <1>8, <2>4, <3>1, LenProperties
  <2> QED BY <1>8, <2>2, <2>3, <2>4 DEF LogGrows
<1> QED BY <1>15, <1>16

\* After the handshake there are at most session tickets in the log.
LEMMA LogInit == Init => LogInv
<1> SUFFICES ASSUME Init, NEW e \in End PROVE \E a \in Nat : LogAt(e, a)
  BY DEF LogInv
<1>1. log[e] = InFlight(e) /\ written[e] = <<>>
  BY DEF Init
<1>2. /\ <<>> \in Seq(Byte) /\ Shape(<<>>, 0) /\ Upto(0) = <<>>
  <2>1. Len(<<>>) = Off(0)
    BY Multiples
  <2> QED BY <2>1, EmptySeq DEF Shape, Upto
<1>3. CASE ~Tickets[e]
  <2>1. log[e] = <<>> /\ DataIn(<<>>, 0) = 0 /\ Unclosed(<<>>, 0) /\ Unclosed(<<>>, 0 - 1)
    BY <1>1, <1>3, DataFacts DEF InFlight, Unclosed
  <2> QED BY <1>1, <1>2, <2>1 DEF LogAt
<1>4. CASE Tickets[e]
  <2> DEFINE s2 == <<>> \o Encode("ticket", 0)
  <2>1. "ticket" \in Kind /\ "ticket" # "data" /\ 0 \in Nat
    BY DEF Kind
  <2>2. /\ Shape(s2, 0 + 1) /\ \A b \in 0 .. 0 : DataIn(s2, b) = DataIn(<<>>, b)
        /\ s2[Off(0) + 1][1] = "ticket"
    BY <1>2, <2>1, ShapeExtend, ZenonT(60)
  <2>3. log[e] = s2
    <3>1. Encode("ticket", 0) \in Seq(Byte)
      BY <2>1, EncodeType
    <3> QED BY <1>1, <1>4, <3>1, ConcatEmptySeq DEF InFlight
  <2> HIDE DEF s2
  <2>4. DataIn(s2, 0 + 1) = 0
    <3>1. DataIn(s2, 0 + 1) = IF s2[Off(0) + 1][1] = "data" THEN DataIn(s2, 0) + 1 ELSE DataIn(s2, 0)
      BY DataFacts
    <3>2. DataIn(s2, 0) = 0
      BY DataFacts
    <3> QED BY <2>1, <2>2, <3>1, <3>2
  <2>5. Unclosed(s2, 1) /\ Unclosed(s2, 1 - 1)
    <3>1. \A b \in 0 .. 1 - 1 : b = 0
      OBVIOUS
    <3>2. s2[Off(0) + 1][1] # "close_notify"
      BY <2>2
    <3> QED BY <3>1, <3>2 DEF Unclosed
  <2>6. LogAt(e, 1)
    BY <1>1, <1>2, <2>2, <2>3, <2>4, <2>5 DEF LogAt
  <2> QED BY <2>6
<1> QED BY <1>3, <1>4

\* Only poll_write, the first poll_shutdown and Drop make wolfSSL produce records,
\* and none of them does after a close_notify.
LEMMA LogStep ==
  ASSUME TypeOK, ControlInv, CallsInv, LogInv, [Next]_vars
  PROVE  LogInv' /\ LogGrows
<1>1. ASSUME NEW e \in End, ReadStep(e) PROVE LogInv' /\ LogGrows
  <2>1. UNCHANGED <<log, written, shutdown_sent, dropped>>
    BY <1>1 DEF ReadStep, ReadBuffered, ReadSkipFill, ReadFill, ReadRecord, ReadTicket,
                ReadCloseNotify, ReadWantRead, ReadFatal, netVars, session, history, transport
  <2> QED BY <2>1, LogSame
<1>2. ASSUME NEW e \in End, WriteRecord(e) PROVE LogInv' /\ LogGrows
  <2> DEFINE v == Len(written[e]) + 1
  <2>1. ~shutdown_sent[e] /\ ~dropped[e]
    BY <1>2, CallAtPlace DEF WriteRecord, CallsInv
  <2>2. v \in Nat /\ "data" \in Kind
    BY LenProperties DEF TypeOK, Kind
  <2>3. /\ log' = [log EXCEPT ![e] = log[e] \o Encode("data", v)]
        /\ written' = [written EXCEPT ![e] = Append(written[e], v)]
        /\ UNCHANGED <<shutdown_sent, dropped>>
    BY <1>2 DEF WriteRecord, Produce, session, transport
  <2> HIDE DEF v
  <2>4. v = Len(written[e]) + 1
    BY DEF v
  <2> QED BY <2>1, <2>2, <2>3, <2>4, LogProduce
<1>3. ASSUME NEW e \in End, ShutdownSsl(e) PROVE LogInv' /\ LogGrows
  <2>1. /\ UNCHANGED <<written, dropped>> /\ shutdown_sent'[e]
        /\ \A x \in End : x # e => shutdown_sent'[x] = shutdown_sent[x]
    BY <1>3 DEF ShutdownSsl, transport, TypeOK
  <2>2. CASE ~shutdown_sent[e] /\ log' = [log EXCEPT ![e] = log[e] \o Encode("close_notify", 0)]
    <3>1. ~dropped[e]
      BY <1>3, CallAtPlace DEF ShutdownSsl
    <3>2. "close_notify" \in Kind /\ 0 \in Nat
      BY DEF Kind
    <3> QED BY <2>1, <2>2, <3>1, <3>2, LogProduce
  <2>3. CASE UNCHANGED log
    BY <2>1, <2>3, LogSame
  <2> QED BY <1>3, <2>2, <2>3 DEF ShutdownSsl, Produce, MustNotify
<1>4. ASSUME NEW e \in End, Drop(e) PROVE LogInv' /\ LogGrows
  <2>1. /\ UNCHANGED <<written, shutdown_sent>> /\ ~dropped[e] /\ dropped'[e]
        /\ \A x \in End : x # e => dropped'[x] = dropped[x]
    BY <1>4 DEF Drop, DropIo, session, TypeOK, NetTypeOK
  <2>2. CASE ~shutdown_sent[e] /\ log' = [log EXCEPT ![e] = log[e] \o Encode("close_notify", 0)]
    <3>1. "close_notify" \in Kind /\ 0 \in Nat
      BY DEF Kind
    <3> QED BY <2>1, <2>2, <3>1, LogProduce
  <2>3. CASE UNCHANGED log
    BY <2>1, <2>3, LogSame
  <2> QED BY <1>4, <2>2, <2>3 DEF Drop, MustNotify
<1>5. ASSUME NEW e \in End, WriteFatal(e) \/ FlushNetOut(e) \/ ShutdownIo(e) \/ Tamper(e)
      PROVE  LogInv' /\ LogGrows
  <2>1. UNCHANGED <<log, written, shutdown_sent, dropped>>
    BY <1>5 DEF WriteFatal, FlushNetOut, ShutdownIo, Tamper, netVars, session, history, transport
  <2> QED BY <2>1, LogSame
<1>6. ASSUME NEW t \in Task, Poll(t) \/ Cancel(t) \/ \E c \in Operation : Invoke(t, c)
      PROVE  LogInv' /\ LogGrows
  BY <1>6, LogSame DEF Poll, Cancel, Invoke, netVars, transport, session, history
<1>7. CASE UNCHANGED vars
  BY <1>7, LogSame DEF vars, session, history
<1> QED BY <1>1, <1>2, <1>3, <1>4, <1>5, <1>6, <1>7 DEF Next, Step, WriteStep

\* An endpoint produces one close_notify at most and nothing after it, although
\* poll_shutdown is polled again, cancelled and called again, and is followed by
\* Drop, and a write may be pending in the other half of a split.
THEOREM CloseNotifyIsLast == Spec => []CloseNotifyOnce
<1>1. TypeOK /\ ControlInv /\ CallsInv /\ LogInv /\ [Next]_vars => LogInv'
  BY LogStep
<1>2. TypeOK /\ LogInv => CloseNotifyOnce
  <2> SUFFICES ASSUME TypeOK, LogInv, NEW e \in End, NEW i \in DOMAIN log[e],
                      log[e][i][1] = "close_notify"
               PROVE  i > Len(log[e]) - RecLen
    BY DEF CloseNotifyOnce
  <2>1. PICK a \in Nat : Shape(log[e], a) /\ Unclosed(log[e], a - 1)
    BY DEF LogInv, LogAt
  <2>2. log[e] \in Seq(Byte) /\ i \in 1 .. Len(log[e]) /\ Len(log[e]) = Off(a)
    BY <2>1 DEF TypeOK, Shape
  <2>3. PICK b \in 0 .. a - 1 : i \in Off(b) + 1 .. Off(b) + RecLen
    BY <2>1, <2>2 DEF Shape
  <2>4. PICK kind \in Kind, v \in Nat : \A k \in 1 .. RecLen : log[e][Off(b) + k] = <<kind, v, k>>
    BY <2>1, <2>3 DEF Shape
  <2>5. RecLen \in Nat \ {0} /\ b \in Nat
    BY <2>3, Multiples
  <2>6. Off(b) \in Nat /\ Off(b + 1) = Off(b) + RecLen
    BY <2>5, Multiples
  <2>7. PICK k \in 1 .. RecLen : i = Off(b) + k
    <3>1. i - Off(b) \in 1 .. RecLen /\ i = Off(b) + (i - Off(b))
      BY <2>2, <2>3, <2>5, <2>6
    <3> QED BY <3>1
  <2>8. kind = "close_notify"
    BY <2>4, <2>7
  <2>9. 1 \in 1 .. RecLen
    BY <2>5
  <2>10. log[e][Off(b) + 1][1] = "close_notify"
    BY <2>4, <2>8, <2>9
  <2>11. ~(b \in 0 .. (a - 1) - 1)
    BY <2>1, <2>10 DEF Unclosed
  <2>12. a = b + 1
    BY <2>3, <2>5, <2>11
  <2> QED BY <2>2, <2>5, <2>6, <2>7, <2>12
<1> QED BY <1>1, <1>2, LogInit, TypeCorrect, ControlHolds, CallsHold, PTL DEF Spec

-----------------------------------------------------------------------------
(* No more bytes arrive than were produced, even on a network that         *)
(* corrupts them, and those of the close_notify that Drop produces do not. *)

\* The length of a sequence, as a name of its own: below, only sums of them matter.
Size(s) == Len(s)

Load(e) ==
  (Size(got[Peer(e)]) + Size(ssl_in[Peer(e)])) + (Size(net_in[Peer(e)]) + Size(wire[e]) + Size(net_out[e]))
Unsent(e) == IF dropped[e] /\ ~shutdown_sent[e] THEN RecLen ELSE 0

LenInv == \A e \in End : Load(e) + Unsent(e) <= Size(log[e])

\* The lengths of the buffers of one direction.
LEMMA LenTypes ==
  ASSUME TypeOK, NEW e \in End
  PROVE  /\ Size(got[Peer(e)]) \in Nat /\ Size(ssl_in[Peer(e)]) \in Nat
         /\ Size(net_in[Peer(e)]) \in Nat /\ Size(wire[e]) \in Nat
         /\ Size(net_out[e]) \in Nat /\ Size(log[e]) \in Nat
<1>1. \A s \in Seq(Byte) : Size(s) \in Nat
  BY LenProperties DEF Size
<1> QED BY <1>1, FlowTypes

\* The length of a concatenation.
LEMMA LenCat == \A a, b \in Seq(Byte) : Size(a \o b) = Size(a) + Size(b)
BY ConcatProperties DEF Size

\* A step that touches no buffer and closes nothing.
LEMMA LenSame ==
  ASSUME LenInv,
         UNCHANGED <<log, got, ssl_in, net_in, wire, net_out, dropped, shutdown_sent>>
  PROVE  LenInv'
BY DEF LenInv, Load, Unsent

\* fill_net_in and flush_net_out move bytes between neighbouring buffers.
LEMMA LenMove ==
  ASSUME TypeOK, TypeOK', LenInv, UNCHANGED <<log, got, ssl_in, dropped, shutdown_sent>>,
         \A e \in End :
           \/ /\ net_in'[Peer(e)] \o wire'[e] = net_in[Peer(e)] \o wire[e]
              /\ net_out'[e] = net_out[e]
           \/ /\ wire'[e] \o net_out'[e] = wire[e] \o net_out[e]
              /\ net_in'[Peer(e)] = net_in[Peer(e)]
  PROVE  LenInv'
<1> SUFFICES ASSUME NEW e \in End PROVE (Load(e) + Unsent(e) <= Size(log[e]))'
  BY DEF LenInv
<1>0. /\ Size(got[Peer(e)]) \in Nat /\ Size(ssl_in[Peer(e)]) \in Nat
      /\ Size(net_in[Peer(e)]) \in Nat /\ Size(wire[e]) \in Nat
      /\ Size(net_out[e]) \in Nat /\ Size(log[e]) \in Nat
  BY LenTypes
<1>1. /\ net_in[Peer(e)] \in Seq(Byte) /\ wire[e] \in Seq(Byte) /\ net_out[e] \in Seq(Byte)
      /\ net_in'[Peer(e)] \in Seq(Byte) /\ wire'[e] \in Seq(Byte) /\ net_out'[e] \in Seq(Byte)
  BY PeerOfEnd DEF TypeOK, NetTypeOK
<1>2. /\ Size(net_in'[Peer(e)]) \in Nat /\ Size(wire'[e]) \in Nat /\ Size(net_out'[e]) \in Nat
  BY <1>1, LenProperties DEF Size
<1>3. /\ Size(net_in'[Peer(e)] \o wire'[e]) = Size(net_in'[Peer(e)]) + Size(wire'[e])
      /\ Size(net_in[Peer(e)] \o wire[e]) = Size(net_in[Peer(e)]) + Size(wire[e])
      /\ Size(wire'[e] \o net_out'[e]) = Size(wire'[e]) + Size(net_out'[e])
      /\ Size(wire[e] \o net_out[e]) = Size(wire[e]) + Size(net_out[e])
  BY <1>1, LenCat
<1>4. Size(net_in'[Peer(e)]) + Size(wire'[e]) + Size(net_out'[e])
        = Size(net_in[Peer(e)]) + Size(wire[e]) + Size(net_out[e])
  <2>1. CASE /\ net_in'[Peer(e)] \o wire'[e] = net_in[Peer(e)] \o wire[e]
             /\ net_out'[e] = net_out[e]
    <3>1. /\ Size(net_in'[Peer(e)]) + Size(wire'[e]) = Size(net_in[Peer(e)]) + Size(wire[e])
          /\ Size(net_out'[e]) = Size(net_out[e])
      BY <1>3, <2>1
    <3> QED BY <1>0, <1>2, <3>1
  <2>2. CASE /\ wire'[e] \o net_out'[e] = wire[e] \o net_out[e]
             /\ net_in'[Peer(e)] = net_in[Peer(e)]
    <3>1. /\ Size(wire'[e]) + Size(net_out'[e]) = Size(wire[e]) + Size(net_out[e])
          /\ Size(net_in'[Peer(e)]) = Size(net_in[Peer(e)])
      BY <1>3, <2>2
    <3> QED BY <1>0, <1>2, <3>1, SMTT(30)
  <2> QED BY <2>1, <2>2
<1>5. Load(e)' = Load(e)
  BY <1>4 DEF Load
<1> QED BY <1>5 DEF LenInv, Unsent

\* What wolfSSL takes from its buffers it accepts, keeps or discards.
LEMMA LenTake ==
  ASSUME TypeOK, TypeOK', LenInv, NEW x \in End,
         Size(got'[x]) + Size(ssl_in'[x]) + Size(net_in'[x])
           <= Size(got[x]) + Size(ssl_in[x]) + Size(net_in[x]),
         \A y \in End : y # x => got'[y] = got[y] /\ ssl_in'[y] = ssl_in[y] /\ net_in'[y] = net_in[y],
         UNCHANGED <<log, wire, net_out, dropped, shutdown_sent>>
  PROVE  LenInv'
<1> SUFFICES ASSUME NEW e \in End PROVE (Load(e) + Unsent(e) <= Size(log[e]))'
  BY DEF LenInv
<1>0. /\ Size(got[Peer(e)]) \in Nat /\ Size(ssl_in[Peer(e)]) \in Nat
      /\ Size(net_in[Peer(e)]) \in Nat /\ Size(wire[e]) \in Nat
      /\ Size(net_out[e]) \in Nat /\ Size(log[e]) \in Nat
  BY LenTypes
<1>1. /\ Size(got'[Peer(e)]) \in Nat /\ Size(ssl_in'[Peer(e)]) \in Nat /\ Size(net_in'[Peer(e)]) \in Nat
  <2>1. /\ got'[Peer(e)] \in Seq(Byte) /\ ssl_in'[Peer(e)] \in Seq(Byte)
        /\ net_in'[Peer(e)] \in Seq(Byte)
    BY PeerOfEnd DEF TypeOK, NetTypeOK
  <2> QED BY <2>1, LenProperties DEF Size
<1>2. Size(got'[Peer(e)]) + Size(ssl_in'[Peer(e)]) + Size(net_in'[Peer(e)])
        <= Size(got[Peer(e)]) + Size(ssl_in[Peer(e)]) + Size(net_in[Peer(e)])
  <2>1. CASE Peer(e) = x
    BY <2>1
  <2>2. CASE Peer(e) # x
    <3>1. /\ got'[Peer(e)] = got[Peer(e)] /\ ssl_in'[Peer(e)] = ssl_in[Peer(e)]
          /\ net_in'[Peer(e)] = net_in[Peer(e)]
      BY <2>2, PeerOfEnd
    <3> QED BY <1>0, <3>1
  <2> QED BY <2>1, <2>2
<1>3. Load(e)' <= Load(e) /\ Load(e)' \in Nat /\ Load(e) \in Nat
  BY <1>0, <1>1, <1>2 DEF Load
<1>4. Unsent(e)' = Unsent(e) /\ Unsent(e) \in Nat
  BY StreamAssumption DEF Unsent
<1>5. Load(e) + Unsent(e) <= Size(log[e])
  BY DEF LenInv
<1> QED BY <1>0, <1>3, <1>4, <1>5

\* A record is produced at an endpoint that is in use.
LEMMA LenProduce ==
  ASSUME TypeOK, LenInv, NEW x \in End, ~dropped[x], NEW kind \in Kind, NEW v \in Nat,
         Produce(x, kind, v), UNCHANGED <<got, ssl_in, net_in, wire, dropped>>,
         \A y \in End : y # x => shutdown_sent'[y] = shutdown_sent[y]
  PROVE  LenInv'
<1> SUFFICES ASSUME NEW e \in End PROVE (Load(e) + Unsent(e) <= Size(log[e]))'
  BY DEF LenInv
<1>0. /\ Size(got[Peer(e)]) \in Nat /\ Size(ssl_in[Peer(e)]) \in Nat
      /\ Size(net_in[Peer(e)]) \in Nat /\ Size(wire[e]) \in Nat
      /\ Size(net_out[e]) \in Nat /\ Size(log[e]) \in Nat
  BY LenTypes
<1>1. RecLen \in Nat /\ Encode(kind, v) \in Seq(Byte) /\ Size(Encode(kind, v)) = RecLen
  BY EncodeType, StreamAssumption DEF Size
<1>2. Load(e) + Unsent(e) <= Size(log[e])
  BY DEF LenInv
<1>3. CASE e = x
  <2>1. net_out'[x] = net_out[x] \o Encode(kind, v) /\ log'[x] = log[x] \o Encode(kind, v)
    BY DEF Produce, TypeOK, NetTypeOK
  <2>2. net_out[x] \in Seq(Byte) /\ log[x] \in Seq(Byte)
    BY FlowTypes
  <2>3. Size(net_out'[x]) = Size(net_out[x]) + RecLen /\ Size(log'[x]) = Size(log[x]) + RecLen
    BY <1>1, <2>1, <2>2, LenCat
  <2>4. Unsent(x) = 0 /\ Unsent(x)' = 0
    BY DEF Unsent
  <2>5. Load(x)' = Load(x) + RecLen /\ Load(x) \in Nat
    <3>1. Load(x)' = (Size(got[Peer(x)]) + Size(ssl_in[Peer(x)]))
                       + (Size(net_in[Peer(x)]) + Size(wire[x]) + (Size(net_out[x]) + RecLen))
      BY <2>3 DEF Load
    <3> QED BY <1>0, <1>1, <1>3, <3>1 DEF Load
  <2> QED BY <1>1, <1>2, <1>3, <2>3, <2>4, <2>5, <1>0
<1>4. CASE e # x
  <2>1. net_out'[e] = net_out[e] /\ log'[e] = log[e]
    BY <1>4 DEF Produce, TypeOK, NetTypeOK
  <2>2. Load(e)' = Load(e) /\ Unsent(e)' = Unsent(e)
    BY <1>4, <2>1 DEF Load, Unsent
  <2> QED BY <1>2, <2>1, <2>2
<1> QED BY <1>3, <1>4

\* Drop loses net_out, and the close_notify it produces goes nowhere.
LEMMA LenDrop ==
  ASSUME TypeOK, LenInv, NEW x \in End, Drop(x)
  PROVE  LenInv'
<1> SUFFICES ASSUME NEW e \in End PROVE (Load(e) + Unsent(e) <= Size(log[e]))'
  BY DEF LenInv
<1>0. /\ Size(got[Peer(e)]) \in Nat /\ Size(ssl_in[Peer(e)]) \in Nat
      /\ Size(net_in[Peer(e)]) \in Nat /\ Size(wire[e]) \in Nat
      /\ Size(net_out[e]) \in Nat /\ Size(log[e]) \in Nat
  BY LenTypes
<1>1. /\ UNCHANGED <<got, ssl_in, wire, shutdown_sent>> /\ ~dropped[x]
      /\ dropped' = [dropped EXCEPT ![x] = TRUE] /\ net_in' = [net_in EXCEPT ![x] = <<>>]
      /\ net_out' = [net_out EXCEPT ![x] = <<>>]
  BY DEF Drop, DropIo, session
<1>2. /\ Load(e) + Unsent(e) <= Size(log[e])
      /\ Load(e) \in Nat /\ Size(log[e]) \in Nat /\ RecLen \in Nat
  BY <1>0, StreamAssumption DEF LenInv, Load
<1>3. /\ net_in'[Peer(e)] = net_in[Peer(e)] \/ net_in'[Peer(e)] = <<>>
      /\ net_out'[e] = net_out[e] \/ net_out'[e] = <<>>
  BY <1>1, PeerOfEnd DEF TypeOK, NetTypeOK
<1>8. Size(<<>>) = 0
  BY DEF Size
<1>4. /\ Size(net_in'[Peer(e)]) \in Nat /\ Size(net_in'[Peer(e)]) <= Size(net_in[Peer(e)])
      /\ Size(net_out'[e]) \in Nat /\ Size(net_out'[e]) <= Size(net_out[e])
  BY <1>0, <1>3, <1>8
<1>5. Load(e)' <= Load(e) /\ Load(e)' \in Nat
  BY <1>0, <1>1, <1>4, SMTT(30) DEF Load
<1>6. CASE e = x
  <2>1. Unsent(x) = 0
    BY <1>1 DEF Unsent
  <2>2. CASE shutdown_sent[x]
    <3>1. log' = log /\ Unsent(x)' = 0
      BY <1>1, <2>2 DEF Drop, MustNotify, Unsent
    <3> QED BY <1>2, <1>5, <1>6, <2>1, <3>1
  <2>3. CASE ~shutdown_sent[x]
    <3>1. log'[x] = log[x] \o Encode("close_notify", 0)
      BY <2>3 DEF Drop, MustNotify, TypeOK
    <3>2. Encode("close_notify", 0) \in Seq(Byte) /\ Size(Encode("close_notify", 0)) = RecLen
      BY EncodeType DEF Kind, Size
    <3>3. Size(log'[x]) = Size(log[x]) + RecLen
      <4>1. log[x] \in Seq(Byte)
        BY DEF TypeOK
      <4> QED BY <3>1, <3>2, <4>1, LenCat
    <3>4. Unsent(x)' = RecLen
      <4>1. dropped'[x] /\ ~shutdown_sent'[x]
        BY <1>1, <2>3 DEF TypeOK, NetTypeOK
      <4> QED BY <4>1 DEF Unsent
    <3> QED BY <1>2, <1>5, <1>6, <2>1, <3>3, <3>4
  <2> QED BY <2>2, <2>3
<1>7. CASE e # x
  <2>1. log'[e] = log[e]
    BY <1>7 DEF Drop, TypeOK
  <2>2. dropped'[e] = dropped[e]
    BY <1>1, <1>7 DEF TypeOK, NetTypeOK
  <2>3. Unsent(e)' = Unsent(e) /\ Unsent(e) \in Nat
    BY <1>1, <1>2, <2>2 DEF Unsent
  <2> QED BY <1>2, <1>5, <2>1, <2>3
<1> QED BY <1>6, <1>7

\* The network changes bytes, not how many there are.
LEMMA LenTamper ==
  ASSUME TypeOK, LenInv, NEW x \in End, Tamper(x)
  PROVE  LenInv'
<1>1. UNCHANGED <<log, got, ssl_in, net_in, net_out, dropped, shutdown_sent>>
  BY DEF Tamper, session, history, buffers
<1>2. PICK i \in DOMAIN wire[x] : wire' = [wire EXCEPT ![x] = [wire[x] EXCEPT ![i] = Garbage]]
  BY DEF Tamper
<1>3. wire \in [End -> Seq(Byte)] /\ wire[x] \in Seq(Byte)
  BY DEF TypeOK, NetTypeOK
<1>4. Size(wire'[x]) = Size(wire[x])
  <2>1. [wire[x] EXCEPT ![i] = Garbage] \in Seq(Byte)
    BY <1>2, <1>3, ExceptSeq DEF Byte
  <2>2. Len([wire[x] EXCEPT ![i] = Garbage]) = Len(wire[x])
    BY <1>2, <1>3, ExceptSeq DEF Byte
  <2>3. wire'[x] = [wire[x] EXCEPT ![i] = Garbage]
    BY <1>2, <1>3
  <2> QED BY <2>2, <2>3 DEF Size
<1>5. \A e \in End : Size(wire'[e]) = Size(wire[e])
  BY <1>2, <1>3, <1>4
<1> QED BY <1>1, <1>5 DEF LenInv, Load, Unsent

\* What a record taken from the buffers leaves there.
LEMMA SizeTaken ==
  ASSUME TypeOK, NEW x \in End, HasRecord(x), TakeRecord(x)
  PROVE  /\ Size(ssl_in[x]) + Size(net_in[x]) = RecLen + (Size(ssl_in'[x]) + Size(net_in'[x]))
         /\ \A y \in End : y # x => ssl_in'[y] = ssl_in[y] /\ net_in'[y] = net_in[y]
<1> DEFINE m == SubSeq(Held(x), RecLen + 1, Len(Held(x)))
<1>1. /\ Record(x) \in Seq(Byte) /\ Len(Record(x)) = RecLen /\ m \in Seq(Byte)
      /\ Record(x) \o m = Held(x)
  BY RecordType
<1>2. ssl_in[x] \in Seq(Byte) /\ net_in[x] \in Seq(Byte)
  BY DEF TypeOK, NetTypeOK
<1>3. /\ ssl_in'[x] = <<>> /\ net_in'[x] = m
      /\ \A y \in End : y # x => ssl_in'[y] = ssl_in[y] /\ net_in'[y] = net_in[y]
  BY DEF TakeRecord, TypeOK, NetTypeOK
<1> HIDE DEF m
<1>4. Size(Held(x)) = Size(ssl_in[x]) + Size(net_in[x])
  BY <1>2, LenCat DEF Held
<1>5. Size(Record(x) \o m) = Size(Record(x)) + Size(m) /\ Size(Record(x)) = RecLen /\ Size(<<>>) = 0
  BY <1>1, LenCat DEF Size
<1>6. Size(m) \in Nat
  BY <1>1, LenProperties DEF Size
<1>7. Size(ssl_in[x]) + Size(net_in[x]) = RecLen + Size(m)
  BY <1>1, <1>4, <1>5
<1>8. Size(ssl_in'[x]) + Size(net_in'[x]) = Size(m)
  BY <1>3, <1>5, <1>6
<1> QED BY <1>3, <1>7, <1>8

\* A record that is accepted moves from the buffers to what was accepted.
LEMMA LenAccept ==
  ASSUME TypeOK, TypeOK', LenInv, NEW x \in End, NEW kind, Accept(x, kind),
         UNCHANGED <<log, wire, net_out, dropped, shutdown_sent>>
  PROVE  LenInv'
<1>1. HasRecord(x) /\ TakeRecord(x) /\ got' = [got EXCEPT ![x] = got[x] \o Record(x)]
  BY DEF Accept
<1>2. got'[x] = got[x] \o Record(x) /\ \A y \in End : y # x => got'[y] = got[y]
  BY <1>1 DEF TypeOK
<1>3. got[x] \in Seq(Byte) /\ Record(x) \in Seq(Byte) /\ Size(Record(x)) = RecLen
  BY <1>1, RecordType DEF TypeOK, Size
<1>4. Size(got'[x]) = Size(got[x]) + RecLen
  BY <1>2, <1>3, LenCat
<1>5. /\ Size(ssl_in[x]) + Size(net_in[x]) = RecLen + (Size(ssl_in'[x]) + Size(net_in'[x]))
      /\ \A y \in End : y # x => ssl_in'[y] = ssl_in[y] /\ net_in'[y] = net_in[y]
  BY <1>1, SizeTaken
<1>6. /\ Size(got[x]) \in Nat /\ Size(ssl_in[x]) \in Nat /\ Size(net_in[x]) \in Nat /\ RecLen \in Nat
      /\ Size(ssl_in'[x]) \in Nat /\ Size(net_in'[x]) \in Nat
  <2>1. /\ ssl_in[x] \in Seq(Byte) /\ net_in[x] \in Seq(Byte)
        /\ ssl_in'[x] \in Seq(Byte) /\ net_in'[x] \in Seq(Byte)
    BY DEF TypeOK, NetTypeOK
  <2> QED BY <1>3, <2>1, LenProperties, StreamAssumption DEF Size
<1>7. Size(got'[x]) + Size(ssl_in'[x]) + Size(net_in'[x]) <= Size(got[x]) + Size(ssl_in[x]) + Size(net_in[x])
  BY <1>4, <1>5, <1>6
<1> QED BY <1>2, <1>5, <1>7, LenTake

\* poll_read takes no more bytes than there are.
LEMMA LenRead ==
  ASSUME TypeOK, TypeOK', LenInv, NEW x \in End, ReadStep(x)
  PROVE  LenInv'
<1>1. CASE ReadBuffered(x) \/ ReadSkipFill(x)
  BY <1>1, LenSame DEF ReadBuffered, ReadSkipFill, netVars, session, history
<1>2. CASE ReadFill(x)
  <2>1. UNCHANGED <<log, got, ssl_in, shutdown_sent>>
    BY <1>2 DEF ReadFill, history
  <2>2. CASE FillReady(x) /\ UNCHANGED <<fin, dropped, rwaker, net_out>>
    <3>1. \A e \in End : net_in'[Peer(e)] \o wire'[e] = net_in[Peer(e)] \o wire[e]
      BY <2>2, FillReadyStep DEF TypeOK
    <3> QED BY <2>1, <2>2, <3>1, LenMove
  <2>3. CASE UNCHANGED <<transport, buffers>> \/ UNCHANGED netVars
    BY <2>1, <2>3, LenSame DEF transport, buffers, netVars
  <2> QED BY <1>2, <2>2, <2>3 DEF ReadFill
<1>3. CASE ReadRecord(x) \/ ReadTicket(x) \/ ReadCloseNotify(x)
  BY <1>3, LenAccept DEF ReadRecord, ReadTicket, ReadCloseNotify, transport
<1>4. CASE ReadWantRead(x)
  <2>1. UNCHANGED <<log, got, wire, net_out, dropped, shutdown_sent>>
    BY <1>4 DEF ReadWantRead, transport
  <2>2. /\ ssl_in'[x] = Held(x) /\ net_in'[x] = <<>>
        /\ \A y \in End : y # x => ssl_in'[y] = ssl_in[y] /\ net_in'[y] = net_in[y]
    BY <1>4 DEF ReadWantRead, TypeOK, NetTypeOK
  <2>3. ssl_in[x] \in Seq(Byte) /\ net_in[x] \in Seq(Byte) /\ got[x] \in Seq(Byte)
    BY DEF TypeOK, NetTypeOK
  <2>4. /\ Size(Held(x)) = Size(ssl_in[x]) + Size(net_in[x]) /\ Size(<<>>) = 0
        /\ Size(ssl_in[x]) \in Nat /\ Size(net_in[x]) \in Nat /\ Size(got[x]) \in Nat
    <3>1. Size(Held(x)) = Size(ssl_in[x]) + Size(net_in[x])
      BY <2>3, LenCat DEF Held
    <3> QED BY <2>3, <3>1, LenProperties DEF Size
  <2>5. Size(got'[x]) + Size(ssl_in'[x]) + Size(net_in'[x])
          <= Size(got[x]) + Size(ssl_in[x]) + Size(net_in[x])
    BY <2>1, <2>2, <2>4
  <2> QED BY <2>1, <2>2, <2>5, LenTake
<1>5. CASE ReadFatal(x)
  <2>1. /\ UNCHANGED <<log, got, wire, net_out, dropped, shutdown_sent>>
        /\ HasRecord(x) /\ TakeRecord(x)
    BY <1>5 DEF ReadFatal, transport, history
  <2>2. /\ Size(ssl_in[x]) + Size(net_in[x]) = RecLen + (Size(ssl_in'[x]) + Size(net_in'[x]))
        /\ \A y \in End : y # x => ssl_in'[y] = ssl_in[y] /\ net_in'[y] = net_in[y]
    BY <2>1, SizeTaken
  <2>3. /\ Size(got[x]) \in Nat /\ Size(ssl_in[x]) \in Nat /\ Size(net_in[x]) \in Nat /\ RecLen \in Nat
        /\ Size(ssl_in'[x]) \in Nat /\ Size(net_in'[x]) \in Nat
    <3>1. /\ ssl_in[x] \in Seq(Byte) /\ net_in[x] \in Seq(Byte) /\ got[x] \in Seq(Byte)
          /\ ssl_in'[x] \in Seq(Byte) /\ net_in'[x] \in Seq(Byte)
      BY DEF TypeOK, NetTypeOK
    <3> QED BY <3>1, LenProperties, StreamAssumption DEF Size
  <2>4. Size(got'[x]) + Size(ssl_in'[x]) + Size(net_in'[x])
          <= Size(got[x]) + Size(ssl_in[x]) + Size(net_in[x])
    BY <2>1, <2>2, <2>3
  <2> QED BY <2>1, <2>2, <2>4, LenTake
<1> QED BY <1>1, <1>2, <1>3, <1>4, <1>5 DEF ReadStep

\* poll_write, poll_flush and poll_shutdown send no more bytes than there are.
LEMMA LenWrite ==
  ASSUME TypeOK, TypeOK', ControlInv, LenInv, NEW x \in End, WriteStep(x)
  PROVE  LenInv'
<1>1. CASE WriteRecord(x)
  <2>1. ~dropped[x] /\ UNCHANGED <<got, ssl_in, net_in, wire, dropped, shutdown_sent>>
    BY <1>1, CallAtPlace DEF WriteRecord, transport, session
  <2>2. Len(written[x]) + 1 \in Nat /\ "data" \in Kind
    BY LenProperties DEF TypeOK, Kind
  <2>3. Produce(x, "data", Len(written[x]) + 1)
    BY <1>1 DEF WriteRecord
  <2> QED BY <2>1, <2>2, <2>3, LenProduce
<1>2. CASE WriteFatal(x) \/ ShutdownIo(x)
  BY <1>2, LenSame DEF WriteFatal, ShutdownIo, netVars, buffers, session, history
<1>3. CASE FlushNetOut(x)
  <2>1. UNCHANGED <<log, got, ssl_in, shutdown_sent>>
    BY <1>3 DEF FlushNetOut, session, history
  <2>2. CASE FlushChunk(x) /\ UNCHANGED <<fin, dropped, wwaker, net_in>>
    <3>1. \A e \in End : wire'[e] \o net_out'[e] = wire[e] \o net_out[e]
      BY <2>2, FlushChunkStep DEF TypeOK
    <3> QED BY <2>1, <2>2, <3>1, LenMove
  <2>3. CASE UNCHANGED <<transport, buffers>> \/ UNCHANGED netVars
    BY <2>1, <2>3, LenSame DEF transport, buffers, netVars
  <2> QED BY <1>3, <2>2, <2>3 DEF FlushNetOut
<1>4. CASE ShutdownSsl(x)
  <2>1. /\ ~dropped[x] /\ UNCHANGED <<got, ssl_in, net_in, wire, dropped>>
        /\ \A y \in End : y # x => shutdown_sent'[y] = shutdown_sent[y]
    BY <1>4, CallAtPlace DEF ShutdownSsl, transport, TypeOK
  <2>2. CASE Produce(x, "close_notify", 0)
    BY <2>1, <2>2, LenProduce DEF Kind
  <2>3. CASE UNCHANGED <<net_out, log>>
    <3>1. \A e \in End : Load(e)' = Load(e) /\ Unsent(e)' = Unsent(e)
      BY <2>1, <2>3 DEF Load, Unsent
    <3> QED BY <2>3, <3>1 DEF LenInv
  <2> QED BY <1>4, <2>2, <2>3 DEF ShutdownSsl
<1> QED BY <1>1, <1>2, <1>3, <1>4 DEF WriteStep

\* Every step keeps the balance of the bytes.
LEMMA LenStep ==
  ASSUME TypeOK, TypeOK', ControlInv, LenInv, [Next]_vars
  PROVE  LenInv'
<1>1. ASSUME NEW t \in Task, Poll(t) \/ Cancel(t) \/ \E c \in Operation : Invoke(t, c)
      PROVE  LenInv'
  BY <1>1, LenSame DEF Poll, Cancel, Invoke, netVars, transport, buffers, session, history
<1>2. CASE UNCHANGED vars
  BY <1>2, LenSame DEF vars, session, history
<1> QED BY <1>1, <1>2, LenRead, LenWrite, LenDrop, LenTamper DEF Next, Step

\* The session tickets in flight after the handshake are all there is.
LEMMA LenInit == Init => LenInv
<1> SUFFICES ASSUME Init, NEW e \in End PROVE Load(e) + Unsent(e) <= Size(log[e])
  BY DEF LenInv
<1>1. TypeOK
  BY InitType
<1>2. FlowInv
  BY FlowInit
<1>3. tampered = 0 /\ \A x \in End : ~dropped[x]
  BY DEF Init, NetInit
<1>4. log[e] = Cat(got[Peer(e)], Way(e, <<>>))
  BY <1>2, <1>3, PeerOfEnd DEF FlowInv, Flow
<1>5. /\ log[e] \in Seq(Byte) /\ got[Peer(e)] \in Seq(Byte)
      /\ ssl_in[Peer(e)] \in Seq(Byte) /\ net_in[Peer(e)] \in Seq(Byte)
      /\ wire[e] \in Seq(Byte) /\ net_out[e] \in Seq(Byte)
  BY <1>1, FlowTypes
<1>6. \A a, b \in Seq(Byte) : Cat(a, b) \in Seq(Byte) /\ Size(Cat(a, b)) = Size(a) + Size(b)
  BY CatLaws, LenCat DEF Cat
<1>7. Cat(net_out[e], <<>>) = net_out[e]
  BY <1>5, CatLaws
<1>8. log[e] = Cat(got[Peer(e)], Cat(ssl_in[Peer(e)], Cat(net_in[Peer(e)], Cat(wire[e], net_out[e]))))
  BY <1>4, <1>7 DEF Way
<1>9. Size(log[e]) = Size(got[Peer(e)]) + (Size(ssl_in[Peer(e)]) + (Size(net_in[Peer(e)])
                       + (Size(wire[e]) + Size(net_out[e]))))
  <2>1. /\ Cat(wire[e], net_out[e]) \in Seq(Byte)
        /\ Size(Cat(wire[e], net_out[e])) = Size(wire[e]) + Size(net_out[e])
    BY <1>5, <1>6
  <2>2. /\ Cat(net_in[Peer(e)], Cat(wire[e], net_out[e])) \in Seq(Byte)
        /\ Size(Cat(net_in[Peer(e)], Cat(wire[e], net_out[e])))
             = Size(net_in[Peer(e)]) + Size(Cat(wire[e], net_out[e]))
    BY <1>5, <1>6, <2>1
  <2>3. /\ Cat(ssl_in[Peer(e)], Cat(net_in[Peer(e)], Cat(wire[e], net_out[e]))) \in Seq(Byte)
        /\ Size(Cat(ssl_in[Peer(e)], Cat(net_in[Peer(e)], Cat(wire[e], net_out[e]))))
             = Size(ssl_in[Peer(e)]) + Size(Cat(net_in[Peer(e)], Cat(wire[e], net_out[e])))
    BY <1>5, <1>6, <2>2
  <2>4. Size(log[e]) = Size(got[Peer(e)])
          + Size(Cat(ssl_in[Peer(e)], Cat(net_in[Peer(e)], Cat(wire[e], net_out[e]))))
    BY <1>5, <1>6, <1>8, <2>3, SMTT(30)
  <2> QED BY <2>1, <2>2, <2>3, <2>4
<1>10. Unsent(e) = 0
  BY <1>3 DEF Unsent
<1>11. /\ Size(got[Peer(e)]) \in Nat /\ Size(ssl_in[Peer(e)]) \in Nat /\ Size(net_in[Peer(e)]) \in Nat
       /\ Size(wire[e]) \in Nat /\ Size(net_out[e]) \in Nat
  BY <1>1, LenTypes
<1> QED BY <1>9, <1>10, <1>11 DEF Load

-----------------------------------------------------------------------------
(* What the caller gets: the application records of the accepted part of   *)
(* the peer's log, in order, handed out or still in read_buf.              *)

ReadAt(x, b) ==
  /\ Size(got[x]) = Off(b)
  /\ delivered[x] \o read_buf[x] = Upto(DataIn(log[Peer(x)], b))

ReadInv == \A x \in End : \E b \in Nat : ReadAt(x, b)

\* What was accepted is part of what was produced.
LEMMA GotIsProduced ==
  ASSUME TypeOK, LenInv, NEW x \in End, NEW b \in Nat, ReadAt(x, b)
  PROVE  /\ Off(b) <= Len(log[Peer(x)]) /\ Len(log[Peer(x)]) \in Nat
         /\ HasRecord(x) => Off(b) + RecLen + Unsent(Peer(x)) <= Len(log[Peer(x)])
<1> DEFINE p == Peer(x)
<1>1. p \in End /\ Peer(p) = x
  BY PeerOfEnd
<1>2. Load(p) + Unsent(p) <= Size(log[p]) /\ Size(got[x]) = Off(b)
  BY <1>1 DEF LenInv, ReadAt
<1>3. /\ Size(got[x]) \in Nat /\ Size(ssl_in[x]) \in Nat /\ Size(net_in[x]) \in Nat
      /\ Size(wire[p]) \in Nat /\ Size(net_out[p]) \in Nat /\ Size(log[p]) \in Nat
      /\ Unsent(p) \in Nat /\ RecLen \in Nat
  BY <1>1, LenTypes, StreamAssumption DEF Unsent
<1>4. Load(p) = (Size(got[x]) + Size(ssl_in[x])) + (Size(net_in[x]) + Size(wire[p]) + Size(net_out[p]))
  BY <1>1 DEF Load
<1>5. Off(b) <= Size(log[p])
  BY <1>2, <1>3, <1>4
<1>6. HasRecord(x) => Size(ssl_in[x]) + Size(net_in[x]) >= RecLen
  <2>1. Size(Held(x)) = Size(ssl_in[x]) + Size(net_in[x])
    BY LenCat DEF Held, TypeOK, NetTypeOK
  <2> QED BY <2>1 DEF HasRecord, Size
<1>7. HasRecord(x) => Off(b) + RecLen + Unsent(p) <= Size(log[p])
  BY <1>2, <1>3, <1>4, <1>6
<1> QED BY <1>3, <1>5, <1>7 DEF Size

\* wolfSSL accepts nothing new and the caller's bytes only change hands.
LEMMA ReadKept ==
  ASSUME TypeOK, LenInv, ReadInv, LogGrows, UNCHANGED got,
         \A x \in End : delivered'[x] \o read_buf'[x] = delivered[x] \o read_buf[x]
  PROVE  ReadInv'
<1> SUFFICES ASSUME NEW x \in End PROVE \E b \in Nat : ReadAt(x, b)'
  BY DEF ReadInv
<1>1. PICK b \in Nat : ReadAt(x, b)
  BY DEF ReadInv
<1>2. Off(b) <= Len(log[Peer(x)])
  BY <1>1, GotIsProduced
<1>3. DataIn(log'[Peer(x)], b) = DataIn(log[Peer(x)], b)
  BY <1>2, PeerOfEnd DEF LogGrows
<1> QED BY <1>1, <1>3 DEF ReadAt

\* Handing bytes to the caller.
LEMMA DeliverKeeps ==
  ASSUME TypeOK, NEW e \in End, Deliver(e, read_buf[e])
  PROVE  \A x \in End : /\ delivered'[x] \o read_buf'[x] = delivered[x] \o read_buf[x]
                        /\ x # e => delivered'[x] = delivered[x]
                        /\ Len(delivered[x]) <= Len(delivered'[x])
<1> DEFINE plain == read_buf[e]
           n == IF Len(plain) < ReadMax THEN Len(plain) ELSE ReadMax
           front == SubSeq(plain, 1, n)
           rest == SubSeq(plain, n + 1, Len(plain))
<1>1. plain \in Seq(Nat) /\ delivered[e] \in Seq(Nat) /\ \A x \in End : Len(delivered[x]) \in Nat
  BY LenProperties DEF TypeOK
<1>2. n \in 0 .. Len(plain)
  BY <1>1, StreamAssumption, LenProperties
<1>3. front \in Seq(Nat) /\ rest \in Seq(Nat) /\ front \o rest = plain
  BY <1>1, <1>2, SplitSeq
<1>4. /\ delivered' = [delivered EXCEPT ![e] = delivered[e] \o front]
      /\ read_buf' = [read_buf EXCEPT ![e] = rest]
  BY DEF Deliver
<1> HIDE DEF front, rest
<1>5. /\ delivered'[e] = delivered[e] \o front /\ read_buf'[e] = rest
      /\ \A x \in End : x # e => delivered'[x] = delivered[x] /\ read_buf'[x] = read_buf[x]
  BY <1>4 DEF TypeOK
<1>6. (delivered[e] \o front) \o rest = delivered[e] \o plain
  <2>1. \A a, b, c \in Seq(Nat) : (a \o b) \o c = a \o (b \o c)
    BY ConcatAssociative
  <2>2. (delivered[e] \o front) \o rest = delivered[e] \o (front \o rest)
    BY <1>1, <1>3, <2>1, Zenon
  <2> QED BY <1>3, <2>2
<1>7. Len(delivered[e]) <= Len(delivered[e] \o front)
  <2>1. Len(delivered[e] \o front) = Len(delivered[e]) + Len(front)
    BY <1>1, <1>3, ConcatProperties
  <2>2. Len(front) \in Nat
    BY <1>3, LenProperties
  <2> QED BY <1>1, <2>1, <2>2
<1> SUFFICES ASSUME NEW x \in End
             PROVE  /\ delivered'[x] \o read_buf'[x] = delivered[x] \o read_buf[x]
                    /\ x # e => delivered'[x] = delivered[x]
                    /\ Len(delivered[x]) <= Len(delivered'[x])
  OBVIOUS
<1>8. CASE x = e
  BY <1>5, <1>6, <1>7, <1>8
<1>9. CASE x # e
  <2>1. delivered'[x] = delivered[x] /\ read_buf'[x] = read_buf[x]
    BY <1>5, <1>9
  <2>2. Len(delivered[x]) \in Nat
    BY <1>1
  <2>3. Len(delivered[x]) <= Len(delivered[x])
    BY <2>2
  <2> QED BY <2>1, <2>3
<1> QED BY <1>8, <1>9

\* The record wolfSSL accepts is the one after those it has accepted; if it is the
\* close_notify, the peer has called shutdown and has nothing more to say.
LEMMA NextAccepted ==
  ASSUME TypeOK, LogInv, LenInv, NEW x \in End, NEW b \in Nat, ReadAt(x, b),
         NEW kind, Accept(x, kind)
  PROVE  LET p == Peer(x)
         IN /\ Size(got'[x]) = Off(b + 1)
            /\ \A y \in End : y # x => got'[y] = got[y]
            /\ kind = "data" => Record(x)[1][2] = DataIn(log[p], b) + 1
            /\ DataIn(log[p], b + 1) = IF kind = "data" THEN DataIn(log[p], b) + 1 ELSE DataIn(log[p], b)
            /\ kind = "close_notify" => shutdown_sent[p] /\ written[p] = Upto(DataIn(log[p], b))
<1> DEFINE p == Peer(x)
           s == log[p]
<1>1. p \in End /\ s \in Seq(Byte)
  BY PeerOfEnd DEF TypeOK
<1>2. HasRecord(x) /\ Record(x) = NextRecord(x) /\ Record(x)[1][1] = kind
  BY DEF Accept
<1>3. PICK a \in Nat : LogAt(p, a)
  BY <1>1 DEF LogInv
<1>4. RecLen \in Nat \ {0} /\ Off(b) \in Nat /\ Off(b + 1) = Off(b) + RecLen /\ Off(a) \in Nat
  BY Multiples
<1>5. Len(s) = Off(a)
  BY <1>3 DEF LogAt, Shape
<1>6. Off(b) + RecLen + Unsent(p) <= Off(a) /\ Unsent(p) \in Nat
  BY <1>2, <1>4, <1>5, GotIsProduced DEF Unsent
<1>7. b < a
  <2> SUFFICES ASSUME a <= b PROVE FALSE
    OBVIOUS
  <2>1. CASE a = b
    BY <1>4, <1>6, <2>1
  <2>2. CASE a < b
    <3>1. Off(a) + RecLen <= Off(b)
      BY <2>2, Before
    <3> QED BY <1>4, <1>6, <3>1
  <2> QED BY <2>1, <2>2
<1>8. PICK kd \in Kind, v \in Nat : /\ \A k \in 1 .. RecLen : s[Off(b) + k] = <<kd, v, k>>
                                    /\ kd = "data" => v = DataIn(s, b) + 1
  <2>1. b \in 0 .. a - 1 /\ Shape(s, a)
    BY <1>3, <1>7 DEF LogAt
  <2> QED BY <2>1 DEF Shape
<1>9. s[Off(b) + 1] = <<kd, v, 1>>
  <2>1. 1 \in 1 .. RecLen
    BY <1>4
  <2> QED BY <1>8, <2>1
<1>10. Record(x)[1] = s[Off(b) + 1]
  <2>1. Len(got[x]) = Off(b)
    BY DEF ReadAt, Size
  <2>2. Record(x) = SubSeq(s, Off(b) + 1, Off(b) + RecLen)
    BY <1>2, <2>1 DEF NextRecord
  <2>3. Off(b) + 1 \in 1 .. Len(s) /\ Off(b) + RecLen \in 1 .. Len(s)
    BY <1>4, <1>5, <1>6
  <2>4. SubSeq(s, Off(b) + 1, Off(b) + RecLen)[1] = s[Off(b) + 1]
    <3>1. Off(b) + 1 <= Off(b) + RecLen /\ (Off(b) + 1) + 1 - 1 = Off(b) + 1
      BY <1>4
    <3>2. 1 \in 1 .. ((Off(b) + RecLen) - (Off(b) + 1) + 1)
      BY <1>4
    <3> QED BY <1>1, <2>3, <3>1, <3>2, SubSeqProperties
  <2> QED BY <2>2, <2>4
<1>11. kind = kd /\ Record(x)[1][2] = v
  BY <1>2, <1>9, <1>10
<1>12. DataIn(s, b + 1) = IF kind = "data" THEN DataIn(s, b) + 1 ELSE DataIn(s, b)
  <2>1. DataIn(s, b + 1) = IF s[Off(b) + 1][1] = "data" THEN DataIn(s, b) + 1 ELSE DataIn(s, b)
    BY DataFacts
  <2> QED BY <1>9, <1>11, <2>1
<1>13. Size(got'[x]) = Off(b + 1) /\ \A y \in End : y # x => got'[y] = got[y]
  <2>1. got'[x] = got[x] \o Record(x) /\ \A y \in End : y # x => got'[y] = got[y]
    BY DEF Accept, TypeOK
  <2>2. got[x] \in Seq(Byte) /\ Record(x) \in Seq(Byte) /\ Size(Record(x)) = RecLen
    BY <1>2, RecordType DEF TypeOK, Size
  <2>3. Size(got'[x]) = Size(got[x]) + RecLen
    BY <2>1, <2>2, LenCat
  <2> QED BY <1>4, <2>1, <2>3 DEF ReadAt
<1>14. ASSUME kind = "close_notify"
       PROVE  shutdown_sent[p] /\ written[p] = Upto(DataIn(s, b))
  <2>1. s[Off(b) + 1][1] = "close_notify"
    BY <1>9, <1>11, <1>14
  <2>2. a = b + 1
    <3>1. Unclosed(s, a - 1)
      BY <1>3 DEF LogAt
    <3>2. ~(b \in 0 .. (a - 1) - 1)
      BY <2>1, <3>1 DEF Unclosed
    <3> QED BY <1>7, <3>2
  <2>3. written[p] = Upto(DataIn(s, b))
    BY <1>3, <1>12, <1>14, <2>2 DEF LogAt
  <2>4. Unsent(p) = 0
    BY <1>4, <1>6, <2>2
  <2>5. ~(~shutdown_sent[p] /\ ~dropped[p])
    <3>1. b \in 0 .. a - 1
      BY <1>7
    <3> QED BY <1>3, <2>1, <3>1 DEF LogAt, Unclosed
  <2> QED BY <1>4, <2>3, <2>4, <2>5 DEF Unsent
<1> QED BY <1>8, <1>11, <1>12, <1>13, <1>14

\* Wherever the caller's bytes are, a record's come after those before it.
LEMMA AppendAfter ==
  ASSUME NEW d \in Seq(Nat), NEW r \in Seq(Nat), NEW v \in Nat
  PROVE  d \o Append(r, v) = Append(d \o r, v)
<1>1. <<v>> \in Seq(Nat) /\ d \o r \in Seq(Nat)
  BY ConcatProperties
<1>2. Append(r, v) = r \o <<v>> /\ Append(d \o r, v) = (d \o r) \o <<v>>
  BY <1>1, AppendIsConcat
<1>3. (d \o r) \o <<v>> = d \o (r \o <<v>>)
  BY <1>1, ConcatAssociative
<1> QED BY <1>2, <1>3

\* A record that is accepted adds its application data, if any, to what the caller gets.
LEMMA ReadAccept ==
  ASSUME TypeOK, LogInv, LenInv, ReadInv, LogGrows, NEW x \in End, NEW kind, Accept(x, kind),
         UNCHANGED log,
         \A y \in End : y # x => delivered'[y] = delivered[y] /\ read_buf'[y] = read_buf[y],
         kind = "data" => /\ delivered'[x] = delivered[x]
                          /\ read_buf'[x] = Append(read_buf[x], Record(x)[1][2]),
         kind # "data" => delivered'[x] \o read_buf'[x] = delivered[x] \o read_buf[x]
  PROVE  ReadInv'
<1>1. PICK b \in Nat : ReadAt(x, b)
  BY DEF ReadInv
<1> DEFINE n == DataIn(log[Peer(x)], b)
<1>2. /\ Size(got'[x]) = Off(b + 1)
      /\ \A y \in End : y # x => got'[y] = got[y]
      /\ kind = "data" => Record(x)[1][2] = n + 1
      /\ DataIn(log[Peer(x)], b + 1) = IF kind = "data" THEN n + 1 ELSE n
  BY <1>1, NextAccepted
<1>3. n \in Nat /\ delivered[x] \o read_buf[x] = Upto(n)
  BY <1>1, DataFacts DEF ReadAt
<1> HIDE DEF n
<1>4. delivered'[x] \o read_buf'[x] = Upto(DataIn(log[Peer(x)], b + 1))
  <2>1. CASE kind = "data"
    <3>1. delivered[x] \in Seq(Nat) /\ read_buf[x] \in Seq(Nat) /\ n + 1 \in Nat
      BY <1>3 DEF TypeOK
    <3>2. delivered[x] \o Append(read_buf[x], n + 1) = Append(delivered[x] \o read_buf[x], n + 1)
      BY <3>1, AppendAfter
    <3>3. Append(Upto(n), n + 1) = Upto(n + 1)
      BY <1>3, UptoFacts
    <3>4. delivered'[x] \o read_buf'[x] = delivered[x] \o Append(read_buf[x], n + 1)
      BY <1>2, <2>1
    <3>5. delivered'[x] \o read_buf'[x] = Upto(n + 1)
      BY <1>3, <3>2, <3>3, <3>4
    <3> QED BY <1>2, <2>1, <3>5
  <2>2. CASE kind # "data"
    <3>1. delivered'[x] \o read_buf'[x] = Upto(n)
      BY <1>3, <2>2
    <3> QED BY <1>2, <2>2, <3>1
  <2> QED BY <2>1, <2>2
<1>5. ReadAt(x, b + 1)'
  BY <1>2, <1>4 DEF ReadAt
<1>6. ASSUME NEW y \in End, y # x PROVE \E c \in Nat : ReadAt(y, c)'
  <2>1. PICK c \in Nat : ReadAt(y, c)
    BY DEF ReadInv
  <2> QED BY <1>2, <1>6, <2>1 DEF ReadAt
<1> QED BY <1>5, <1>6 DEF ReadInv

\* poll_read keeps the caller's data in order.
LEMMA ReadReads ==
  ASSUME TypeOK, LogInv, LenInv, ReadInv, LogGrows, NEW e \in End, ReadStep(e)
  PROVE  ReadInv'
<1>1. CASE ReadBuffered(e)
  <2>1. Deliver(e, read_buf[e]) /\ UNCHANGED got
    BY <1>1 DEF ReadBuffered
  <2> QED BY <2>1, DeliverKeeps, ReadKept
<1>2. CASE ReadSkipFill(e) \/ ReadFill(e) \/ ReadFatal(e)
  <2>1. UNCHANGED <<got, delivered, read_buf>>
    BY <1>2 DEF ReadSkipFill, ReadFill, ReadFatal, session, history
  <2> QED BY <2>1, ReadKept
<1>3. CASE ReadRecord(e)
  <2>1. /\ Accept(e, "data") /\ UNCHANGED <<log, delivered>>
        /\ read_buf' = [read_buf EXCEPT ![e] = Append(read_buf[e], Record(e)[1][2])]
    BY <1>3 DEF ReadRecord
  <2>2. /\ read_buf'[e] = Append(read_buf[e], Record(e)[1][2])
        /\ \A y \in End : y # e => read_buf'[y] = read_buf[y]
    BY <2>1 DEF TypeOK
  <2> QED BY <2>1, <2>2, ReadAccept
<1>4. CASE ReadTicket(e)
  <2>1. Accept(e, "ticket") /\ UNCHANGED <<log, delivered, read_buf>>
    BY <1>4 DEF ReadTicket
  <2> QED BY <2>1, ReadAccept
<1>5. CASE ReadCloseNotify(e)
  <2>1. Accept(e, "close_notify") /\ UNCHANGED log
    BY <1>5 DEF ReadCloseNotify
  <2>2. CASE Deliver(e, read_buf[e])
    <3>1. /\ delivered'[e] \o read_buf'[e] = delivered[e] \o read_buf[e]
          /\ \A y \in End : y # e => delivered'[y] = delivered[y]
      BY <2>2, DeliverKeeps
    <3>2. \A y \in End : y # e => read_buf'[y] = read_buf[y]
      BY <2>2 DEF Deliver, TypeOK
    <3> QED BY <2>1, <3>1, <3>2, ReadAccept
  <2>3. CASE UNCHANGED <<read_buf, delivered>>
    BY <2>1, <2>3, ReadAccept
  <2> QED BY <1>5, <2>2, <2>3 DEF ReadCloseNotify, Finish
<1>6. CASE ReadWantRead(e)
  <2>1. UNCHANGED got
    BY <1>6 DEF ReadWantRead
  <2>2. CASE Deliver(e, read_buf[e])
    BY <2>1, <2>2, DeliverKeeps, ReadKept
  <2>3. CASE UNCHANGED <<read_buf, delivered>>
    BY <2>1, <2>3, ReadKept
  <2> QED BY <1>6, <2>2, <2>3 DEF ReadWantRead
<1> QED BY <1>1, <1>2, <1>3, <1>4, <1>5, <1>6 DEF ReadStep

\* Every step keeps the caller's data in order.
LEMMA ReadNext ==
  ASSUME TypeOK, LogInv, LenInv, ReadInv, LogGrows, [Next]_vars
  PROVE  ReadInv'
<1>1. ASSUME NEW e \in End, WriteStep(e) \/ Drop(e) \/ Tamper(e) PROVE ReadInv'
  <2>1. UNCHANGED <<got, delivered, read_buf>>
    BY <1>1 DEF WriteStep, WriteRecord, WriteFatal, FlushNetOut, ShutdownSsl, ShutdownIo, Drop,
                Tamper, session, history
  <2> QED BY <2>1, ReadKept
<1>2. ASSUME NEW t \in Task, Poll(t) \/ Cancel(t) \/ \E c \in Operation : Invoke(t, c)
      PROVE  ReadInv'
  BY <1>2, ReadKept DEF Poll, Cancel, Invoke, session, history
<1>3. CASE UNCHANGED vars
  BY <1>3, ReadKept DEF vars, session, history
<1> QED BY <1>1, <1>2, <1>3, ReadReads DEF Next, Step

\* Nothing has been read at first.
LEMMA ReadInit == Init => ReadInv
<1> SUFFICES ASSUME Init, NEW x \in End PROVE ReadAt(x, 0)
  BY DEF ReadInv
<1>1. got[x] = <<>> /\ delivered[x] = <<>> /\ read_buf[x] = <<>>
  BY DEF Init
<1>2. Off(0) = 0 /\ Size(<<>>) = 0
  BY Multiples DEF Size
<1>3. DataIn(log[Peer(x)], 0) = 0
  BY DataFacts
<1>4. Upto(0) = <<>> /\ <<>> \o <<>> = <<>>
  BY DEF Upto
<1> QED BY <1>1, <1>2, <1>3, <1>4 DEF ReadAt

\* The inductive invariant behind the promises of ByteStream.
StreamInv == LogInv /\ LenInv /\ ReadInv

\* It is one: records are produced, carried and accepted whole and in order.
THEOREM StreamHolds == Spec => []StreamInv
<1>1. Init => StreamInv
  BY LogInit, LenInit, ReadInit DEF StreamInv
<1>2. TypeOK /\ TypeOK' /\ ControlInv /\ CallsInv /\ StreamInv /\ [Next]_vars => StreamInv'
  BY LogStep, LenStep, ReadNext DEF StreamInv
<1> QED BY <1>1, <1>2, TypeCorrect, ControlHolds, CallsHold, PTL DEF Spec

\* The caller has been given a prefix of what the peer wrote.
PrefixInv ==
  \A x \in End :
    /\ Len(delivered[x]) \in 0 .. Len(written[Peer(x)])
    /\ delivered[x] = SubSeq(written[Peer(x)], 1, Len(delivered[x]))

\* What was accepted is part of what was produced, and both are numbered.
LEMMA PrefixFromStream == TypeOK /\ StreamInv => PrefixInv
<1> SUFFICES ASSUME TypeOK, StreamInv, NEW x \in End
             PROVE  /\ Len(delivered[x]) \in 0 .. Len(written[Peer(x)])
                    /\ delivered[x] = SubSeq(written[Peer(x)], 1, Len(delivered[x]))
  BY DEF PrefixInv
<1> DEFINE p == Peer(x)
           d == delivered[x]
           r == read_buf[x]
<1>1. p \in End /\ d \in Seq(Nat) /\ r \in Seq(Nat)
  BY PeerOfEnd DEF TypeOK
<1>2. PICK b \in Nat : ReadAt(x, b)
  BY DEF StreamInv, ReadInv
<1>3. PICK a \in Nat : LogAt(p, a)
  BY <1>1 DEF StreamInv, LogInv
<1> DEFINE n == DataIn(log[p], b)
           m == DataIn(log[p], a)
<1>4. b <= a
  <2> SUFFICES ASSUME a < b PROVE FALSE
    OBVIOUS
  <2>1. Off(b) <= Len(log[p])
    BY <1>2, GotIsProduced DEF StreamInv
  <2>2. Len(log[p]) = Off(a)
    BY <1>3 DEF LogAt, Shape
  <2>3. Off(a) + RecLen <= Off(b)
    BY Before
  <2>4. RecLen \in Nat \ {0} /\ Off(a) \in Nat /\ Off(b) \in Nat
    BY Multiples
  <2> QED BY <2>1, <2>2, <2>3, <2>4
<1>5. n \in Nat /\ m \in Nat /\ n <= m
  <2>1. b \in 0 .. a
    BY <1>4
  <2> QED BY <2>1, DataFacts
<1>6. d \o r = Upto(n) /\ written[p] = Upto(m)
  BY <1>2, <1>3 DEF ReadAt, LogAt
<1> HIDE DEF n, m, d, r
<1>7. /\ Len(Upto(n)) = n /\ (\A i \in 1 .. n : Upto(n)[i] = i)
  BY <1>5, UptoFacts
<1>8. Upto(m) \in Seq(Nat) /\ Len(Upto(m)) = m /\ (\A i \in 1 .. m : Upto(m)[i] = i)
  BY <1>5, UptoFacts
<1>9. /\ Len(d) \in Nat /\ Len(r) \in Nat /\ Len(d) + Len(r) = n
      /\ \A i \in 1 .. Len(d) : d[i] = (d \o r)[i]
  <2>1. Len(d) \in Nat /\ Len(r) \in Nat
    BY <1>1, LenProperties
  <2>2. Len(d \o r) = Len(d) + Len(r) /\ \A i \in 1 .. Len(d) + Len(r) : (d \o r)[i] = IF i <= Len(d) THEN d[i] ELSE r[i - Len(d)]
    BY <1>1, ConcatProperties
  <2>3. Len(d) + Len(r) = n
    BY <1>6, <1>7, <2>2
  <2> QED BY <2>1, <2>2, <2>3
<1>10. Len(d) <= m /\ \A i \in 1 .. Len(d) : i \in 1 .. n /\ i \in 1 .. m
  BY <1>5, <1>9
<1>11. \A i \in 1 .. Len(d) : d[i] = i
  BY <1>6, <1>7, <1>9, <1>10
<1> DEFINE q == SubSeq(Upto(m), 1, Len(d))
<1>12. Len(d) \in 0 .. Len(Upto(m))
  BY <1>8, <1>9, <1>10
<1>13. q \in Seq(Nat) /\ Len(q) = Len(d)
  BY <1>8, <1>12, SplitSeq
<1>14. \A i \in 1 .. Len(d) : q[i] = i
  <2>1. \A i \in 1 .. Len(d) : Upto(m)[i] \in Nat
    BY <1>8, <1>10
  <2>2. \A i \in 1 .. Len(d) - 1 + 1 : q[i] = Upto(m)[1 + i - 1]
    BY <1>9, <2>1, SubSeqProperties
  <2>3. \A i \in 1 .. Len(d) : q[i] = Upto(m)[i]
    BY <1>9, <2>2
  <2> QED BY <1>8, <1>10, <2>3
<1> HIDE DEF q
<1>15. d = q
  BY <1>1, <1>11, <1>13, <1>14, SeqEqual
<1> QED BY <1>6, <1>12, <1>15 DEF d, q

\* Reading ends cleanly only where the peer has shut down and everything it wrote
\* has been handed out.
LEMMA EndIsClean ==
  ASSUME TypeOK, StreamInv, NEW e \in End, Accept(e, "close_notify"), read_buf[e] = <<>>
  PROVE  shutdown_sent[Peer(e)] /\ delivered[e] = written[Peer(e)]
<1>1. PICK b \in Nat : ReadAt(e, b)
  BY DEF StreamInv, ReadInv
<1>2. shutdown_sent[Peer(e)] /\ written[Peer(e)] = Upto(DataIn(log[Peer(e)], b))
  BY <1>1, NextAccepted DEF StreamInv
<1>3. delivered[e] \in Seq(Nat)
  BY DEF TypeOK
<1>4. delivered[e] \o <<>> = delivered[e]
  BY <1>3, ConcatEmptySeq
<1> QED BY <1>1, <1>2, <1>4 DEF ReadAt

-----------------------------------------------------------------------------
(* The refinement.                                                         *)

\* Bytes handed to the caller: a step of the abstract reader.
LEMMA DeliverMaps ==
  ASSUME TypeOK, TypeOK', PrefixInv', NEW e \in End, ended[e] = "no",
         Deliver(e, read_buf[e]), UNCHANGED <<written, shutdown_sent, ended>>
  PROVE  Abstract!Receive(e)
<1> DEFINE n == Len(delivered'[e])
<1>1. Len(delivered[e]) <= n /\ \A x \in End : x # e => delivered'[x] = delivered[x]
  BY DeliverKeeps
<1>2. n \in 0 .. Len(written[Peer(e)]) /\ delivered'[e] = SubSeq(written[Peer(e)], 1, n)
  BY DEF PrefixInv
<1>3. Len(delivered[e]) \in Nat /\ Len(written[Peer(e)]) \in Nat
  BY PeerOfEnd, LenProperties DEF TypeOK
<1> HIDE DEF n
<1>4. n \in Len(delivered[e]) .. Len(written[Peer(e)])
  BY <1>1, <1>2, <1>3
<1>5. delivered' = [delivered EXCEPT ![e] = SubSeq(written[Peer(e)], 1, n)]
  <2>1. delivered \in [End -> Seq(Nat)] /\ delivered' \in [End -> Seq(Nat)]
    BY DEF TypeOK
  <2>2. \A x \in End : delivered'[x] = [delivered EXCEPT ![e] = SubSeq(written[Peer(e)], 1, n)][x]
    BY <1>1, <1>2, <2>1
  <2> QED BY <2>1, <2>2
<1> QED BY <1>4, <1>5 DEF Abstract!Receive

Stutters == UNCHANGED <<written, delivered, shutdown_sent, ended>>

\* Every step of poll_read is a step of the abstract reader or none.
LEMMA ReadMaps ==
  ASSUME TypeOK, TypeOK', ControlInv, CallsInv, StreamInv, PrefixInv', NEW e \in End, ReadStep(e)
  PROVE  Stutters \/ Abstract!Receive(e) \/ Abstract!EndOfFile(e) \/ Abstract!Fail(e)
<1>1. ended[e] = "no"
  <2>1. at[e] \in {"rd_top", "rd_ssl"}
    BY DEF ReadStep, ReadBuffered, ReadSkipFill, ReadFill, ReadRecord, ReadTicket,
           ReadCloseNotify, ReadWantRead, ReadFatal
  <2>2. holder[e] \in Task /\ EndOf(holder[e]) = e /\ call[holder[e]] = "read"
    BY <2>1, CallAtPlace
  <2> QED BY <2>2 DEF CallsInv
<1>2. CASE ReadBuffered(e)
  BY <1>1, <1>2, DeliverMaps DEF ReadBuffered
<1>3. CASE ReadSkipFill(e) \/ ReadRecord(e) \/ ReadTicket(e)
  BY <1>3 DEF ReadSkipFill, ReadRecord, ReadTicket, session, history, Stutters
<1>4. CASE ReadFill(e)
  <2>1. UNCHANGED <<written, delivered, shutdown_sent>>
    BY <1>4 DEF ReadFill, history
  <2>2. CASE UNCHANGED ended
    BY <2>1, <2>2 DEF Stutters
  <2>3. CASE ReturnEnd(e, EofResult(e))
    BY <1>1, <2>1, <2>3 DEF ReturnEnd, EofResult, Abstract!Fail
  <2> QED BY <1>4, <2>2, <2>3 DEF ReadFill
<1>5. CASE ReadCloseNotify(e)
  <2>1. Accept(e, "close_notify") /\ UNCHANGED <<written, shutdown_sent>>
    BY <1>5 DEF ReadCloseNotify
  <2>2. CASE Deliver(e, read_buf[e]) /\ UNCHANGED ended
    BY <1>1, <2>1, <2>2, DeliverMaps
  <2>3. CASE read_buf[e] = <<>> /\ ReturnEnd(e, "eof") /\ UNCHANGED delivered
    <3>1. shutdown_sent[Peer(e)] /\ delivered[e] = written[Peer(e)]
      BY <2>1, <2>3, EndIsClean
    <3> QED BY <1>1, <2>1, <2>3, <3>1 DEF ReturnEnd, Abstract!EndOfFile
  <2> QED BY <1>5, <2>2, <2>3 DEF ReadCloseNotify, Finish
<1>6. CASE ReadWantRead(e)
  <2>1. UNCHANGED <<written, shutdown_sent, ended>>
    BY <1>6 DEF ReadWantRead
  <2>2. CASE Deliver(e, read_buf[e])
    BY <1>1, <2>1, <2>2, DeliverMaps
  <2>3. CASE UNCHANGED <<read_buf, delivered>>
    BY <2>1, <2>3 DEF Stutters
  <2> QED BY <1>6, <2>2, <2>3 DEF ReadWantRead
<1>7. CASE ReadFatal(e)
  BY <1>1, <1>7 DEF ReadFatal, ReturnEnd, history, Abstract!Fail
<1> QED BY <1>2, <1>3, <1>4, <1>5, <1>6, <1>7 DEF ReadStep

\* Every step of the two streams is a step of ByteStream or none.
LEMMA StepMaps ==
  ASSUME TypeOK, TypeOK', ControlInv, CallsInv, StreamInv, PrefixInv', [Next]_vars
  PROVE  Stutters \/ Abstract!Next
<1>1. ASSUME NEW e \in End, ReadStep(e) PROVE Stutters \/ Abstract!Next
  BY <1>1, ReadMaps DEF Abstract!Next
<1>2. ASSUME NEW e \in End, WriteRecord(e) PROVE Abstract!Next
  <2>1. ~shutdown_sent[e]
    BY <1>2, CallAtPlace DEF WriteRecord, CallsInv
  <2>2. /\ written' = [written EXCEPT ![e] = Append(written[e], Len(written[e]) + 1)]
        /\ UNCHANGED <<delivered, shutdown_sent, ended>>
    BY <1>2 DEF WriteRecord, session
  <2>3. Abstract!Send(e)
    BY <2>1, <2>2 DEF Abstract!Send
  <2> QED BY <2>3 DEF Abstract!Next
<1>3. ASSUME NEW e \in End, ShutdownSsl(e) PROVE Abstract!Next
  <2>1. Abstract!Close(e)
    BY <1>3 DEF ShutdownSsl, Abstract!Close
  <2> QED BY <2>1 DEF Abstract!Next
<1>4. ASSUME NEW e \in End, WriteFatal(e) \/ FlushNetOut(e) \/ ShutdownIo(e) \/ Drop(e) \/ Tamper(e)
      PROVE  Stutters
  BY <1>4 DEF WriteFatal, FlushNetOut, ShutdownIo, Drop, Tamper, session, history, Stutters
<1>5. ASSUME NEW t \in Task, Poll(t) \/ Cancel(t) \/ \E c \in Operation : Invoke(t, c)
      PROVE  Stutters
  BY <1>5 DEF Poll, Cancel, Invoke, session, history, Stutters
<1>6. CASE UNCHANGED vars
  BY <1>6 DEF vars, session, history, Stutters
<1> QED BY <1>1, <1>2, <1>3, <1>4, <1>5, <1>6 DEF Next, Step, WriteStep

\* The two streams keep the promises of ByteStream: each direction is a reliable
\* sequence, whatever the transport does to the timing and the network to the
\* bytes, and a clean end of file is told only at the end of it.
THEOREM StreamsImplementByteStream == Spec => ImplementsByteStream
<1>1. Init => Abstract!Init
  BY DEF Init, Abstract!Init
<1>2. TypeOK /\ TypeOK' /\ ControlInv /\ CallsInv /\ StreamInv /\ PrefixInv' /\ [Next]_vars
        => [Abstract!Next]_(Abstract!streamVars)
  BY StepMaps DEF Abstract!streamVars, Stutters
<1>3. TypeOK /\ StreamInv => PrefixInv
  BY PrefixFromStream
<1> QED BY <1>1, <1>2, <1>3, TypeCorrect, ControlHolds, CallsHold, StreamHolds, PTL
        DEF Spec, ImplementsByteStream, Abstract!Spec

\* A clean end of file is never told to a caller who misses something of what the
\* peer wrote, or whose peer did not shut down: a connection cut short, by Drop or
\* by the network, is an error.
THEOREM TruncationIsDetected == Spec => []TruncationDetected
<1>1. Init => TruncationDetected
  BY DEF Init, TruncationDetected
<1>2. TypeOK /\ TruncationDetected /\ (Stutters \/ Abstract!Next) => TruncationDetected'
  <2> SUFFICES ASSUME TypeOK, TruncationDetected, Stutters \/ Abstract!Next PROVE TruncationDetected'
    OBVIOUS
  <2>1. CASE Stutters
    BY <2>1 DEF Stutters, TruncationDetected
  <2>2. ASSUME NEW e \in End, Abstract!Send(e) PROVE TruncationDetected'
    BY <2>2, PeerOfEnd DEF Abstract!Send, TruncationDetected, TypeOK
  <2>3. ASSUME NEW e \in End, Abstract!Close(e) PROVE TruncationDetected'
    BY <2>3, PeerOfEnd DEF Abstract!Close, TruncationDetected, TypeOK
  <2>4. ASSUME NEW e \in End, Abstract!Receive(e) PROVE TruncationDetected'
    BY <2>4 DEF Abstract!Receive, TruncationDetected, TypeOK
  <2>5. ASSUME NEW e \in End, Abstract!EndOfFile(e) PROVE TruncationDetected'
    BY <2>5 DEF Abstract!EndOfFile, TruncationDetected, TypeOK
  <2>6. ASSUME NEW e \in End, Abstract!Fail(e) PROVE TruncationDetected'
    BY <2>6 DEF Abstract!Fail, TruncationDetected, TypeOK
  <2> QED BY <2>1, <2>2, <2>3, <2>4, <2>5, <2>6 DEF Abstract!Next
<1>3. TypeOK /\ TypeOK' /\ ControlInv /\ CallsInv /\ StreamInv /\ PrefixInv' /\ [Next]_vars
        => Stutters \/ Abstract!Next
  BY StepMaps
<1>4. TypeOK /\ StreamInv => PrefixInv
  BY PrefixFromStream
<1>5. TypeOK /\ TypeOK' /\ ControlInv /\ CallsInv /\ StreamInv /\ PrefixInv' /\ TruncationDetected
        /\ [Next]_vars => TruncationDetected'
  BY <1>2, <1>3
<1> QED BY <1>1, <1>4, <1>5, TypeCorrect, ControlHolds, CallsHold, StreamHolds, PTL DEF Spec
=============================================================================
