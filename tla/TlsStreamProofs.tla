--------------------------- MODULE TlsStreamProofs --------------------------
(***************************************************************************)
(* Proofs about TlsStream, for every transport capacity, record length,    *)
(* chunk size, number of writes and set of tasks.                          *)
(***************************************************************************)
EXTENDS TlsStream, NetBuffersProofs

SessionTypeOK ==
  /\ read_buf \in [End -> Seq(Nat)]
  /\ shutdown_sent \in [End -> BOOLEAN]
  /\ ssl_in \in [End -> Seq(Byte)]
  /\ ssl_closed \in [End -> BOOLEAN]
  /\ ended \in [End -> {"no", "eof", "unexpected_eof", "fatal"}]

ControlTypeOK ==
  /\ at \in [End -> At]
  /\ holder \in [End -> Task \cup {NoTask}]
  /\ call \in [Task -> Operation \cup {"none"}]
  /\ result \in [Task -> Result]

HistoryTypeOK ==
  /\ written \in [End -> Seq(Nat)]
  /\ delivered \in [End -> Seq(Nat)]
  /\ log \in [End -> Seq(Byte)]
  /\ got \in [End -> Seq(Byte)]

\* The type invariant in the groups in which the actions change variables.
LEMMA TypeParts ==
  TypeOK <=> /\ NetTypeOK(Byte) /\ SessionTypeOK /\ ControlTypeOK
             /\ HistoryTypeOK /\ tampered \in Nat
BY DEF TypeOK, SessionTypeOK, ControlTypeOK, HistoryTypeOK

\* The same after a step.
LEMMA TypeAssemble ==
  ASSUME NetTypeOK(Byte)', SessionTypeOK', ControlTypeOK', HistoryTypeOK', tampered' \in Nat
  PROVE  TypeOK'
BY DEF TypeOK, SessionTypeOK, ControlTypeOK, HistoryTypeOK

-----------------------------------------------------------------------------
(* Records.                                                                *)

\* An encrypted record is a sequence of bytes.
LEMMA EncodeType ==
  ASSUME NEW kind \in Kind, NEW v \in Nat
  PROVE  Encode(kind, v) \in Seq(Byte) /\ Len(Encode(kind, v)) = RecLen
<1>1. RecLen \in Nat
  BY StreamAssumption
<1>2. \A k \in 1 .. RecLen : <<kind, v, k>> \in Byte
  BY DEF Byte
<1> QED BY <1>1, <1>2 DEF Encode

\* What wolfSSL holds and can get from recv is a sequence of bytes.
LEMMA HeldType ==
  ASSUME TypeOK, NEW e \in End
  PROVE  Held(e) \in Seq(Byte) /\ Len(Held(e)) \in Nat
<1>1. ssl_in[e] \in Seq(Byte) /\ net_in[e] \in Seq(Byte)
  BY DEF TypeOK, NetTypeOK
<1>2. Held(e) \in Seq(Byte)
  BY <1>1, ConcatProperties DEF Held
<1> QED BY <1>2, LenProperties

\* A whole record is split off the bytes wolfSSL holds.
LEMMA RecordType ==
  ASSUME TypeOK, NEW e \in End, HasRecord(e)
  PROVE  /\ Record(e) \in Seq(Byte) /\ Len(Record(e)) = RecLen
         /\ SubSeq(Held(e), RecLen + 1, Len(Held(e))) \in Seq(Byte)
         /\ Record(e) \o SubSeq(Held(e), RecLen + 1, Len(Held(e))) = Held(e)
         /\ Record(e)[1] \in Byte
<1>1. RecLen \in Nat \ {0}
  BY StreamAssumption
<1>2. RecLen \in 0 .. Len(Held(e)) /\ Held(e) \in Seq(Byte)
  BY <1>1, HeldType DEF HasRecord
<1>3. /\ Record(e) \in Seq(Byte) /\ Len(Record(e)) = RecLen
      /\ SubSeq(Held(e), RecLen + 1, Len(Held(e))) \in Seq(Byte)
      /\ Record(e) \o SubSeq(Held(e), RecLen + 1, Len(Held(e))) = Held(e)
  BY <1>2, SplitSeq DEF Record
<1>4. 1 \in 1 .. Len(Record(e))
  BY <1>1, <1>3
<1> QED BY <1>3, <1>4, ElementOfSeq

-----------------------------------------------------------------------------
(* The pieces the actions are made of keep the types.                      *)

\* A poll that goes on to a place of the code.
LEMMA GotoType ==
  ASSUME ControlTypeOK, NEW e \in End, NEW place \in At, Goto(e, place)
  PROVE  ControlTypeOK'
BY DEF ControlTypeOK, Goto

\* A poll that is Ready.
LEMMA ReturnType ==
  ASSUME ControlTypeOK, NEW e \in End, NEW r \in Result, Return(e, r)
  PROVE  ControlTypeOK'
<1>1. "idle" \in At /\ "none" \in Operation \cup {"none"}
  BY DEF At
<1> QED BY <1>1 DEF ControlTypeOK, Return

\* Plaintext handed to the caller and plaintext kept.
LEMMA DeliverType ==
  ASSUME ControlTypeOK, NEW e \in End, NEW plain \in Seq(Nat), Deliver(e, plain),
         read_buf \in [End -> Seq(Nat)], delivered \in [End -> Seq(Nat)]
  PROVE  /\ ControlTypeOK'
         /\ read_buf' \in [End -> Seq(Nat)]
         /\ delivered' \in [End -> Seq(Nat)]
<1> DEFINE n == IF Len(plain) < ReadMax THEN Len(plain) ELSE ReadMax
<1>1. Len(plain) \in Nat /\ ReadMax \in Nat
  BY StreamAssumption, LenProperties
<1>2. n \in 0 .. Len(plain)
  BY <1>1
<1>3. SubSeq(plain, 1, n) \in Seq(Nat) /\ SubSeq(plain, n + 1, Len(plain)) \in Seq(Nat)
  BY <1>2, SplitSeq
<1>4. delivered[e] \o SubSeq(plain, 1, n) \in Seq(Nat)
  BY <1>3, ConcatProperties
<1>5. /\ delivered' = [delivered EXCEPT ![e] = delivered[e] \o SubSeq(plain, 1, n)]
      /\ read_buf' = [read_buf EXCEPT ![e] = SubSeq(plain, n + 1, Len(plain))]
      /\ Return(e, "data")
  BY DEF Deliver
<1> HIDE DEF n
<1>6. ControlTypeOK'
  BY <1>5, ReturnType DEF Result
<1> QED BY <1>3, <1>4, <1>5, <1>6

\* A record taken from the buffers.
LEMMA TakeRecordType ==
  ASSUME TypeOK, NEW e \in End, HasRecord(e), TakeRecord(e)
  PROVE  net_in' \in [End -> Seq(Byte)] /\ ssl_in' \in [End -> Seq(Byte)]
<1>1. SubSeq(Held(e), RecLen + 1, Len(Held(e))) \in Seq(Byte) /\ <<>> \in Seq(Byte)
  BY RecordType, EmptySeq
<1> QED BY <1>1 DEF TakeRecord, TypeOK, NetTypeOK

\* A record accepted by wolfSSL.
LEMMA AcceptType ==
  ASSUME TypeOK, NEW e \in End, NEW kind, Accept(e, kind)
  PROVE  /\ net_in' \in [End -> Seq(Byte)] /\ ssl_in' \in [End -> Seq(Byte)]
         /\ got' \in [End -> Seq(Byte)]
<1>1. got[e] \o Record(e) \in Seq(Byte)
  BY RecordType, ConcatProperties DEF Accept, TypeOK
<1> QED BY <1>1, TakeRecordType DEF Accept, TypeOK

\* A record produced by wolfSSL.
LEMMA ProduceType ==
  ASSUME TypeOK, NEW e \in End, NEW kind \in Kind, NEW v \in Nat, Produce(e, kind, v)
  PROVE  net_out' \in [End -> Seq(Byte)] /\ log' \in [End -> Seq(Byte)]
<1>1. /\ net_out[e] \o Encode(kind, v) \in Seq(Byte)
      /\ log[e] \o Encode(kind, v) \in Seq(Byte)
  BY EncodeType, ConcatProperties DEF TypeOK, NetTypeOK
<1> QED BY <1>1 DEF Produce, TypeOK, NetTypeOK

-----------------------------------------------------------------------------
(* The type invariant.                                                     *)

\* The handshake hands over well-typed buffers.
LEMMA InitType == Init => TypeOK
<1> SUFFICES ASSUME Init PROVE TypeOK
  OBVIOUS
<1>1. \A e \in End : InFlight(e) \in Seq(Byte)
  BY EncodeType, EmptySeq DEF InFlight, Kind
<1>2. PICK n \in [End -> 0 .. RecLen] :
        /\ \A e \in End : n[e] <= Len(InFlight(e))
        /\ NetInit([e \in End |-> SubSeq(InFlight(e), n[e] + 1, Len(InFlight(e)))],
                   [e \in End |-> SubSeq(InFlight(Peer(e)), 1, n[Peer(e)])])
  BY DEF Init
<1>3. ASSUME NEW e \in End
      PROVE  /\ SubSeq(InFlight(e), n[e] + 1, Len(InFlight(e))) \in Seq(Byte)
             /\ SubSeq(InFlight(e), 1, n[e]) \in Seq(Byte)
  <2>1. n[e] \in 0 .. Len(InFlight(e))
    BY <1>1, <1>2, StreamAssumption, LenProperties
  <2> QED BY <1>1, <2>1, SplitSeq
<1>4. /\ wire \in [End -> Seq(Byte)] /\ net_in \in [End -> Seq(Byte)]
  BY <1>2, <1>3, PeerOfEnd DEF NetInit
<1>5. NetTypeOK(Byte)
  BY <1>2, <1>4, EmptySeq DEF NetInit, NetTypeOK
<1>6. SessionTypeOK /\ ControlTypeOK /\ tampered \in Nat
  BY EmptySeq DEF Init, SessionTypeOK, ControlTypeOK, At, Result
<1>7. HistoryTypeOK
  BY <1>1, EmptySeq DEF Init, HistoryTypeOK
<1> QED BY <1>5, <1>6, <1>7, TypeParts

\* What the application, the executor and the network do keeps the types.
LEMMA OutsideType ==
  ASSUME TypeOK,
         \/ \E e \in End : Drop(e) \/ Tamper(e)
         \/ \E t \in Task : Poll(t) \/ Cancel(t) \/ \E c \in Operation : Invoke(t, c)
  PROVE  TypeOK'
<1>1. /\ NetTypeOK(Byte) /\ SessionTypeOK /\ ControlTypeOK /\ HistoryTypeOK
      /\ tampered \in Nat
  BY TypeParts
<1>2. ASSUME NEW e \in End, Drop(e) PROVE TypeOK'
  <2>1. NetTypeOK(Byte)'
    BY <1>1, <1>2, DropIoStep DEF Drop
  <2>2. log' \in [End -> Seq(Byte)]
    <3>1. log[e] \o Encode("close_notify", 0) \in Seq(Byte)
      BY <1>1, EncodeType, ConcatProperties DEF HistoryTypeOK, Kind
    <3> QED BY <1>1, <1>2, <3>1 DEF Drop, HistoryTypeOK
  <2>3. SessionTypeOK' /\ ControlTypeOK' /\ HistoryTypeOK' /\ tampered' \in Nat
    BY <1>1, <1>2, <2>2 DEF Drop, SessionTypeOK, ControlTypeOK, HistoryTypeOK, session, control
  <2> QED BY <2>1, <2>3, TypeAssemble
<1>3. ASSUME NEW e \in End, Tamper(e) PROVE TypeOK'
  <2>1. PICK i \in DOMAIN wire[e] : wire' = [wire EXCEPT ![e] = [wire[e] EXCEPT ![i] = Garbage]]
    BY <1>3 DEF Tamper
  <2>2. wire[e] \in Seq(Byte) /\ Garbage \in Byte /\ i \in 1 .. Len(wire[e])
    BY <1>1, LenProperties DEF NetTypeOK, Byte
  <2>3. [wire[e] EXCEPT ![i] = Garbage] \in Seq(Byte)
    BY <2>2, ExceptSeq
  <2>4. NetTypeOK(Byte)'
    BY <1>1, <1>3, <2>1, <2>3 DEF Tamper, NetTypeOK, wakers, buffers
  <2>5. SessionTypeOK' /\ ControlTypeOK' /\ HistoryTypeOK' /\ tampered' \in Nat
    BY <1>1, <1>3 DEF Tamper, SessionTypeOK, ControlTypeOK, HistoryTypeOK, session, control, history
  <2> QED BY <2>4, <2>5, TypeAssemble
<1>4. ASSUME NEW t \in Task, Poll(t) PROVE TypeOK'
  <2>1. EndOf(t) \in End
    BY TaskEnd
  <2>2. Entry(call[t]) \in At
    BY <1>1, <1>4 DEF Poll, ControlTypeOK, Operation, Entry, At
  <2>3. ControlTypeOK'
    BY <1>1, <1>4, <2>1, <2>2 DEF Poll, ControlTypeOK
  <2>4. NetTypeOK(Byte)' /\ SessionTypeOK' /\ HistoryTypeOK' /\ tampered' \in Nat
    BY <1>1, <1>4 DEF Poll, NetTypeOK, SessionTypeOK, HistoryTypeOK, netVars, session, history
  <2> QED BY <2>3, <2>4, TypeAssemble
<1>5. ASSUME NEW t \in Task, Cancel(t) PROVE TypeOK'
  <2>1. parked' \in [Task -> BOOLEAN]
    BY <1>1, <1>5, ParkedType DEF Cancel, NetTypeOK
  <2>2. NetTypeOK(Byte)'
    BY <1>1, <1>5, <2>1 DEF Cancel, NetTypeOK, transport, wakers, buffers
  <2>3. ControlTypeOK'
    BY <1>1, <1>5 DEF Cancel, ControlTypeOK
  <2>4. SessionTypeOK' /\ HistoryTypeOK' /\ tampered' \in Nat
    BY <1>1, <1>5 DEF Cancel, SessionTypeOK, HistoryTypeOK, session, history
  <2> QED BY <2>2, <2>3, <2>4, TypeAssemble
<1>6. ASSUME NEW t \in Task, NEW c \in Operation, Invoke(t, c) PROVE TypeOK'
  <2>1. ControlTypeOK'
    BY <1>1, <1>6 DEF Invoke, ControlTypeOK, Result
  <2>2. NetTypeOK(Byte)' /\ SessionTypeOK' /\ HistoryTypeOK' /\ tampered' \in Nat
    BY <1>1, <1>6 DEF Invoke, NetTypeOK, SessionTypeOK, HistoryTypeOK, netVars, session, history
  <2> QED BY <2>1, <2>2, TypeAssemble
<1> QED BY <1>2, <1>3, <1>4, <1>5, <1>6

\* The steps of poll_read keep the types.
LEMMA ReadType ==
  ASSUME TypeOK, NEW e \in End, ReadStep(e)
  PROVE  TypeOK'
<1>1. /\ NetTypeOK(Byte) /\ SessionTypeOK /\ ControlTypeOK /\ HistoryTypeOK
      /\ tampered \in Nat
  BY TypeParts
<1>2. CASE ReadBuffered(e)
  <2>1. /\ ControlTypeOK' /\ read_buf' \in [End -> Seq(Nat)]
        /\ delivered' \in [End -> Seq(Nat)]
    BY <1>1, <1>2, DeliverType DEF ReadBuffered, SessionTypeOK, HistoryTypeOK
  <2>2. NetTypeOK(Byte)' /\ SessionTypeOK' /\ HistoryTypeOK' /\ tampered' \in Nat
    BY <1>1, <1>2, <2>1 DEF ReadBuffered, NetTypeOK, SessionTypeOK, HistoryTypeOK, netVars
  <2> QED BY <2>1, <2>2, TypeAssemble
<1>3. CASE ReadSkipFill(e)
  <2>1. ControlTypeOK'
    BY <1>1, <1>3, GotoType DEF ReadSkipFill, At
  <2>2. NetTypeOK(Byte)' /\ SessionTypeOK' /\ HistoryTypeOK' /\ tampered' \in Nat
    BY <1>1, <1>3 DEF ReadSkipFill, NetTypeOK, SessionTypeOK, HistoryTypeOK, netVars,
       session, history
  <2> QED BY <2>1, <2>2, TypeAssemble
<1>4. CASE ReadFill(e)
  <2>1. HistoryTypeOK' /\ tampered' \in Nat
    BY <1>1, <1>4 DEF ReadFill, HistoryTypeOK, history
  <2>2. CASE /\ FillReady(e) /\ Goto(e, "rd_ssl")
             /\ UNCHANGED <<fin, dropped, rwaker, net_out, ended>>
    <3>1. NetTypeOK(Byte)'
      BY <1>1, <2>2, FillReadyStep
    <3>2. ControlTypeOK'
      BY <1>1, <2>2, GotoType DEF At
    <3>3. SessionTypeOK'
      BY <1>1, <1>4, <2>2 DEF ReadFill, SessionTypeOK
    <3> QED BY <2>1, <3>1, <3>2, <3>3, TypeAssemble
  <2>3. CASE /\ FillPending(e, holder[e]) /\ Yield(e)
             /\ UNCHANGED <<transport, wwaker, buffers, ended>>
    <3>1. holder[e] \in Task \cup {NoTask}
      BY <1>1 DEF ControlTypeOK
    <3>2. NetTypeOK(Byte)'
      BY <1>1, <2>3, <3>1, FillPendingStep
    <3>3. ControlTypeOK'
      BY <1>1, <2>3, GotoType DEF Yield, At
    <3>4. SessionTypeOK'
      BY <1>1, <1>4, <2>3 DEF ReadFill, SessionTypeOK
    <3> QED BY <2>1, <3>2, <3>3, <3>4, TypeAssemble
  <2>4. CASE AtEof(e) /\ ReturnEnd(e, EofResult(e)) /\ UNCHANGED netVars
    <3>1. NetTypeOK(Byte)'
      BY <1>1, <2>4 DEF NetTypeOK, netVars
    <3>2. ControlTypeOK'
      BY <1>1, <2>4, ReturnType DEF ReturnEnd, EofResult, Result
    <3>3. SessionTypeOK'
      BY <1>1, <1>4, <2>4 DEF ReadFill, SessionTypeOK, ReturnEnd, EofResult
    <3> QED BY <2>1, <3>1, <3>2, <3>3, TypeAssemble
  <2> QED BY <1>4, <2>2, <2>3, <2>4 DEF ReadFill
<1>5. CASE ReadRecord(e)
  <2>1. /\ net_in' \in [End -> Seq(Byte)] /\ ssl_in' \in [End -> Seq(Byte)]
        /\ got' \in [End -> Seq(Byte)]
    BY <1>5, AcceptType DEF ReadRecord
  <2>2. Record(e)[1][2] \in Nat
    <3>1. Record(e)[1] \in Byte /\ Record(e)[1][1] = "data"
      BY <1>5, RecordType DEF ReadRecord, Accept
    <3> QED BY <3>1 DEF Byte, Garbage
  <2>3. read_buf' \in [End -> Seq(Nat)]
    <3>1. Append(read_buf[e], Record(e)[1][2]) \in Seq(Nat)
      BY <1>1, <2>2, AppendProperties DEF SessionTypeOK
    <3> QED BY <1>1, <1>5, <3>1 DEF ReadRecord, SessionTypeOK
  <2>4. ControlTypeOK'
    BY <1>1, <1>5, GotoType DEF ReadRecord, At
  <2>5. NetTypeOK(Byte)' /\ SessionTypeOK' /\ HistoryTypeOK' /\ tampered' \in Nat
    BY <1>1, <1>5, <2>1, <2>3 DEF ReadRecord, NetTypeOK, SessionTypeOK, HistoryTypeOK,
       transport, wakers
  <2> QED BY <2>4, <2>5, TypeAssemble
<1>6. CASE ReadTicket(e)
  <2>1. /\ net_in' \in [End -> Seq(Byte)] /\ ssl_in' \in [End -> Seq(Byte)]
        /\ got' \in [End -> Seq(Byte)]
    BY <1>6, AcceptType DEF ReadTicket
  <2>2. /\ NetTypeOK(Byte)' /\ SessionTypeOK' /\ ControlTypeOK' /\ HistoryTypeOK'
        /\ tampered' \in Nat
    BY <1>1, <1>6, <2>1 DEF ReadTicket, NetTypeOK, SessionTypeOK, ControlTypeOK,
       HistoryTypeOK, transport, wakers, control
  <2> QED BY <2>2, TypeAssemble
<1>7. CASE ReadCloseNotify(e)
  <2>1. /\ net_in' \in [End -> Seq(Byte)] /\ ssl_in' \in [End -> Seq(Byte)]
        /\ got' \in [End -> Seq(Byte)]
    BY <1>7, AcceptType DEF ReadCloseNotify
  <2>2. ssl_closed' \in [End -> BOOLEAN]
    BY <1>1, <1>7, Zenon DEF ReadCloseNotify, SessionTypeOK
  <2>3. /\ ControlTypeOK' /\ read_buf' \in [End -> Seq(Nat)]
        /\ delivered' \in [End -> Seq(Nat)]
        /\ ended' \in [End -> {"no", "eof", "unexpected_eof", "fatal"}]
    <3>1. CASE Deliver(e, read_buf[e]) /\ UNCHANGED ended
      BY <1>1, <3>1, DeliverType DEF SessionTypeOK, HistoryTypeOK
    <3>2. CASE ReturnEnd(e, "eof") /\ UNCHANGED <<read_buf, delivered>>
      <4>1. ControlTypeOK'
        BY <1>1, <3>2, ReturnType DEF ReturnEnd, Result
      <4> QED BY <1>1, <3>2, <4>1 DEF ReturnEnd, SessionTypeOK, HistoryTypeOK
    <3> QED BY <1>7, <3>1, <3>2 DEF ReadCloseNotify, Finish
  <2>4. NetTypeOK(Byte)' /\ SessionTypeOK' /\ HistoryTypeOK' /\ tampered' \in Nat
    BY <1>1, <1>7, <2>1, <2>2, <2>3 DEF ReadCloseNotify, NetTypeOK, SessionTypeOK,
       HistoryTypeOK, transport, wakers
  <2> QED BY <2>3, <2>4, TypeAssemble
<1>8. CASE ReadWantRead(e)
  <2>1. net_in' \in [End -> Seq(Byte)] /\ ssl_in' \in [End -> Seq(Byte)]
    BY <1>1, <1>8, HeldType, EmptySeq DEF ReadWantRead, NetTypeOK, SessionTypeOK
  <2>2. /\ ControlTypeOK' /\ read_buf' \in [End -> Seq(Nat)]
        /\ delivered' \in [End -> Seq(Nat)]
    <3>1. CASE Deliver(e, read_buf[e])
      BY <1>1, <3>1, DeliverType DEF SessionTypeOK, HistoryTypeOK
    <3>2. CASE Goto(e, "rd_top") /\ UNCHANGED <<read_buf, delivered>>
      BY <1>1, <3>2, GotoType DEF At, SessionTypeOK, HistoryTypeOK
    <3> QED BY <1>8, <3>1, <3>2 DEF ReadWantRead
  <2>3. NetTypeOK(Byte)' /\ SessionTypeOK' /\ HistoryTypeOK' /\ tampered' \in Nat
    BY <1>1, <1>8, <2>1, <2>2 DEF ReadWantRead, NetTypeOK, SessionTypeOK,
       HistoryTypeOK, transport, wakers
  <2> QED BY <2>2, <2>3, TypeAssemble
<1>9. CASE ReadFatal(e)
  <2>1. net_in' \in [End -> Seq(Byte)] /\ ssl_in' \in [End -> Seq(Byte)]
    BY <1>9, TakeRecordType DEF ReadFatal
  <2>2. ControlTypeOK'
    BY <1>1, <1>9, ReturnType DEF ReadFatal, ReturnEnd, Result
  <2>3. NetTypeOK(Byte)' /\ SessionTypeOK' /\ HistoryTypeOK' /\ tampered' \in Nat
    BY <1>1, <1>9, <2>1 DEF ReadFatal, ReturnEnd, NetTypeOK, SessionTypeOK,
       HistoryTypeOK, transport, wakers, history
  <2> QED BY <2>2, <2>3, TypeAssemble
<1> QED
  BY <1>2, <1>3, <1>4, <1>5, <1>6, <1>7, <1>8, <1>9 DEF ReadStep

\* What follows a flush keeps the types.
LEMMA AfterFlushType ==
  ASSUME ControlTypeOK, NEW e \in End, at[e] \in FlushAt, AfterFlush(e)
  PROVE  ControlTypeOK'
<1>1. \/ Goto(e, "rd_ssl")
      \/ Goto(e, "sd_io")
      \/ Return(e, "ok")
  BY DEF AfterFlush, FlushAt
<1> QED BY <1>1, GotoType, ReturnType DEF At, Result

\* The steps of poll_write, poll_flush and poll_shutdown keep the types.
LEMMA WriteType ==
  ASSUME TypeOK, NEW e \in End, WriteStep(e)
  PROVE  TypeOK'
<1>1. /\ NetTypeOK(Byte) /\ SessionTypeOK /\ ControlTypeOK /\ HistoryTypeOK
      /\ tampered \in Nat
  BY TypeParts
<1>2. CASE WriteRecord(e)
  <2>1. written[e] \in Seq(Nat) /\ Len(written[e]) + 1 \in Nat
    BY <1>1, LenProperties DEF HistoryTypeOK
  <2>2. net_out' \in [End -> Seq(Byte)] /\ log' \in [End -> Seq(Byte)]
    BY <1>2, <2>1, ProduceType DEF WriteRecord, Kind
  <2>3. written' \in [End -> Seq(Nat)]
    <3>1. Append(written[e], Len(written[e]) + 1) \in Seq(Nat)
      BY <2>1, AppendProperties
    <3> QED BY <1>1, <1>2, <3>1 DEF WriteRecord, HistoryTypeOK
  <2>4. ControlTypeOK'
    BY <1>1, <1>2, GotoType DEF WriteRecord, At
  <2>5. NetTypeOK(Byte)' /\ SessionTypeOK' /\ HistoryTypeOK' /\ tampered' \in Nat
    BY <1>1, <1>2, <2>2, <2>3 DEF WriteRecord, NetTypeOK, SessionTypeOK, HistoryTypeOK,
       transport, wakers, session
  <2> QED BY <2>4, <2>5, TypeAssemble
<1>3. CASE WriteFatal(e)
  <2>1. ControlTypeOK'
    BY <1>1, <1>3, ReturnType DEF WriteFatal, Result
  <2>2. NetTypeOK(Byte)' /\ SessionTypeOK' /\ HistoryTypeOK' /\ tampered' \in Nat
    BY <1>1, <1>3 DEF WriteFatal, NetTypeOK, SessionTypeOK, HistoryTypeOK, netVars,
       session, history
  <2> QED BY <2>1, <2>2, TypeAssemble
<1>4. CASE FlushNetOut(e)
  <2>1. SessionTypeOK' /\ HistoryTypeOK' /\ tampered' \in Nat /\ at[e] \in FlushAt
    BY <1>1, <1>4 DEF FlushNetOut, SessionTypeOK, HistoryTypeOK, session, history
  <2>2. CASE AfterFlush(e) /\ UNCHANGED netVars
    <3>1. NetTypeOK(Byte)'
      BY <1>1, <2>2 DEF NetTypeOK, netVars
    <3>2. ControlTypeOK'
      BY <1>1, <2>1, <2>2, AfterFlushType
    <3> QED BY <2>1, <3>1, <3>2, TypeAssemble
  <2>3. CASE FlushChunk(e) /\ UNCHANGED <<fin, dropped, wwaker, net_in, control>>
    <3>1. NetTypeOK(Byte)'
      BY <1>1, <2>3, FlushChunkStep
    <3>2. ControlTypeOK'
      BY <1>1, <2>3 DEF ControlTypeOK, control
    <3> QED BY <2>1, <3>1, <3>2, TypeAssemble
  <2>4. CASE /\ FlushPending(e, holder[e])
             /\ IF BestEffort(e)
                THEN AfterFlush(e) /\ UNCHANGED parked
                ELSE Yield(e) /\ parked' = Suspended(holder[e])
             /\ UNCHANGED <<transport, rwaker, buffers>>
    <3>1. holder[e] \in Task \cup {NoTask}
      BY <1>1 DEF ControlTypeOK
    <3>2. NetTypeOK(Byte)'
      BY <1>1, <2>4, <3>1, FlushPendingStep
    <3>3. ControlTypeOK'
      BY <1>1, <2>1, <2>4, AfterFlushType, GotoType DEF Yield, At
    <3> QED BY <2>1, <3>2, <3>3, TypeAssemble
  <2>5. CASE Return(e, "broken_pipe") /\ UNCHANGED netVars
    <3>1. NetTypeOK(Byte)'
      BY <1>1, <2>5 DEF NetTypeOK, netVars
    <3>2. ControlTypeOK'
      BY <1>1, <2>5, ReturnType DEF Result
    <3> QED BY <2>1, <3>1, <3>2, TypeAssemble
  <2> QED BY <1>4, <2>2, <2>3, <2>4, <2>5 DEF FlushNetOut
<1>5. CASE ShutdownSsl(e)
  <2>1. shutdown_sent' \in [End -> BOOLEAN]
    BY <1>1, <1>5, Zenon DEF ShutdownSsl, SessionTypeOK
  <2>2. /\ net_out' \in [End -> Seq(Byte)] /\ log' \in [End -> Seq(Byte)]
        /\ ControlTypeOK'
    <3>1. CASE Produce(e, "close_notify", 0) /\ Goto(e, "sd_flush")
      BY <1>1, <3>1, ProduceType, GotoType DEF Kind, At
    <3>2. CASE Goto(e, "sd_flush") /\ UNCHANGED <<net_out, log>>
      BY <1>1, <3>2, GotoType DEF At, NetTypeOK, HistoryTypeOK
    <3>3. CASE Return(e, "fatal") /\ UNCHANGED <<net_out, log>>
      BY <1>1, <3>3, ReturnType DEF Result, NetTypeOK, HistoryTypeOK
    <3> QED BY <1>5, <3>1, <3>2, <3>3 DEF ShutdownSsl
  <2>3. NetTypeOK(Byte)' /\ SessionTypeOK' /\ HistoryTypeOK' /\ tampered' \in Nat
    BY <1>1, <1>5, <2>1, <2>2 DEF ShutdownSsl, NetTypeOK, SessionTypeOK, HistoryTypeOK,
       transport, wakers
  <2> QED BY <2>2, <2>3, TypeAssemble
<1>6. CASE ShutdownIo(e)
  <2>1. NetTypeOK(Byte)'
    BY <1>1, <1>6, CloseWriteStep DEF ShutdownIo
  <2>2. ControlTypeOK'
    BY <1>1, <1>6, ReturnType DEF ShutdownIo, Result
  <2>3. SessionTypeOK' /\ HistoryTypeOK' /\ tampered' \in Nat
    BY <1>1, <1>6 DEF ShutdownIo, SessionTypeOK, HistoryTypeOK, session, history
  <2> QED BY <2>1, <2>2, <2>3, TypeAssemble
<1> QED BY <1>2, <1>3, <1>4, <1>5, <1>6 DEF WriteStep

\* Every step keeps the types.
LEMMA NextType == TypeOK /\ [Next]_vars => TypeOK'
<1> SUFFICES ASSUME TypeOK, [Next]_vars PROVE TypeOK'
  OBVIOUS
<1>1. CASE UNCHANGED vars
  BY <1>1 DEF vars, TypeOK, NetTypeOK, session, control, history
<1>2. CASE Next
  BY <1>2, OutsideType, ReadType, WriteType DEF Next, Step
<1> QED BY <1>1, <1>2

\* The variables of both streams keep their types: where a poll can be, what
\* poll_read, poll_write, poll_flush and poll_shutdown can return and what the
\* buffers hold.
THEOREM TypeCorrect == Spec => []TypeOK
<1>1. Init => TypeOK
  BY InitType
<1>2. TypeOK /\ [Next]_vars => TypeOK'
  BY NextType
<1> QED BY <1>1, <1>2, PTL DEF Spec

-----------------------------------------------------------------------------
(* Who is polling: the stream is borrowed by one task that has called it,  *)
(* is at a place of the call it made, and is not parked.                   *)

Places(c) ==
  CASE c = "read" -> {"rd_top", "rd_ssl", "rd_flush"}
    [] c = "write" -> {"wr_ssl", "wr_flush"}
    [] c = "flush" -> {"fl_flush"}
    [] c = "shutdown" -> {"sd_ssl", "sd_flush", "sd_io"}
    [] OTHER -> {}

BorrowInv ==
  \A e \in End : at[e] # "idle" =>
    /\ holder[e] \in Task
    /\ EndOf(holder[e]) = e
    /\ at[e] \in Places(call[holder[e]])
    /\ ~parked[holder[e]]

CallInv == \A t \in Task : call[t] # "none" => ~dropped[EndOf(t)]

ControlInv == BorrowInv /\ CallInv

\* Nobody is parked by waking tasks.
LEMMA WokenIsSmaller ==
  ASSUME NEW ts, parked' = Woken(ts)
  PROVE  \A t \in Task : parked'[t] => parked[t]
BY DEF Woken

\* A step that leaves the control state alone.
LEMMA ControlSame ==
  ASSUME ControlInv, UNCHANGED <<control, dropped>>,
         \A t \in Task : parked'[t] => parked[t]
  PROVE  ControlInv'
BY DEF ControlInv, BorrowInv, CallInv, control

\* A poll that moves on within its call, or yields.
LEMMA ControlGoto ==
  ASSUME TypeOK, ControlInv, NEW e \in End, at[e] # "idle", NEW place, Goto(e, place),
         place \in Places(call[holder[e]]) \cup {"idle"}, UNCHANGED dropped,
         \A t \in Task : parked'[t] => parked[t] \/ (place = "idle" /\ t = holder[e])
  PROVE  ControlInv'
<1>1. /\ at' = [at EXCEPT ![e] = place] /\ holder' = holder /\ call' = call
      /\ at \in [End -> At]
  BY DEF Goto, TypeOK
<1>2. CallInv'
  BY <1>1 DEF ControlInv, CallInv
<1>3. ASSUME NEW x \in End, at'[x] # "idle"
      PROVE  /\ holder'[x] \in Task
             /\ EndOf(holder'[x]) = x
             /\ at'[x] \in Places(call'[holder'[x]])
             /\ ~parked'[holder'[x]]
  <2>1. CASE x = e
    BY <1>1, <1>3, <2>1 DEF ControlInv, BorrowInv
  <2>2. CASE x # e
    BY <1>1, <1>3, <2>2 DEF ControlInv, BorrowInv
  <2> QED BY <2>1, <2>2
<1> QED BY <1>2, <1>3 DEF ControlInv, BorrowInv, Places

\* A poll that is Ready.
LEMMA ControlReturn ==
  ASSUME TypeOK, ControlInv, NEW e \in End, at[e] # "idle", NEW r, Return(e, r),
         UNCHANGED dropped, \A t \in Task : parked'[t] => parked[t]
  PROVE  ControlInv'
<1>1. /\ at' = [at EXCEPT ![e] = "idle"] /\ holder' = holder
      /\ call' = [call EXCEPT ![holder[e]] = "none"]
      /\ at \in [End -> At] /\ call \in [Task -> Operation \cup {"none"}]
  BY DEF Return, TypeOK
<1>2. CallInv'
  BY <1>1 DEF ControlInv, CallInv
<1>3. ASSUME NEW x \in End, at'[x] # "idle"
      PROVE  /\ holder'[x] \in Task
             /\ EndOf(holder'[x]) = x
             /\ at'[x] \in Places(call'[holder'[x]])
             /\ ~parked'[holder'[x]]
  <2>1. x # e /\ at'[x] = at[x] /\ at[x] # "idle"
    BY <1>1, <1>3
  <2>2. holder[x] \in Task /\ EndOf(holder[x]) = x /\ EndOf(holder[e]) = e
    BY <2>1 DEF ControlInv, BorrowInv
  <2>3. call'[holder[x]] = call[holder[x]]
    BY <1>1, <2>1, <2>2
  <2> QED BY <1>1, <2>1, <2>2, <2>3 DEF ControlInv, BorrowInv
<1> QED BY <1>2, <1>3 DEF ControlInv, BorrowInv, Places

\* The place a poll is at tells which call it serves.
LEMMA CallAtPlace ==
  ASSUME TypeOK, ControlInv, NEW e \in End, at[e] # "idle"
  PROVE  /\ holder[e] \in Task /\ EndOf(holder[e]) = e /\ ~dropped[e]
         /\ at[e] \in {"rd_top", "rd_ssl", "rd_flush"} => call[holder[e]] = "read"
         /\ at[e] \in {"wr_ssl", "wr_flush"} => call[holder[e]] = "write"
         /\ at[e] = "fl_flush" => call[holder[e]] = "flush"
         /\ at[e] \in {"sd_ssl", "sd_flush", "sd_io"} => call[holder[e]] = "shutdown"
<1>1. holder[e] \in Task /\ EndOf(holder[e]) = e /\ at[e] \in Places(call[holder[e]])
  BY DEF ControlInv, BorrowInv
<1>2. call[holder[e]] \in {"read", "write", "flush", "shutdown", "none"}
  BY <1>1 DEF TypeOK, Operation
<1>3. call[holder[e]] # "none"
  BY <1>1 DEF Places
<1>4. ~dropped[e]
  BY <1>1, <1>3 DEF ControlInv, CallInv
<1>5. CASE call[holder[e]] = "read"
  BY <1>1, <1>4, <1>5 DEF Places
<1>6. CASE call[holder[e]] = "write"
  BY <1>1, <1>4, <1>6 DEF Places
<1>7. CASE call[holder[e]] = "flush"
  BY <1>1, <1>4, <1>7 DEF Places
<1>8. CASE call[holder[e]] = "shutdown"
  BY <1>1, <1>4, <1>8 DEF Places
<1> QED BY <1>2, <1>3, <1>5, <1>6, <1>7, <1>8

\* What the application, the executor and the network do keeps to the borrow.
LEMMA OutsideControl ==
  ASSUME TypeOK, ControlInv,
         \/ \E e \in End : Drop(e) \/ Tamper(e)
         \/ \E t \in Task : Poll(t) \/ Cancel(t) \/ \E c \in Operation : Invoke(t, c)
  PROVE  ControlInv'
<1>1. /\ at \in [End -> At] /\ holder \in [End -> Task \cup {NoTask}]
      /\ call \in [Task -> Operation \cup {"none"}]
      /\ dropped \in [End -> BOOLEAN] /\ parked \in [Task -> BOOLEAN]
  BY DEF TypeOK, NetTypeOK
<1>2. ASSUME NEW e \in End, Drop(e) PROVE ControlInv'
  <2>1. /\ at' = at /\ holder' = holder /\ call' = call
        /\ dropped' = [dropped EXCEPT ![e] = TRUE]
        /\ \A t \in Task : EndOf(t) = e => call[t] = "none"
    BY <1>2 DEF Drop, DropIo, control
  <2>2. \A t \in Task : parked'[t] => parked[t]
    BY <1>2, WokenIsSmaller DEF Drop, DropIo
  <2>3. BorrowInv'
    BY <2>1, <2>2 DEF ControlInv, BorrowInv
  <2>4. CallInv'
    BY <1>1, <2>1, TaskEnd DEF ControlInv, CallInv
  <2> QED BY <2>3, <2>4 DEF ControlInv
<1>3. ASSUME NEW e \in End, Tamper(e) PROVE ControlInv'
  BY <1>3, ControlSame DEF Tamper
<1>4. ASSUME NEW t \in Task, Poll(t) PROVE ControlInv'
  <2> DEFINE e == EndOf(t)
  <2>1. /\ e \in End /\ call[t] # "none" /\ ~parked[t]
        /\ at' = [at EXCEPT ![e] = Entry(call[t])]
        /\ holder' = [holder EXCEPT ![e] = t] /\ call' = call
        /\ dropped' = dropped /\ parked' = parked
    BY <1>4, TaskEnd DEF Poll, netVars
  <2>2. Entry(call[t]) \in Places(call[t])
    BY <1>1, <2>1 DEF Operation, Entry, Places
  <2>3. CallInv'
    BY <2>1 DEF ControlInv, CallInv
  <2>4. ASSUME NEW x \in End, at'[x] # "idle"
        PROVE  /\ holder'[x] \in Task /\ EndOf(holder'[x]) = x
               /\ at'[x] \in Places(call'[holder'[x]]) /\ ~parked'[holder'[x]]
    <3>1. CASE x = e
      BY <1>1, <2>1, <2>2, <3>1
    <3>2. CASE x # e
      BY <1>1, <2>1, <2>4, <3>2 DEF ControlInv, BorrowInv
    <3> QED BY <3>1, <3>2
  <2> QED BY <2>3, <2>4 DEF ControlInv, BorrowInv, Places
<1>5. ASSUME NEW t \in Task, Cancel(t) PROVE ControlInv'
  <2>1. /\ at' = at /\ holder' = holder /\ dropped' = dropped
        /\ call' = [call EXCEPT ![t] = "none"] /\ parked[t]
    BY <1>5 DEF Cancel, transport
  <2>2. \A u \in Task : parked'[u] => parked[u]
    BY <1>5, WokenIsSmaller DEF Cancel
  <2>3. CallInv'
    BY <1>1, <2>1 DEF ControlInv, CallInv
  <2>4. ASSUME NEW x \in End, at'[x] # "idle"
        PROVE  /\ holder'[x] \in Task /\ EndOf(holder'[x]) = x
               /\ at'[x] \in Places(call'[holder'[x]]) /\ ~parked'[holder'[x]]
    <3>1. holder[x] \in Task /\ holder[x] # t
      BY <2>1, <2>4 DEF ControlInv, BorrowInv
    <3> QED BY <1>1, <2>1, <2>2, <2>4, <3>1 DEF ControlInv, BorrowInv
  <2> QED BY <2>3, <2>4 DEF ControlInv, BorrowInv, Places
<1>6. ASSUME NEW t \in Task, NEW c \in Operation, Invoke(t, c) PROVE ControlInv'
  <2>1. /\ at' = at /\ holder' = holder /\ dropped' = dropped /\ parked' = parked
        /\ call' = [call EXCEPT ![t] = c] /\ call[t] = "none" /\ ~dropped[EndOf(t)]
    BY <1>6 DEF Invoke, netVars
  <2>2. CallInv'
    BY <1>1, <2>1 DEF ControlInv, CallInv
  <2>3. ASSUME NEW x \in End, at'[x] # "idle"
        PROVE  /\ holder'[x] \in Task /\ EndOf(holder'[x]) = x
               /\ at'[x] \in Places(call'[holder'[x]]) /\ ~parked'[holder'[x]]
    <3>1. holder[x] \in Task /\ at[x] \in Places(call[holder[x]])
      BY <2>1, <2>3 DEF ControlInv, BorrowInv
    <3>2. holder[x] # t
      BY <2>1, <3>1 DEF Places
    <3> QED BY <1>1, <2>1, <2>3, <3>1, <3>2 DEF ControlInv, BorrowInv
  <2> QED BY <2>2, <2>3 DEF ControlInv, BorrowInv, Places
<1> QED BY <1>2, <1>3, <1>4, <1>5, <1>6

\* The steps of a poll keep to the borrow.
LEMMA StepControl ==
  ASSUME TypeOK, ControlInv, NEW e \in End, Step(e)
  PROVE  ControlInv'
<1>1. at[e] # "idle"
  BY DEF Step, ReadStep, WriteStep, ReadBuffered, ReadSkipFill, ReadFill, ReadRecord,
     ReadTicket, ReadCloseNotify, ReadWantRead, ReadFatal, WriteRecord, WriteFatal,
     FlushNetOut, FlushAt, ShutdownSsl, ShutdownIo
<1>2. ASSUME UNCHANGED parked PROVE \A t \in Task : parked'[t] => parked[t]
  BY <1>2
<1>3. CASE ReadBuffered(e)
  BY <1>1, <1>2, <1>3, ControlReturn DEF ReadBuffered, Deliver, netVars
<1>4. CASE ReadSkipFill(e)
  <2>1. "rd_ssl" \in Places(call[holder[e]])
    BY <1>1, <1>4, CallAtPlace DEF ReadSkipFill, Places
  <2> QED BY <1>1, <1>2, <1>4, <2>1, ControlGoto DEF ReadSkipFill, netVars
<1>5. CASE ReadFill(e)
  <2>1. "rd_ssl" \in Places(call[holder[e]])
    BY <1>1, <1>5, CallAtPlace DEF ReadFill, Places
  <2>2. CASE FillReady(e) /\ Goto(e, "rd_ssl") /\ UNCHANGED dropped
    <3>1. \A t \in Task : parked'[t] => parked[t]
      BY <2>2, WokenIsSmaller DEF FillReady
    <3> QED BY <1>1, <2>1, <2>2, <3>1, ControlGoto
  <2>3. CASE FillPending(e, holder[e]) /\ Yield(e) /\ UNCHANGED transport
    <3>1. \A t \in Task : parked'[t] => parked[t] \/ t = holder[e]
      BY <2>3 DEF FillPending, Suspended, TypeOK, NetTypeOK
    <3> QED BY <1>1, <2>3, <3>1, ControlGoto DEF Yield, transport
  <2>4. CASE ReturnEnd(e, EofResult(e)) /\ UNCHANGED netVars
    BY <1>1, <1>2, <2>4, ControlReturn DEF ReturnEnd, netVars
  <2> QED BY <1>5, <2>2, <2>3, <2>4 DEF ReadFill
<1>6. CASE ReadRecord(e)
  <2>1. "rd_flush" \in Places(call[holder[e]])
    BY <1>1, <1>6, CallAtPlace DEF ReadRecord, Places
  <2> QED BY <1>1, <1>2, <1>6, <2>1, ControlGoto DEF ReadRecord, transport
<1>7. CASE ReadTicket(e)
  BY <1>2, <1>7, ControlSame DEF ReadTicket, transport
<1>8. CASE ReadCloseNotify(e)
  BY <1>1, <1>2, <1>8, ControlReturn DEF ReadCloseNotify, Finish, Deliver, ReturnEnd, transport
<1>9. CASE ReadWantRead(e)
  <2>1. "rd_top" \in Places(call[holder[e]])
    BY <1>1, <1>9, CallAtPlace DEF ReadWantRead, Places
  <2>2. CASE Deliver(e, read_buf[e])
    BY <1>1, <1>2, <1>9, <2>2, ControlReturn DEF ReadWantRead, Deliver, transport
  <2>3. CASE Goto(e, "rd_top")
    BY <1>1, <1>2, <1>9, <2>1, <2>3, ControlGoto DEF ReadWantRead, transport
  <2> QED BY <1>9, <2>2, <2>3 DEF ReadWantRead
<1>10. CASE ReadFatal(e)
  BY <1>1, <1>2, <1>10, ControlReturn DEF ReadFatal, ReturnEnd, transport
<1>11. CASE WriteRecord(e)
  <2>1. "wr_flush" \in Places(call[holder[e]])
    BY <1>1, <1>11, CallAtPlace DEF WriteRecord, Places
  <2> QED BY <1>1, <1>2, <1>11, <2>1, ControlGoto DEF WriteRecord, transport
<1>12. CASE WriteFatal(e)
  BY <1>1, <1>2, <1>12, ControlReturn DEF WriteFatal, netVars
<1>13. CASE FlushNetOut(e)
  <2>1. ASSUME AfterFlush(e), UNCHANGED <<dropped, parked>> PROVE ControlInv'
    <3>1. /\ at[e] = "rd_flush" => "rd_ssl" \in Places(call[holder[e]])
          /\ at[e] = "sd_flush" => "sd_io" \in Places(call[holder[e]])
      BY <1>1, CallAtPlace DEF Places
    <3>2. \/ at[e] = "rd_flush" /\ Goto(e, "rd_ssl")
          \/ at[e] = "sd_flush" /\ Goto(e, "sd_io")
          \/ Return(e, "ok")
      BY <1>13, <2>1 DEF FlushNetOut, FlushAt, AfterFlush
    <3> QED BY <1>1, <1>2, <2>1, <3>1, <3>2, ControlGoto, ControlReturn
  <2>2. CASE AfterFlush(e) /\ UNCHANGED netVars
    BY <2>1, <2>2 DEF netVars
  <2>3. CASE FlushChunk(e) /\ UNCHANGED <<fin, dropped, wwaker, net_in, control>>
    <3>1. \A t \in Task : parked'[t] => parked[t]
      BY <2>3, WokenIsSmaller DEF FlushChunk
    <3> QED BY <2>3, <3>1, ControlSame
  <2>4. CASE AfterFlush(e) /\ UNCHANGED parked /\ UNCHANGED transport
    BY <2>1, <2>4 DEF transport
  <2>5. CASE Yield(e) /\ parked' = Suspended(holder[e]) /\ UNCHANGED transport
    <3>1. \A t \in Task : parked'[t] => parked[t] \/ t = holder[e]
      BY <2>5 DEF Suspended, TypeOK, NetTypeOK
    <3> QED BY <1>1, <2>5, <3>1, ControlGoto DEF Yield, transport
  <2>6. CASE Return(e, "broken_pipe") /\ UNCHANGED netVars
    BY <1>1, <1>2, <2>6, ControlReturn DEF netVars
  <2> QED BY <1>13, <2>2, <2>3, <2>4, <2>5, <2>6 DEF FlushNetOut
<1>14. CASE ShutdownSsl(e)
  <2>1. "sd_flush" \in Places(call[holder[e]])
    BY <1>1, <1>14, CallAtPlace DEF ShutdownSsl, Places
  <2>2. Goto(e, "sd_flush") \/ Return(e, "fatal")
    BY <1>14 DEF ShutdownSsl
  <2> QED BY <1>1, <1>2, <1>14, <2>1, <2>2, ControlGoto, ControlReturn DEF ShutdownSsl, transport
<1>15. CASE ShutdownIo(e)
  <2>1. \A t \in Task : parked'[t] => parked[t]
    BY <1>15, WokenIsSmaller DEF ShutdownIo, CloseWrite
  <2> QED BY <1>1, <1>15, <2>1, ControlReturn DEF ShutdownIo
<1> QED
  BY <1>3, <1>4, <1>5, <1>6, <1>7, <1>8, <1>9, <1>10, <1>11, <1>12, <1>13, <1>14, <1>15
     DEF Step, ReadStep, WriteStep

\* The borrow discipline holds throughout: a poll is made by a task that has
\* called the stream and is not parked, at a place of that call.
THEOREM ControlHolds == Spec => []ControlInv
<1>1. Init => ControlInv
  BY DEF Init, ControlInv, BorrowInv, CallInv
<1>2. TypeOK /\ ControlInv /\ [Next]_vars => ControlInv'
  <2> SUFFICES ASSUME TypeOK, ControlInv, [Next]_vars PROVE ControlInv'
    OBVIOUS
  <2>1. CASE UNCHANGED vars
    BY <2>1, ControlSame DEF vars, control
  <2>2. CASE Next
    BY <2>2, OutsideControl, StepControl DEF Next
  <2> QED BY <2>1, <2>2
<1> QED BY <1>1, <1>2, TypeCorrect, PTL DEF Spec

-----------------------------------------------------------------------------
(* What a call may rely on: a task makes only calls of its half, a write   *)
(* was begun before the shutdown, a read before the end of the stream.     *)

CallsInv ==
  \A t \in Task :
    /\ call[t] # "none" => call[t] \in CallsOf[t]
    /\ call[t] = "write" => ~shutdown_sent[EndOf(t)]
    /\ call[t] = "read" => ended[EndOf(t)] = "no"

\* No call begins and the streams are neither closed nor ended.
LEMMA CallsSame ==
  ASSUME CallsInv, \A t \in Task : call'[t] = call[t] \/ call'[t] = "none",
         UNCHANGED <<shutdown_sent, ended>>
  PROVE  CallsInv'
BY DEF CallsInv

\* A poll that is Ready ends no other call.
LEMMA ReturnEndsOne ==
  ASSUME TypeOK, NEW e \in End, NEW r, Return(e, r)
  PROVE  \A t \in Task : /\ call'[t] = call[t] \/ call'[t] = "none"
                         /\ t # holder[e] => call'[t] = call[t]
                         /\ t = holder[e] => call'[t] = "none"
BY DEF Return, TypeOK

\* The end of the stream is told to the only reader.
LEMMA CallsEnded ==
  ASSUME TypeOK, ControlInv, CallsInv, NEW e \in End,
         at[e] \in {"rd_top", "rd_ssl", "rd_flush"}, NEW r, ReturnEnd(e, r),
         UNCHANGED shutdown_sent
  PROVE  CallsInv'
<1>1. holder[e] \in Task /\ EndOf(holder[e]) = e /\ call[holder[e]] = "read"
  BY CallAtPlace
<1>2. Return(e, r) /\ ended' = [ended EXCEPT ![e] = r]
  BY DEF ReturnEnd
<1>3. \A t \in Task : /\ call'[t] = call[t] \/ call'[t] = "none"
                      /\ t = holder[e] => call'[t] = "none"
  BY <1>2, ReturnEndsOne
<1>4. \A t \in Task : call'[t] = "read" => EndOf(t) # e
  BY <1>1, <1>3, HalvesAssumption DEF CallsInv
<1>5. \A x \in End : x # e => ended'[x] = ended[x]
  BY <1>2 DEF TypeOK
<1> QED BY <1>3, <1>4, <1>5, TaskEnd DEF CallsInv

\* The stream is shut down by the only writer.
LEMMA CallsShut ==
  ASSUME TypeOK, ControlInv, CallsInv, NEW e \in End, ShutdownSsl(e)
  PROVE  CallsInv'
<1>1. holder[e] \in Task /\ EndOf(holder[e]) = e /\ call[holder[e]] = "shutdown"
  BY CallAtPlace DEF ShutdownSsl
<1>2. /\ shutdown_sent' = [shutdown_sent EXCEPT ![e] = TRUE] /\ ended' = ended
      /\ \A t \in Task : call'[t] = call[t] \/ call'[t] = "none"
  BY ReturnEndsOne DEF ShutdownSsl, Goto
<1>3. \A t \in Task : call[t] = "write" => EndOf(t) # e
  BY <1>1, HalvesAssumption DEF CallsInv, Sending
<1>4. \A x \in End : x # e => shutdown_sent'[x] = shutdown_sent[x]
  BY <1>2 DEF TypeOK
<1> QED BY <1>2, <1>3, <1>4, TaskEnd DEF CallsInv

\* poll_read keeps what calls rely on.
LEMMA CallsRead ==
  ASSUME TypeOK, ControlInv, CallsInv, NEW e \in End, ReadStep(e)
  PROVE  CallsInv'
<1>1. CASE ReadBuffered(e)
  BY <1>1, ReturnEndsOne, CallsSame DEF ReadBuffered, Deliver
<1>2. CASE ReadSkipFill(e) \/ ReadRecord(e) \/ ReadTicket(e)
  BY <1>2, CallsSame DEF ReadSkipFill, ReadRecord, ReadTicket, Goto, session, control
<1>3. CASE ReadFill(e)
  <2>1. CASE (Goto(e, "rd_ssl") \/ Yield(e)) /\ UNCHANGED ended
    BY <1>3, <2>1, CallsSame DEF ReadFill, Goto, Yield
  <2>2. CASE ReturnEnd(e, EofResult(e))
    BY <1>3, <2>2, CallsEnded DEF ReadFill
  <2> QED BY <1>3, <2>1, <2>2 DEF ReadFill
<1>4. CASE ReadCloseNotify(e)
  <2>1. CASE Deliver(e, read_buf[e]) /\ UNCHANGED ended
    BY <1>4, <2>1, ReturnEndsOne, CallsSame DEF ReadCloseNotify, Deliver
  <2>2. CASE ReturnEnd(e, "eof")
    BY <1>4, <2>2, CallsEnded DEF ReadCloseNotify
  <2> QED BY <1>4, <2>1, <2>2 DEF ReadCloseNotify, Finish
<1>5. CASE ReadWantRead(e)
  <2>1. CASE Deliver(e, read_buf[e])
    BY <1>5, <2>1, ReturnEndsOne, CallsSame DEF ReadWantRead, Deliver
  <2>2. CASE Goto(e, "rd_top")
    BY <1>5, <2>2, CallsSame DEF ReadWantRead, Goto
  <2> QED BY <1>5, <2>1, <2>2 DEF ReadWantRead
<1>6. CASE ReadFatal(e)
  BY <1>6, CallsEnded DEF ReadFatal
<1> QED BY <1>1, <1>2, <1>3, <1>4, <1>5, <1>6 DEF ReadStep

\* poll_write, poll_flush and poll_shutdown keep it.
LEMMA CallsWrite ==
  ASSUME TypeOK, ControlInv, CallsInv, NEW e \in End, WriteStep(e)
  PROVE  CallsInv'
<1>1. CASE WriteRecord(e)
  BY <1>1, CallsSame DEF WriteRecord, Goto, session
<1>2. CASE WriteFatal(e) \/ ShutdownIo(e)
  BY <1>2, ReturnEndsOne, CallsSame DEF WriteFatal, ShutdownIo, session
<1>3. CASE FlushNetOut(e)
  <2>1. UNCHANGED <<shutdown_sent, ended>>
    BY <1>3 DEF FlushNetOut, session
  <2>2. UNCHANGED call \/ \E r : Return(e, r)
    BY <1>3 DEF FlushNetOut, FlushAt, AfterFlush, Goto, Yield, control
  <2> QED BY <2>1, <2>2, ReturnEndsOne, CallsSame
<1> QED BY <1>1, <1>2, <1>3, CallsShut DEF WriteStep

\* Drop, the network, the executor and the application keep it.
LEMMA CallsOutside ==
  ASSUME TypeOK, CallsInv,
         \/ \E e \in End : Drop(e) \/ Tamper(e)
         \/ \E t \in Task : Poll(t) \/ Cancel(t) \/ \E c \in Operation : Invoke(t, c)
  PROVE  CallsInv'
<1>1. ASSUME NEW e \in End, Drop(e) \/ Tamper(e) PROVE CallsInv'
  BY <1>1, CallsSame DEF Drop, Tamper, session, control
<1>2. ASSUME NEW t \in Task, Poll(t) PROVE CallsInv'
  BY <1>2, CallsSame DEF Poll, session
<1>3. ASSUME NEW t \in Task, Cancel(t) PROVE CallsInv'
  BY <1>3, CallsSame DEF Cancel, session, TypeOK
<1>4. ASSUME NEW t \in Task, NEW c \in Operation, Invoke(t, c) PROVE CallsInv'
  <2>1. /\ call' = [call EXCEPT ![t] = c] /\ c \in CallsOf[t] /\ UNCHANGED <<shutdown_sent, ended>>
        /\ MayInvoke(t, c)
    BY <1>4 DEF Invoke, session
  <2>2. /\ c = "write" => ~shutdown_sent[EndOf(t)]
        /\ c = "read" => ended[EndOf(t)] = "no"
    BY <2>1 DEF MayInvoke
  <2>3. call'[t] = c /\ \A u \in Task : u # t => call'[u] = call[u]
    BY <2>1 DEF TypeOK
  <2> QED BY <2>1, <2>2, <2>3 DEF CallsInv
<1> QED BY <1>1, <1>2, <1>3, <1>4

\* A write is in progress only before the shutdown of its stream, a read only before its
\* end, although the other half of a split may shut down between two polls.
THEOREM CallsHold == Spec => []CallsInv
<1>1. Init => CallsInv
  BY DEF Init, CallsInv
<1>2. TypeOK /\ ControlInv /\ CallsInv /\ [Next]_vars => CallsInv'
  <2> SUFFICES ASSUME TypeOK, ControlInv, CallsInv, [Next]_vars PROVE CallsInv'
    OBVIOUS
  <2>1. CASE UNCHANGED vars
    BY <2>1, CallsSame DEF vars, control, session
  <2>2. CASE Next
    BY <2>2, CallsOutside, CallsRead, CallsWrite DEF Next, Step
  <2> QED BY <2>1, <2>2
<1> QED BY <1>1, <1>2, TypeCorrect, ControlHolds, PTL DEF Spec

-----------------------------------------------------------------------------
(* Wakers: who waits has a waker in the transport that will be used.       *)

\* Each endpoint is driven by a task of its own.
OneTask == \A t, u \in Task : EndOf(t) = EndOf(u) => t = u

ReadWaits(t) ==
  rwaker[EndOf(t)] = t /\ wire[Peer(EndOf(t))] = <<>> /\ ~fin[Peer(EndOf(t))]
WriteWaits(t) ==
  wwaker[EndOf(t)] = t /\ ~Writable(EndOf(t)) /\ ~dropped[Peer(EndOf(t))]

WakeAt(t) ==
  parked[t] => /\ call[t] # "none"
               /\ call[t] = "read" => ReadWaits(t)
               /\ OneTask /\ call[t] # "read" => WriteWaits(t)

WakeInv == \A t \in Task : WakeAt(t)

\* A task goes on waiting only if nothing happened on the side it waits for.
Untouched(t) ==
  parked'[t] =>
    /\ parked[t] /\ call'[t] = call[t]
    /\ call[t] = "read" /\ ReadWaits(t) => ReadWaits(t)'
    /\ OneTask /\ call[t] # "read" /\ WriteWaits(t) => WriteWaits(t)'

\* A task that is still parked and whose side nothing happened on still waits.
LEMMA WakeKept ==
  ASSUME WakeInv, NEW t \in Task, Untouched(t)
  PROVE  WakeAt(t)'
BY DEF WakeInv, WakeAt, Untouched

\* A step that leaves the transport alone and ends only calls that do not wait.
LEMMA WakeSame ==
  ASSUME WakeInv, UNCHANGED <<wire, fin, dropped, rwaker, wwaker>>,
         \A t \in Task : parked'[t] => parked[t] /\ call'[t] = call[t]
  PROVE  WakeInv'
<1> SUFFICES ASSUME NEW t \in Task PROVE Untouched(t)
  BY WakeKept DEF WakeInv
<1> QED BY DEF Untouched, ReadWaits, WriteWaits, Writable

\* The task that polls does not wait; what it returns concerns its own call only.
LEMMA PollerRuns ==
  ASSUME TypeOK, ControlInv, NEW e \in End, at[e] # "idle", UNCHANGED parked,
         UNCHANGED call \/ \E r : Return(e, r)
  PROVE  \A t \in Task : parked'[t] => parked[t] /\ call'[t] = call[t]
<1>1. ~parked[holder[e]]
  BY DEF ControlInv, BorrowInv
<1>2. \A t \in Task : t # holder[e] => call'[t] = call[t]
  BY ReturnEndsOne
<1> QED BY <1>1, <1>2

\* fill_net_in takes bytes: the writer at the other end is woken.
LEMMA WakeFill ==
  ASSUME TypeOK, WakeInv, NEW e \in End, FillReady(e), UNCHANGED <<call, fin, dropped, rwaker>>
  PROVE  WakeInv'
<1> DEFINE p == Peer(e)
<1>1. p \in End /\ p # e /\ Peer(p) = e
  BY PeerOfEnd
<1>2. PICK n \in 1 .. FillMax : wire' = [wire EXCEPT ![p] = SubSeq(wire[p], n + 1, Len(wire[p]))]
  BY DEF FillReady
<1>3. wire'[e] = wire[e] /\ wwaker' = [wwaker EXCEPT ![p] = NoTask] /\ wire[p] # <<>>
  BY <1>1, <1>2 DEF FillReady, Readable, TypeOK, NetTypeOK
<1>4. \A t \in Task : parked'[t] => parked[t] /\ t # wwaker[p]
  BY DEF FillReady, Woken
<1> SUFFICES ASSUME NEW t \in Task, parked'[t] PROVE Untouched(t)
  BY WakeKept DEF WakeInv, Untouched
<1>5. EndOf(t) \in End /\ (EndOf(t) = e \/ EndOf(t) = p)
  BY TaskEnd DEF End, Peer
<1>6. ASSUME ReadWaits(t) PROVE ReadWaits(t)'
  <2>1. EndOf(t) = p
    BY <1>3, <1>5, <1>6 DEF ReadWaits
  <2> QED BY <1>1, <1>3, <1>6, <2>1 DEF ReadWaits
<1>7. ASSUME WriteWaits(t) PROVE WriteWaits(t)'
  <2>1. EndOf(t) = e
    BY <1>4, <1>5, <1>7 DEF WriteWaits
  <2>2. wwaker'[e] = wwaker[e]
    BY <1>1, <1>3 DEF TypeOK, NetTypeOK
  <2> QED BY <1>3, <1>7, <2>1, <2>2 DEF WriteWaits, Writable
<1> QED BY <1>4, <1>6, <1>7 DEF Untouched

\* flush_net_out gives bytes to the transport: the reader at the other end is woken.
LEMMA WakeFlush ==
  ASSUME TypeOK, ControlInv, WakeInv, NEW e \in End, at[e] # "idle", FlushChunk(e),
         UNCHANGED <<call, fin, dropped, wwaker>>
  PROVE  WakeInv'
<1> DEFINE p == Peer(e)
<1>1. p \in End /\ p # e /\ Peer(p) = e
  BY PeerOfEnd
<1>2. wire'[p] = wire[p] /\ rwaker' = [rwaker EXCEPT ![p] = NoTask]
  BY <1>1 DEF FlushChunk, TypeOK, NetTypeOK
<1>3. \A t \in Task : parked'[t] => parked[t] /\ t # rwaker[p]
  BY DEF FlushChunk, Woken
<1>4. holder[e] \in Task /\ EndOf(holder[e]) = e /\ ~parked[holder[e]]
  BY DEF ControlInv, BorrowInv
<1> SUFFICES ASSUME NEW t \in Task, parked'[t] PROVE Untouched(t)
  BY WakeKept DEF WakeInv, Untouched
<1>5. EndOf(t) \in End /\ (EndOf(t) = e \/ EndOf(t) = p)
  BY TaskEnd DEF End, Peer
<1>6. ASSUME ReadWaits(t) PROVE ReadWaits(t)'
  <2>1. EndOf(t) = e
    BY <1>3, <1>5, <1>6 DEF ReadWaits
  <2>2. rwaker'[e] = rwaker[e]
    BY <1>1, <1>2 DEF TypeOK, NetTypeOK
  <2> QED BY <1>2, <1>6, <2>1, <2>2 DEF ReadWaits
<1>7. ASSUME OneTask, WriteWaits(t) PROVE WriteWaits(t)'
  <2>1. EndOf(t) = p
    BY <1>3, <1>4, <1>5, <1>7 DEF OneTask
  <2> QED BY <1>1, <1>2, <1>7, <2>1 DEF WriteWaits, Writable
<1> QED BY <1>3, <1>6, <1>7 DEF Untouched

\* fill_net_in is Pending: its task waits, and it is the only reader.
LEMMA WakeFillPending ==
  ASSUME TypeOK, ControlInv, CallsInv, WakeInv, NEW e \in End, at[e] = "rd_top",
         FillPending(e, holder[e]), UNCHANGED <<call, wire, fin, dropped, wwaker>>
  PROVE  WakeInv'
<1> DEFINE h == holder[e]
<1>1. h \in Task /\ EndOf(h) = e /\ call[h] = "read"
  BY CallAtPlace
<1>2. rwaker' = [rwaker EXCEPT ![e] = h] /\ wire[Peer(e)] = <<>> /\ ~fin[Peer(e)]
  BY DEF FillPending, Readable
<1>3. \A t \in Task : parked'[t] => parked[t] \/ t = h
  BY <1>1 DEF FillPending, Suspended, TypeOK, NetTypeOK
<1> HIDE DEF h
<1> SUFFICES ASSUME NEW t \in Task, parked'[t] PROVE WakeAt(t)'
  BY DEF WakeInv, WakeAt
<1>4. CASE t = h
  <2>1. ReadWaits(t)'
    BY <1>1, <1>2, <1>4 DEF ReadWaits, TypeOK, NetTypeOK
  <2> QED BY <1>1, <1>4, <2>1 DEF WakeAt
<1>5. CASE t # h
  <2>1. call[t] = "read" => EndOf(t) # e
    BY <1>1, <1>5, HalvesAssumption DEF CallsInv
  <2>2. EndOf(t) # e => rwaker'[EndOf(t)] = rwaker[EndOf(t)]
    BY <1>2, TaskEnd DEF TypeOK, NetTypeOK
  <2>3. Untouched(t)
    BY <1>3, <1>5, <2>1, <2>2 DEF Untouched, ReadWaits, WriteWaits, Writable
  <2> QED BY <2>3, WakeKept
<1> QED BY <1>4, <1>5

\* flush_net_out is Pending: its task waits, or goes on if the flush was best effort.  A
\* waker of the other half is lost here, as the run stream_split shows.
LEMMA WakeFlushPending ==
  ASSUME TypeOK, ControlInv, WakeInv, NEW e \in End, at[e] \in FlushAt,
         FlushPending(e, holder[e]), UNCHANGED <<wire, fin, dropped, rwaker>>,
         \/ UNCHANGED parked /\ (UNCHANGED call \/ \E r : Return(e, r))
         \/ ~BestEffort(e) /\ UNCHANGED call /\ parked' = Suspended(holder[e])
  PROVE  WakeInv'
<1> DEFINE h == holder[e]
<1>1. h \in Task /\ EndOf(h) = e /\ ~parked[h] /\ (~BestEffort(e) => call[h] \notin {"none", "read"})
  BY CallAtPlace DEF ControlInv, BorrowInv, FlushAt, BestEffort
<1>2. wwaker' = [wwaker EXCEPT ![e] = h] /\ ~dropped[Peer(e)] /\ ~Writable(e)
  BY DEF FlushPending
<1>3. \A t \in Task : t # h => call'[t] = call[t]
  BY ReturnEndsOne
<1>4. \A t \in Task : parked'[t] => parked[t] \/ (t = h /\ ~BestEffort(e) /\ call' = call)
  BY <1>1 DEF Suspended, TypeOK, NetTypeOK
<1> HIDE DEF h
<1> SUFFICES ASSUME NEW t \in Task, parked'[t] PROVE WakeAt(t)'
  BY DEF WakeInv, WakeAt
<1>5. CASE t = h
  <2>1. WriteWaits(t)'
    BY <1>1, <1>2, <1>5 DEF WriteWaits, Writable, TypeOK, NetTypeOK
  <2> QED BY <1>1, <1>4, <1>5, <2>1 DEF WakeAt
<1>6. CASE t # h
  <2>1. OneTask => EndOf(t) # e
    BY <1>1, <1>6 DEF OneTask
  <2>2. EndOf(t) # e => wwaker'[EndOf(t)] = wwaker[EndOf(t)]
    BY <1>2, TaskEnd DEF TypeOK, NetTypeOK
  <2>3. Untouched(t)
    BY <1>3, <1>4, <1>6, <2>1, <2>2 DEF Untouched, ReadWaits, WriteWaits, Writable
  <2> QED BY <2>3, WakeKept
<1> QED BY <1>5, <1>6

\* A shutdown of the transport wakes the reader at the other end.
LEMMA WakeClose ==
  ASSUME TypeOK, ControlInv, WakeInv, NEW e \in End, ShutdownIo(e)
  PROVE  WakeInv'
<1> DEFINE p == Peer(e)
<1>1. p \in End /\ p # e /\ Peer(p) = e
  BY PeerOfEnd
<1>2. /\ fin' = [fin EXCEPT ![e] = TRUE] /\ rwaker' = [rwaker EXCEPT ![p] = NoTask]
      /\ UNCHANGED <<wire, dropped, wwaker>>
  BY DEF ShutdownIo, CloseWrite
<1>3. \A t \in Task : parked'[t] => parked[t] /\ t # rwaker[p]
  BY DEF ShutdownIo, CloseWrite, Woken
<1>4. holder[e] \in Task /\ EndOf(holder[e]) = e /\ ~parked[holder[e]]
  BY DEF ShutdownIo, ControlInv, BorrowInv
<1>5. \A t \in Task : t # holder[e] => call'[t] = call[t]
  BY ReturnEndsOne DEF ShutdownIo
<1>6. rwaker'[e] = rwaker[e] /\ fin'[p] = fin[p]
  BY <1>1, <1>2 DEF TypeOK, NetTypeOK
<1> SUFFICES ASSUME NEW t \in Task, parked'[t] PROVE Untouched(t)
  BY WakeKept DEF WakeInv, Untouched
<1>7. EndOf(t) = e \/ EndOf(t) = p
  BY TaskEnd DEF End, Peer
<1>8. ASSUME ReadWaits(t) PROVE ReadWaits(t)'
  <2>1. EndOf(t) = e
    BY <1>3, <1>7, <1>8 DEF ReadWaits
  <2> QED BY <1>2, <1>6, <1>8, <2>1 DEF ReadWaits
<1>9. WriteWaits(t) => WriteWaits(t)'
  BY <1>2 DEF WriteWaits, Writable
<1> QED BY <1>3, <1>4, <1>5, <1>8, <1>9 DEF Untouched

\* Dropping a stream wakes everyone who waits at the other end.
LEMMA WakeDrop ==
  ASSUME TypeOK, WakeInv, NEW e \in End, Drop(e)
  PROVE  WakeInv'
<1> DEFINE p == Peer(e)
<1>1. call' = call /\ parked' = Woken({rwaker[p], wwaker[p]} \cup {t \in Task : EndOf(t) = e})
  BY DEF Drop, DropIo, control
<1>2. \A t \in Task : parked'[t] => /\ parked[t] /\ t # rwaker[p] /\ t # wwaker[p] /\ EndOf(t) # e
  BY <1>1 DEF Woken
<1> SUFFICES ASSUME NEW t \in Task, parked'[t] PROVE Untouched(t)
  BY WakeKept DEF WakeInv, Untouched
<1>3. EndOf(t) = p
  BY <1>2, TaskEnd DEF End, Peer
<1> QED BY <1>1, <1>2, <1>3 DEF Untouched, ReadWaits, WriteWaits

\* A corrupted byte is still a byte in the transport.
LEMMA WakeTamper ==
  ASSUME TypeOK, WakeInv, NEW e \in End, Tamper(e)
  PROVE  WakeInv'
<1>1. PICK i \in DOMAIN wire[e] : wire' = [wire EXCEPT ![e] = [wire[e] EXCEPT ![i] = Garbage]]
  BY DEF Tamper
<1>2. wire[e] \in Seq(Byte) /\ Garbage \in Byte /\ i \in 1 .. Len(wire[e]) /\ wire[e] # <<>>
  BY <1>1, LenProperties, EmptySeq DEF TypeOK, NetTypeOK, Byte
<1>3. Len([wire[e] EXCEPT ![i] = Garbage]) = Len(wire[e])
  BY <1>2, ExceptSeq
<1>4. /\ \A x \in End : Len(wire'[x]) = Len(wire[x])
      /\ \A x \in End : wire[x] = <<>> => wire'[x] = <<>>
  BY <1>1, <1>2, <1>3 DEF TypeOK, NetTypeOK
<1>5. UNCHANGED <<fin, dropped, rwaker, wwaker, parked, call>>
  BY DEF Tamper, wakers, control
<1> SUFFICES ASSUME NEW t \in Task PROVE Untouched(t)
  BY WakeKept DEF WakeInv
<1> QED BY <1>4, <1>5, TaskEnd, PeerOfEnd DEF Untouched, ReadWaits, WriteWaits, Writable

\* poll_read leaves no task asleep.
LEMMA WakeRead ==
  ASSUME TypeOK, ControlInv, CallsInv, WakeInv, NEW e \in End, ReadStep(e)
  PROVE  WakeInv'
<1>1. at[e] # "idle"
  BY DEF ReadStep, ReadBuffered, ReadSkipFill, ReadFill, ReadRecord, ReadTicket, ReadCloseNotify,
     ReadWantRead, ReadFatal
<1>2. ASSUME UNCHANGED <<wire, fin, dropped, rwaker, wwaker, parked>>,
             UNCHANGED call \/ \E r : Return(e, r)
      PROVE  WakeInv'
  BY <1>1, <1>2, PollerRuns, WakeSame
<1>3. CASE ReadFill(e)
  <2>1. CASE FillReady(e) /\ Goto(e, "rd_ssl") /\ UNCHANGED <<fin, dropped, rwaker>>
    BY <2>1, WakeFill DEF Goto
  <2>2. CASE FillPending(e, holder[e]) /\ Yield(e) /\ UNCHANGED <<transport, wwaker>>
    BY <1>3, <2>2, WakeFillPending DEF ReadFill, Yield, Goto, transport
  <2>3. CASE ReturnEnd(e, EofResult(e)) /\ UNCHANGED netVars
    BY <1>2, <2>3 DEF ReturnEnd, netVars
  <2> QED BY <1>3, <2>1, <2>2, <2>3 DEF ReadFill
<1>4. CASE ReadBuffered(e) \/ ReadSkipFill(e)
  BY <1>2, <1>4 DEF ReadBuffered, Deliver, ReadSkipFill, Goto, netVars
<1>5. CASE ReadRecord(e) \/ ReadTicket(e) \/ ReadWantRead(e) \/ ReadFatal(e)
  BY <1>2, <1>5 DEF ReadRecord, ReadTicket, ReadWantRead, ReadFatal, Goto, Deliver, ReturnEnd,
     transport, wakers, control
<1>6. CASE ReadCloseNotify(e)
  BY <1>2, <1>6 DEF ReadCloseNotify, Finish, Deliver, ReturnEnd, transport, wakers
<1> QED BY <1>3, <1>4, <1>5, <1>6 DEF ReadStep

\* poll_write, poll_flush and poll_shutdown leave no task asleep.
LEMMA WakeWrite ==
  ASSUME TypeOK, ControlInv, WakeInv, NEW e \in End, WriteStep(e)
  PROVE  WakeInv'
<1>1. at[e] # "idle"
  BY DEF WriteStep, WriteRecord, WriteFatal, FlushNetOut, FlushAt, ShutdownSsl, ShutdownIo
<1>2. ASSUME UNCHANGED <<wire, fin, dropped, rwaker, wwaker, parked>>,
             UNCHANGED call \/ \E r : Return(e, r)
      PROVE  WakeInv'
  BY <1>1, <1>2, PollerRuns, WakeSame
<1>3. CASE WriteRecord(e) \/ WriteFatal(e) \/ ShutdownSsl(e)
  BY <1>2, <1>3 DEF WriteRecord, WriteFatal, ShutdownSsl, Goto, transport, wakers, netVars
<1>4. CASE FlushNetOut(e)
  <2>1. at[e] \in FlushAt
    BY <1>4 DEF FlushNetOut
  <2>2. AfterFlush(e) => UNCHANGED call \/ \E r : Return(e, r)
    BY <2>1 DEF AfterFlush, FlushAt, Goto
  <2>3. CASE AfterFlush(e) /\ UNCHANGED netVars
    BY <1>2, <2>2, <2>3 DEF netVars
  <2>4. CASE FlushChunk(e) /\ UNCHANGED <<fin, dropped, wwaker, net_in, control>>
    BY <1>1, <2>4, WakeFlush DEF control
  <2>5. CASE /\ FlushPending(e, holder[e]) /\ UNCHANGED <<transport, rwaker, buffers>>
             /\ AfterFlush(e) /\ UNCHANGED parked
    BY <2>1, <2>2, <2>5, WakeFlushPending DEF transport
  <2>6. CASE /\ FlushPending(e, holder[e]) /\ UNCHANGED <<transport, rwaker, buffers>>
             /\ ~BestEffort(e) /\ Yield(e) /\ parked' = Suspended(holder[e])
    BY <2>1, <2>6, WakeFlushPending DEF transport, Yield, Goto
  <2>7. CASE Return(e, "broken_pipe") /\ UNCHANGED netVars
    BY <1>2, <2>7 DEF netVars
  <2> QED BY <1>4, <2>3, <2>4, <2>5, <2>6, <2>7 DEF FlushNetOut
<1> QED BY <1>3, <1>4, WakeClose DEF WriteStep

\* Drop, the network, the executor and the application leave no task asleep.
LEMMA WakeOutside ==
  ASSUME TypeOK, WakeInv, NEW t \in Task,
         Poll(t) \/ Cancel(t) \/ \E c \in Operation : Invoke(t, c)
  PROVE  WakeInv'
<1>1. CASE Poll(t)
  BY <1>1, WakeSame DEF Poll, netVars
<1>2. CASE Cancel(t)
  <2>1. /\ UNCHANGED <<wire, fin, dropped, rwaker, wwaker>> /\ call' = [call EXCEPT ![t] = "none"]
        /\ \A u \in Task : parked'[u] => parked[u] /\ u # t
    BY <1>2 DEF Cancel, transport, wakers, Woken
  <2> QED BY <2>1, WakeSame DEF TypeOK
<1>3. ASSUME NEW c \in Operation, Invoke(t, c) PROVE WakeInv'
  <2>1. /\ UNCHANGED <<wire, fin, dropped, rwaker, wwaker, parked>> /\ call' = [call EXCEPT ![t] = c]
        /\ ~parked[t]
    BY <1>3 DEF Invoke, netVars, WakeInv, WakeAt
  <2> QED BY <2>1, WakeSame DEF TypeOK
<1> QED BY <1>1, <1>2, <1>3

\* The inductive invariant behind the two properties of wakers.
THEOREM WakersHold == Spec => []WakeInv
<1>1. Init => WakeInv
  BY DEF Init, NetInit, WakeInv, WakeAt
<1>2. TypeOK /\ ControlInv /\ CallsInv /\ WakeInv /\ [Next]_vars => WakeInv'
  <2> SUFFICES ASSUME TypeOK, ControlInv, CallsInv, WakeInv, [Next]_vars PROVE WakeInv'
    OBVIOUS
  <2>1. CASE UNCHANGED vars
    BY <2>1, WakeSame DEF vars, control
  <2>2. CASE Next
    BY <2>2, WakeOutside, WakeDrop, WakeTamper, WakeRead, WakeWrite DEF Next, Step
  <2> QED BY <2>1, <2>2
<1> QED BY <1>1, <1>2, TypeCorrect, ControlHolds, CallsHold, PTL DEF Spec

\* A reader that was told Pending will be woken, also in a stream that is split.
THEOREM ReadersAreWoken == Spec => []PendingReadWillWake
<1>1. WakeInv => PendingReadWillWake
  BY DEF WakeInv, WakeAt, PendingReadWillWake, Waits, ReadWaits, Readable
<1> QED BY <1>1, WakersHold, PTL

\* A task that was told Pending by whatever call will be woken, in streams that are not
\* split: the best-effort flushes of poll_read and poll_write do no harm there.
THEOREM EveryoneIsWoken == ASSUME OneTask PROVE Spec => []PendingWillWake
<1>1. WakeInv => PendingWillWake
  BY DEF WakeInv, WakeAt, PendingWillWake, Waits, ReadWaits, WriteWaits, Readable
<1> QED BY <1>1, WakersHold, PTL
=============================================================================
