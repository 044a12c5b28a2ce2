----------------------------- MODULE TlsStream ------------------------------
(***************************************************************************)
(* Two established TlsStreams over one transport: AsyncRead and AsyncWrite *)
(* of wolfcrypt-tls-tokio/src/stream.rs (wolfcrypt-tls-futures-io has the  *)
(* same code).                                                             *)
(*                                                                         *)
(* An application task invokes a call (read, write, flush, shutdown) and   *)
(* the executor polls it.  A poll runs with &mut self, so one poll at a    *)
(* time is in progress at an endpoint; at[e] is the place it has reached   *)
(* and holder[e] the task whose waker it uses.  Every call of the          *)
(* transport is a step of its own, since the peer runs concurrently.  A    *)
(* poll ends Ready (the call is over and result[t] says how) or Pending    *)
(* (the task parks until a waker it left in the transport fires).  A       *)
(* pending call may be cancelled by dropping its future.                   *)
(*                                                                         *)
(* wolfSSL is external.  A record is RecLen bytes of ciphertext; wolfSSL   *)
(* keeps the bytes of an unfinished record (ssl_in) and accepts a record   *)
(* only if it is byte for byte the next one its peer produced, which is    *)
(* what the record layer's authentication gives.  log[e] is everything     *)
(* wolfSSL at e has produced, got[e] every record it has accepted.         *)
(***************************************************************************)
EXTENDS NetBuffers

CONSTANTS
  CallsOf,    \* CallsOf[t]: what the application does in task t
  MaxWrites,  \* bound: how many application records one endpoint writes
  RecLen,     \* bytes of one encrypted record
  ReadMax,    \* room in the buffer the caller passes to poll_read
  Tickets,    \* Tickets[e]: session tickets in flight after e's handshake
  MaxTamper   \* bound: how many bytes the network corrupts

Operation == {"read", "write", "flush", "shutdown"}
Call == Operation \cup {"cancel", "drop"}

ASSUME StreamAssumption ==
  /\ CallsOf \in [Task -> SUBSET Call]
  /\ MaxWrites \in Nat
  /\ RecLen \in Nat \ {0}
  /\ ReadMax \in Nat \ {0}
  /\ Tickets \in [End -> BOOLEAN]
  /\ MaxTamper \in Nat

\* Two tasks share an endpoint through the halves that tokio::io::split makes: one half
\* reads, the other one writes, flushes and shuts down, and neither can be cloned.
Sending == {"write", "flush", "shutdown"}
ASSUME HalvesAssumption ==
  \A t, u \in Task : EndOf(t) = EndOf(u) /\ t # u =>
    /\ ~("read" \in CallsOf[t] /\ "read" \in CallsOf[u])
    /\ Sending \cap CallsOf[t] = {} \/ Sending \cap CallsOf[u] = {}

VARIABLES
  read_buf,       \* decrypted plaintext not yet handed to the caller
  shutdown_sent,  \* wolfSSL_shutdown has been called
  ssl_in,         \* bytes of an unfinished record inside wolfSSL
  ssl_closed,     \* wolfSSL has seen the peer's close_notify
  ended,          \* how the caller was told that reading is over, or "no"
  at,             \* where the poll in progress is, "idle" if there is none
  holder,         \* the task that is polling
  call,           \* call[t]: the call t has invoked, "none" between calls
  result,         \* result[t]: how the last call of t ended
  written,        \* plaintext accepted by poll_write
  delivered,      \* plaintext handed out by poll_read
  log,            \* every byte wolfSSL has produced
  got,            \* every byte of a record wolfSSL has accepted
  tampered        \* bytes the network has corrupted so far

session == <<read_buf, shutdown_sent, ssl_in, ssl_closed, ended>>
control == <<at, holder, call, result>>
history == <<written, delivered, log, got>>
vars == <<wire, fin, dropped, rwaker, wwaker, net_in, net_out, parked,
          session, control, history, tampered>>

At == {"idle", "rd_top", "rd_ssl", "rd_flush", "wr_ssl", "wr_flush",
       "fl_flush", "sd_ssl", "sd_flush", "sd_io"}
Result == {"none", "data", "eof", "ok", "unexpected_eof", "broken_pipe", "fatal"}

-----------------------------------------------------------------------------
(* wolfSSL (external): records and what wolfSSL_read finds.                *)

Kind == {"data", "ticket", "close_notify"}
Encode(kind, v) == [k \in 1 .. RecLen |-> <<kind, v, k>>]
Garbage == <<"garbage", 0, 0>>
Byte == (Kind \X Nat \X (1 .. RecLen)) \cup {Garbage}

\* What the recv callback can give wolfSSL_read: the bytes wolfSSL holds
\* already and, after them, net_in.
Held(e) == ssl_in[e] \o net_in[e]
HasRecord(e) == Len(Held(e)) >= RecLen
Record(e) == SubSeq(Held(e), 1, RecLen)
NextRecord(e) == SubSeq(log[Peer(e)], Len(got[e]) + 1, Len(got[e]) + RecLen)

\* The next record is taken from the buffers: recv has drained net_in up to
\* its last byte.
TakeRecord(e) ==
  /\ net_in' = [net_in EXCEPT ![e] = SubSeq(Held(e), RecLen + 1, Len(Held(e)))]
  /\ ssl_in' = [ssl_in EXCEPT ![e] = <<>>]

\* A record that passes authentication, of the given kind.
Accept(e, kind) ==
  /\ HasRecord(e)
  /\ Record(e) = NextRecord(e)
  /\ Record(e)[1][1] = kind
  /\ TakeRecord(e)
  /\ got' = [got EXCEPT ![e] = @ \o Record(e)]

\* wolfSSL hands an encrypted record to the send callback: it is appended to
\* net_out, always.
Produce(e, kind, v) ==
  /\ net_out' = [net_out EXCEPT ![e] = @ \o Encode(kind, v)]
  /\ log' = [log EXCEPT ![e] = @ \o Encode(kind, v)]

-----------------------------------------------------------------------------
(* How a poll begins and ends.                                             *)

Goto(e, place) ==
  /\ at' = [at EXCEPT ![e] = place]
  /\ UNCHANGED <<holder, call, result>>

\* Poll::Ready: the call is over.
Return(e, r) ==
  /\ at' = [at EXCEPT ![e] = "idle"]
  /\ call' = [call EXCEPT ![holder[e]] = "none"]
  /\ result' = [result EXCEPT ![holder[e]] = r]
  /\ UNCHANGED holder

\* A read that tells the caller that nothing more will come.
ReturnEnd(e, r) ==
  /\ Return(e, r)
  /\ ended' = [ended EXCEPT ![e] = r]

\* Poll::Pending: the task gives the endpoint up and will poll again.
Yield(e) == Goto(e, "idle")

\* An application keeps to the contract of AsyncRead and AsyncWrite: it stops
\* reading at end of file or an error and does not write after shutdown.
MayInvoke(t, c) ==
  LET e == EndOf(t) IN
  CASE c = "read" -> ended[e] = "no"
    [] c = "write" -> ~shutdown_sent[e] /\ Len(written[e]) < MaxWrites
    [] c = "flush" -> result[t] # "broken_pipe"
    [] c = "shutdown" -> ~fin[e] /\ result[t] # "broken_pipe"

Invoke(t, c) ==
  /\ c \in CallsOf[t]
  /\ call[t] = "none"
  /\ ~dropped[EndOf(t)]
  /\ MayInvoke(t, c)
  /\ call' = [call EXCEPT ![t] = c]
  /\ result' = [result EXCEPT ![t] = "none"]
  /\ UNCHANGED <<netVars, session, at, holder, history, tampered>>

Entry(c) ==
  CASE c = "read" -> "rd_top"
    [] c = "write" -> "wr_ssl"
    [] c = "flush" -> "fl_flush"
    [] c = "shutdown" -> "sd_ssl"

\* The executor polls a task that is not parked; the two halves of a split
\* take turns on the stream.
Poll(t) ==
  LET e == EndOf(t) IN
  /\ call[t] # "none"
  /\ ~parked[t]
  /\ at[e] = "idle"
  /\ at' = [at EXCEPT ![e] = Entry(call[t])]
  /\ holder' = [holder EXCEPT ![e] = t]
  /\ UNCHANGED <<netVars, session, call, result, history, tampered>>

\* The future of a pending call is dropped (a select! or a timeout around
\* it).  The wakers it left behind stay in the transport.
Cancel(t) ==
  LET e == EndOf(t) IN
  /\ "cancel" \in CallsOf[t]
  /\ call[t] # "none"
  /\ parked[t]
  /\ call' = [call EXCEPT ![t] = "none"]
  /\ parked' = Woken({t})
  /\ UNCHANGED <<transport, wakers, buffers, session, at, holder, result,
                 history, tampered>>

-----------------------------------------------------------------------------
(* poll_read.                                                              *)

DeliverAndForgetRest(e, plain) ==
  /\ delivered' = [delivered EXCEPT ![e] = Append(@, plain[1])]
  /\ read_buf' = [read_buf EXCEPT ![e] = <<>>]
  /\ Return(e, "data")

\* Hand the caller as much of the buffered plaintext as it has room for.
Deliver(e, plain) ==
  LET n == IF Len(plain) < ReadMax THEN Len(plain) ELSE ReadMax IN
  /\ delivered' = [delivered EXCEPT ![e] = @ \o SubSeq(plain, 1, n)]
  /\ read_buf' = [read_buf EXCEPT ![e] = SubSeq(plain, n + 1, Len(plain))]
  /\ Return(e, "data")

\* Step 1: plaintext left from an earlier poll is handed out at once.
ReadBuffered(e) ==
  /\ at[e] = "rd_top"
  /\ read_buf[e] # <<>>
  /\ Deliver(e, read_buf[e])
  /\ UNCHANGED <<netVars, shutdown_sent, ssl_in, ssl_closed, ended,
                 written, log, got, tampered>>

\* Step 2: net_in is refilled only if it is empty.
ReadSkipFill(e) ==
  /\ at[e] = "rd_top"
  /\ read_buf[e] = <<>>
  /\ net_in[e] # <<>>
  /\ Goto(e, "rd_ssl")
  /\ UNCHANGED <<netVars, session, history, tampered>>

\* What the caller of poll_read is told when the transport is at its end.
EofAsBrokenPipe(e) == "broken_pipe"
EofResult(e) == "unexpected_eof"

ReadFill(e) ==
  /\ at[e] = "rd_top"
  /\ read_buf[e] = <<>>
  /\ net_in[e] = <<>>
  /\ \/ /\ FillReady(e)
        /\ Goto(e, "rd_ssl")
        /\ UNCHANGED <<fin, dropped, rwaker, net_out, ended>>
     \/ /\ FillPending(e, holder[e])
        /\ Yield(e)
        /\ UNCHANGED <<transport, wwaker, buffers, ended>>
     \/ /\ AtEof(e)
        /\ ReturnEnd(e, EofResult(e))
        /\ UNCHANGED netVars
  /\ UNCHANGED <<read_buf, shutdown_sent, ssl_in, ssl_closed, history, tampered>>

\* Step 3: wolfSSL_read found an application record; its plaintext goes to
\* read_buf, net_out is flushed as far as it will go, and the loop goes on.
ReadRecord(e) ==
  /\ at[e] = "rd_ssl"
  /\ Accept(e, "data")
  /\ read_buf' = [read_buf EXCEPT ![e] = Append(@, Record(e)[1][2])]
  /\ Goto(e, "rd_flush")
  /\ UNCHANGED <<transport, wakers, net_out, parked, shutdown_sent,
                 ssl_closed, ended, written, delivered, log, tampered>>

\* wolfSSL_read swallows a session ticket and goes on to the next record.
ReadTicket(e) ==
  /\ at[e] = "rd_ssl"
  /\ Accept(e, "ticket")
  /\ UNCHANGED <<transport, wakers, net_out, parked, read_buf, shutdown_sent,
                 ssl_closed, ended, control, written, delivered, log,
                 tampered>>

\* wolfSSL_read returns 0: buffered plaintext is delivered first, and only
\* then is end of file signalled.
Finish(e) ==
  \/ /\ read_buf[e] # <<>>
     /\ Deliver(e, read_buf[e])
     /\ UNCHANGED ended
  \/ /\ read_buf[e] = <<>>
     /\ ReturnEnd(e, "eof")
     /\ UNCHANGED <<read_buf, delivered>>

ReadCloseNotify(e) ==
  /\ at[e] = "rd_ssl"
  /\ Accept(e, "close_notify")
  /\ ssl_closed' = [ssl_closed EXCEPT ![e] = TRUE]
  /\ Finish(e)
  /\ UNCHANGED <<transport, wakers, net_out, parked, shutdown_sent, written,
                 log, tampered>>

\* WANT_READ: wolfSSL has taken all of net_in and holds no whole record.
\* The inner loop ends; step 4 returns what was gathered, or the outer loop
\* starts again and refills net_in.
ReadWantRead(e) ==
  /\ at[e] = "rd_ssl"
  /\ ~HasRecord(e)
  /\ ssl_in' = [ssl_in EXCEPT ![e] = Held(e)]
  /\ net_in' = [net_in EXCEPT ![e] = <<>>]
  /\ \/ read_buf[e] # <<>> /\ Deliver(e, read_buf[e])
     \/ /\ read_buf[e] = <<>>
        /\ Goto(e, "rd_top")
        /\ UNCHANGED <<read_buf, delivered>>
  /\ UNCHANGED <<transport, wakers, net_out, parked, shutdown_sent,
                 ssl_closed, ended, written, log, got, tampered>>

ReadSkipsBadRecord(e) ==
  /\ at[e] = "rd_ssl"
  /\ HasRecord(e)
  /\ Record(e) # NextRecord(e)
  /\ TakeRecord(e)
  /\ got' = [got EXCEPT ![e] = @ \o NextRecord(e)]
  /\ UNCHANGED <<transport, wakers, net_out, parked, read_buf, shutdown_sent,
                 ssl_closed, ended, control, written, delivered, log, tampered>>

\* Any other error of wolfSSL_read ends the call.
ReadFatal(e) ==
  /\ at[e] = "rd_ssl"
  /\ HasRecord(e)
  /\ Record(e) # NextRecord(e)
  /\ TakeRecord(e)
  /\ ReturnEnd(e, "fatal")
  /\ UNCHANGED <<transport, wakers, net_out, parked, read_buf, shutdown_sent,
                 ssl_closed, history, tampered>>

-----------------------------------------------------------------------------
(* poll_write, poll_flush, poll_shutdown and Drop.                         *)

\* wolfSSL_write encrypts the caller's bytes into net_out at once.
WriteRecord(e) ==
  LET v == Len(written[e]) + 1 IN
  /\ at[e] = "wr_ssl"
  /\ Produce(e, "data", v)
  /\ written' = [written EXCEPT ![e] = Append(@, v)]
  /\ Goto(e, "wr_flush")
  /\ UNCHANGED <<transport, wakers, net_in, parked, session, delivered, got,
                 tampered>>

\* A session that failed may refuse to write; the call ends with its error.
WriteFatal(e) ==
  /\ at[e] = "wr_ssl"
  /\ ended[e] = "fatal"
  /\ Return(e, "fatal")
  /\ UNCHANGED <<netVars, session, history, tampered>>

\* The places in which flush_net_out runs, and whether its outcome counts:
\* poll_read and poll_write flush best effort and ignore Pending and errors.
FlushAt == {"rd_flush", "wr_flush", "fl_flush", "sd_flush"}
AlwaysBestEffort(e) == TRUE
BestEffort(e) == at[e] \in {"rd_flush", "wr_flush"}

\* What follows once flush_net_out is over, with Ok or with an outcome that
\* is ignored.
AfterFlush(e) ==
  CASE at[e] = "rd_flush" -> Goto(e, "rd_ssl")
    [] at[e] = "wr_flush" -> Return(e, "ok")
    [] at[e] = "fl_flush" -> Return(e, "ok")
    [] at[e] = "sd_flush" -> Goto(e, "sd_io")

FlushNetOut(e) ==
  /\ at[e] \in FlushAt
  /\ \/ /\ Flushed(e)
        /\ AfterFlush(e)
        /\ UNCHANGED netVars
     \/ /\ FlushChunk(e)
        /\ UNCHANGED <<fin, dropped, wwaker, net_in, control>>
     \/ /\ FlushPending(e, holder[e])
        /\ IF BestEffort(e)
           THEN AfterFlush(e) /\ UNCHANGED parked
           ELSE Yield(e) /\ parked' = Suspended(holder[e])
        /\ UNCHANGED <<transport, rwaker, buffers>>
     \/ /\ FlushBroken(e)
        /\ IF BestEffort(e) THEN AfterFlush(e) ELSE Return(e, "broken_pipe")
        /\ UNCHANGED netVars
  /\ UNCHANGED <<session, history, tampered>>

NotifyEveryTime(e) == TRUE

\* poll_shutdown and Drop call wolfSSL_shutdown once between them.
MustNotify(e) == ~shutdown_sent[e]

\* poll_shutdown: the close_notify is produced on the first poll, and later
\* polls go straight to the flush.  In a session that failed wolfSSL_shutdown
\* may fail too: the error is returned, and the flag is set all the same.
ShutdownSsl(e) ==
  /\ at[e] = "sd_ssl"
  /\ shutdown_sent' = [shutdown_sent EXCEPT ![e] = TRUE]
  /\ \/ MustNotify(e) /\ Produce(e, "close_notify", 0) /\ Goto(e, "sd_flush")
     \/ ~MustNotify(e) /\ Goto(e, "sd_flush") /\ UNCHANGED <<net_out, log>>
     \/ /\ MustNotify(e)
        /\ ended[e] = "fatal"
        /\ Return(e, "fatal")
        /\ UNCHANGED <<net_out, log>>
  /\ UNCHANGED <<transport, wakers, net_in, parked, read_buf, ssl_in,
                 ssl_closed, ended, written, delivered, got, tampered>>

\* The close_notify is on its way: shut the transport down.
ShutdownIo(e) ==
  /\ at[e] = "sd_io"
  /\ CloseWrite(e)
  /\ Return(e, "ok")
  /\ UNCHANGED <<wire, dropped, wwaker, buffers, session, history, tampered>>

\* Drop: a close_notify is produced unless one was, but nothing can flush it
\* any more; the session and the transport handle go away.
Drop(e) ==
  /\ ~dropped[e]
  /\ \A t \in Task : EndOf(t) = e => call[t] = "none" /\ "drop" \in CallsOf[t]
  /\ DropIo(e)
  /\ log' = IF MustNotify(e)
            THEN [log EXCEPT ![e] = @ \o Encode("close_notify", 0)]
            ELSE log
  /\ UNCHANGED <<wire, session, control, written, delivered, got, tampered>>

\* The network corrupts a byte in flight.
Tamper(e) ==
  /\ tampered < MaxTamper
  /\ tampered' = tampered + 1
  /\ \E i \in DOMAIN wire[e] : wire' = [wire EXCEPT ![e][i] = Garbage]
  /\ UNCHANGED <<fin, dropped, wakers, buffers, parked, session, control, history>>

-----------------------------------------------------------------------------
(* The specification.                                                      *)

\* The handshake has just ended at both endpoints.  A TLS 1.3 server may have
\* session tickets in flight, which Accept flushed before it returned; the last
\* fill_net_in of Connect may have taken some of their bytes into net_in.
InFlight(e) == IF Tickets[e] THEN Encode("ticket", 0) ELSE <<>>

Init ==
  /\ \E n \in [End -> 0 .. RecLen] :
       /\ \A e \in End : n[e] <= Len(InFlight(e))
       /\ NetInit([e \in End |-> SubSeq(InFlight(e), n[e] + 1, Len(InFlight(e)))],
                  [e \in End |-> SubSeq(InFlight(Peer(e)), 1, n[Peer(e)])])
  /\ read_buf = [e \in End |-> <<>>]
  /\ shutdown_sent = [e \in End |-> FALSE]
  /\ ssl_in = [e \in End |-> <<>>]
  /\ ssl_closed = [e \in End |-> FALSE]
  /\ ended = [e \in End |-> "no"]
  /\ at = [e \in End |-> "idle"]
  /\ holder = [e \in End |-> NoTask]
  /\ call = [t \in Task |-> "none"]
  /\ result = [t \in Task |-> "none"]
  /\ written = [e \in End |-> <<>>]
  /\ delivered = [e \in End |-> <<>>]
  /\ log = [e \in End |-> InFlight(e)]
  /\ got = [e \in End |-> <<>>]
  /\ tampered = 0

ReadStep(e) ==
  \/ ReadBuffered(e)
  \/ ReadSkipFill(e)
  \/ ReadFill(e)
  \/ ReadRecord(e)
  \/ ReadTicket(e)
  \/ ReadCloseNotify(e)
  \/ ReadWantRead(e)
  \/ ReadFatal(e)

WriteStep(e) ==
  \/ WriteRecord(e)
  \/ WriteFatal(e)
  \/ FlushNetOut(e)
  \/ ShutdownSsl(e)
  \/ ShutdownIo(e)

\* One step of the poll in progress at e.
Step(e) == ReadStep(e) \/ WriteStep(e)

Next ==
  \/ \E e \in End : Step(e) \/ Drop(e) \/ Tamper(e)
  \/ \E t \in Task : Poll(t) \/ Cancel(t) \/ \E c \in Operation : Invoke(t, c)

Spec == Init /\ [][Next]_vars

\* A poll runs to its end, and the executor polls every task that was woken.
\* What the applications do is up to them, except that one which reads goes
\* on reading until it is told to stop.
Fairness ==
  /\ \A e \in End : WF_vars(Step(e))
  /\ \A t \in Task : WF_vars(Poll(t))
  /\ \A t \in Task : WF_vars(Invoke(t, "read"))

FairSpec == Spec /\ Fairness

-----------------------------------------------------------------------------
(* Properties.                                                             *)

\* Every variable has its type: what each buffer of the stream holds, where a
\* poll can be and what a call can return.
TypeOK ==
  /\ NetTypeOK(Byte)
  /\ read_buf \in [End -> Seq(Nat)]
  /\ shutdown_sent \in [End -> BOOLEAN]
  /\ ssl_in \in [End -> Seq(Byte)]
  /\ ssl_closed \in [End -> BOOLEAN]
  /\ ended \in [End -> {"no", "eof", "unexpected_eof", "fatal"}]
  /\ at \in [End -> At]
  /\ holder \in [End -> Task \cup {NoTask}]
  /\ call \in [Task -> Operation \cup {"none"}]
  /\ result \in [Task -> Result]
  /\ written \in [End -> Seq(Nat)]
  /\ delivered \in [End -> Seq(Nat)]
  /\ log \in [End -> Seq(Byte)]
  /\ got \in [End -> Seq(Byte)]
  /\ tampered \in Nat

\* Bytes on their way from e to its peer, oldest first.
InTransit(e) == ssl_in[Peer(e)] \o net_in[Peer(e)] \o wire[e] \o net_out[e]

\* Every byte wolfSSL produced at one end is accepted at the other end or is in
\* exactly one of the buffers between them, and the buffers hold them in order:
\* nothing is lost, duplicated or reordered by recv, send, fill_net_in or
\* flush_net_out, wherever a poll is suspended or its future cancelled.
Conservation ==
  \A e \in End :
    (tampered = 0 /\ ~dropped[e] /\ ~dropped[Peer(e)]) =>
      log[e] = got[Peer(e)] \o InTransit(e)

\* poll_read never reports a fatal wolfSSL error on a network that does not
\* corrupt bytes: the buffers feed wolfSSL a well-formed record stream.
NoSpuriousFailure == tampered = 0 => \A e \in End : ended[e] # "fatal"

\* A clean end of file from poll_read means that the peer sent its close_notify
\* and that everything it wrote was handed to the caller; a connection cut
\* before that is never reported as a clean end.
TruncationDetected ==
  \A e \in End : ended[e] = "eof" =>
    shutdown_sent[Peer(e)] /\ delivered[e] = written[Peer(e)]

\* close_notify is the last record an endpoint produces and it produces one at
\* most, although poll_shutdown may be polled again, cancelled and called
\* again, and be followed by Drop.
CloseNotifyOnce ==
  \A e \in End : \A i \in DOMAIN log[e] :
    log[e][i][1] = "close_notify" => i > Len(log[e]) - RecLen

\* The transport is shut down by poll_shutdown only after everything wolfSSL
\* produced, the close_notify included, has left net_out.
CloseAfterFlush ==
  \A e \in End : fin[e] /\ ~dropped[e] => shutdown_sent[e] /\ net_out[e] = <<>>

\* Whether t's waker sits in the slot of the transport that its call waits on,
\* and the transport is really not ready.
Waits(t) ==
  LET e == EndOf(t) IN
  IF call[t] = "read"
  THEN rwaker[e] = t /\ ~Readable(e) /\ ~fin[Peer(e)]
  ELSE wwaker[e] = t /\ ~Writable(e) /\ ~dropped[Peer(e)]

\* A task that was told Pending will be woken: a poll that returns Pending has
\* left its waker where the event it waits for is signalled, and that event has
\* not happened yet.
PendingWillWake == \A t \in Task : parked[t] => Waits(t)

\* The same for tasks that read, in an endpoint shared by two tasks.
PendingReadWillWake ==
  \A t \in Task : parked[t] /\ call[t] = "read" => Waits(t)

\* The two streams implement the reliable sequences of ByteStream.
Abstract == INSTANCE ByteStream WITH
  Side <- End, Other <- Peer, sent <- written, rcvd <- delivered,
  closed <- shutdown_sent, status <- ended
ImplementsByteStream == Abstract!Spec

Reads(e) == \E t \in Task : EndOf(t) = e /\ "read" \in CallsOf[t]

\* A reader hears of the end: once a stream is shut down or dropped its peer, if
\* it goes on reading, is told that reading is over.
CloseIsNoticed ==
  \A e \in End : (fin[e] /\ Reads(Peer(e))) ~> (ended[Peer(e)] # "no" \/ dropped[Peer(e)])

\* A write, flush or shutdown that was called is over eventually, although
\* the transport holds less than a record, if the peer goes on reading.
OutgoingCallsEnd ==
  \A t \in Task : (call[t] \in Sending) ~> (call[t] = "none")

\* What left net_out is handed to the peer's caller eventually, unless that one
\* is told of an error or drops its stream.
FlushedIsDelivered ==
  \A e \in End : \A n \in 1 .. MaxWrites :
    (Len(written[e]) >= n /\ net_out[e] = <<>>) ~>
      (Len(delivered[Peer(e)]) >= n \/ ended[Peer(e)] # "no" \/ dropped[Peer(e)])

\* After the peer's close_notify the caller is told of a clean end of file:
\* "Clean close_notify from peer. Deliver any buffered plaintext first before
\* signaling EOF." (stream.rs).
CloseNotifyIsCleanEof ==
  \A e \in End : ssl_closed[e] => ended[e] # "unexpected_eof"
=============================================================================
