---------------------------- MODULE TlsHandshake ----------------------------
(***************************************************************************)
(* The futures Connect and Accept: wolfcrypt-tls-tokio/src/connector.rs    *)
(* and acceptor.rs (wolfcrypt-tls-futures-io has the same code), one at    *)
(* each end of a transport.                                                *)
(*                                                                         *)
(* Both futures run the same loop: drive wolfSSL_connect or wolfSSL_accept *)
(* as far as net_in allows, flush what it produced, refill net_in, start   *)
(* again; once wolfSSL is done, flush once more and hand the stream out.   *)
(* As in TlsStream, every call of the transport is a step of its own.  A   *)
(* future that returned an error, or that its owner gives up on, is        *)
(* dropped with the stream inside it.                                      *)
(*                                                                         *)
(* wolfSSL is external: it works through a script of messages to send and  *)
(* to receive, and may reject the peer's certificate on receiving it, in   *)
(* which case it produces a fatal alert and fails.  An alert is never      *)
(* received in this composition, as the run handshake_alert shows, so      *)
(* wolfSSL's reaction to one is not modelled.                              *)
(***************************************************************************)
EXTENDS NetBuffers, FiniteSets

CONSTANTS
  Version,    \* the protocol versions the two sides may agree on
  Script,     \* Script[v][e]: wolfSSL's <<"send" or "recv", message>> steps
  MsgLen,     \* bytes of one handshake message
  Judged,     \* Judged[e]: the messages whose certificate e may reject
  MayAbandon, \* whether an owner may drop a pending future
  MaxData     \* bound: records an established client writes at once

Msg == {"CH", "SH", "CF", "SFIN", "ticket", "data", "alert"}

\* How many messages e has sent or received in version v before step i of its script, and
\* whether it receives one in step i.
Count(v, e, kind, i) == Cardinality({k \in 1 .. i - 1 : Script[v][e][k][1] = kind})
Awaits(v, e, i) == i <= Len(Script[v][e]) /\ Script[v][e][i][1] = "recv"

\* The handshake of TLS is half-duplex: only one side has messages under way, and if neither
\* has, not both wait for one.
HalfDuplex(v) ==
  \A i \in 1 .. Len(Script[v]["client"]) + 1, j \in 1 .. Len(Script[v]["server"]) + 1 :
    LET toServer == Count(v, "client", "send", i) - Count(v, "server", "recv", j)
        toClient == Count(v, "server", "send", j) - Count(v, "client", "recv", i)
    IN /\ ~(toServer > 0 /\ toClient > 0)
       /\ toServer = 0 /\ toClient = 0 => ~(Awaits(v, "client", i) /\ Awaits(v, "server", j))

ASSUME HandshakeAssumption ==
  /\ Role = {"main"}
  /\ Script \in [Version -> [End -> Seq({"send", "recv"} \X Msg)]]
  /\ \A v \in Version : HalfDuplex(v)
  /\ MsgLen \in Nat \ {0}
  /\ Judged \in [End -> SUBSET Msg]
  /\ MayAbandon \in BOOLEAN
  /\ MaxData \in Nat

VARIABLES
  version,         \* the protocol version of this handshake
  ssl_in,          \* bytes of an unfinished message inside wolfSSL
  step,            \* step[e]: how far wolfSSL is in its script
  handshake_done,  \* wolfSSL_connect or wolfSSL_accept has succeeded
  at,              \* where the poll in progress is, "idle" if there is none
  outcome,         \* what the future returned, "pending" before that
  early,           \* records the established client has written
  log,             \* every byte wolfSSL has produced
  got              \* every byte of a message wolfSSL has taken in

ssl == <<version, ssl_in, step, log, got>>
future == <<handshake_done, at, outcome>>
vars == <<wire, fin, dropped, rwaker, wwaker, net_in, net_out, parked,
          ssl, future, early>>

At == {"idle", "hs_ssl", "hs_flush", "hs_fill", "hs_final"}
Outcome == {"pending", "established", "rejected", "io_error", "abandoned"}

Self(e) == <<e, "main">>

-----------------------------------------------------------------------------
(* wolfSSL (external).                                                     *)

Encode(m) == [k \in 1 .. MsgLen |-> <<m, k>>]
Held(e) == ssl_in[e] \o net_in[e]
HasMsg(e) == Len(Held(e)) >= MsgLen
NextMsg(e) == SubSeq(Held(e), 1, MsgLen)

Produce(e, m) ==
  /\ net_out' = [net_out EXCEPT ![e] = @ \o Encode(m)]
  /\ log' = [log EXCEPT ![e] = @ \o Encode(m)]

TakeAll(e) ==
  /\ HasMsg(e)
  /\ net_in' = [net_in EXCEPT ![e] = <<>>]
  /\ ssl_in' = [ssl_in EXCEPT ![e] = <<>>]
  /\ got' = [got EXCEPT ![e] = @ \o NextMsg(e)]

\* The next message is taken from the buffers; what follows it stays in net_in.
Take(e) ==
  /\ HasMsg(e)
  /\ net_in' = [net_in EXCEPT ![e] = SubSeq(Held(e), MsgLen + 1, Len(Held(e)))]
  /\ ssl_in' = [ssl_in EXCEPT ![e] = <<>>]
  /\ got' = [got EXCEPT ![e] = @ \o NextMsg(e)]

Done(e) == step[e] > Len(Script[version][e])
Sends(e) == ~Done(e) /\ Script[version][e][step[e]][1] = "send"
Receives(e) == ~Done(e) /\ Script[version][e][step[e]][1] = "recv"
Expected(e) == Script[version][e][step[e]][2]
Advance(e) == step' = [step EXCEPT ![e] = @ + 1] /\ UNCHANGED version

-----------------------------------------------------------------------------
(* The loop of Connect::poll and Accept::poll.                             *)

Goto(e, place) ==
  /\ at' = [at EXCEPT ![e] = place]
  /\ UNCHANGED <<handshake_done, outcome>>

\* Poll::Ready.
Return(e, r) ==
  /\ at' = [at EXCEPT ![e] = "idle"]
  /\ outcome' = [outcome EXCEPT ![e] = r]
  /\ UNCHANGED handshake_done

Poll(e) ==
  /\ outcome[e] = "pending"
  /\ ~parked[Self(e)]
  /\ at[e] = "idle"
  /\ Goto(e, IF handshake_done[e] THEN "hs_final" ELSE "hs_ssl")
  /\ UNCHANGED <<netVars, ssl, early>>

\* Within one wolfSSL_connect or wolfSSL_accept: the next message goes out.
SslSend(e) ==
  /\ at[e] = "hs_ssl"
  /\ Sends(e)
  /\ Produce(e, Expected(e))
  /\ Advance(e)
  /\ UNCHANGED <<transport, wakers, net_in, parked, ssl_in, got, future, early>>

\* The next message is there and is accepted.
SslReceive(e) ==
  /\ at[e] = "hs_ssl"
  /\ Receives(e)
  /\ Take(e)
  /\ NextMsg(e) = Encode(Expected(e))
  /\ Advance(e)
  /\ UNCHANGED <<transport, wakers, net_out, parked, log, future, early>>

\* The next message carries a certificate that is rejected: wolfSSL produces a
\* fatal alert, and poll returns the error at once.
SslReject(e) ==
  /\ at[e] = "hs_ssl"
  /\ Receives(e)
  /\ Expected(e) \in Judged[e]
  /\ Take(e)
  /\ NextMsg(e) = Encode(Expected(e))
  /\ Produce(e, "alert")
  /\ Return(e, "rejected")
  /\ UNCHANGED <<transport, wakers, parked, version, step, early>>

WantReadSkipsFlush(e) ==
  /\ at[e] = "hs_ssl"
  /\ Receives(e)
  /\ ~HasMsg(e)
  /\ ssl_in' = [ssl_in EXCEPT ![e] = Held(e)]
  /\ net_in' = [net_in EXCEPT ![e] = <<>>]
  /\ Goto(e, "hs_fill")
  /\ UNCHANGED <<transport, wakers, net_out, parked, version, step, log, got, early>>

\* WANT_READ: wolfSSL has taken all of net_in and waits for the rest.
SslWantRead(e) ==
  /\ at[e] = "hs_ssl"
  /\ Receives(e)
  /\ ~HasMsg(e)
  /\ ssl_in' = [ssl_in EXCEPT ![e] = Held(e)]
  /\ net_in' = [net_in EXCEPT ![e] = <<>>]
  /\ Goto(e, "hs_flush")
  /\ UNCHANGED <<transport, wakers, net_out, parked, version, step, log, got, early>>

SuccessWithoutFlush(e) ==
  /\ at[e] = "hs_ssl"
  /\ Done(e)
  /\ Return(e, "established")
  /\ UNCHANGED <<netVars, ssl, early>>

\* WOLFSSL_SUCCESS: wolfSSL is not called again, poll goes on to the last flush.
SslSuccess(e) ==
  /\ at[e] = "hs_ssl"
  /\ Done(e)
  /\ handshake_done' = [handshake_done EXCEPT ![e] = TRUE]
  /\ at' = [at EXCEPT ![e] = "hs_final"]
  /\ UNCHANGED <<netVars, ssl, outcome, early>>

AfterFlush(e) ==
  IF at[e] = "hs_flush" THEN Goto(e, "hs_fill") ELSE Return(e, "established")

FlushNetOut(e) ==
  /\ at[e] \in {"hs_flush", "hs_final"}
  /\ \/ /\ Flushed(e)
        /\ AfterFlush(e)
        /\ UNCHANGED netVars
     \/ /\ FlushChunk(e)
        /\ UNCHANGED <<fin, dropped, wwaker, net_in, future>>
     \/ /\ FlushPending(e, Self(e))
        /\ parked' = Suspended(Self(e))
        /\ Goto(e, "idle")
        /\ UNCHANGED <<transport, rwaker, buffers>>
     \/ /\ FlushBroken(e)
        /\ Return(e, "io_error")
        /\ UNCHANGED netVars
  /\ UNCHANGED <<ssl, early>>

\* What the future returns when the transport is at its end.
EofOutcome(e) == "io_error"

FillNetIn(e) ==
  /\ at[e] = "hs_fill"
  /\ \/ /\ FillReady(e)
        /\ Goto(e, "hs_ssl")
        /\ UNCHANGED <<fin, dropped, rwaker, net_out>>
     \/ /\ FillPending(e, Self(e))
        /\ Goto(e, "idle")
        /\ UNCHANGED <<transport, wwaker, buffers>>
     \/ /\ AtEof(e)
        /\ Return(e, EofOutcome(e))
        /\ UNCHANGED netVars
  /\ UNCHANGED <<ssl, early>>

-----------------------------------------------------------------------------
(* The owners of the futures.                                              *)

Failed(e) == outcome[e] \in {"rejected", "io_error"}

\* The owner drops a future that failed, or gives up on one that is pending
\* (a timeout around it): Drop of the TlsStream inside frees the session and
\* the transport handle with whatever was left in net_out.
DropFuture(e) ==
  /\ ~dropped[e]
  /\ at[e] = "idle"
  /\ Failed(e) \/ (MayAbandon /\ outcome[e] = "pending")
  /\ DropIo(e)
  /\ outcome' = [outcome EXCEPT ![e] = IF @ = "pending" THEN "abandoned" ELSE @]
  /\ UNCHANGED <<wire, handshake_done, at, ssl, early>>

\* The owner of an established client uses the stream at once, while the
\* server may still be in its handshake: poll_write puts a record into net_out
\* and flushes, poll_read refills net_in.  (All of the stream's steps are in
\* TlsStream.)
EarlyWrite ==
  /\ outcome["client"] = "established"
  /\ \/ /\ early < MaxData
        /\ early' = early + 1
        /\ Produce("client", "data")
        /\ UNCHANGED <<wire, rwaker, parked>>
     \/ /\ FlushChunk("client")
        /\ UNCHANGED <<early, log>>
  /\ UNCHANGED <<fin, dropped, wwaker, net_in, version, ssl_in, step, got,
                 future>>

EarlyRead ==
  /\ outcome["client"] = "established"
  /\ FillReady("client")
  /\ UNCHANGED <<fin, dropped, rwaker, net_out, ssl, future, early>>

-----------------------------------------------------------------------------
(* The specification.                                                      *)

Init ==
  /\ NetInit([e \in End |-> <<>>], [e \in End |-> <<>>])
  /\ version \in Version
  /\ ssl_in = [e \in End |-> <<>>]
  /\ step = [e \in End |-> 1]
  /\ handshake_done = [e \in End |-> FALSE]
  /\ at = [e \in End |-> "idle"]
  /\ outcome = [e \in End |-> "pending"]
  /\ early = 0
  /\ log = [e \in End |-> <<>>]
  /\ got = [e \in End |-> <<>>]

\* One step of the poll in progress at e.
Step(e) ==
  \/ SslSend(e)
  \/ SslReceive(e)
  \/ SslReject(e)
  \/ SslWantRead(e)
  \/ SslSuccess(e)
  \/ FlushNetOut(e)
  \/ FillNetIn(e)

Next == EarlyWrite \/ EarlyRead \/ \E e \in End : Poll(e) \/ Step(e) \/ DropFuture(e)

Spec == Init /\ [][Next]_vars

\* A poll runs to its end, the executor polls every task that was woken, a
\* future that returned an error is dropped, and an established client reads:
\* Accept cannot flush its session tickets into a full transport otherwise.
Fairness ==
  /\ \A e \in End : WF_vars(Step(e)) /\ WF_vars(Poll(e))
  /\ \A e \in End : WF_vars(Failed(e) /\ DropFuture(e))
  /\ WF_vars(EarlyRead)

FairSpec == Spec /\ Fairness

-----------------------------------------------------------------------------
(* Properties.                                                             *)

Byte == Msg \X (1 .. MsgLen)

\* Every variable has its type: the buffers, the place a poll is at and what
\* Connect and Accept can return.
TypeOK ==
  /\ NetTypeOK(Byte)
  /\ version \in Version
  /\ ssl_in \in [End -> Seq(Byte)]
  /\ step \in [End -> Nat]
  /\ handshake_done \in [End -> BOOLEAN]
  /\ at \in [End -> At]
  /\ outcome \in [End -> Outcome]
  /\ early \in Nat
  /\ log \in [End -> Seq(Byte)]
  /\ got \in [End -> Seq(Byte)]

Arrived(e) == got[Peer(e)] \o ssl_in[Peer(e)] \o net_in[Peer(e)] \o wire[e]

\* The handshake loses no byte, also none that the peer sent after its last
\* handshake message and that a fill_net_in of Accept took in with it: it
\* stays in the net_in of the stream that poll hands out.
Conservation ==
  \A e \in End : (~dropped[e] /\ ~dropped[Peer(e)]) =>
    log[e] = Arrived(e) \o net_out[e]

\* A future that returned Pending has left its waker in the transport slot
\* whose event it waits for, and that event has not happened.
Waits(e) ==
  \/ rwaker[e] = Self(e) /\ ~Readable(e) /\ ~fin[Peer(e)]
  \/ wwaker[e] = Self(e) /\ ~Writable(e) /\ ~dropped[Peer(e)]

\* Connect and Accept never wait for each other, although the transport may
\* hold less than one message: output is flushed before input is awaited.  One that
\* waits will be woken.
NoMutualWait == \A e \in End : parked[Self(e)] => Waits(e) /\ ~parked[Self(Peer(e))]

\* Every handshake ends: whatever is rejected or abandoned, the future of the
\* other side returns too.
HandshakeEnds == \A e \in End : <>(outcome[e] # "pending")

\* Both sides obtain their stream unless one of them rejects the other or gives
\* up: neither future fails for any other reason.
BothEstablish ==
  <>(\/ \A e \in End : outcome[e] = "established"
     \/ \E e \in End : outcome[e] \in {"rejected", "abandoned"})

\* A rejected peer learns why: "the server sends a fatal alert rejecting the
\* client, which causes the server to error and the client to receive the alert
\* and also error" (tests/client_server.rs).
AlertReachesPeer ==
  \A e \in End :
    (outcome[e] = "rejected" /\ ~dropped[Peer(e)]) ~>
      (\E i \in DOMAIN Arrived(e) : Arrived(e)[i][1] = "alert")
=============================================================================
