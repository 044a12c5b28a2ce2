----------------------------- MODULE NetBuffers -----------------------------
(***************************************************************************)
(* The plumbing below an async TLS session: two endpoints, the transport   *)
(* between them and the two network-side buffers of each endpoint.         *)
(*                                                                         *)
(* The buffers and the two functions that move bytes between them and the  *)
(* transport are wolfcrypt-tls-tokio/src/bridge.rs (NetBuffers) and        *)
(* stream.rs (fill_net_in, flush_net_out); wolfcrypt-tls-futures-io holds  *)
(* the same code.  The transport is external: any AsyncRead + AsyncWrite.  *)
(* It is modelled by what the two functions rely on: a bounded FIFO per    *)
(* direction, end of file once the sender has shut its half down, an error *)
(* for a writer whose reader is gone, and, as AsyncRead and AsyncWrite     *)
(* require, one waker slot per direction that holds the waker of the most  *)
(* recent poll that returned Pending.                                      *)
(*                                                                         *)
(* Actions of the modules that extend this one are made from the pieces    *)
(* defined here; each piece says which variables it changes.               *)
(***************************************************************************)
EXTENDS Integers, Sequences

CONSTANTS
  Role,     \* the tasks that drive one endpoint: one, or the two of a split
  PipeCap,  \* how many bytes the transport holds in one direction
  FillMax   \* READ_CHUNK: how many bytes one fill_net_in may take

ASSUME NetAssumption ==
  /\ Role # {}
  /\ PipeCap \in Nat \ {0}
  /\ FillMax \in Nat \ {0}

End == {"client", "server"}
Peer(e) == IF e = "client" THEN "server" ELSE "client"
Task == End \X Role
EndOf(t) == t[1]
NoTask == <<"none", "none">>

VARIABLES
  wire,     \* wire[e]: bytes e has sent and its peer has not yet taken
  fin,      \* fin[e]: e has shut down its sending half
  dropped,  \* dropped[e]: e has dropped its transport handle
  rwaker,   \* rwaker[e]: the task e's transport wakes when it can be read
  wwaker,   \* wwaker[e]: the task e's transport wakes when it can be written
  net_in,   \* net_in[e]: encrypted bytes waiting for wolfSSL
  net_out,  \* net_out[e]: encrypted bytes wolfSSL produced, not yet sent
  parked    \* parked[t]: t was told Pending and has not been woken since

transport == <<wire, fin, dropped>>
wakers == <<rwaker, wwaker>>
buffers == <<net_in, net_out>>
netVars == <<wire, fin, dropped, rwaker, wwaker, net_in, net_out, parked>>

\* The types of these variables, for bytes of the given set.
NetTypeOK(Bytes) ==
  /\ wire \in [End -> Seq(Bytes)]
  /\ fin \in [End -> BOOLEAN]
  /\ dropped \in [End -> BOOLEAN]
  /\ rwaker \in [End -> Task \cup {NoTask}]
  /\ wwaker \in [End -> Task \cup {NoTask}]
  /\ net_in \in [End -> Seq(Bytes)]
  /\ net_out \in [End -> Seq(Bytes)]
  /\ parked \in [Task -> BOOLEAN]

NetInit(w, in) ==
  /\ wire = w
  /\ fin = [e \in End |-> FALSE]
  /\ dropped = [e \in End |-> FALSE]
  /\ rwaker = [e \in End |-> NoTask]
  /\ wwaker = [e \in End |-> NoTask]
  /\ net_in = in
  /\ net_out = [e \in End |-> <<>>]
  /\ parked = [t \in Task |-> FALSE]

-----------------------------------------------------------------------------
(* Wakers (external: the executor).                                        *)

Woken(ts) == [t \in Task |-> parked[t] /\ t \notin ts]
Suspended(t) == [parked EXCEPT ![t] = TRUE]

-----------------------------------------------------------------------------
(* fill_net_in: one poll_read of the transport into net_in.                *)

Readable(e) == wire[Peer(e)] # <<>>
AtEof(e) == ~Readable(e) /\ fin[Peer(e)]

FillDropsExcess(e) ==
  LET p == Peer(e) IN
  /\ Readable(e)
  /\ \E n \in 1 .. FillMax :
       /\ n <= Len(wire[p])
       /\ net_in' = [net_in EXCEPT ![e] = @ \o SubSeq(wire[p], 1, n)]
       /\ wire' = [wire EXCEPT ![p] = <<>>]
  /\ wwaker' = [wwaker EXCEPT ![p] = NoTask]
  /\ parked' = Woken({wwaker[p]})

\* Ready(Ok): at least one byte arrived and is appended to net_in; the
\* transport has room again and wakes whoever waits to write to it.
\* Changes wire, net_in, wwaker and parked.
FillReady(e) ==
  LET p == Peer(e) IN
  /\ Readable(e)
  /\ \E n \in 1 .. FillMax :
       /\ n <= Len(wire[p])
       /\ net_in' = [net_in EXCEPT ![e] = @ \o SubSeq(wire[p], 1, n)]
       /\ wire' = [wire EXCEPT ![p] = SubSeq(@, n + 1, Len(@))]
  /\ wwaker' = [wwaker EXCEPT ![p] = NoTask]
  /\ parked' = Woken({wwaker[p]})

FillForgetsWaker(e, t) ==
  /\ ~Readable(e)
  /\ ~fin[Peer(e)]
  /\ parked' = Suspended(t)
  /\ UNCHANGED rwaker

\* Pending: the transport keeps the waker of the polling task, which parks.
\* Changes rwaker and parked.
FillPending(e, t) ==
  /\ ~Readable(e)
  /\ ~fin[Peer(e)]
  /\ rwaker' = [rwaker EXCEPT ![e] = t]
  /\ parked' = Suspended(t)

-----------------------------------------------------------------------------
(* flush_net_out: the loop of poll_write calls that drains net_out.        *)

Flushed(e) == net_out[e] = <<>>
Writable(e) == Len(wire[e]) < PipeCap

\* One Ready(Ok(n)) of the loop: the transport takes what it has room for and
\* wakes whoever waits to read.  Changes wire, net_out, rwaker and parked.
FlushChunk(e) ==
  LET p == Peer(e)
      room == PipeCap - Len(wire[e])
      n == IF Len(net_out[e]) < room THEN Len(net_out[e]) ELSE room
  IN
  /\ ~Flushed(e)
  /\ ~dropped[p]
  /\ Writable(e)
  /\ wire' = [wire EXCEPT ![e] = @ \o SubSeq(net_out[e], 1, n)]
  /\ net_out' = [net_out EXCEPT ![e] = SubSeq(@, n + 1, Len(@))]
  /\ rwaker' = [rwaker EXCEPT ![p] = NoTask]
  /\ parked' = Woken({rwaker[p]})

FlushForgetsWaker(e, t) ==
  /\ ~Flushed(e)
  /\ ~dropped[Peer(e)]
  /\ ~Writable(e)
  /\ UNCHANGED wwaker

\* Pending: the transport is full and keeps the waker of the polling task.
\* Whether the task parks is up to the caller: a best-effort flush goes on.
\* Changes wwaker.
FlushPending(e, t) ==
  /\ ~Flushed(e)
  /\ ~dropped[Peer(e)]
  /\ ~Writable(e)
  /\ wwaker' = [wwaker EXCEPT ![e] = t]

\* Ready(Err): nobody will ever read what is written.
FlushBroken(e) ==
  /\ ~Flushed(e)
  /\ dropped[Peer(e)]

-----------------------------------------------------------------------------
(* The transport calls that end a direction.                               *)

\* poll_shutdown of the transport: its sending half is closed and a waiting
\* reader is woken.  Changes fin, rwaker and parked.
CloseWrite(e) ==
  LET p == Peer(e) IN
  /\ fin' = [fin EXCEPT ![e] = TRUE]
  /\ rwaker' = [rwaker EXCEPT ![p] = NoTask]
  /\ parked' = Woken({rwaker[p]})

\* The transport handle is dropped: both directions end, everyone who waits on
\* the other side is woken and no future is left to wait on this side; wolfSSL
\* and its buffers are freed with it.  Changes every variable but wire.
DropIo(e) ==
  LET p == Peer(e) IN
  /\ fin' = [fin EXCEPT ![e] = TRUE]
  /\ dropped' = [dropped EXCEPT ![e] = TRUE]
  /\ rwaker' = [x \in End |-> NoTask]
  /\ wwaker' = [x \in End |-> NoTask]
  /\ net_in' = [net_in EXCEPT ![e] = <<>>]
  /\ net_out' = [net_out EXCEPT ![e] = <<>>]
  /\ parked' = Woken({rwaker[p], wwaker[p]} \cup {t \in Task : EndOf(t) = e})
=============================================================================
