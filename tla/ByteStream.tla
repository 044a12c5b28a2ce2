----------------------------- MODULE ByteStream -----------------------------
(***************************************************************************)
(* What a pair of TLS streams promises its two applications, whatever the  *)
(* transport does: each direction is a reliable sequence.  A reader sees a *)
(* prefix of what was written, in order and without gaps or duplicates; a  *)
(* clean end of file means that the writer closed and that nothing is      *)
(* missing; every other end is reported as an error.                       *)
(***************************************************************************)
EXTENDS Naturals, Sequences

CONSTANTS Side, Other(_)

VARIABLES
  sent,    \* sent[e]: what e has written
  rcvd,    \* rcvd[e]: what e has read
  closed,  \* closed[e]: e has closed its direction
  status   \* status[e]: how reading at e ended, "no" while it has not

streamVars == <<sent, rcvd, closed, status>>

Init ==
  /\ sent = [e \in Side |-> <<>>]
  /\ rcvd = [e \in Side |-> <<>>]
  /\ closed = [e \in Side |-> FALSE]
  /\ status = [e \in Side |-> "no"]

Send(e) ==
  /\ ~closed[e]
  /\ sent' = [sent EXCEPT ![e] = Append(@, Len(@) + 1)]
  /\ UNCHANGED <<rcvd, closed, status>>

Close(e) ==
  /\ closed' = [closed EXCEPT ![e] = TRUE]
  /\ UNCHANGED <<sent, rcvd, status>>

Receive(e) ==
  /\ status[e] = "no"
  /\ \E n \in Len(rcvd[e]) .. Len(sent[Other(e)]) :
       rcvd' = [rcvd EXCEPT ![e] = SubSeq(sent[Other(e)], 1, n)]
  /\ UNCHANGED <<sent, closed, status>>

EndOfFile(e) ==
  /\ status[e] = "no"
  /\ closed[Other(e)]
  /\ rcvd[e] = sent[Other(e)]
  /\ status' = [status EXCEPT ![e] = "eof"]
  /\ UNCHANGED <<sent, rcvd, closed>>

Fail(e) ==
  /\ status[e] = "no"
  /\ \E r \in {"unexpected_eof", "fatal"} : status' = [status EXCEPT ![e] = r]
  /\ UNCHANGED <<sent, rcvd, closed>>

Next == \E e \in Side : Send(e) \/ Close(e) \/ Receive(e) \/ EndOfFile(e) \/ Fail(e)

Spec == Init /\ [][Next]_streamVars
=============================================================================
