------------------------- MODULE TlsHandshakeProofs -------------------------
(***************************************************************************)
(* Proofs about TlsHandshake, for every half-duplex script, message        *)
(* length and capacity of the transport: no byte is lost, and Connect and  *)
(* Accept never wait for each other.                                       *)
(***************************************************************************)
EXTENDS TlsHandshake, NetBuffersProofs, FiniteSetTheorems

-----------------------------------------------------------------------------
(* The script.                                                             *)

ScriptLen(e) == Len(Script[version][e])

\* A step of the script is a message that is sent or received.
LEMMA ScriptFacts ==
  ASSUME NEW v \in Version, NEW e \in End
  PROVE  /\ Len(Script[v][e]) \in Nat
         /\ \A i \in 1 .. Len(Script[v][e]) :
              Script[v][e][i][1] \in {"send", "recv"} /\ Script[v][e][i][2] \in Msg
<1>1. Script[v][e] \in Seq({"send", "recv"} \X Msg)
  BY HandshakeAssumption
<1>2. \A i \in 1 .. Len(Script[v][e]) : Script[v][e][i] \in {"send", "recv"} \X Msg
  BY <1>1, ElementOfSeq
<1> QED BY <1>1, <1>2, LenProperties

\* The counts start at 0, and a step adds to that of its kind only.
LEMMA CountFacts ==
  ASSUME NEW v \in Version, NEW e \in End, NEW kind
  PROVE  /\ Count(v, e, kind, 1) = 0
         /\ \A i \in Nat \ {0} :
              /\ Count(v, e, kind, i) \in Nat
              /\ Count(v, e, kind, i + 1)
                   = IF Script[v][e][i][1] = kind THEN Count(v, e, kind, i) + 1 ELSE Count(v, e, kind, i)
<1> DEFINE S(i) == {k \in 1 .. i - 1 : Script[v][e][k][1] = kind}
<1>1. S(1) = {}
  OBVIOUS
<1>2. ASSUME NEW i \in Nat \ {0} PROVE IsFiniteSet(S(i)) /\ Cardinality(S(i)) \in Nat
  <2>1. IsFiniteSet(1 .. i - 1)
    BY FS_Interval
  <2>2. IsFiniteSet(S(i))
    BY <2>1, FS_Subset
  <2> QED BY <2>2, FS_CardinalityType
<1>3. ASSUME NEW i \in Nat \ {0}
      PROVE  S(i + 1) = IF Script[v][e][i][1] = kind THEN S(i) \cup {i} ELSE S(i)
  <2>1. \A k : k \in 1 .. (i + 1) - 1 <=> k \in 1 .. i - 1 \/ k = i
    OBVIOUS
  <2> QED BY <2>1
<1>4. \A i \in Nat \ {0} : i \notin S(i)
  OBVIOUS
<1>5. Cardinality(S(1)) = 0
  BY <1>1, FS_EmptySet
<1>6. \A i \in Nat \ {0} : Count(v, e, kind, i) = Cardinality(S(i))
  BY DEF Count
<1> HIDE DEF S
<1>7. ASSUME NEW i \in Nat \ {0}
      PROVE  Cardinality(S(i + 1)) = IF Script[v][e][i][1] = kind THEN Cardinality(S(i)) + 1 ELSE Cardinality(S(i))
  <2>1. IsFiniteSet(S(i)) /\ i \notin S(i)
    BY <1>2, <1>4
  <2>2. Cardinality(S(i) \cup {i}) = Cardinality(S(i)) + 1
    BY <2>1, FS_AddElement
  <2> QED BY <1>3, <2>2
<1> QED BY <1>2, <1>5, <1>6, <1>7

-----------------------------------------------------------------------------
(* Messages and buffers.                                                   *)

\* A handshake message is a sequence of bytes.
LEMMA EncodeType ==
  ASSUME NEW m \in Msg
  PROVE  Encode(m) \in Seq(Byte) /\ Len(Encode(m)) = MsgLen
<1>1. MsgLen \in Nat
  BY HandshakeAssumption
<1>2. \A k \in 1 .. MsgLen : <<m, k>> \in Byte
  BY DEF Byte
<1> QED BY <1>1, <1>2 DEF Encode

\* The inductive part of the types: scripts are not left.
HsTypes == TypeOK /\ \A e \in End : step[e] \in 1 .. ScriptLen(e) + 1

\* What e's peer has of e's bytes, and what is on the way.
LEMMA BufferTypes ==
  ASSUME TypeOK, NEW e \in End
  PROVE  /\ Peer(e) \in End
         /\ log[e] \in Seq(Byte) /\ got[e] \in Seq(Byte) /\ ssl_in[e] \in Seq(Byte)
         /\ net_in[e] \in Seq(Byte) /\ net_out[e] \in Seq(Byte) /\ wire[e] \in Seq(Byte)
         /\ Held(e) \in Seq(Byte) /\ Len(Held(e)) \in Nat
<1>1. ssl_in[e] \in Seq(Byte) /\ net_in[e] \in Seq(Byte)
  BY DEF TypeOK, NetTypeOK
<1>2. Held(e) \in Seq(Byte)
  BY <1>1, ConcatProperties DEF Held
<1>3. Peer(e) \in End
  BY PeerOfEnd
<1>4. /\ log[e] \in Seq(Byte) /\ got[e] \in Seq(Byte) /\ net_out[e] \in Seq(Byte) /\ wire[e] \in Seq(Byte)
  BY DEF TypeOK, NetTypeOK
<1> QED BY <1>1, <1>2, <1>3, <1>4, LenProperties

-----------------------------------------------------------------------------
(* The inductive invariant.                                                *)

\* The bytes that e has produced are the ones that its peer has taken and the ones on the way.
Flow(e) == log[e] = Arrived(e) \o net_out[e]

\* A future that waits has returned from its poll; whoever is done does not wait.
Place(e) ==
  /\ parked[Self(e)] => at[e] = "idle" /\ outcome[e] = "pending"
  /\ at[e] # "idle" => outcome[e] = "pending"
  /\ dropped[e] => outcome[e] # "pending"
  /\ at[e] \in {"hs_flush", "hs_fill"} => net_in[e] = <<>> /\ Len(ssl_in[e]) < MsgLen /\ Receives(e)
  /\ at[e] = "hs_fill" => net_out[e] = <<>>

\* Waiting to read, e has flushed its output and used up its input; waiting to write, it has
\* output left.
ReadBlocked(e) ==
  /\ rwaker[e] = Self(e) /\ ~Readable(e) /\ ~fin[Peer(e)]
  /\ net_out[e] = <<>> /\ net_in[e] = <<>> /\ Len(ssl_in[e]) < MsgLen /\ Receives(e)
WriteBlocked(e) ==
  /\ wwaker[e] = Self(e) /\ ~Writable(e) /\ ~dropped[Peer(e)]
  /\ net_out[e] # <<>>
Blocked(e) == parked[Self(e)] => ReadBlocked(e) \/ WriteBlocked(e)

\* The bytes are whole messages of the script.
Counted(e) == outcome[e] = "pending" =>
  /\ Len(log[e]) = MsgLen * Count(version, e, "send", step[e])
  /\ Len(got[e]) = MsgLen * Count(version, e, "recv", step[e])

EndInv(e) == Place(e) /\ Blocked(e) /\ Counted(e)

HsInv == HsTypes /\ Conservation /\ \A e \in End : EndInv(e)

\* Each end is driven by a task of its own.
LEMMA SelfFacts == \A e \in End : Self(e) \in Task /\ Self(Peer(e)) # Self(e) /\ Self(e) # NoTask
BY HandshakeAssumption DEF Self, Task, End, Peer, NoTask

\* No two futures wait for each other.
LEMMA NotBoth ==
  ASSUME HsInv, NEW e \in End, parked[Self(e)], parked[Self(Peer(e))]
  PROVE  FALSE
<1> DEFINE c == "client"
           s == "server"
           m == MsgLen
<1>1. c \in End /\ s \in End /\ Peer(c) = s /\ Peer(s) = c /\ parked[Self(c)] /\ parked[Self(s)]
  BY DEF End, Peer
<1>2. /\ outcome[c] = "pending" /\ outcome[s] = "pending" /\ ~dropped[c] /\ ~dropped[s]
      /\ (ReadBlocked(c) \/ WriteBlocked(c)) /\ (ReadBlocked(s) \/ WriteBlocked(s))
  BY <1>1 DEF HsInv, EndInv, Place, Blocked
<1> DEFINE i == step[c]
           j == step[s]
           sentC == Count(version, c, "send", i)
           recvC == Count(version, c, "recv", i)
           sentS == Count(version, s, "send", j)
           recvS == Count(version, s, "recv", j)
<1>3. /\ version \in Version /\ i \in 1 .. ScriptLen(c) + 1 /\ j \in 1 .. ScriptLen(s) + 1 /\ i \in Nat \ {0} /\ j \in Nat \ {0}
  BY <1>1, ScriptFacts DEF HsInv, HsTypes, TypeOK, ScriptLen
<1>4. /\ sentC \in Nat /\ recvC \in Nat /\ sentS \in Nat /\ recvS \in Nat /\ m \in Nat \ {0}
  BY <1>1, <1>3, CountFacts, HandshakeAssumption
<1>5. /\ Len(log[c]) = m * sentC /\ Len(got[c]) = m * recvC
      /\ Len(log[s]) = m * sentS /\ Len(got[s]) = m * recvS
  BY <1>1, <1>2 DEF HsInv, EndInv, Counted
<1>6. HalfDuplex(version)
  BY <1>3, HandshakeAssumption
<1>7. ASSUME NEW x \in End
      PROVE  /\ Len(log[x]) = Len(got[Peer(x)]) + Len(ssl_in[Peer(x)]) + Len(net_in[Peer(x)])
                                + Len(wire[x]) + Len(net_out[x])
             /\ Len(got[Peer(x)]) \in Nat /\ Len(ssl_in[Peer(x)]) \in Nat /\ Len(net_in[Peer(x)]) \in Nat /\ Len(wire[x]) \in Nat
             /\ Len(net_out[x]) \in Nat
             /\ (Len(net_out[x]) = 0 <=> net_out[x] = <<>>) /\ (Len(wire[x]) = 0 <=> wire[x] = <<>>)
             /\ (Len(net_in[Peer(x)]) = 0 <=> net_in[Peer(x)] = <<>>)
  <2> DEFINE p == Peer(x)
  <2>1. /\ p \in End /\ got[p] \in Seq(Byte) /\ ssl_in[p] \in Seq(Byte) /\ net_in[p] \in Seq(Byte)
        /\ wire[x] \in Seq(Byte) /\ net_out[x] \in Seq(Byte)
    BY PeerOfEnd, BufferTypes DEF HsInv, HsTypes
  <2>2. ~dropped[x] /\ ~dropped[p]
    BY <1>2, <2>1 DEF End
  <2>3. log[x] = (((got[p] \o ssl_in[p]) \o net_in[p]) \o wire[x]) \o net_out[x]
    BY <2>2 DEF HsInv, Conservation, Arrived
  <2>4. got[p] \o ssl_in[p] \in Seq(Byte) /\ Len(got[p] \o ssl_in[p]) = Len(got[p]) + Len(ssl_in[p])
    BY <2>1, ConcatProperties
  <2>5. /\ (got[p] \o ssl_in[p]) \o net_in[p] \in Seq(Byte)
        /\ Len((got[p] \o ssl_in[p]) \o net_in[p]) = Len(got[p] \o ssl_in[p]) + Len(net_in[p])
    BY <2>1, <2>4, ConcatProperties
  <2>6. /\ ((got[p] \o ssl_in[p]) \o net_in[p]) \o wire[x] \in Seq(Byte)
        /\ Len(((got[p] \o ssl_in[p]) \o net_in[p]) \o wire[x]) = Len((got[p] \o ssl_in[p]) \o net_in[p]) + Len(wire[x])
    BY <2>1, <2>5, ConcatProperties
  <2>7. Len(log[x]) = Len(((got[p] \o ssl_in[p]) \o net_in[p]) \o wire[x]) + Len(net_out[x])
    BY <2>1, <2>3, <2>6, ConcatProperties
  <2>8. /\ Len(got[p]) \in Nat /\ Len(ssl_in[p]) \in Nat /\ Len(net_in[p]) \in Nat /\ Len(wire[x]) \in Nat /\ Len(net_out[x]) \in Nat
        /\ (Len(net_out[x]) = 0 <=> net_out[x] = <<>>) /\ (Len(wire[x]) = 0 <=> wire[x] = <<>>)
        /\ (Len(net_in[p]) = 0 <=> net_in[p] = <<>>)
    BY <2>1, LenProperties, EmptySeq
  <2> QED BY <2>4, <2>5, <2>6, <2>7, <2>8
<1>8. /\ Len(log[c]) = Len(got[s]) + Len(ssl_in[s]) + Len(net_in[s]) + Len(wire[c]) + Len(net_out[c])
       /\ Len(log[s]) = Len(got[c]) + Len(ssl_in[c]) + Len(net_in[c]) + Len(wire[s]) + Len(net_out[s])
       /\ Len(ssl_in[s]) \in Nat /\ Len(net_in[s]) \in Nat /\ Len(wire[c]) \in Nat /\ Len(net_out[c]) \in Nat
       /\ Len(ssl_in[c]) \in Nat /\ Len(net_in[c]) \in Nat /\ Len(wire[s]) \in Nat /\ Len(net_out[s]) \in Nat
       /\ Len(got[c]) \in Nat /\ Len(got[s]) \in Nat
  BY <1>1, <1>7
<1>9. /\ (Len(net_out[c]) = 0 <=> net_out[c] = <<>>) /\ (Len(wire[c]) = 0 <=> wire[c] = <<>>)
       /\ (Len(net_in[c]) = 0 <=> net_in[c] = <<>>)
       /\ (Len(net_out[s]) = 0 <=> net_out[s] = <<>>) /\ (Len(wire[s]) = 0 <=> wire[s] = <<>>)
       /\ (Len(net_in[s]) = 0 <=> net_in[s] = <<>>)
  BY <1>1, <1>7
<1>10. CASE ReadBlocked(c) /\ ReadBlocked(s)
  <2>1. /\ wire[c] = <<>> /\ wire[s] = <<>> /\ net_out[c] = <<>> /\ net_out[s] = <<>>
        /\ net_in[c] = <<>> /\ net_in[s] = <<>> /\ Len(ssl_in[c]) < m /\ Len(ssl_in[s]) < m
    BY <1>1, <1>10 DEF ReadBlocked, Readable
  <2>2. /\ Len(log[c]) = Len(got[s]) + Len(ssl_in[s]) /\ Len(ssl_in[s]) \in Nat
        /\ Len(log[s]) = Len(got[c]) + Len(ssl_in[c]) /\ Len(ssl_in[c]) \in Nat
    <3>1. /\ Len(net_out[c]) = 0 /\ Len(net_in[c]) = 0 /\ Len(wire[c]) = 0
          /\ Len(net_out[s]) = 0 /\ Len(net_in[s]) = 0 /\ Len(wire[s]) = 0
      BY <1>9, <2>1
    <3> QED BY <1>8, <3>1
  <2> HIDE DEF sentC, sentS, recvC, recvS, m
  <2>3. \A a, b, r \in Nat : r < m /\ m * a = m * b + r => a = b
    <3> SUFFICES ASSUME NEW a \in Nat, NEW b \in Nat, NEW r \in Nat, r < m, m * a = m * b + r PROVE a = b
      OBVIOUS
    <3>1. m * (a - b) = r
      BY <1>4
    <3>2. CASE a - b >= 1
      <4>1. m * (a - b) >= m
        BY <1>4, <3>2
      <4> QED BY <1>4, <3>1, <4>1
    <3>3. CASE a - b <= -1
      <4>1. m * (a - b) <= -1
        BY <1>4, <3>3
      <4> QED BY <1>4, <3>1, <4>1
    <3> QED BY <3>2, <3>3
  <2>4. sentC = recvS /\ sentS = recvC
    <3>1. /\ m * sentC = m * recvS + Len(ssl_in[s])
          /\ m * sentS = m * recvC + Len(ssl_in[c])
      BY <1>5, <2>2
    <3> QED BY <1>4, <2>1, <2>2, <2>3, <3>1
  <2>5. Awaits(version, c, i) /\ Awaits(version, s, j)
    BY <1>3, <1>10 DEF ReadBlocked, Receives, Done, Awaits, ScriptLen
  <2> QED BY <1>3, <1>4, <1>6, <2>4, <2>5 DEF HalfDuplex, sentC, sentS, recvC, recvS, ScriptLen
<1>11. CASE WriteBlocked(c) /\ WriteBlocked(s)
  <2>1. net_out[c] # <<>> /\ net_out[s] # <<>>
    BY <1>11 DEF WriteBlocked
  <2>2. Len(log[c]) > Len(got[s]) /\ Len(log[s]) > Len(got[c])
    <3>1. Len(net_out[c]) # 0 /\ Len(net_out[s]) # 0
      BY <1>9, <2>1
    <3>2. \A a, b, d, f, g \in Nat : g # 0 => a + b + d + f + g > a
      OBVIOUS
    <3>3. /\ Len(got[s]) + Len(ssl_in[s]) + Len(net_in[s]) + Len(wire[c]) + Len(net_out[c]) > Len(got[s])
          /\ Len(got[c]) + Len(ssl_in[c]) + Len(net_in[c]) + Len(wire[s]) + Len(net_out[s]) > Len(got[c])
      BY <1>8, <3>1, <3>2
    <3> QED BY <1>8, <3>3
  <2> HIDE DEF sentC, sentS, recvC, recvS, m
  <2>3. \A a, b \in Nat : m * a > m * b => a > b
    <3> SUFFICES ASSUME NEW a \in Nat, NEW b \in Nat, a <= b PROVE m * a <= m * b
      BY <1>4
    <3>1. m * (b - a) >= 0
      BY <1>4
    <3> QED BY <1>4, <3>1
  <2>4. sentC > recvS /\ sentS > recvC
    BY <1>4, <1>5, <2>2, <2>3
  <2> QED BY <1>3, <1>4, <1>6, <2>4 DEF HalfDuplex, sentC, sentS, recvC, recvS, ScriptLen
<1>12. ASSUME NEW x \in End, ReadBlocked(x), WriteBlocked(Peer(x)) PROVE FALSE
  <2>1. wire[Peer(x)] = <<>> /\ Len(wire[Peer(x)]) >= PipeCap
    BY <1>7, <1>12, PeerOfEnd, NetAssumption DEF ReadBlocked, WriteBlocked, Readable, Writable
  <2>2. Peer(x) \in End
    BY PeerOfEnd
  <2> QED BY <1>7, <2>1, <2>2, NetAssumption
<1> QED BY <1>1, <1>2, <1>10, <1>11, <1>12

\* Concatenation, as a name of its own: below, only its laws matter.
Cat(a, b) == a \o b

\* Concatenation is closed, associative and has a unit.
LEMMA CatLaws ==
  /\ \A a, b \in Seq(Byte) : Cat(a, b) \in Seq(Byte)
  /\ \A a, b, c \in Seq(Byte) : Cat(Cat(a, b), c) = Cat(a, Cat(b, c))
<1>1. \A a, b \in Seq(Byte) : Cat(a, b) \in Seq(Byte)
  BY ConcatProperties DEF Cat
<1>2. \A a, b, c \in Seq(Byte) : Cat(Cat(a, b), c) = Cat(a, Cat(b, c))
  BY ConcatAssociative DEF Cat
<1> QED BY <1>1, <1>2

\* Four buffers in a row: bytes may move between neighbours, and new ones come last.
LEMMA Regroup ==
  ASSUME NEW a \in Seq(Byte), NEW c \in Seq(Byte), NEW d \in Seq(Byte), NEW f \in Seq(Byte)
  PROVE  /\ Cat(Cat(Cat(a, c), d), f) = Cat(Cat(a, Cat(c, d)), f)
         /\ Cat(Cat(Cat(a, c), d), f) = Cat(Cat(a, c), Cat(d, f))
<1>1. Cat(a, c) \in Seq(Byte)
  BY CatLaws
<1> QED BY <1>1, CatLaws

\* The same with something behind them.
LEMMA RegroupLast ==
  ASSUME NEW a \in Seq(Byte), NEW c \in Seq(Byte), NEW d \in Seq(Byte), NEW f \in Seq(Byte),
         NEW m \in Seq(Byte)
  PROVE  Cat(Cat(Cat(Cat(a, c), d), f), m) = Cat(Cat(Cat(a, c), d), Cat(f, m))
<1>1. Cat(a, c) \in Seq(Byte) /\ Cat(Cat(a, c), d) \in Seq(Byte)
  BY CatLaws
<1> QED BY <1>1, CatLaws

-----------------------------------------------------------------------------
(* What steps leave alone.                                                 *)

\* Waking and parking, one task at a time.
LEMMA WokenAt ==
  ASSUME NEW ts, parked' = Woken(ts), NEW t \in Task
  PROVE  parked'[t] <=> parked[t] /\ t \notin ts
BY Zenon DEF Woken

\* Who is parked after a task suspends.
LEMMA SuspendedAt ==
  ASSUME NEW u \in Task, parked \in [Task -> BOOLEAN], parked' = Suspended(u), NEW t \in Task
  PROVE  parked'[t] <=> parked[t] \/ t = u
BY Zenon DEF Suspended

\* The session and the future of x do not move.
Same(x) ==
  /\ version' = version
  /\ at'[x] = at[x] /\ outcome'[x] = outcome[x] /\ dropped'[x] = dropped[x]
  /\ net_in'[x] = net_in[x] /\ ssl_in'[x] = ssl_in[x] /\ net_out'[x] = net_out[x]
  /\ step'[x] = step[x] /\ log'[x] = log[x] /\ got'[x] = got[x]

\* x goes on waiting only if nothing happened on the side it waits for.
Undisturbed(x) ==
  /\ parked'[Self(x)] => parked[Self(x)]
  /\ parked'[Self(x)] /\ rwaker[x] = Self(x) =>
       rwaker'[x] = rwaker[x] /\ wire'[Peer(x)] = wire[Peer(x)] /\ fin'[Peer(x)] = fin[Peer(x)]
  /\ parked'[Self(x)] /\ wwaker[x] = Self(x) =>
       wwaker'[x] = wwaker[x] /\ wire'[x] = wire[x] /\ dropped'[Peer(x)] = dropped[Peer(x)]

\* A step of one end keeps what the other end relies on.
LEMMA OtherKept ==
  ASSUME NEW x \in End, EndInv(x), Same(x), Undisturbed(x)
  PROVE  EndInv(x)'
<1>1. Receives(x)' <=> Receives(x)
  BY DEF Same, Receives, Done
<1>2. Place(x)'
  <2>1. /\ parked[Self(x)] => at[x] = "idle" /\ outcome[x] = "pending"
        /\ at[x] # "idle" => outcome[x] = "pending"
        /\ dropped[x] => outcome[x] # "pending"
        /\ at[x] \in {"hs_flush", "hs_fill"} => net_in[x] = <<>> /\ Len(ssl_in[x]) < MsgLen /\ Receives(x)
        /\ at[x] = "hs_fill" => net_out[x] = <<>>
    BY DEF EndInv, Place
  <2>2. parked'[Self(x)] => parked[Self(x)]
    BY DEF Undisturbed
  <2> QED BY <1>1, <2>1, <2>2, Zenon DEF Same, Place, Self
<1>3. Counted(x)'
  BY DEF EndInv, Counted, Same
<1>4. Blocked(x)'
  <2> SUFFICES ASSUME parked'[Self(x)] PROVE ReadBlocked(x)' \/ WriteBlocked(x)'
    BY DEF Blocked, Self
  <2>1. parked[Self(x)] /\ (ReadBlocked(x) \/ WriteBlocked(x))
    BY DEF Undisturbed, EndInv, Blocked
  <2>2. CASE ReadBlocked(x)
    BY <1>1, <2>2 DEF ReadBlocked, Undisturbed, Same, Readable, Self
  <2>3. CASE WriteBlocked(x)
    BY <2>3 DEF WriteBlocked, Undisturbed, Same, Writable, Self
  <2> QED BY <2>1, <2>2, <2>3
<1> QED BY <1>2, <1>3, <1>4 DEF EndInv

\* The bytes of x on their way to p move on by one buffer, or new ones come last.
FlowMoved(x, p) ==
  \/ /\ log'[x] = log[x] /\ net_out'[x] = net_out[x]
     /\ got'[p] = got[p] /\ ssl_in'[p] = ssl_in[p]
     /\ net_in'[p] \o wire'[x] = net_in[p] \o wire[x]
  \/ /\ log'[x] = log[x]
     /\ got'[p] = got[p] /\ ssl_in'[p] = ssl_in[p] /\ net_in'[p] = net_in[p]
     /\ wire'[x] \o net_out'[x] = wire[x] \o net_out[x]
  \/ /\ log'[x] = log[x] /\ net_out'[x] = net_out[x] /\ wire'[x] = wire[x]
     /\ got'[p] \o ssl_in'[p] \o net_in'[p] = got[p] \o ssl_in[p] \o net_in[p]
  \/ /\ got'[p] = got[p] /\ ssl_in'[p] = ssl_in[p] /\ net_in'[p] = net_in[p] /\ wire'[x] = wire[x]
     /\ \E m \in Seq(Byte) : log'[x] = log[x] \o m /\ net_out'[x] = net_out[x] \o m

\* Either way they keep their order.
LEMMA FlowKept ==
  ASSUME TypeOK, TypeOK', NEW x \in End, NEW p \in End, p = Peer(x), Flow(x), FlowMoved(x, p)
  PROVE  Flow(x)'
<1>1. /\ got[p] \in Seq(Byte) /\ ssl_in[p] \in Seq(Byte) /\ net_in[p] \in Seq(Byte)
      /\ wire[x] \in Seq(Byte) /\ net_out[x] \in Seq(Byte)
  BY BufferTypes
<1>2. /\ got'[p] \in Seq(Byte) /\ ssl_in'[p] \in Seq(Byte) /\ net_in'[p] \in Seq(Byte)
      /\ wire'[x] \in Seq(Byte) /\ net_out'[x] \in Seq(Byte)
  BY DEF TypeOK, NetTypeOK
<1>4. log[x] = Cat(Cat(Cat(Cat(got[p], ssl_in[p]), net_in[p]), wire[x]), net_out[x])
  BY DEF Flow, Arrived, Cat
<1>5. SUFFICES log'[x] = Cat(Cat(Cat(Cat(got'[p], ssl_in'[p]), net_in'[p]), wire'[x]), net_out'[x])
  BY DEF Flow, Arrived, Peer, Cat
<1> DEFINE A == Cat(got[p], ssl_in[p])
           A1 == Cat(got'[p], ssl_in'[p])
           N == net_in[p]
           N1 == net_in'[p]
           W == wire[x]
           W1 == wire'[x]
           O == net_out[x]
           O1 == net_out'[x]
<1>3. /\ A \in Seq(Byte) /\ N \in Seq(Byte) /\ W \in Seq(Byte) /\ O \in Seq(Byte)
      /\ A1 \in Seq(Byte) /\ N1 \in Seq(Byte) /\ W1 \in Seq(Byte) /\ O1 \in Seq(Byte)
  BY <1>1, <1>2, CatLaws
<1>6. /\ Cat(Cat(Cat(A, N), W), O) = Cat(Cat(A, Cat(N, W)), O)
      /\ Cat(Cat(Cat(A, N), W), O) = Cat(Cat(A, N), Cat(W, O))
      /\ \A m \in Seq(Byte) : Cat(Cat(Cat(Cat(A, N), W), O), m) = Cat(Cat(Cat(A, N), W), Cat(O, m))
  <2>1. A \in Seq(Byte) /\ N \in Seq(Byte) /\ W \in Seq(Byte) /\ O \in Seq(Byte)
    BY <1>3
  <2> HIDE DEF A, N, W, O
  <2>2. /\ Cat(Cat(Cat(A, N), W), O) = Cat(Cat(A, Cat(N, W)), O)
        /\ Cat(Cat(Cat(A, N), W), O) = Cat(Cat(A, N), Cat(W, O))
    BY <2>1, Regroup
  <2>3. ASSUME NEW m \in Seq(Byte)
        PROVE  Cat(Cat(Cat(Cat(A, N), W), O), m) = Cat(Cat(Cat(A, N), W), Cat(O, m))
    BY <2>1, RegroupLast
  <2> QED BY <2>2, <2>3
<1>7. /\ Cat(Cat(Cat(A1, N1), W1), O1) = Cat(Cat(A1, Cat(N1, W1)), O1)
      /\ Cat(Cat(Cat(A1, N1), W1), O1) = Cat(Cat(A1, N1), Cat(W1, O1))
  <2>1. A1 \in Seq(Byte) /\ N1 \in Seq(Byte) /\ W1 \in Seq(Byte) /\ O1 \in Seq(Byte)
    BY <1>3
  <2> HIDE DEF A1, N1, W1, O1
  <2> QED BY <2>1, Regroup
<1>8. \/ /\ log'[x] = log[x] /\ net_out'[x] = net_out[x]
         /\ got'[p] = got[p] /\ ssl_in'[p] = ssl_in[p]
         /\ Cat(net_in'[p], wire'[x]) = Cat(net_in[p], wire[x])
      \/ /\ log'[x] = log[x]
         /\ got'[p] = got[p] /\ ssl_in'[p] = ssl_in[p] /\ net_in'[p] = net_in[p]
         /\ Cat(wire'[x], net_out'[x]) = Cat(wire[x], net_out[x])
      \/ /\ log'[x] = log[x] /\ net_out'[x] = net_out[x] /\ wire'[x] = wire[x]
         /\ Cat(Cat(got'[p], ssl_in'[p]), net_in'[p]) = Cat(Cat(got[p], ssl_in[p]), net_in[p])
      \/ /\ got'[p] = got[p] /\ ssl_in'[p] = ssl_in[p] /\ net_in'[p] = net_in[p] /\ wire'[x] = wire[x]
         /\ \E m \in Seq(Byte) : log'[x] = Cat(log[x], m) /\ net_out'[x] = Cat(net_out[x], m)
  BY DEF FlowMoved, Cat
<1> QED BY <1>4, <1>6, <1>7, <1>8, ZenonT(60)

-----------------------------------------------------------------------------
(* The steps.  Each one is taken at an end e; its peer is not moved.       *)

\* The invariant from its parts.
LEMMA Assemble ==
  ASSUME HsInv, HsTypes', NEW e \in End, EndInv(e)', Same(Peer(e)), Undisturbed(Peer(e)),
         dropped[e] => dropped'[e],
         ~dropped'[e] => \A x \in End : Flow(x) => Flow(x)'
  PROVE  HsInv'
<1>1. Peer(e) \in End /\ \A x \in End : x = e \/ x = Peer(e)
  BY DEF End, Peer
<1>2. \A x \in End : EndInv(x)'
  BY <1>1, OtherKept DEF HsInv
<1>3. \A x \in End : dropped[x] => dropped'[x]
  BY <1>1 DEF Same
<1>4. Conservation'
  <2> SUFFICES ASSUME NEW x \in End, ~dropped'[x], ~dropped'[Peer(x)] PROVE Flow(x)'
    BY DEF Conservation, Flow, Peer
  <2>1. ~dropped[x] /\ ~dropped[Peer(x)] /\ ~dropped'[e]
    BY <1>1, <1>3, PeerOfEnd DEF Peer
  <2>2. Flow(x)
    BY <2>1 DEF HsInv, Conservation, Flow
  <2> QED BY <2>1, <2>2
<1> QED BY <1>2, <1>4 DEF HsInv

\* Nobody is parked during a poll or after the last one.
LEMMA Running ==
  ASSUME HsInv, NEW e \in End, at[e] # "idle" \/ outcome[e] # "pending"
  PROVE  ~parked[Self(e)]
BY DEF HsInv, EndInv, Place

\* A step that leaves the transport and the wakers alone disturbs nobody.
LEMMA Quiet ==
  ASSUME NEW x, UNCHANGED <<wire, fin, dropped, rwaker, wwaker, parked>>
  PROVE  Undisturbed(x)
BY DEF Undisturbed

\* What the script says of the step a session is at.
LEMMA AtStep ==
  ASSUME HsInv, NEW e \in End
  PROVE  /\ version \in Version /\ step[e] \in Nat \ {0} /\ step[e] <= ScriptLen(e) + 1 /\ ScriptLen(e) \in Nat
         /\ ~Done(e) <=> step[e] <= ScriptLen(e)
         /\ Sends(e) \/ Receives(e) => ~Done(e) /\ Expected(e) \in Msg
         /\ \A kind : /\ Count(version, e, kind, step[e]) \in Nat
                      /\ Count(version, e, kind, step[e] + 1)
                           = IF Script[version][e][step[e]][1] = kind
                               THEN Count(version, e, kind, step[e]) + 1 ELSE Count(version, e, kind, step[e])
<1>1. version \in Version /\ step[e] \in 1 .. ScriptLen(e) + 1
  BY DEF HsInv, HsTypes, TypeOK
<1>2. ScriptLen(e) \in Nat
  BY <1>1, ScriptFacts DEF ScriptLen
<1>3. step[e] \in Nat \ {0} /\ step[e] <= ScriptLen(e) + 1
  BY <1>1, <1>2
<1>4. ~Done(e) <=> step[e] <= ScriptLen(e)
  BY <1>2, <1>3 DEF Done, ScriptLen
<1>5. Sends(e) \/ Receives(e) => ~Done(e) /\ Expected(e) \in Msg
  <2>1. Sends(e) \/ Receives(e) => ~Done(e)
    BY DEF Sends, Receives
  <2>2. ~Done(e) => step[e] \in 1 .. Len(Script[version][e])
    BY <1>2, <1>3, <1>4 DEF ScriptLen
  <2> QED BY <1>1, <2>1, <2>2, ScriptFacts DEF Expected
<1> QED BY <1>1, <1>2, <1>3, <1>4, <1>5, CountFacts

\* Poll.
LEMMA StepPoll ==
  ASSUME HsInv, NEW e \in End, Poll(e)
  PROVE  HsInv'
<1>1. Peer(e) \in End /\ Peer(e) # e
  BY PeerOfEnd
<1>2. TypeOK
  BY DEF HsInv, HsTypes
<1>3. TypeOK'
  <2>1. at' \in [End -> At]
    BY <1>2 DEF TypeOK, Poll, Goto, At
  <2> QED BY <1>2, <2>1 DEF TypeOK, NetTypeOK, Poll, Goto, netVars, ssl
<1>4. HsTypes'
  BY <1>3 DEF HsInv, HsTypes, Poll, ssl, ScriptLen
<1>5. Same(Peer(e)) /\ Undisturbed(Peer(e))
  BY <1>1, <1>2, Quiet DEF TypeOK, Poll, Goto, netVars, ssl, Same
<1>6. EndInv(e)'
  <2>1. at'[e] \in {"hs_ssl", "hs_final"}
    BY <1>2 DEF Poll, Goto, TypeOK
  <2>2. ~parked'[Self(e)] /\ outcome'[e] = "pending" /\ ~dropped'[e]
    BY DEF Poll, Goto, netVars, HsInv, EndInv, Place
  <2>3. Place(e)' /\ Blocked(e)'
    BY <2>1, <2>2 DEF Place, Blocked, Self
  <2>4. Counted(e)'
    BY DEF Poll, ssl, Goto, HsInv, EndInv, Counted
  <2> QED BY <2>3, <2>4 DEF EndInv
<1>7. \A x \in End : Flow(x) => Flow(x)'
  BY DEF Flow, Arrived, Poll, netVars, ssl
<1>8. UNCHANGED dropped
  BY DEF Poll, netVars
<1> QED BY <1>4, <1>5, <1>6, <1>7, <1>8, Assemble

\* A message goes out.
LEMMA StepSend ==
  ASSUME HsInv, NEW e \in End, SslSend(e)
  PROVE  HsInv'
<1> DEFINE m == Encode(Expected(e))
<1>1. Peer(e) \in End /\ Peer(e) # e
  BY PeerOfEnd
<1>2. TypeOK
  BY DEF HsInv, HsTypes
<1>3. m \in Seq(Byte) /\ Len(m) = MsgLen /\ ~Done(e)
  BY AtStep, EncodeType DEF SslSend
<1>4. /\ net_out' = [net_out EXCEPT ![e] = net_out[e] \o m]
      /\ log' = [log EXCEPT ![e] = log[e] \o m]
      /\ step' = [step EXCEPT ![e] = step[e] + 1]
      /\ UNCHANGED <<wire, fin, dropped, rwaker, wwaker, net_in, parked, ssl_in, got, version, at, outcome,
                     handshake_done, early>>
  BY DEF SslSend, Produce, Advance, transport, wakers, future
<1> HIDE DEF m
<1>5. /\ net_out[e] \o m \in Seq(Byte) /\ log[e] \o m \in Seq(Byte)
      /\ Len(log[e] \o m) = Len(log[e]) + MsgLen
  BY <1>2, <1>3, BufferTypes, ConcatProperties
<1>6. TypeOK'
  <2>1. step[e] + 1 \in Nat
    BY AtStep
  <2> QED BY <1>2, <1>4, <1>5, <2>1 DEF TypeOK, NetTypeOK
<1>7. HsTypes'
  <2>1. step[e] + 1 \in 1 .. ScriptLen(e) + 1
    BY <1>3, AtStep
  <2>2. step'[e] = step[e] + 1 /\ \A x \in End : x # e => step'[x] = step[x]
    BY <1>2, <1>4 DEF TypeOK
  <2> QED BY <1>4, <1>6, <2>1, <2>2 DEF HsInv, HsTypes, ScriptLen
<1>8. Same(Peer(e)) /\ Undisturbed(Peer(e))
  BY <1>1, <1>2, <1>4, Quiet DEF TypeOK, NetTypeOK, Same
<1>9. EndInv(e)'
  <2>1. at[e] = "hs_ssl" /\ ~parked[Self(e)] /\ outcome[e] = "pending" /\ ~dropped[e]
    BY Running DEF SslSend, HsInv, EndInv, Place
  <2>2. Place(e)' /\ Blocked(e)'
    BY <1>4, <2>1 DEF Place, Blocked, Self
  <2>3. /\ Len(log[e]) = MsgLen * Count(version, e, "send", step[e])
        /\ Len(got[e]) = MsgLen * Count(version, e, "recv", step[e])
    BY <2>1 DEF HsInv, EndInv, Counted
  <2>4. Script[version][e][step[e]][1] = "send"
    BY DEF SslSend, Sends
  <2>5. /\ Count(version, e, "send", step[e]) \in Nat
        /\ Count(version, e, "send", step[e] + 1) = Count(version, e, "send", step[e]) + 1
        /\ Count(version, e, "recv", step[e] + 1) = Count(version, e, "recv", step[e])
    BY <2>4, AtStep
  <2>6. \A n \in Nat : MsgLen * (n + 1) = MsgLen * n + MsgLen
    BY HandshakeAssumption
  <2>7. log'[e] = log[e] \o m /\ got' = got /\ step'[e] = step[e] + 1 /\ version' = version
    BY <1>2, <1>4 DEF TypeOK
  <2>8. Len(log[e] \o m) = MsgLen * Count(version, e, "send", step[e] + 1)
    BY <1>5, <2>3, <2>5, <2>6
  <2> QED BY <2>2, <2>3, <2>5, <2>7, <2>8 DEF EndInv, Counted
<1>10. ASSUME NEW x \in End, Flow(x) PROVE Flow(x)'
  <2>1. CASE x = e
    <3>1. log'[x] = log[x] \o m /\ net_out'[x] = net_out[x] \o m
      BY <1>2, <1>4, <2>1 DEF TypeOK, NetTypeOK
    <3> QED BY <1>2, <1>3, <1>4, <1>6, <1>10, <3>1, PeerOfEnd, FlowKept DEF FlowMoved
  <2>2. CASE x # e
    <3>1. log'[x] = log[x] /\ net_out'[x] = net_out[x]
      BY <1>2, <1>4, <2>2 DEF TypeOK, NetTypeOK
    <3> QED BY <1>2, <1>4, <1>6, <1>10, <3>1, PeerOfEnd, FlowKept DEF FlowMoved
  <2> QED BY <2>1, <2>2
<1> QED BY <1>4, <1>7, <1>8, <1>9, <1>10, Assemble

\* Taking a message out of the buffers: nothing is lost behind it.
LEMMA TakeStep ==
  ASSUME TypeOK, NEW e \in End, Take(e)
  PROVE  /\ net_in' \in [End -> Seq(Byte)] /\ ssl_in' \in [End -> Seq(Byte)] /\ got' \in [End -> Seq(Byte)]
         /\ Len(got'[e]) = Len(got[e]) + MsgLen
         /\ got'[e] \o ssl_in'[e] \o net_in'[e] = got[e] \o ssl_in[e] \o net_in[e]
         /\ \A x \in End : x # e => net_in'[x] = net_in[x] /\ ssl_in'[x] = ssl_in[x] /\ got'[x] = got[x]
<1> DEFINE first == NextMsg(e)
           rest == SubSeq(Held(e), MsgLen + 1, Len(Held(e)))
           g == got[e]
           si == ssl_in[e]
           ni == net_in[e]
<1>1. /\ Held(e) \in Seq(Byte) /\ Len(Held(e)) \in Nat /\ g \in Seq(Byte) /\ si \in Seq(Byte) /\ ni \in Seq(Byte)
  BY BufferTypes
<1>2. MsgLen \in 0 .. Len(Held(e))
  BY <1>1, HandshakeAssumption DEF Take, HasMsg
<1>3. /\ first \in Seq(Byte) /\ rest \in Seq(Byte) /\ Cat(first, rest) = Held(e) /\ Len(first) = MsgLen
  BY <1>1, <1>2, SplitSeq DEF NextMsg, Cat
<1>4. /\ net_in' = [net_in EXCEPT ![e] = rest]
      /\ ssl_in' = [ssl_in EXCEPT ![e] = <<>>]
      /\ got' = [got EXCEPT ![e] = Cat(g, first)]
  BY DEF Take, Cat
<1>5. Held(e) = Cat(si, ni)
  BY DEF Held, Cat
<1> HIDE DEF first, rest
<1>6. <<>> \in Seq(Byte) /\ Cat(g, first) \in Seq(Byte) /\ Len(Cat(g, first)) = Len(g) + Len(first)
  <2>1. g \in Seq(Byte) /\ first \in Seq(Byte)
    BY <1>1, <1>3
  <2>2. g \o first \in Seq(Byte) /\ Len(g \o first) = Len(g) + Len(first)
    BY <2>1, ConcatProperties
  <2> QED BY <2>2, EmptySeq DEF Cat
<1>7. /\ net_in'[e] = rest /\ ssl_in'[e] = <<>> /\ got'[e] = Cat(g, first)
      /\ \A x \in End : x # e => net_in'[x] = net_in[x] /\ ssl_in'[x] = ssl_in[x] /\ got'[x] = got[x]
      /\ net_in' \in [End -> Seq(Byte)] /\ ssl_in' \in [End -> Seq(Byte)] /\ got' \in [End -> Seq(Byte)]
  BY <1>3, <1>4, <1>6 DEF TypeOK, NetTypeOK
<1>8. Cat(Cat(Cat(g, first), <<>>), rest) = Cat(Cat(g, si), ni)
  <2> HIDE DEF g, si, ni
  <2>1. Cat(Cat(g, first), <<>>) = Cat(g, first)
    BY <1>6, ConcatEmptySeq DEF Cat
  <2>2. Cat(Cat(g, first), rest) = Cat(g, Cat(first, rest))
    BY <1>1, <1>3, CatLaws
  <2>3. Cat(Cat(g, si), ni) = Cat(g, Cat(si, ni))
    BY <1>1, CatLaws
  <2> QED BY <1>3, <1>5, <2>1, <2>2, <2>3
<1> QED BY <1>3, <1>6, <1>7, <1>8 DEF Cat

\* A message comes in.
LEMMA StepReceive ==
  ASSUME HsInv, NEW e \in End, SslReceive(e)
  PROVE  HsInv'
<1>1. Peer(e) \in End /\ Peer(e) # e /\ Peer(Peer(e)) = e
  BY PeerOfEnd
<1>2. TypeOK
  BY DEF HsInv, HsTypes
<1>3. /\ step' = [step EXCEPT ![e] = step[e] + 1]
      /\ UNCHANGED <<wire, fin, dropped, rwaker, wwaker, net_out, parked, log, version, at, outcome,
                     handshake_done, early>>
  BY DEF SslReceive, Advance, transport, wakers, future
<1>4. /\ net_in' \in [End -> Seq(Byte)] /\ ssl_in' \in [End -> Seq(Byte)] /\ got' \in [End -> Seq(Byte)]
      /\ Len(got'[e]) = Len(got[e]) + MsgLen
      /\ got'[e] \o ssl_in'[e] \o net_in'[e] = got[e] \o ssl_in[e] \o net_in[e]
      /\ \A x \in End : x # e => net_in'[x] = net_in[x] /\ ssl_in'[x] = ssl_in[x] /\ got'[x] = got[x]
  BY <1>2, TakeStep DEF SslReceive
<1>5. ~Done(e)
  BY DEF SslReceive, Receives
<1>6. TypeOK'
  <2>1. step[e] + 1 \in Nat
    BY AtStep
  <2> QED BY <1>2, <1>3, <1>4, <2>1 DEF TypeOK, NetTypeOK
<1>7. HsTypes'
  <2>1. step[e] + 1 \in 1 .. ScriptLen(e) + 1
    BY <1>5, AtStep
  <2>2. step'[e] = step[e] + 1 /\ \A x \in End : x # e => step'[x] = step[x]
    BY <1>2, <1>3 DEF TypeOK
  <2> QED BY <1>3, <1>6, <2>1, <2>2 DEF HsInv, HsTypes, ScriptLen
<1>8. Same(Peer(e)) /\ Undisturbed(Peer(e))
  BY <1>1, <1>2, <1>3, <1>4, Quiet DEF TypeOK, NetTypeOK, Same
<1>9. EndInv(e)'
  <2>1. at[e] = "hs_ssl" /\ ~parked[Self(e)] /\ outcome[e] = "pending" /\ ~dropped[e]
    BY Running DEF SslReceive, HsInv, EndInv, Place
  <2>2. Place(e)' /\ Blocked(e)'
    BY <1>3, <2>1 DEF Place, Blocked, Self
  <2>3. /\ Len(log[e]) = MsgLen * Count(version, e, "send", step[e])
        /\ Len(got[e]) = MsgLen * Count(version, e, "recv", step[e])
    BY <2>1 DEF HsInv, EndInv, Counted
  <2>4. Script[version][e][step[e]][1] = "recv"
    BY DEF SslReceive, Receives
  <2>5. /\ Count(version, e, "recv", step[e]) \in Nat
        /\ Count(version, e, "recv", step[e] + 1) = Count(version, e, "recv", step[e]) + 1
        /\ Count(version, e, "send", step[e] + 1) = Count(version, e, "send", step[e])
    BY <2>4, AtStep
  <2>6. \A n \in Nat : MsgLen * (n + 1) = MsgLen * n + MsgLen
    BY HandshakeAssumption
  <2>7. log' = log /\ step'[e] = step[e] + 1 /\ version' = version
    BY <1>2, <1>3 DEF TypeOK
  <2>8. Len(got'[e]) = MsgLen * Count(version, e, "recv", step[e] + 1)
    BY <1>4, <2>3, <2>5, <2>6
  <2> QED BY <2>2, <2>3, <2>5, <2>7, <2>8 DEF EndInv, Counted
<1>10. ASSUME NEW x \in End, Flow(x) PROVE Flow(x)'
  <2>1. log'[x] = log[x] /\ net_out'[x] = net_out[x] /\ wire'[x] = wire[x]
    BY <1>3
  <2>2. got'[Peer(x)] \o ssl_in'[Peer(x)] \o net_in'[Peer(x)] = got[Peer(x)] \o ssl_in[Peer(x)] \o net_in[Peer(x)]
    BY <1>4, PeerOfEnd
  <2> QED BY <1>2, <1>6, <1>10, <2>1, <2>2, PeerOfEnd, FlowKept DEF FlowMoved
<1> QED BY <1>3, <1>7, <1>8, <1>9, <1>10, Assemble

\* The peer is rejected: an alert is produced, and the future has failed.
LEMMA StepReject ==
  ASSUME HsInv, NEW e \in End, SslReject(e)
  PROVE  HsInv'
<1> DEFINE m == Encode("alert")
<1>1. Peer(e) \in End /\ Peer(e) # e /\ Peer(Peer(e)) = e
  BY PeerOfEnd
<1>2. TypeOK
  BY DEF HsInv, HsTypes
<1>3. m \in Seq(Byte)
  BY EncodeType DEF Msg
<1>4. /\ net_out' = [net_out EXCEPT ![e] = net_out[e] \o m]
      /\ log' = [log EXCEPT ![e] = log[e] \o m]
      /\ at' = [at EXCEPT ![e] = "idle"] /\ outcome' = [outcome EXCEPT ![e] = "rejected"]
      /\ UNCHANGED <<wire, fin, dropped, rwaker, wwaker, parked, version, step, handshake_done, early>>
  BY DEF SslReject, Produce, Return, transport, wakers
<1> HIDE DEF m
<1>5. /\ net_in' \in [End -> Seq(Byte)] /\ ssl_in' \in [End -> Seq(Byte)] /\ got' \in [End -> Seq(Byte)]
      /\ got'[e] \o ssl_in'[e] \o net_in'[e] = got[e] \o ssl_in[e] \o net_in[e]
      /\ \A x \in End : x # e => net_in'[x] = net_in[x] /\ ssl_in'[x] = ssl_in[x] /\ got'[x] = got[x]
  BY <1>2, TakeStep DEF SslReject
<1>6. TypeOK'
  <2>1. net_out[e] \o m \in Seq(Byte) /\ log[e] \o m \in Seq(Byte)
    BY <1>2, <1>3, BufferTypes, ConcatProperties
  <2> QED BY <1>2, <1>4, <1>5, <2>1 DEF TypeOK, NetTypeOK, At, Outcome
<1>7. HsTypes'
  BY <1>4, <1>6 DEF HsInv, HsTypes, ScriptLen
<1>8. Same(Peer(e)) /\ Undisturbed(Peer(e))
  BY <1>1, <1>2, <1>4, <1>5, Quiet DEF TypeOK, NetTypeOK, Same
<1>9. EndInv(e)'
  <2>1. ~parked[Self(e)]
    BY Running DEF SslReject
  <2>2. at'[e] = "idle" /\ outcome'[e] = "rejected"
    BY <1>2, <1>4 DEF TypeOK
  <2> QED BY <1>4, <2>1, <2>2 DEF EndInv, Place, Blocked, Counted, Self
<1>10. ASSUME NEW x \in End, Flow(x) PROVE Flow(x)'
  <2>1. CASE x = e
    <3>1. log'[x] = log[x] \o m /\ net_out'[x] = net_out[x] \o m
      BY <1>2, <1>4, <2>1 DEF TypeOK, NetTypeOK
    <3>2. got'[Peer(x)] = got[Peer(x)] /\ ssl_in'[Peer(x)] = ssl_in[Peer(x)] /\ net_in'[Peer(x)] = net_in[Peer(x)]
      BY <1>1, <1>5, <2>1
    <3> QED BY <1>2, <1>3, <1>4, <1>6, <1>10, <3>1, <3>2, PeerOfEnd, FlowKept DEF FlowMoved
  <2>2. CASE x # e
    <3>1. log'[x] = log[x] /\ net_out'[x] = net_out[x]
      BY <1>2, <1>4, <2>2 DEF TypeOK, NetTypeOK
    <3>2. Peer(x) = e
      BY <2>2 DEF End, Peer
    <3> QED BY <1>2, <1>4, <1>5, <1>6, <1>10, <3>1, <3>2, FlowKept DEF FlowMoved
  <2> QED BY <2>1, <2>2
<1> QED BY <1>4, <1>7, <1>8, <1>9, <1>10, Assemble

\* WANT_READ: the input moves into wolfSSL.
LEMMA StepWantRead ==
  ASSUME HsInv, NEW e \in End, SslWantRead(e)
  PROVE  HsInv'
<1>1. Peer(e) \in End /\ Peer(e) # e /\ Peer(Peer(e)) = e
  BY PeerOfEnd
<1>2. TypeOK
  BY DEF HsInv, HsTypes
<1>3. /\ ssl_in' = [ssl_in EXCEPT ![e] = Held(e)]
      /\ net_in' = [net_in EXCEPT ![e] = <<>>]
      /\ at' = [at EXCEPT ![e] = "hs_flush"]
      /\ UNCHANGED <<wire, fin, dropped, rwaker, wwaker, net_out, parked, version, step, log, got, outcome,
                     handshake_done, early>>
  BY DEF SslWantRead, Goto, transport, wakers
<1>4. Held(e) \in Seq(Byte) /\ Len(Held(e)) \in Nat /\ <<>> \in Seq(Byte) /\ got[e] \in Seq(Byte)
      /\ ssl_in[e] \in Seq(Byte) /\ net_in[e] \in Seq(Byte)
  BY <1>2, BufferTypes, EmptySeq
<1>5. TypeOK'
  BY <1>2, <1>3, <1>4 DEF TypeOK, NetTypeOK, At
<1>6. HsTypes'
  BY <1>3, <1>5 DEF HsInv, HsTypes, ScriptLen
<1>7. Same(Peer(e)) /\ Undisturbed(Peer(e))
  BY <1>1, <1>2, <1>3, Quiet DEF TypeOK, NetTypeOK, Same
<1>8. EndInv(e)'
  <2>1. at'[e] = "hs_flush" /\ net_in'[e] = <<>> /\ ssl_in'[e] = Held(e)
    BY <1>2, <1>3 DEF TypeOK, NetTypeOK
  <2>2. Len(Held(e)) < MsgLen /\ Receives(e)
    BY <1>4, HandshakeAssumption DEF SslWantRead, HasMsg
  <2>3. Receives(e)'
    BY <1>3, <2>2 DEF Receives, Done
  <2>4. ~parked[Self(e)] /\ outcome[e] = "pending" /\ ~dropped[e]
    BY Running DEF SslWantRead, HsInv, EndInv, Place
  <2>5. Place(e)' /\ Blocked(e)'
    BY <1>3, <2>1, <2>2, <2>3, <2>4 DEF Place, Blocked, Self
  <2>6. Counted(e)'
    BY <1>3 DEF HsInv, EndInv, Counted
  <2> QED BY <2>5, <2>6 DEF EndInv
<1>9. got'[e] \o ssl_in'[e] \o net_in'[e] = got[e] \o ssl_in[e] \o net_in[e]
  <2>1. got'[e] = got[e] /\ ssl_in'[e] = Cat(ssl_in[e], net_in[e]) /\ net_in'[e] = <<>>
    BY <1>2, <1>3 DEF TypeOK, NetTypeOK, Held, Cat
  <2>2. Cat(ssl_in[e], net_in[e]) \in Seq(Byte)
    BY <1>4, CatLaws
  <2>3. Cat(got[e], Cat(ssl_in[e], net_in[e])) \in Seq(Byte)
    BY <1>4, <2>2, CatLaws
  <2>4. Cat(Cat(got[e], Cat(ssl_in[e], net_in[e])), <<>>) = Cat(got[e], Cat(ssl_in[e], net_in[e]))
    BY <2>3, ConcatEmptySeq DEF Cat
  <2>5. Cat(Cat(got[e], ssl_in[e]), net_in[e]) = Cat(got[e], Cat(ssl_in[e], net_in[e]))
    BY <1>4, CatLaws
  <2>6. Cat(Cat(got'[e], ssl_in'[e]), net_in'[e]) = Cat(Cat(got[e], ssl_in[e]), net_in[e])
    BY <2>1, <2>4, <2>5
  <2> QED BY <2>6 DEF Cat
<1>10. ASSUME NEW x \in End, Flow(x) PROVE Flow(x)'
  <2>1. log'[x] = log[x] /\ net_out'[x] = net_out[x] /\ wire'[x] = wire[x]
    BY <1>3
  <2>2. got'[Peer(x)] \o ssl_in'[Peer(x)] \o net_in'[Peer(x)] = got[Peer(x)] \o ssl_in[Peer(x)] \o net_in[Peer(x)]
    <3>1. CASE Peer(x) = e
      BY <1>9, <3>1
    <3>2. CASE Peer(x) # e
      BY <1>2, <1>3, <3>2, PeerOfEnd DEF TypeOK, NetTypeOK
    <3> QED BY <3>1, <3>2
  <2> QED BY <1>2, <1>5, <1>10, <2>1, <2>2, PeerOfEnd, FlowKept DEF FlowMoved
<1> QED BY <1>3, <1>6, <1>7, <1>8, <1>10, Assemble

\* A step that moves only the place and the outcome of a poll.
LEMMA StepPlace ==
  ASSUME HsInv, NEW e \in End, NEW place \in At, NEW r \in Outcome, at[e] # "idle",
         at' = [at EXCEPT ![e] = place], outcome' = [outcome EXCEPT ![e] = r],
         handshake_done' \in [End -> BOOLEAN],
         UNCHANGED <<netVars, ssl, early>>,
         place # "idle" => r = "pending",
         place = "hs_fill" => at[e] = "hs_flush" /\ net_out[e] = <<>>,
         place # "hs_flush"
  PROVE  HsInv'
<1>1. Peer(e) \in End /\ Peer(e) # e /\ Peer(Peer(e)) = e
  BY PeerOfEnd
<1>2. TypeOK
  BY DEF HsInv, HsTypes
<1>3. UNCHANGED <<wire, fin, dropped, rwaker, wwaker, net_in, net_out, parked, version, ssl_in, step, log, got, early>>
  BY DEF netVars, ssl
<1>4. TypeOK'
  BY <1>2, <1>3 DEF TypeOK, NetTypeOK
<1>5. HsTypes'
  BY <1>3, <1>4 DEF HsInv, HsTypes, ScriptLen
<1>6. Same(Peer(e)) /\ Undisturbed(Peer(e))
  BY <1>1, <1>2, <1>3, Quiet DEF TypeOK, NetTypeOK, Same
<1>7. EndInv(e)'
  <2>1. at'[e] = place /\ outcome'[e] = r
    BY <1>2 DEF TypeOK
  <2>2. ~parked[Self(e)] /\ outcome[e] = "pending" /\ ~dropped[e]
    BY Running DEF HsInv, EndInv, Place
  <2>3. Receives(e)' <=> Receives(e)
    BY <1>3 DEF Receives, Done
  <2>4. at[e] = "hs_flush" => net_in[e] = <<>> /\ Len(ssl_in[e]) < MsgLen /\ Receives(e)
    BY DEF HsInv, EndInv, Place
  <2>5. Place(e)' /\ Blocked(e)'
    BY <1>3, <2>1, <2>2, <2>3, <2>4 DEF Place, Blocked, Self
  <2>6. Counted(e)'
    BY <1>3, <2>2 DEF HsInv, EndInv, Counted
  <2> QED BY <2>5, <2>6 DEF EndInv
<1>8. \A x \in End : Flow(x) => Flow(x)'
  BY <1>3 DEF Flow, Arrived
<1> QED BY <1>3, <1>5, <1>6, <1>7, <1>8, Assemble

\* The end of a handshake keeps the invariant.
LEMMA StepSuccess ==
  ASSUME HsInv, NEW e \in End, SslSuccess(e)
  PROVE  HsInv'
<1>1. TypeOK /\ outcome[e] = "pending"
  BY DEF HsInv, HsTypes, EndInv, Place, SslSuccess
<1>2. /\ at' = [at EXCEPT ![e] = "hs_final"] /\ outcome' = [outcome EXCEPT ![e] = "pending"]
      /\ handshake_done' \in [End -> BOOLEAN] /\ UNCHANGED <<netVars, ssl, early>>
  BY <1>1 DEF SslSuccess, TypeOK
<1>3. "hs_final" \in At /\ "pending" \in Outcome /\ at[e] # "idle"
  BY DEF At, Outcome, SslSuccess
<1> QED BY <1>2, <1>3, StepPlace

\* A write of flush_net_out, by a future or by the stream of an established client.
LEMMA StepChunk ==
  ASSUME HsInv, NEW e \in End, FlushChunk(e),
         UNCHANGED <<fin, dropped, wwaker, net_in, ssl, future, early>>,
         at[e] \in {"hs_flush", "hs_final"} \/ outcome[e] = "established"
  PROVE  HsInv'
<1> DEFINE p == Peer(e)
<1>1. p \in End /\ p # e /\ Peer(p) = e
  BY PeerOfEnd
<1>2. TypeOK /\ NetTypeOK(Byte)
  BY DEF HsInv, HsTypes, TypeOK
<1>3. /\ UNCHANGED <<fin, dropped, wwaker, net_in, version, ssl_in, step, log, got, at, outcome, handshake_done, early>>
      /\ rwaker' = [rwaker EXCEPT ![p] = NoTask] /\ parked' = Woken({rwaker[p]})
  BY DEF ssl, future, FlushChunk
<1>4. /\ NetTypeOK(Byte)'
      /\ \A x \in End : wire'[x] \o net_out'[x] = wire[x] \o net_out[x]
  BY <1>2, <1>3, FlushChunkStep
<1>5. TypeOK'
  BY <1>2, <1>3, <1>4 DEF TypeOK
<1>6. HsTypes'
  BY <1>3, <1>5 DEF HsInv, HsTypes, ScriptLen
<1>7. Same(p)
  <2>1. net_out'[p] = net_out[p]
    BY <1>1, <1>2 DEF FlushChunk, NetTypeOK
  <2> QED BY <1>3, <2>1 DEF Same
<1>8. \A t \in Task : parked'[t] <=> parked[t] /\ t # rwaker[p]
  BY <1>3, WokenAt
<1>9. Undisturbed(p)
  <2>1. parked'[Self(p)] => parked[Self(p)] /\ rwaker[p] # Self(p)
    BY <1>1, <1>8, SelfFacts
  <2>2. wire'[p] = wire[p] /\ wwaker' = wwaker /\ dropped' = dropped
    BY <1>1, <1>2, <1>3 DEF FlushChunk, NetTypeOK
  <2> QED BY <2>1, <2>2 DEF Undisturbed
<1>10. EndInv(e)'
  <2>1. ~parked[Self(e)] /\ (at[e] # "idle" => outcome[e] = "pending") /\ at[e] # "hs_fill"
    BY Running DEF HsInv, EndInv, Place
  <2>2. ~parked'[Self(e)]
    BY <1>8, <2>1, SelfFacts
  <2>3. Receives(e)' <=> Receives(e)
    BY <1>3 DEF Receives, Done
  <2>4. /\ dropped[e] => outcome[e] # "pending"
        /\ at[e] = "hs_flush" => net_in[e] = <<>> /\ Len(ssl_in[e]) < MsgLen /\ Receives(e)
    BY DEF HsInv, EndInv, Place
  <2>5. Place(e)' /\ Blocked(e)'
    BY <1>3, <2>1, <2>2, <2>3, <2>4 DEF Place, Blocked, Self
  <2>6. Counted(e)'
    BY <1>3 DEF HsInv, EndInv, Counted
  <2> QED BY <2>5, <2>6 DEF EndInv
<1>11. ASSUME NEW x \in End, Flow(x) PROVE Flow(x)'
  BY <1>2, <1>3, <1>4, <1>5, <1>11, PeerOfEnd, FlowKept DEF FlowMoved
<1> QED BY <1>3, <1>6, <1>7, <1>9, <1>10, <1>11, Assemble

\* A read of fill_net_in, by a future or by the stream of an established client.
LEMMA StepFill ==
  ASSUME HsInv, NEW e \in End, FillReady(e),
         UNCHANGED <<fin, dropped, rwaker, net_out, ssl, outcome, handshake_done, early>>,
         \/ at[e] = "hs_fill" /\ at' = [at EXCEPT ![e] = "hs_ssl"]
         \/ outcome[e] = "established" /\ at' = at
  PROVE  HsInv'
<1> DEFINE p == Peer(e)
<1>1. p \in End /\ p # e /\ Peer(p) = e
  BY PeerOfEnd
<1>2. TypeOK /\ NetTypeOK(Byte)
  BY DEF HsInv, HsTypes, TypeOK
<1>3. /\ UNCHANGED <<fin, dropped, rwaker, net_out, version, ssl_in, step, log, got, outcome, handshake_done, early>>
      /\ wwaker' = [wwaker EXCEPT ![p] = NoTask] /\ parked' = Woken({wwaker[p]})
  BY DEF ssl, FillReady
<1>4. /\ NetTypeOK(Byte)'
      /\ \A x \in End : net_in'[Peer(x)] \o wire'[x] = net_in[Peer(x)] \o wire[x]
  BY <1>2, <1>3, FillReadyStep
<1>5. TypeOK'
  <2>1. at' \in [End -> At]
    BY <1>2 DEF TypeOK, At
  <2> QED BY <1>2, <1>3, <1>4, <2>1 DEF TypeOK
<1>6. HsTypes'
  BY <1>3, <1>5 DEF HsInv, HsTypes, ScriptLen
<1>7. net_in'[p] = net_in[p] /\ wire'[e] = wire[e] /\ at'[p] = at[p]
  <2>1. PICK n \in 1 .. FillMax :
          /\ net_in' = [net_in EXCEPT ![e] = net_in[e] \o SubSeq(wire[p], 1, n)]
          /\ wire' = [wire EXCEPT ![p] = SubSeq(wire[p], n + 1, Len(wire[p]))]
    BY DEF FillReady
  <2>2. net_in'[p] = net_in[p] /\ wire'[e] = wire[e]
    BY <1>1, <1>2, <2>1 DEF NetTypeOK
  <2>3. at'[p] = at[p]
    BY <1>1, <1>2 DEF TypeOK
  <2> QED BY <2>2, <2>3
<1>8. Same(p)
  BY <1>3, <1>7 DEF Same
<1>9. \A t \in Task : parked'[t] <=> parked[t] /\ t # wwaker[p]
  BY <1>3, WokenAt
<1>10. Undisturbed(p)
  <2>1. parked'[Self(p)] => parked[Self(p)] /\ wwaker[p] # Self(p)
    BY <1>1, <1>9, SelfFacts
  <2> QED BY <1>1, <1>3, <1>7, <2>1 DEF Undisturbed
<1>11. EndInv(e)'
  <2>1. ~parked[Self(e)] /\ (at[e] # "idle" => outcome[e] = "pending") /\ (dropped[e] => outcome[e] # "pending")
    BY Running DEF HsInv, EndInv, Place
  <2>2. ~parked'[Self(e)]
    BY <1>9, <2>1, SelfFacts
  <2>3. \/ at'[e] = "hs_ssl" /\ outcome[e] = "pending"
        \/ at'[e] = "idle" /\ outcome[e] = "established"
    BY <1>2, <2>1 DEF TypeOK
  <2>4. Place(e)' /\ Blocked(e)'
    BY <1>3, <2>1, <2>2, <2>3 DEF Place, Blocked, Self
  <2>5. Counted(e)'
    BY <1>3 DEF HsInv, EndInv, Counted
  <2> QED BY <2>4, <2>5 DEF EndInv
<1>12. ASSUME NEW x \in End, Flow(x) PROVE Flow(x)'
  BY <1>2, <1>3, <1>4, <1>5, <1>12, PeerOfEnd, FlowKept DEF FlowMoved
<1> QED BY <1>3, <1>6, <1>8, <1>10, <1>11, <1>12, Assemble

\* A poll of the transport is Pending: the task parks, and its waker is in the right slot.
LEMMA StepPark ==
  ASSUME HsInv, NEW e \in End,
         UNCHANGED <<transport, buffers, ssl, handshake_done, outcome, early>>,
         at' = [at EXCEPT ![e] = "idle"],
         \/ at[e] = "hs_fill" /\ FillPending(e, Self(e)) /\ UNCHANGED wwaker
         \/ /\ at[e] \in {"hs_flush", "hs_final"} /\ FlushPending(e, Self(e))
            /\ parked' = Suspended(Self(e)) /\ UNCHANGED rwaker
  PROVE  HsInv'
<1> DEFINE p == Peer(e)
<1>1. p \in End /\ p # e /\ Peer(p) = e
  BY PeerOfEnd
<1>2. TypeOK /\ NetTypeOK(Byte)
  BY DEF HsInv, HsTypes, TypeOK
<1>3. UNCHANGED <<wire, fin, dropped, net_in, net_out, version, ssl_in, step, log, got, outcome, handshake_done, early>>
  BY DEF transport, buffers, ssl
<1>4. parked' = Suspended(Self(e)) /\ at[e] # "idle"
  BY DEF FillPending
<1>5. Self(e) \in Task /\ Self(p) \in Task /\ Self(p) # Self(e)
  BY <1>1, SelfFacts
<1>6. NetTypeOK(Byte)'
  BY <1>2, <1>3, <1>5, FillPendingStep, FlushPendingStep DEF transport, buffers
<1>7. TypeOK'
  BY <1>2, <1>3, <1>6 DEF TypeOK, At
<1>8. HsTypes'
  BY <1>3, <1>7 DEF HsInv, HsTypes, ScriptLen
<1>9. Same(p)
  BY <1>1, <1>2, <1>3 DEF Same, TypeOK
<1>10. \A t \in Task : parked'[t] <=> parked[t] \/ t = Self(e)
  BY <1>2, <1>4, <1>5, SuspendedAt DEF NetTypeOK
<1>11. Undisturbed(p)
  <2>1. rwaker'[p] = rwaker[p] /\ wwaker'[p] = wwaker[p]
    BY <1>1, <1>2 DEF FillPending, FlushPending, NetTypeOK
  <2>2. parked'[Self(p)] => parked[Self(p)]
    BY <1>5, <1>10
  <2> QED BY <1>3, <2>1, <2>2 DEF Undisturbed
<1>12. EndInv(e)'
  <2>1. at'[e] = "idle" /\ outcome[e] = "pending" /\ ~dropped[e]
    BY <1>2, <1>4 DEF TypeOK, HsInv, EndInv, Place
  <2>2. Place(e)'
    BY <1>3, <2>1 DEF Place
  <2>3. Receives(e)' <=> Receives(e)
    BY <1>3 DEF Receives, Done
  <2>4. Blocked(e)'
    <3>1. CASE at[e] = "hs_fill" /\ FillPending(e, Self(e))
      <4>1. net_out[e] = <<>> /\ net_in[e] = <<>> /\ Len(ssl_in[e]) < MsgLen /\ Receives(e)
        BY <3>1 DEF HsInv, EndInv, Place
      <4>2. rwaker'[e] = Self(e) /\ ~Readable(e) /\ ~fin[Peer(e)]
        BY <1>2, <3>1 DEF FillPending, NetTypeOK
      <4>3. ReadBlocked(e)'
        BY <1>3, <2>3, <4>1, <4>2 DEF ReadBlocked, Readable, Self
      <4> QED BY <4>3 DEF Blocked
    <3>2. CASE FlushPending(e, Self(e))
      <4>1. wwaker'[e] = Self(e) /\ ~Writable(e) /\ ~dropped[Peer(e)] /\ net_out[e] # <<>>
        BY <1>2, <3>2 DEF FlushPending, NetTypeOK, Flushed
      <4>2. WriteBlocked(e)'
        BY <1>3, <4>1 DEF WriteBlocked, Writable, Self
      <4> QED BY <4>2 DEF Blocked
    <3> QED BY <3>1, <3>2
  <2>5. Counted(e)'
    BY <1>3 DEF HsInv, EndInv, Counted
  <2> QED BY <2>2, <2>4, <2>5 DEF EndInv
<1>13. \A x \in End : Flow(x) => Flow(x)'
  BY <1>3 DEF Flow, Arrived
<1> QED BY <1>3, <1>8, <1>9, <1>11, <1>12, <1>13, Assemble

\* flush_net_out in a poll.
LEMMA StepFlush ==
  ASSUME HsInv, NEW e \in End, FlushNetOut(e)
  PROVE  HsInv'
<1>1. /\ at[e] \in {"hs_flush", "hs_final"} /\ at[e] # "idle" /\ outcome[e] = "pending" /\ TypeOK
      /\ UNCHANGED <<ssl, early>>
  BY DEF FlushNetOut, HsInv, HsTypes, EndInv, Place
<1>2. outcome' = outcome => outcome' = [outcome EXCEPT ![e] = "pending"]
  BY <1>1 DEF TypeOK
<1>3. /\ handshake_done' = handshake_done => handshake_done' \in [End -> BOOLEAN]
      /\ {"idle", "hs_fill"} \subseteq At /\ {"pending", "established", "io_error"} \subseteq Outcome
  BY <1>1 DEF TypeOK, At, Outcome
<1>4. CASE Flushed(e) /\ AfterFlush(e) /\ UNCHANGED netVars
  <2>1. CASE at[e] = "hs_flush"
    <3>1. at' = [at EXCEPT ![e] = "hs_fill"] /\ UNCHANGED <<handshake_done, outcome>> /\ net_out[e] = <<>>
      BY <1>4, <2>1 DEF AfterFlush, Goto, Flushed
    <3> QED BY <1>1, <1>2, <1>3, <1>4, <2>1, <3>1, StepPlace
  <2>2. CASE at[e] # "hs_flush"
    <3>1. at' = [at EXCEPT ![e] = "idle"] /\ outcome' = [outcome EXCEPT ![e] = "established"] /\ UNCHANGED handshake_done
      BY <1>4, <2>2 DEF AfterFlush, Return
    <3> QED BY <1>1, <1>3, <1>4, <3>1, StepPlace
  <2> QED BY <2>1, <2>2
<1>5. CASE FlushChunk(e) /\ UNCHANGED <<fin, dropped, wwaker, net_in, future>>
  BY <1>1, <1>5, StepChunk
<1>6. CASE /\ FlushPending(e, Self(e)) /\ parked' = Suspended(Self(e)) /\ Goto(e, "idle")
           /\ UNCHANGED <<transport, rwaker, buffers>>
  <2>1. at' = [at EXCEPT ![e] = "idle"] /\ UNCHANGED <<handshake_done, outcome>>
    BY <1>6 DEF Goto
  <2> QED BY <1>1, <1>6, <2>1, StepPark
<1>7. CASE FlushBroken(e) /\ Return(e, "io_error") /\ UNCHANGED netVars
  <2>1. at' = [at EXCEPT ![e] = "idle"] /\ outcome' = [outcome EXCEPT ![e] = "io_error"] /\ UNCHANGED handshake_done
    BY <1>7 DEF Return
  <2> QED BY <1>1, <1>3, <1>7, <2>1, StepPlace
<1> QED BY <1>4, <1>5, <1>6, <1>7 DEF FlushNetOut

\* fill_net_in in a poll.
LEMMA StepFillNetIn ==
  ASSUME HsInv, NEW e \in End, FillNetIn(e)
  PROVE  HsInv'
<1>1. at[e] = "hs_fill" /\ at[e] # "idle" /\ TypeOK /\ UNCHANGED <<ssl, early>>
  BY DEF FillNetIn, HsInv, HsTypes
<1>2. CASE FillReady(e) /\ Goto(e, "hs_ssl") /\ UNCHANGED <<fin, dropped, rwaker, net_out>>
  <2>1. at' = [at EXCEPT ![e] = "hs_ssl"] /\ UNCHANGED <<handshake_done, outcome>>
    BY <1>2 DEF Goto
  <2> QED BY <1>1, <1>2, <2>1, StepFill
<1>3. CASE FillPending(e, Self(e)) /\ Goto(e, "idle") /\ UNCHANGED <<transport, wwaker, buffers>>
  <2>1. at' = [at EXCEPT ![e] = "idle"] /\ UNCHANGED <<handshake_done, outcome>>
    BY <1>3 DEF Goto
  <2> QED BY <1>1, <1>3, <2>1, StepPark
<1>4. CASE AtEof(e) /\ Return(e, EofOutcome(e)) /\ UNCHANGED netVars
  <2>1. at' = [at EXCEPT ![e] = "idle"] /\ outcome' = [outcome EXCEPT ![e] = "io_error"] /\ UNCHANGED handshake_done
    BY <1>4 DEF Return, EofOutcome
  <2>2. handshake_done' \in [End -> BOOLEAN] /\ "idle" \in At /\ "io_error" \in Outcome
    BY <1>1, <2>1 DEF TypeOK, At, Outcome
  <2> QED BY <1>1, <1>4, <2>1, <2>2, StepPlace
<1> QED BY <1>2, <1>3, <1>4 DEF FillNetIn

\* A future is dropped: the other side is woken.
LEMMA StepDrop ==
  ASSUME HsInv, NEW e \in End, DropFuture(e)
  PROVE  HsInv'
<1> DEFINE p == Peer(e)
<1>1. p \in End /\ p # e /\ Peer(p) = e
  BY PeerOfEnd
<1>2. TypeOK /\ NetTypeOK(Byte)
  BY DEF HsInv, HsTypes, TypeOK
<1>3. /\ UNCHANGED <<wire, handshake_done, at, version, ssl_in, step, log, got, early>>
      /\ DropIo(e) /\ at[e] = "idle"
      /\ outcome' = [outcome EXCEPT ![e] = IF outcome[e] = "pending" THEN "abandoned" ELSE outcome[e]]
      /\ parked' = Woken({rwaker[p], wwaker[p]} \cup {t \in Task : EndOf(t) = e})
  BY DEF DropFuture, ssl, DropIo
<1>4. NetTypeOK(Byte)'
  BY <1>2, <1>3, DropIoStep
<1>5. TypeOK'
  <2>1. outcome' \in [End -> Outcome]
    BY <1>2, <1>3 DEF TypeOK, Outcome
  <2> QED BY <1>2, <1>3, <1>4, <2>1 DEF TypeOK
<1>6. HsTypes'
  BY <1>3, <1>5 DEF HsInv, HsTypes, ScriptLen
<1>7. Same(p)
  BY <1>1, <1>2, <1>3 DEF Same, DropIo, TypeOK, NetTypeOK
<1>8. /\ parked'[Self(p)] => parked[Self(p)] /\ rwaker[p] # Self(p) /\ wwaker[p] # Self(p)
      /\ ~parked'[Self(e)]
  <2>1. Self(p) \in Task /\ Self(e) \in Task /\ EndOf(Self(e)) = e
    BY <1>1, SelfFacts DEF EndOf, Self
  <2>2. \A t \in Task : parked'[t] <=> parked[t] /\ t \notin {rwaker[p], wwaker[p]} \cup {u \in Task : EndOf(u) = e}
    BY <1>3, WokenAt
  <2> QED BY <2>1, <2>2
<1>9. Undisturbed(p)
  BY <1>8 DEF Undisturbed
<1>10. EndInv(e)'
  <2>1. at'[e] = "idle" /\ outcome'[e] # "pending"
    BY <1>2, <1>3 DEF TypeOK
  <2> QED BY <1>8, <2>1 DEF EndInv, Place, Blocked, Counted, Self
<1>11. dropped'[e]
  BY <1>2, <1>3, Zenon DEF DropIo, NetTypeOK
<1> QED BY <1>6, <1>7, <1>9, <1>10, <1>11, Assemble

\* An established client writes a record.
LEMMA StepEarlyWrite ==
  ASSUME HsInv, EarlyWrite
  PROVE  HsInv'
<1> DEFINE e == "client"
           m == Encode("data")
<1>1. e \in End /\ Peer(e) \in End /\ Peer(e) # e
  BY DEF End, Peer
<1>2. TypeOK /\ outcome[e] = "established"
  BY DEF HsInv, HsTypes, EarlyWrite
<1>3. CASE FlushChunk(e) /\ UNCHANGED <<early, log>>
  BY <1>1, <1>2, <1>3, StepChunk DEF EarlyWrite, ssl, future
<1>4. CASE /\ early' = early + 1
           /\ Produce(e, "data")
           /\ UNCHANGED <<wire, rwaker, parked>>
  <2>1. /\ net_out' = [net_out EXCEPT ![e] = net_out[e] \o m]
        /\ log' = [log EXCEPT ![e] = log[e] \o m]
        /\ early' = early + 1
        /\ UNCHANGED <<wire, fin, dropped, rwaker, wwaker, net_in, parked, version, ssl_in, step, got, at, outcome,
                       handshake_done>>
    BY <1>4 DEF Produce, EarlyWrite, future
  <2>2. m \in Seq(Byte)
    BY EncodeType DEF Msg
  <2> HIDE DEF m
  <2>3. TypeOK'
    <3>1. net_out[e] \o m \in Seq(Byte) /\ log[e] \o m \in Seq(Byte)
      BY <1>1, <1>2, <2>2, BufferTypes, ConcatProperties
    <3>2. early + 1 \in Nat
      BY <1>2 DEF TypeOK
    <3>3. net_out' \in [End -> Seq(Byte)] /\ log' \in [End -> Seq(Byte)]
      BY <1>2, <2>1, <3>1 DEF TypeOK, NetTypeOK
    <3> QED BY <1>2, <2>1, <3>2, <3>3 DEF TypeOK, NetTypeOK
  <2>4. HsTypes'
    BY <2>1, <2>3 DEF HsInv, HsTypes, ScriptLen
  <2>5. Same(Peer(e)) /\ Undisturbed(Peer(e))
    BY <1>1, <1>2, <2>1, Quiet DEF TypeOK, NetTypeOK, Same
  <2>6. EndInv(e)'
    <3>1. ~parked[Self(e)] /\ at[e] = "idle"
      BY <1>1, <1>2, Running DEF HsInv, EndInv, Place
    <3> QED BY <1>2, <2>1, <3>1 DEF EndInv, Place, Blocked, Counted, Self
  <2>7. ASSUME NEW x \in End, Flow(x) PROVE Flow(x)'
    <3>1. CASE x = e
      <4>1. log'[x] = log[x] \o m /\ net_out'[x] = net_out[x] \o m
        BY <1>1, <1>2, <2>1, <3>1 DEF TypeOK, NetTypeOK
      <4> QED BY <1>2, <2>1, <2>2, <2>3, <2>7, <4>1, PeerOfEnd, FlowKept DEF FlowMoved
    <3>2. CASE x # e
      <4>1. log'[x] = log[x] /\ net_out'[x] = net_out[x]
        BY <1>1, <1>2, <2>1, <3>2 DEF TypeOK, NetTypeOK
      <4> QED BY <1>2, <2>1, <2>3, <2>7, <4>1, PeerOfEnd, FlowKept DEF FlowMoved
    <3> QED BY <3>1, <3>2
  <2> HIDE DEF e
  <2> QED BY <1>1, <2>1, <2>4, <2>5, <2>6, <2>7, Assemble
<1> QED BY <1>3, <1>4 DEF EarlyWrite

\* An established client reads.
LEMMA StepEarlyRead ==
  ASSUME HsInv, EarlyRead
  PROVE  HsInv'
<1>1. "client" \in End
  BY DEF End
<1> QED BY <1>1, StepFill DEF EarlyRead, future

-----------------------------------------------------------------------------
(* The theorems.                                                           *)

\* The initial states satisfy the invariant.
LEMMA HsInit == Init => HsInv
<1> SUFFICES ASSUME Init PROVE HsInv
  OBVIOUS
<1>1. <<>> \in Seq(Byte)
  BY EmptySeq
<1>2. TypeOK
  <2>1. NetTypeOK(Byte)
    BY <1>1 DEF Init, NetInit, NetTypeOK
  <2> QED BY <1>1, <2>1 DEF Init, TypeOK, At, Outcome
<1>3. HsTypes
  <2>1. \A e \in End : ScriptLen(e) \in Nat
    BY <1>2, ScriptFacts DEF ScriptLen, TypeOK
  <2> QED BY <1>2, <2>1 DEF HsTypes, Init
<1>4. Conservation
  <2>1. <<>> \o <<>> = <<>>
    BY <1>1, ConcatEmptySeq
  <2>2. \A e \in End : /\ log[e] = <<>> /\ got[Peer(e)] = <<>> /\ ssl_in[Peer(e)] = <<>>
                       /\ net_in[Peer(e)] = <<>> /\ wire[e] = <<>> /\ net_out[e] = <<>>
    BY PeerOfEnd DEF Init, NetInit
  <2> QED BY <2>1, <2>2 DEF Conservation, Arrived
<1>5. ASSUME NEW e \in End PROVE EndInv(e)
  <2>1. ~parked[Self(e)]
    BY SelfFacts, Zenon DEF Init, NetInit
  <2>2. at[e] = "idle" /\ outcome[e] = "pending" /\ ~dropped[e]
    BY DEF Init, NetInit
  <2>3. Place(e) /\ Blocked(e)
    BY <2>1, <2>2 DEF Place, Blocked
  <2>4. step[e] = 1 /\ log[e] = <<>> /\ got[e] = <<>> /\ version \in Version
    BY DEF Init
  <2>5. Count(version, e, "send", step[e]) = 0 /\ Count(version, e, "recv", step[e]) = 0
    BY <2>4, CountFacts
  <2>6. Len(<<>>) = 0 /\ MsgLen * 0 = 0
    BY HandshakeAssumption
  <2> QED BY <2>3, <2>4, <2>5, <2>6 DEF EndInv, Counted
<1> QED BY <1>3, <1>4, <1>5 DEF HsInv

\* Every step keeps the invariant.
LEMMA HsStep == HsInv /\ [Next]_vars => HsInv'
<1> SUFFICES ASSUME HsInv, [Next]_vars PROVE HsInv'
  OBVIOUS
<1>1. CASE UNCHANGED vars
  <2>1. UNCHANGED <<wire, fin, dropped, rwaker, wwaker, net_in, net_out, parked, version, ssl_in, step, log, got,
                    handshake_done, at, outcome, early>>
    BY <1>1 DEF vars, ssl, future
  <2>2. TypeOK' /\ HsTypes'
    BY <2>1 DEF HsInv, HsTypes, TypeOK, NetTypeOK, ScriptLen
  <2>3. Conservation'
    BY <2>1 DEF HsInv, Conservation, Arrived
  <2>4. ASSUME NEW e \in End PROVE EndInv(e)'
    <3>1. Same(e) /\ Undisturbed(e)
      BY <2>1, Quiet DEF Same
    <3> QED BY <3>1, OtherKept DEF HsInv
  <2> QED BY <2>2, <2>3, <2>4 DEF HsInv
<1>2. ASSUME NEW e \in End, Poll(e) \/ Step(e) \/ DropFuture(e) PROVE HsInv'
  BY <1>2, StepPoll, StepSend, StepReceive, StepReject, StepWantRead, StepSuccess, StepFlush, StepFillNetIn, StepDrop
     DEF Step
<1> QED BY <1>1, <1>2, StepEarlyWrite, StepEarlyRead DEF Next

\* What the invariant says of two futures that wait.
LEMMA InvNoMutualWait == HsInv => NoMutualWait
<1> SUFFICES ASSUME HsInv, NEW e \in End, parked[Self(e)] PROVE Waits(e) /\ ~parked[Self(Peer(e))]
  BY DEF NoMutualWait
<1>1. ReadBlocked(e) \/ WriteBlocked(e)
  BY DEF HsInv, EndInv, Blocked
<1> QED BY <1>1, NotBoth DEF Waits, ReadBlocked, WriteBlocked

\* HsInv is an inductive invariant of the two futures.
THEOREM HandshakeInvariant == Spec => []HsInv
BY HsInit, HsStep, PTL DEF Spec

\* Every variable of the two futures keeps its type.
THEOREM TypeHolds == Spec => []TypeOK
<1>1. HsInv => TypeOK
  BY DEF HsInv, HsTypes
<1> QED BY <1>1, HandshakeInvariant, PTL

\* The handshake loses, duplicates and reorders no byte, however the messages are cut
\* and whoever is suspended where.
THEOREM ConservationHolds == Spec => []Conservation
<1>1. HsInv => Conservation
  BY DEF HsInv
<1> QED BY <1>1, HandshakeInvariant, PTL

\* Connect and Accept never wait for each other, for every capacity of the transport.
THEOREM NoMutualWaitHolds == Spec => []NoMutualWait
BY InvNoMutualWait, HandshakeInvariant, PTL
=============================================================================
