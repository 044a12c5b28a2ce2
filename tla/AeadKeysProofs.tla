--------------------------- MODULE AeadKeysProofs ---------------------------
(***************************************************************************)
(* Proofs about AeadKeys, for every width of the counter, every start and  *)
(* every limit.                                                            *)
(*                                                                         *)
(* The argument is about positions: Pos(c) says how many calls of advance  *)
(* lead from the start to counter value c, wrap-around included.  The      *)
(* inductive invariant says that the counter's position is the number of   *)
(* nonces issued, that the i-th nonce issued is at position i - 1, and     *)
(* that everything sealed or opened so far lies before the nonces that are *)
(* still to be used.                                                       *)
(***************************************************************************)
EXTENDS AeadKeys, TLAPS

Pos(c) == IF c >= start THEN c - start ELSE c + (Max + 1) - start

\* How many nonces of k's sequence have been used up: a prepared one has not.
Used(k) == IF prepared[k] = NoNonce THEN Len(issued[k]) ELSE Len(issued[k]) - 1

CountInv ==
  \A k \in Key : Len(issued[k]) = IF generated[k] <= limit THEN generated[k] ELSE limit
CounterInv == \A k \in Key : Pos(counter[k]) = Len(issued[k])
IssuedInv == \A k \in Key : \A i \in 1 .. Len(issued[k]) : Pos(issued[k][i]) = i - 1
RefusedInv == \A k \in Key : refused[k] => generated[k] = Max \/ generated[k] > limit
PreparedInv ==
  \A k \in Key : prepared[k] # NoNonce => Pos(prepared[k]) = Len(issued[k]) - 1

SealedInv ==
  /\ \A i \in 1 .. Len(sealed) :
       sealed[i].id = i /\ Pos(sealed[i].nonce) < Used("seal")
  /\ \A i, j \in 1 .. Len(sealed) :
       i < j => Pos(sealed[i].nonce) < Pos(sealed[j].nonce)

OpenedInv ==
  /\ \A i \in 1 .. Len(opened) :
       opened[i] \in 1 .. Len(sealed) /\ Pos(sealed[opened[i]].nonce) < Used("open")
  /\ \A i, j \in 1 .. Len(opened) : i < j => opened[i] < opened[j]

SequenceInv == CountInv /\ CounterInv /\ IssuedInv /\ RefusedInv
IInv == TypeOK /\ SequenceInv /\ PreparedInv /\ SealedInv /\ OpenedInv

SeqTypeOK ==
  /\ start \in CounterValue
  /\ limit \in CounterValue
  /\ generated \in [Key -> CounterValue]
  /\ counter \in [Key -> CounterValue]
  /\ issued \in [Key -> Seq(CounterValue)]
  /\ refused \in [Key -> BOOLEAN]

-----------------------------------------------------------------------------
(* Facts about positions and about advance.                                *)

\* Counter32's wrapping_add moves the counter to the next position.
LEMMA WrapPos ==
  ASSUME start \in CounterValue, NEW c \in CounterValue, Pos(c) < Max
  PROVE  WrappingAdd(c) \in CounterValue /\ Pos(WrappingAdd(c)) = Pos(c) + 1
BY WidthAssumption DEF CounterValue, Pos, WrappingAdd

\* Two counter values at the same position are the same value.
LEMMA PosInjective ==
  ASSUME start \in CounterValue, NEW c \in CounterValue, NEW d \in CounterValue, Pos(c) = Pos(d)
  PROVE  c = d
BY WidthAssumption DEF CounterValue, Pos

\* A successful advance of Counter32 keeps the sequence's part of the
\* invariant and issues one more nonce.
LEMMA AdvanceOkStep ==
  ASSUME SeqTypeOK, SequenceInv, NEW k \in Key, AdvanceOk(k)
  PROVE  /\ SeqTypeOK'
         /\ SequenceInv'
         /\ start' = start
         /\ Len(issued'[k]) = Len(issued[k]) + 1
         /\ \A x \in Key : x # k => issued'[x] = issued[x]
         /\ counter[k] \in CounterValue
         /\ Pos(counter[k]) = Len(issued[k])
<1> DEFINE n == Len(issued[k])
<1>1. /\ start' = start /\ limit' = limit /\ refused' = refused
      /\ generated' = [generated EXCEPT ![k] = generated[k] + 1]
      /\ counter' = [counter EXCEPT ![k] = WrappingAdd(counter[k])]
      /\ issued' = [issued EXCEPT ![k] = Append(issued[k], counter[k])]
      /\ generated[k] < Max /\ generated[k] + 1 <= limit
  BY DEF AdvanceOk
<1>2. /\ start \in 0 .. Max /\ limit \in 0 .. Max /\ generated[k] \in 0 .. Max
      /\ counter[k] \in CounterValue /\ issued[k] \in Seq(CounterValue) /\ n \in Nat
  BY DEF SeqTypeOK, CounterValue
<1>3. n = generated[k] /\ n < Max /\ Pos(counter[k]) = n
  BY <1>1, <1>2, WidthAssumption DEF SequenceInv, CountInv, CounterInv
<1>4. WrappingAdd(counter[k]) \in CounterValue /\ Pos(WrappingAdd(counter[k])) = n + 1
  BY <1>2, <1>3, WrapPos DEF CounterValue
<1>5. /\ Append(issued[k], counter[k]) \in Seq(CounterValue)
      /\ Len(Append(issued[k], counter[k])) = n + 1
      /\ \A i \in 1 .. n : Append(issued[k], counter[k])[i] = issued[k][i]
      /\ Append(issued[k], counter[k])[n + 1] = counter[k]
  BY <1>2
<1>6. SeqTypeOK'
  BY <1>1, <1>2, <1>4, <1>5, WidthAssumption DEF SeqTypeOK, CounterValue
<1>7. /\ issued'[k] = Append(issued[k], counter[k])
      /\ generated'[k] = generated[k] + 1
      /\ counter'[k] = WrappingAdd(counter[k])
      /\ refused'[k] = refused[k]
      /\ \A x \in Key : x # k => /\ issued'[x] = issued[x]
                                 /\ generated'[x] = generated[x]
                                 /\ counter'[x] = counter[x]
                                 /\ refused'[x] = refused[x]
  BY <1>1 DEF SeqTypeOK
<1>8. \A c : Pos(c)' = IF c' >= start THEN c' - start ELSE c' + (Max + 1) - start
  BY <1>1 DEF Pos
<1>9. CountInv'
  BY <1>1, <1>2, <1>3, <1>5, <1>7 DEF SequenceInv, CountInv
<1>10. CounterInv'
  BY <1>1, <1>4, <1>5, <1>7 DEF SequenceInv, CounterInv, Pos
<1>11. IssuedInv'
  <2> SUFFICES ASSUME NEW x \in Key, NEW i \in 1 .. Len(issued'[x])
               PROVE  Pos(issued[x][i])' = i - 1
    BY DEF IssuedInv
  <2>1. CASE x # k
    BY <1>1, <1>7, <2>1 DEF SequenceInv, IssuedInv, Pos
  <2>2. CASE x = k /\ i <= n
    BY <1>1, <1>2, <1>5, <1>7, <2>2 DEF SequenceInv, IssuedInv, Pos
  <2>3. CASE x = k /\ i = n + 1
    BY <1>1, <1>3, <1>5, <1>7, <2>3 DEF Pos
  <2> QED BY <1>2, <1>5, <1>7, <2>1, <2>2, <2>3, SMTT(30)
<1>12. RefusedInv'
  BY <1>1, <1>2, <1>7 DEF SequenceInv, RefusedInv
<1> QED
  BY <1>1, <1>2, <1>3, <1>5, <1>6, <1>7, <1>9, <1>10, <1>11, <1>12 DEF SequenceInv

\* A failing advance keeps the sequence's part of the invariant and issues
\* nothing.
LEMMA AdvanceErrStep ==
  ASSUME SeqTypeOK, SequenceInv, NEW k \in Key, AdvanceErr(k)
  PROVE  SeqTypeOK' /\ SequenceInv' /\ start' = start /\ issued' = issued
<1>1. /\ start' = start /\ limit' = limit /\ counter' = counter /\ issued' = issued
      /\ refused' = [refused EXCEPT ![k] = TRUE]
  BY DEF AdvanceErr
<1>2. /\ start \in 0 .. Max /\ limit \in 0 .. Max
      /\ \A x \in Key : generated[x] \in 0 .. Max
  BY DEF SeqTypeOK, CounterValue
<1>3. \/ generated[k] = Max /\ generated' = generated
      \/ /\ generated[k] < Max
         /\ generated[k] + 1 > limit
         /\ generated' = [generated EXCEPT ![k] = generated[k] + 1]
  BY DEF AdvanceErr
<1>4. /\ generated' \in [Key -> CounterValue]
      /\ generated'[k] = generated[k] \/ (generated[k] >= limit /\ generated'[k] > limit)
      /\ generated'[k] = Max \/ generated'[k] > limit
      /\ \A x \in Key : x # k => generated'[x] = generated[x]
  <2>1. CASE generated[k] = Max /\ generated' = generated
    BY <2>1 DEF SeqTypeOK
  <2>2. CASE /\ generated[k] < Max
             /\ generated[k] + 1 > limit
             /\ generated' = [generated EXCEPT ![k] = generated[k] + 1]
    <3>1. generated[k] + 1 \in CounterValue /\ generated[k] >= limit
      BY <1>2, <2>2, WidthAssumption DEF CounterValue
    <3> QED BY <2>2, <3>1 DEF SeqTypeOK
  <2> QED BY <1>3, <2>1, <2>2
<1>5. SeqTypeOK'
  <2>1. refused' \in [Key -> BOOLEAN]
    BY <1>1, Zenon DEF SeqTypeOK
  <2> QED BY <1>1, <1>4, <2>1 DEF SeqTypeOK
<1>8. CountInv'
  <2> SUFFICES ASSUME NEW x \in Key
               PROVE  Len(issued[x]) = IF generated'[x] <= limit THEN generated'[x] ELSE limit
    BY <1>1 DEF CountInv
  <2>1. Len(issued[x]) = IF generated[x] <= limit THEN generated[x] ELSE limit
    BY DEF SequenceInv, CountInv
  <2>2. CASE x # k
    BY <1>4, <2>1, <2>2
  <2>3. CASE x = k
    <3>1. generated'[k] \in 0 .. Max
      BY <1>4 DEF CounterValue
    <3> QED BY <1>2, <1>4, <2>1, <2>3, <3>1, WidthAssumption
  <2> QED BY <2>2, <2>3
<1>6. CounterInv' /\ IssuedInv'
  BY <1>1 DEF SequenceInv, CounterInv, IssuedInv, Pos
<1>7. RefusedInv'
  BY <1>1, <1>4 DEF SeqTypeOK, SequenceInv, RefusedInv
<1> QED BY <1>1, <1>5, <1>6, <1>7, <1>8 DEF SequenceInv

-----------------------------------------------------------------------------
(* Facts about sealing and opening.                                        *)

\* A message sealed under a nonce that lies behind all nonces used so far
\* extends the sequence of sealed messages in order.
LEMMA EmitStep ==
  ASSUME sealed \in Seq(Message), SealedInv, start \in CounterValue,
         NEW n \in CounterValue, Pos(n) >= Used("seal"), Used("seal") \in Int, Emit(n)
  PROVE  /\ sealed' \in Seq(Message)
         /\ Len(sealed') >= Len(sealed)
         /\ \A i \in 1 .. Len(sealed) : sealed'[i] = sealed[i]
         /\ \A i \in 1 .. Len(sealed') :
              sealed'[i].id = i /\ Pos(sealed'[i].nonce) <= Pos(n)
         /\ \A i, j \in 1 .. Len(sealed') :
              i < j => Pos(sealed'[i].nonce) < Pos(sealed'[j].nonce)
<1> DEFINE new == [nonce |-> n, id |-> Len(sealed) + 1]
<1>1. \A c \in CounterValue : Pos(c) \in Int
  BY WidthAssumption DEF Pos, CounterValue
<1>2. \A i \in 1 .. Len(sealed) : sealed[i].nonce \in CounterValue /\ Pos(sealed[i].nonce) < Pos(n)
  <2> SUFFICES ASSUME NEW i \in 1 .. Len(sealed)
               PROVE  sealed[i].nonce \in CounterValue /\ Pos(sealed[i].nonce) < Pos(n)
    OBVIOUS
  <2>1. sealed[i] \in Message
    OBVIOUS
  <2>2. sealed[i].nonce \in CounterValue
    BY <2>1 DEF Message
  <2>3. Pos(sealed[i].nonce) < Used("seal")
    BY DEF SealedInv
  <2> QED BY <1>1, <2>2, <2>3
<1>3. CASE sealed' = sealed
  BY <1>1, <1>2, <1>3 DEF SealedInv
<1>4. CASE sealed' = Append(sealed, new)
  <2>1. new \in Message /\ new.nonce = n /\ new.id = Len(sealed) + 1
    BY DEF Message
  <2>2. /\ sealed' \in Seq(Message) /\ Len(sealed') = Len(sealed) + 1
        /\ \A i \in 1 .. Len(sealed) : sealed'[i] = sealed[i]
        /\ sealed'[Len(sealed) + 1] = new
    BY <1>4, <2>1
  <2>3. \A i \in 1 .. Len(sealed') : i \in 1 .. Len(sealed) \/ i = Len(sealed) + 1
    BY <2>2
  <2>4. \A i \in 1 .. Len(sealed') : sealed'[i].id = i /\ Pos(sealed'[i].nonce) <= Pos(n)
    BY <1>1, <1>2, <2>1, <2>2, <2>3 DEF SealedInv
  <2>5. ASSUME NEW i \in 1 .. Len(sealed'), NEW j \in 1 .. Len(sealed'), i < j
        PROVE  Pos(sealed'[i].nonce) < Pos(sealed'[j].nonce)
    <3>1. i \in 1 .. Len(sealed)
      BY <2>2, <2>3, <2>5
    <3>2. CASE j \in 1 .. Len(sealed)
      BY <2>2, <2>5, <3>1, <3>2 DEF SealedInv
    <3>3. CASE j = Len(sealed) + 1
      BY <1>2, <2>1, <2>2, <3>1, <3>3
    <3> QED BY <2>3, <3>2, <3>3
  <2> QED BY <2>2, <2>4, <2>5
<1> QED BY <1>3, <1>4 DEF Emit

\* A message that opens under a nonce behind all nonces used so far was sealed
\* after every message opened so far.
LEMMA AuthenticateStep ==
  ASSUME sealed \in Seq(Message), opened \in Seq(Nat), SealedInv, OpenedInv,
         start \in CounterValue, NEW n \in CounterValue, Pos(n) >= Used("open"),
         Used("open") \in Int, NEW m \in OnNetwork, Authenticate(n, m)
  PROVE  /\ opened' \in Seq(Nat)
         /\ \A i \in 1 .. Len(opened') : /\ opened'[i] \in 1 .. Len(sealed)
                                         /\ Pos(sealed[opened'[i]].nonce) <= Pos(n)
         /\ \A i, j \in 1 .. Len(opened') : i < j => opened'[i] < opened'[j]
<1>1. \A c \in CounterValue : Pos(c) \in Int
  BY WidthAssumption DEF Pos, CounterValue
<1>2. \A i \in 1 .. Len(sealed) : sealed[i].nonce \in CounterValue
  <2> SUFFICES ASSUME NEW i \in 1 .. Len(sealed)
               PROVE  sealed[i].nonce \in CounterValue
    OBVIOUS
  <2>1. sealed[i] \in Message
    OBVIOUS
  <2> QED BY <2>1 DEF Message
<1>3. \A i \in 1 .. Len(opened) : /\ opened[i] \in 1 .. Len(sealed)
                                  /\ Pos(sealed[opened[i]].nonce) < Pos(n)
  BY <1>1, <1>2 DEF OpenedInv
<1>4. CASE m.nonce # n
  BY <1>1, <1>2, <1>3, <1>4 DEF Authenticate, OpenedInv
<1>5. CASE m.nonce = n
  <2>1. opened' = Append(opened, m.id)
    BY <1>5 DEF Authenticate
  <2>2. n # NoNonce
    BY WidthAssumption DEF CounterValue, NoNonce
  <2>3. PICK x \in 1 .. Len(sealed) : m = sealed[x]
    BY <1>5, <2>2 DEF OnNetwork, Corrupted
  <2>4. m.id = x /\ Pos(sealed[x].nonce) = Pos(n)
    BY <1>5, <2>3 DEF SealedInv
  <2>5. \A i \in 1 .. Len(opened) : opened[i] < x
    <3> SUFFICES ASSUME NEW i \in 1 .. Len(opened), ~(opened[i] < x)
                 PROVE  FALSE
      OBVIOUS
    <3>1. opened[i] = x \/ x < opened[i]
      BY <1>3
    <3>2. Pos(sealed[x].nonce) <= Pos(sealed[opened[i]].nonce)
      BY <1>1, <1>2, <1>3, <3>1 DEF SealedInv
    <3> QED BY <1>1, <1>2, <1>3, <2>4, <3>2
  <2>6. /\ opened' \in Seq(Nat) /\ Len(opened') = Len(opened) + 1
        /\ \A i \in 1 .. Len(opened) : opened'[i] = opened[i]
        /\ opened'[Len(opened) + 1] = x
    BY <2>1, <2>4
  <2>7. \A i \in 1 .. Len(opened') : i \in 1 .. Len(opened) \/ i = Len(opened) + 1
    BY <2>6
  <2>8. \A i \in 1 .. Len(opened') : /\ opened'[i] \in 1 .. Len(sealed)
                                     /\ Pos(sealed[opened'[i]].nonce) <= Pos(n)
    <3> SUFFICES ASSUME NEW i \in 1 .. Len(opened')
                 PROVE  /\ opened'[i] \in 1 .. Len(sealed)
                        /\ Pos(sealed[opened'[i]].nonce) <= Pos(n)
      OBVIOUS
    <3>1. Pos(n) \in Int /\ Pos(sealed[x].nonce) <= Pos(n)
      BY <1>1, <2>4
    <3>2. CASE i = Len(opened) + 1
      BY <2>6, <3>1, <3>2
    <3>3. CASE i \in 1 .. Len(opened)
      <4>1. sealed[opened[i]].nonce \in CounterValue
        BY <1>2, <1>3, <3>3
      <4>2. Pos(sealed[opened[i]].nonce) \in Int
        BY <1>1, <4>1
      <4> QED BY <1>3, <2>6, <3>1, <3>3, <4>2, SMTT(30)
    <3> QED BY <2>7, <3>2, <3>3
  <2>9. ASSUME NEW i \in 1 .. Len(opened'), NEW j \in 1 .. Len(opened'), i < j
        PROVE  opened'[i] < opened'[j]
    <3>1. i \in 1 .. Len(opened)
      BY <2>6, <2>7, <2>9
    <3>2. CASE j \in 1 .. Len(opened)
      BY <2>6, <2>9, <3>1, <3>2 DEF OpenedInv
    <3>3. CASE j = Len(opened) + 1
      BY <2>5, <2>6, <3>1, <3>3
    <3> QED BY <2>7, <3>2, <3>3
  <2> QED BY <2>6, <2>8, <2>9
<1> QED BY <1>4, <1>5

-----------------------------------------------------------------------------
(* The invariant.                                                          *)

\* What the sequences hold when nothing but the keys' own state changes.
LEMMA SequenceUnchanged ==
  ASSUME SeqTypeOK, SequenceInv, UNCHANGED seqVars
  PROVE  SeqTypeOK' /\ SequenceInv' /\ start' = start /\ issued' = issued
BY DEF SeqTypeOK, SequenceInv, seqVars, CountInv, CounterInv, IssuedInv, RefusedInv, Pos

\* The invariant holds when both keys have just been built.
LEMMA InitIInv == AeadInit => IInv
<1> SUFFICES ASSUME AeadInit PROVE IInv
  OBVIOUS
<1>1. Max \in Nat /\ Max > 0
  BY WidthAssumption
<1>2. TypeOK
  BY <1>1 DEF AeadInit, TypeOK, CounterValue, NoNonce, Key
<1>3. SequenceInv
  BY <1>1 DEF AeadInit, SequenceInv, CountInv, CounterInv, IssuedInv, RefusedInv, Pos, CounterValue
<1>4. PreparedInv /\ SealedInv /\ OpenedInv
  BY DEF AeadInit, PreparedInv, SealedInv, OpenedInv
<1> QED BY <1>2, <1>3, <1>4 DEF IInv

\* The parts of the invariant after a step that leaves start alone.
LEMMA Assemble ==
  ASSUME SeqTypeOK', SequenceInv', start' = start,
         prepared' \in [Key -> CounterValue \cup {NoNonce}],
         sealed' \in Seq(Message), opened' \in Seq(Nat), opens' \in Nat,
         \A k \in Key : prepared'[k] # NoNonce => Pos(prepared'[k]) = Len(issued'[k]) - 1,
         \A i \in 1 .. Len(sealed') :
           sealed'[i].id = i /\ Pos(sealed'[i].nonce) < Used("seal")',
         \A i, j \in 1 .. Len(sealed') :
           i < j => Pos(sealed'[i].nonce) < Pos(sealed'[j].nonce),
         \A i \in 1 .. Len(opened') :
           /\ opened'[i] \in 1 .. Len(sealed')
           /\ Pos(sealed'[opened'[i]].nonce) < Used("open")',
         \A i, j \in 1 .. Len(opened') : i < j => opened'[i] < opened'[j]
  PROVE  IInv'
<1>1. TypeOK'
  BY DEF TypeOK, SeqTypeOK
<1>2. PreparedInv'
  BY DEF PreparedInv, Pos
<1>3. SealedInv'
  BY DEF SealedInv, Pos
<1>4. OpenedInv'
  BY DEF OpenedInv, Pos
<1> QED BY <1>1, <1>2, <1>3, <1>4 DEF IInv

\* Every operation of either key preserves the invariant.
LEMMA NextIInv == IInv /\ [AeadNext]_aeadVars => IInv'
<1> SUFFICES ASSUME IInv, [AeadNext]_aeadVars PROVE IInv'
  OBVIOUS
<1>1. /\ SeqTypeOK /\ SequenceInv /\ start \in CounterValue
      /\ prepared \in [Key -> CounterValue \cup {NoNonce}]
      /\ sealed \in Seq(Message) /\ opened \in Seq(Nat) /\ opens \in Nat
      /\ \A k \in Key : issued[k] \in Seq(CounterValue) /\ Len(issued[k]) \in Nat
      /\ PreparedInv /\ SealedInv /\ OpenedInv
  BY DEF IInv, TypeOK, SeqTypeOK
<1>2. /\ "seal" \in Key /\ "open" \in Key
      /\ \A k \in Key : Used(k) \in Int /\ Used(k) <= Len(issued[k])
  BY <1>1 DEF Used, Key
<1>3. \A c \in CounterValue : Pos(c) \in Int /\ c # NoNonce
  BY <1>1, WidthAssumption DEF Pos, CounterValue, NoNonce
<1>4. \A i \in 1 .. Len(sealed) : Pos(sealed[i].nonce) \in Int
  <2> SUFFICES ASSUME NEW i \in 1 .. Len(sealed) PROVE Pos(sealed[i].nonce) \in Int
    OBVIOUS
  <2>1. sealed[i] \in Message
    BY <1>1
  <2>2. sealed[i].nonce \in CounterValue
    BY <2>1 DEF Message
  <2> QED BY <1>3, <2>2
<1>5. CASE UNCHANGED aeadVars
  BY <1>5 DEF IInv, TypeOK, SequenceInv, CountInv, CounterInv, IssuedInv, RefusedInv,
     PreparedInv, SealedInv, OpenedInv, Used, Pos, aeadVars
<1>6. ASSUME NEW k \in Key, Exhausted(k) PROVE IInv'
  <2>1. SeqTypeOK' /\ SequenceInv' /\ start' = start /\ issued' = issued
    BY <1>1, <1>6, AdvanceErrStep DEF Exhausted
  <2>2. prepared' = prepared /\ sealed' = sealed /\ opened' = opened /\ opens' = opens
    BY <1>6 DEF Exhausted
  <2>3. Used("seal")' = Used("seal") /\ Used("open")' = Used("open")
    BY <2>1, <2>2 DEF Used
  <2> QED BY <1>1, <2>1, <2>2, <2>3, Assemble DEF PreparedInv, SealedInv, OpenedInv
<1>7. ASSUME NEW k \in Key, PrepareNonce(k) PROVE IInv'
  <2>1. /\ SeqTypeOK' /\ SequenceInv' /\ start' = start
        /\ Len(issued'[k]) = Len(issued[k]) + 1
        /\ \A x \in Key : x # k => issued'[x] = issued[x]
        /\ counter[k] \in CounterValue /\ Pos(counter[k]) = Len(issued[k])
    BY <1>1, <1>7, AdvanceOkStep DEF PrepareNonce
  <2>2. /\ sealed' = sealed /\ opened' = opened /\ opens' = opens /\ prepared[k] = NoNonce
        /\ prepared' = [prepared EXCEPT ![k] = counter[k]]
    BY <1>7 DEF PrepareNonce, NonePrepared
  <2>3. /\ prepared' \in [Key -> CounterValue \cup {NoNonce}]
        /\ prepared'[k] = counter[k]
        /\ \A x \in Key : x # k => prepared'[x] = prepared[x]
    BY <1>1, <2>1, <2>2
  <2>4. \A x \in Key : Used(x)' = Used(x)
    <3>1. Len(issued[k]) \in Nat /\ counter[k] # NoNonce
      BY <1>1, <1>3, <2>1
    <3>2. Used(k)' = Used(k)
      BY <2>1, <2>2, <2>3, <3>1 DEF Used
    <3>3. ASSUME NEW x \in Key, x # k PROVE Used(x)' = Used(x)
      BY <2>1, <2>3, <3>3 DEF Used
    <3> QED BY <3>2, <3>3
  <2>5. \A x \in Key : prepared'[x] # NoNonce => Pos(prepared'[x]) = Len(issued'[x]) - 1
    <3>1. Pos(prepared'[k]) = Len(issued'[k]) - 1
      BY <1>1, <2>1, <2>3
    <3>2. ASSUME NEW x \in Key, x # k, prepared'[x] # NoNonce
          PROVE  Pos(prepared'[x]) = Len(issued'[x]) - 1
      BY <1>1, <2>1, <2>3, <3>2 DEF PreparedInv
    <3> QED BY <3>1, <3>2
  <2>6. Used("seal")' = Used("seal") /\ Used("open")' = Used("open")
    BY <1>2, <2>4
  <2> QED BY <1>1, <2>1, <2>2, <2>3, <2>5, <2>6, Assemble DEF SealedInv, OpenedInv
<1>8. ASSUME NEW k \in Key, DropPrepared(k) PROVE IInv'
  <2>1. /\ SeqTypeOK' /\ SequenceInv' /\ start' = start /\ issued' = issued
        /\ sealed' = sealed /\ opened' = opened /\ opens' = opens /\ prepared[k] # NoNonce
        /\ prepared' = [prepared EXCEPT ![k] = NoNonce]
    BY <1>1, <1>8, SequenceUnchanged DEF DropPrepared, NonePrepared
  <2>2. /\ prepared' \in [Key -> CounterValue \cup {NoNonce}]
        /\ prepared'[k] = NoNonce
        /\ \A x \in Key : x # k => prepared'[x] = prepared[x]
    BY <1>1, <2>1
  <2>3. \A x \in Key : Used(x)' \in Int /\ Used(x) <= Used(x)'
    BY <1>1, <2>1, <2>2 DEF Used
  <2>4. /\ Used("seal")' \in Int /\ Used("seal") <= Used("seal")'
        /\ Used("open")' \in Int /\ Used("open") <= Used("open")'
    BY <1>2, <2>3
  <2>5. \A x \in Key : prepared'[x] # NoNonce => Pos(prepared'[x]) = Len(issued'[x]) - 1
    BY <1>1, <2>1, <2>2 DEF PreparedInv
  <2>6. \A i \in 1 .. Len(sealed) : sealed[i].id = i /\ Pos(sealed[i].nonce) < Used("seal")'
    BY <1>1, <1>2, <1>4, <2>4 DEF SealedInv
  <2>7. \A i \in 1 .. Len(opened) : /\ opened[i] \in 1 .. Len(sealed)
                                    /\ Pos(sealed[opened[i]].nonce) < Used("open")'
    BY <1>1, <1>2, <1>4, <2>4 DEF OpenedInv
  <2> QED BY <1>1, <2>1, <2>2, <2>5, <2>6, <2>7, Assemble DEF SealedInv, OpenedInv
<1>9. ASSUME NEW n \in CounterValue, Emit(n), Pos(n) = Used("seal"), SeqTypeOK', SequenceInv',
             start' = start, Used("seal")' = Used("seal") + 1, Used("open")' = Used("open"),
             opened' = opened, opens' = opens,
             prepared' \in [Key -> CounterValue \cup {NoNonce}],
             \A x \in Key : prepared'[x] # NoNonce => Pos(prepared'[x]) = Len(issued'[x]) - 1
      PROVE  IInv'
  <2>1. /\ sealed' \in Seq(Message)
        /\ Len(sealed') >= Len(sealed)
        /\ \A i \in 1 .. Len(sealed) : sealed'[i] = sealed[i]
        /\ \A i \in 1 .. Len(sealed') :
             sealed'[i].id = i /\ Pos(sealed'[i].nonce) <= Pos(n)
        /\ \A i, j \in 1 .. Len(sealed') :
             i < j => Pos(sealed'[i].nonce) < Pos(sealed'[j].nonce)
    BY <1>1, <1>2, <1>9, EmitStep
  <2>2. \A i \in 1 .. Len(sealed') : Pos(sealed'[i].nonce) \in Int
    <3> SUFFICES ASSUME NEW i \in 1 .. Len(sealed') PROVE Pos(sealed'[i].nonce) \in Int
      OBVIOUS
    <3>1. sealed'[i] \in Message
      BY <2>1
    <3>2. sealed'[i].nonce \in CounterValue
      BY <3>1 DEF Message
    <3> QED BY <1>3, <3>2
  <2>3. \A i \in 1 .. Len(sealed') : sealed'[i].id = i /\ Pos(sealed'[i].nonce) < Used("seal")'
    BY <1>2, <1>3, <1>9, <2>1, <2>2
  <2>4. \A i \in 1 .. Len(opened) : /\ opened[i] \in 1 .. Len(sealed')
                                    /\ Pos(sealed'[opened[i]].nonce) < Used("open")'
    <3> SUFFICES ASSUME NEW i \in 1 .. Len(opened)
                 PROVE  /\ opened[i] \in 1 .. Len(sealed')
                        /\ Pos(sealed'[opened[i]].nonce) < Used("open")'
      OBVIOUS
    <3>1. opened[i] \in 1 .. Len(sealed) /\ Pos(sealed[opened[i]].nonce) < Used("open")
      BY <1>1 DEF OpenedInv
    <3>2. Len(sealed) \in Nat /\ Len(sealed') \in Nat
      BY <1>1, <2>1
    <3> QED BY <1>9, <2>1, <3>1, <3>2
  <2> QED BY <1>1, <1>9, <2>1, <2>3, <2>4, Assemble DEF OpenedInv
<1>10. CASE Seal
  <2>1. /\ SeqTypeOK' /\ SequenceInv' /\ start' = start
        /\ Len(issued'["seal"]) = Len(issued["seal"]) + 1
        /\ issued'["open"] = issued["open"]
        /\ counter["seal"] \in CounterValue /\ Pos(counter["seal"]) = Len(issued["seal"])
    BY <1>1, <1>2, <1>10, AdvanceOkStep DEF Seal
  <2>2. /\ Emit(counter["seal"]) /\ opened' = opened /\ opens' = opens
        /\ prepared' = prepared /\ prepared["seal"] = NoNonce
    BY <1>10 DEF Seal, NonePrepared
  <2>3. Used("seal")' = Used("seal") + 1 /\ Used("open")' = Used("open")
        /\ Pos(counter["seal"]) = Used("seal")
    BY <2>1, <2>2 DEF Used
  <2>4. \A x \in Key : prepared'[x] # NoNonce => Pos(prepared'[x]) = Len(issued'[x]) - 1
    BY <1>1, <2>1, <2>2 DEF PreparedInv, Key
  <2> QED BY <1>1, <1>9, <2>1, <2>2, <2>3, <2>4
<1>11. CASE SealPrepared
  <2>1. /\ SeqTypeOK' /\ SequenceInv' /\ start' = start /\ issued' = issued
        /\ Emit(prepared["seal"]) /\ opened' = opened /\ opens' = opens
        /\ prepared["seal"] # NoNonce
        /\ prepared' = [prepared EXCEPT !["seal"] = NoNonce]
    BY <1>1, <1>11, SequenceUnchanged DEF SealPrepared, NonePrepared
  <2>2. /\ prepared' \in [Key -> CounterValue \cup {NoNonce}] /\ prepared'["seal"] = NoNonce
        /\ prepared'["open"] = prepared["open"] /\ prepared["seal"] \in CounterValue
    BY <1>1, <1>2, <2>1
  <2>3. Used("seal")' = Used("seal") + 1 /\ Used("open")' = Used("open")
        /\ Pos(prepared["seal"]) = Used("seal")
    BY <1>1, <1>2, <2>1, <2>2 DEF Used, PreparedInv
  <2>4. \A x \in Key : prepared'[x] # NoNonce => Pos(prepared'[x]) = Len(issued'[x]) - 1
    BY <1>1, <2>1, <2>2 DEF PreparedInv, Key
  <2> QED BY <1>1, <1>9, <2>1, <2>2, <2>3, <2>4
<1>12. ASSUME NEW n \in CounterValue, NEW m \in OnNetwork, Authenticate(n, m), Pos(n) = Used("open"),
              SeqTypeOK', SequenceInv', start' = start,
              Used("open")' = Used("open") + 1, Used("seal")' = Used("seal"),
              sealed' = sealed, opens' = opens + 1,
              prepared' \in [Key -> CounterValue \cup {NoNonce}],
              \A x \in Key : prepared'[x] # NoNonce => Pos(prepared'[x]) = Len(issued'[x]) - 1
       PROVE  IInv'
  <2>1. /\ opened' \in Seq(Nat)
        /\ \A i \in 1 .. Len(opened') : /\ opened'[i] \in 1 .. Len(sealed)
                                        /\ Pos(sealed[opened'[i]].nonce) <= Pos(n)
        /\ \A i, j \in 1 .. Len(opened') : i < j => opened'[i] < opened'[j]
    <3>1. Pos(n) >= Used("open") /\ Used("open") \in Int
      BY <1>2, <1>12
    <3> QED BY <1>1, <1>12, <3>1, AuthenticateStep
  <2>2. \A i \in 1 .. Len(opened') : /\ opened'[i] \in 1 .. Len(sealed)
                                     /\ Pos(sealed[opened'[i]].nonce) < Used("open")'
    <3> SUFFICES ASSUME NEW i \in 1 .. Len(opened')
                 PROVE  Pos(sealed[opened'[i]].nonce) < Used("open")'
      BY <2>1
    <3>1. Pos(sealed[opened'[i]].nonce) \in Int /\ Pos(sealed[opened'[i]].nonce) <= Pos(n)
      BY <1>4, <2>1
    <3> QED BY <1>2, <1>12, <3>1
  <2>3. opens' \in Nat
    BY <1>1, <1>12
  <2> QED BY <1>1, <1>12, <2>1, <2>2, <2>3, Assemble DEF SealedInv
<1>13. ASSUME NEW m \in OnNetwork, Open(m) PROVE IInv'
  <2>1. /\ SeqTypeOK' /\ SequenceInv' /\ start' = start
        /\ Len(issued'["open"]) = Len(issued["open"]) + 1
        /\ issued'["seal"] = issued["seal"]
        /\ counter["open"] \in CounterValue /\ Pos(counter["open"]) = Len(issued["open"])
    BY <1>1, <1>2, <1>13, AdvanceOkStep DEF Open
  <2>2. /\ Authenticate(counter["open"], m) /\ sealed' = sealed /\ opens' = opens + 1
        /\ prepared' = prepared /\ prepared["open"] = NoNonce
    BY <1>13 DEF Open, NonePrepared
  <2>3. Used("open")' = Used("open") + 1 /\ Used("seal")' = Used("seal")
        /\ Pos(counter["open"]) = Used("open")
    BY <2>1, <2>2 DEF Used
  <2>4. \A x \in Key : prepared'[x] # NoNonce => Pos(prepared'[x]) = Len(issued'[x]) - 1
    BY <1>1, <2>1, <2>2 DEF PreparedInv, Key
  <2> QED BY <1>1, <1>12, <2>1, <2>2, <2>3, <2>4
<1>14. ASSUME NEW m \in OnNetwork, OpenPrepared(m) PROVE IInv'
  <2>1. /\ SeqTypeOK' /\ SequenceInv' /\ start' = start /\ issued' = issued
        /\ Authenticate(prepared["open"], m) /\ sealed' = sealed /\ opens' = opens + 1
        /\ prepared["open"] # NoNonce
        /\ prepared' = [prepared EXCEPT !["open"] = NoNonce]
    BY <1>1, <1>14, SequenceUnchanged DEF OpenPrepared, NonePrepared
  <2>2. /\ prepared' \in [Key -> CounterValue \cup {NoNonce}] /\ prepared'["open"] = NoNonce
        /\ prepared'["seal"] = prepared["seal"] /\ prepared["open"] \in CounterValue
    BY <1>1, <1>2, <2>1
  <2>3. Used("open")' = Used("open") + 1 /\ Used("seal")' = Used("seal")
        /\ Pos(prepared["open"]) = Used("open")
    BY <1>1, <1>2, <2>1, <2>2 DEF Used, PreparedInv
  <2>4. \A x \in Key : prepared'[x] # NoNonce => Pos(prepared'[x]) = Len(issued'[x]) - 1
    BY <1>1, <2>1, <2>2 DEF PreparedInv, Key
  <2> QED BY <1>1, <1>12, <2>1, <2>2, <2>3, <2>4
<1> QED BY <1>5, <1>6, <1>7, <1>8, <1>10, <1>11, <1>13, <1>14 DEF AeadNext

-----------------------------------------------------------------------------
(* The theorems.                                                           *)

\* The inductive invariant holds throughout.
THEOREM InvariantHolds == AeadSpec => []IInv
<1>1. AeadInit => IInv
  BY InitIInv
<1>2. IInv /\ [AeadNext]_aeadVars => IInv'
  BY NextIInv
<1> QED BY <1>1, <1>2, PTL DEF AeadSpec

\* The counters of Counter32 and Counter64 never leave their width and every
\* nonce issued or sealed under is a value of the counter type.
THEOREM TypeCorrect == AeadSpec => []TypeOK
<1>1. IInv => TypeOK
  BY DEF IInv
<1> QED BY <1>1, InvariantHolds, PTL

\* NonceSequence's contract: advance of Counter32 and Counter64 never returns
\* the same nonce twice, for any start, although the counter wraps.
THEOREM NoncesAreUnique == AeadSpec => []NonceUnique
<1>1. IInv => NonceUnique
  <2> SUFFICES ASSUME IInv, NEW k \in Key, NEW i \in DOMAIN issued[k],
                      NEW j \in DOMAIN issued[k], issued[k][i] = issued[k][j]
               PROVE  i = j
    BY DEF NonceUnique
  <2>1. i \in 1 .. Len(issued[k]) /\ j \in 1 .. Len(issued[k])
    BY DEF IInv, TypeOK
  <2>2. Pos(issued[k][i]) = i - 1 /\ Pos(issued[k][j]) = j - 1
    BY <2>1 DEF IInv, SequenceInv, IssuedInv
  <2> QED BY <2>1, <2>2
<1> QED BY <1>1, InvariantHolds, PTL

\* advance of Counter32 and Counter64 issues no more nonces than the limit
\* given to the builder.
THEOREM LimitIsRespected == AeadSpec => []LimitRespected
<1>1. IInv => LimitRespected
  <2> SUFFICES ASSUME IInv, NEW k \in Key PROVE Len(issued[k]) <= limit
    BY DEF LimitRespected
  <2>1. limit \in Int /\ generated[k] \in Int
    BY WidthAssumption DEF IInv, TypeOK, CounterValue
  <2> QED BY <2>1 DEF IInv, SequenceInv, CountInv
<1> QED BY <1>1, InvariantHolds, PTL

\* No two messages leave a SealingKey under one nonce, whatever mix of direct,
\* prepared, failed and dropped calls led there.
THEOREM SealedOnce == AeadSpec => []SealedUnique
<1>1. IInv => SealedUnique
  <2> SUFFICES ASSUME IInv, NEW i \in DOMAIN sealed, NEW j \in DOMAIN sealed,
                      sealed[i].nonce = sealed[j].nonce
               PROVE  i = j
    BY DEF SealedUnique
  <2>1. i \in 1 .. Len(sealed) /\ j \in 1 .. Len(sealed) /\ sealed[i] \in Message
    BY DEF IInv, TypeOK
  <2>2. sealed[i].nonce \in CounterValue
    BY <2>1 DEF Message
  <2>3. Pos(sealed[i].nonce) \in Int
    BY <2>2, WidthAssumption DEF Pos, CounterValue, IInv, TypeOK
  <2>4. ~(i < j) /\ ~(j < i)
    BY <2>1, <2>3 DEF IInv, SealedInv
  <2> QED BY <2>1, <2>4
<1> QED BY <1>1, InvariantHolds, PTL

\* An OpeningKey opens messages in the order in which they were sealed and
\* each at most once, on a network that loses, repeats, reorders and corrupts.
THEOREM OpenedOnceInOrder == AeadSpec => []OpenedInOrder
<1>1. IInv => OpenedInOrder
  <2> SUFFICES ASSUME IInv PROVE OpenedInOrder
    OBVIOUS
  <2>1. DOMAIN opened = 1 .. Len(opened)
    BY DEF IInv, TypeOK
  <2> QED BY <2>1 DEF IInv, OpenedInv, OpenedInOrder
<1> QED BY <1>1, InvariantHolds, PTL

\* NonceSequence's contract: once advance has failed it fails for ever.
THEOREM RefusalIsForever == AeadSpec => RefusalIsFinal
<1> DEFINE A == \A k \in Key : refused[k] => issued'[k] = issued[k]
<1>1. IInv /\ [AeadNext]_aeadVars => [A]_aeadVars
  <2> SUFFICES ASSUME IInv, AeadNext, NEW k \in Key, refused[k]
               PROVE  issued'[k] = issued[k]
    OBVIOUS
  <2>1. ~AdvanceOk(k)
    <3>1. /\ limit \in 0 .. Max /\ generated[k] \in 0 .. Max
          /\ generated[k] = Max \/ generated[k] > limit
      BY DEF IInv, TypeOK, CounterValue, SequenceInv, RefusedInv
    <3> QED BY <3>1, WidthAssumption DEF AdvanceOk
  <2>2. ASSUME NEW x \in Key, AdvanceOk(x) PROVE issued'[k] = issued[k]
    <3>1. x # k
      BY <2>1, <2>2
    <3> QED BY <2>2, <3>1 DEF AdvanceOk, IInv, TypeOK
  <2>3. ASSUME UNCHANGED issued PROVE issued'[k] = issued[k]
    BY <2>3
  <2> QED
    BY <2>2, <2>3 DEF AeadNext, Exhausted, AdvanceErr, PrepareNonce, DropPrepared, Seal,
       SealPrepared, Open, OpenPrepared, seqVars, Key
<1> QED BY <1>1, InvariantHolds, PTL DEF AeadSpec, RefusalIsFinal
=============================================================================
