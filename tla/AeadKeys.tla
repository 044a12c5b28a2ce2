------------------------------ MODULE AeadKeys ------------------------------
(***************************************************************************)
(* A SealingKey and an OpeningKey bound to equal nonce sequences:          *)
(* wolfcrypt-ring-compat/src/aead.rs and aead/nonce_sequence/counter32.rs  *)
(* (counter64.rs differs only in its width).                               *)
(*                                                                         *)
(* Max is u32::MAX or u64::MAX.  A nonce is identifier || counter; both    *)
(* keys are built with the same identifier, so the counter stands for the  *)
(* nonce.  What is sealed goes into a network that may lose, duplicate,    *)
(* delay, reorder and corrupt it.  The cipher is external: a sealed        *)
(* message opens under the nonce it was sealed with and under no other.    *)
(***************************************************************************)
EXTENDS Integers, Sequences

CONSTANTS
  Max,      \* the largest value of the counter type
  MaxOpens  \* bound: how many messages the opening key is asked to open

ASSUME WidthAssumption == Max \in Nat \ {0}
ASSUME BoundAssumption == MaxOpens \in Nat

Key == {"seal", "open"}
CounterValue == 0 .. Max
NoNonce == Max + 1
Corrupted == [nonce |-> NoNonce, id |-> 0]

VARIABLES
  start,      \* the builder's counter, the same for both keys
  limit,      \* the builder's limit, the same for both keys
  generated,  \* generated[k], as in Counter32
  counter,    \* counter[k], as in Counter32
  prepared,   \* prepared[k]: the nonce a ...KeyPreparedNonce holds, or NoNonce
  issued,     \* issued[k]: the nonces advance has returned, in order
  refused,    \* refused[k]: advance has failed at least once
  sealed,     \* the messages sealed so far, in order
  opened,     \* the ids of the messages opened so far, in order
  opens       \* how often the opening key was used

seqVars == <<start, limit, generated, counter, issued, refused>>
aeadVars == <<start, limit, generated, counter, prepared, issued, refused, sealed,
              opened, opens>>

-----------------------------------------------------------------------------
(* NonceSequence::advance.                                                 *)

SaturatingAdd(c) == IF c = Max THEN c ELSE c + 1
WrappingAdd(c) == IF c = Max THEN 0 ELSE c + 1

AdvancePastLimit(k) ==
  /\ generated[k] < Max
  /\ generated[k] <= limit
  /\ generated' = [generated EXCEPT ![k] = @ + 1]
  /\ counter' = [counter EXCEPT ![k] = WrappingAdd(@)]
  /\ issued' = [issued EXCEPT ![k] = Append(@, counter[k])]
  /\ UNCHANGED <<start, limit, refused>>

\* The nonce is taken from the counter before it moves on.
AdvanceOk(k) ==
  /\ generated[k] < Max
  /\ generated[k] + 1 <= limit
  /\ generated' = [generated EXCEPT ![k] = @ + 1]
  /\ counter' = [counter EXCEPT ![k] = WrappingAdd(@)]
  /\ issued' = [issued EXCEPT ![k] = Append(@, counter[k])]
  /\ UNCHANGED <<start, limit, refused>>

AdvanceErrWraps(k) ==
  /\ generated[k] + 1 > limit
  /\ generated' = [generated EXCEPT ![k] = WrappingAdd(@)]
  /\ refused' = [refused EXCEPT ![k] = TRUE]
  /\ UNCHANGED <<start, limit, counter, issued>>

\* checked_add overflows and changes nothing, or the limit is passed and
\* generated keeps the new value.
AdvanceErr(k) ==
  /\ \/ /\ generated[k] = Max
        /\ UNCHANGED generated
     \/ /\ generated[k] < Max
        /\ generated[k] + 1 > limit
        /\ generated' = [generated EXCEPT ![k] = @ + 1]
  /\ refused' = [refused EXCEPT ![k] = TRUE]
  /\ UNCHANGED <<start, limit, counter, issued>>

-----------------------------------------------------------------------------
(* SealingKey and OpeningKey.  A prepared nonce borrows the key mutably,   *)
(* so nothing else happens to the key until it is used or dropped.         *)

NonePrepared(k) == prepared[k] = NoNonce

\* An operation of either key that finds its sequence exhausted.
Exhausted(k) ==
  /\ NonePrepared(k)
  /\ AdvanceErr(k)
  /\ UNCHANGED <<prepared, sealed, opened, opens>>

PrepareByPeeking(k) ==
  /\ NonePrepared(k)
  /\ prepared' = [prepared EXCEPT ![k] = counter[k]]
  /\ UNCHANGED <<seqVars, sealed, opened, opens>>

\* prepare_nonce.
PrepareNonce(k) ==
  /\ NonePrepared(k)
  /\ AdvanceOk(k)
  /\ prepared' = [prepared EXCEPT ![k] = counter[k]]
  /\ UNCHANGED <<sealed, opened, opens>>

\* The prepared nonce is dropped unused; it stays consumed.
DropPrepared(k) ==
  /\ ~NonePrepared(k)
  /\ prepared' = [prepared EXCEPT ![k] = NoNonce]
  /\ UNCHANGED <<seqVars, sealed, opened, opens>>

\* A message leaves under nonce n, or the cipher refuses it (it is longer than
\* max_input_len) after the nonce was consumed.
Emit(n) ==
  \/ sealed' = Append(sealed, [nonce |-> n, id |-> Len(sealed) + 1])
  \/ UNCHANGED sealed

\* seal_in_place_append_tag and seal_in_place_separate_tag.
Seal ==
  /\ NonePrepared("seal")
  /\ AdvanceOk("seal")
  /\ Emit(counter["seal"])
  /\ UNCHANGED <<prepared, opened, opens>>

SealPrepared ==
  /\ ~NonePrepared("seal")
  /\ Emit(prepared["seal"])
  /\ prepared' = [prepared EXCEPT !["seal"] = NoNonce]
  /\ UNCHANGED <<seqVars, opened, opens>>

\* What the network may present: any message sealed so far, any number of
\* times and in any order, or a corrupted one.
OnNetwork == {sealed[i] : i \in DOMAIN sealed} \cup {Corrupted}

\* The cipher authenticates m under nonce n.
Authenticate(n, m) ==
  opened' = IF m.nonce = n THEN Append(opened, m.id) ELSE opened

\* open_in_place and open_within: a nonce is consumed whether or not the
\* message opens.
Open(m) ==
  /\ NonePrepared("open")
  /\ opens < MaxOpens
  /\ opens' = opens + 1
  /\ AdvanceOk("open")
  /\ Authenticate(counter["open"], m)
  /\ UNCHANGED <<prepared, sealed>>

OpenPrepared(m) ==
  /\ ~NonePrepared("open")
  /\ opens < MaxOpens
  /\ opens' = opens + 1
  /\ Authenticate(prepared["open"], m)
  /\ prepared' = [prepared EXCEPT !["open"] = NoNonce]
  /\ UNCHANGED <<seqVars, sealed>>

-----------------------------------------------------------------------------
(* The specification.                                                      *)

\* Counter32Builder: any counter and any limit of the type.
AeadInit ==
  /\ start \in CounterValue
  /\ limit \in CounterValue
  /\ generated = [k \in Key |-> 0]
  /\ counter = [k \in Key |-> start]
  /\ prepared = [k \in Key |-> NoNonce]
  /\ issued = [k \in Key |-> <<>>]
  /\ refused = [k \in Key |-> FALSE]
  /\ sealed = <<>>
  /\ opened = <<>>
  /\ opens = 0

AeadNext ==
  \/ \E k \in Key : Exhausted(k) \/ PrepareNonce(k) \/ DropPrepared(k)
  \/ Seal
  \/ SealPrepared
  \/ \E m \in OnNetwork : Open(m) \/ OpenPrepared(m)

AeadSpec == AeadInit /\ [][AeadNext]_aeadVars

-----------------------------------------------------------------------------
(* Properties.                                                             *)

Message == [nonce : CounterValue, id : Nat]

\* Every variable has its type; the counters stay within their width.
TypeOK ==
  /\ start \in CounterValue
  /\ limit \in CounterValue
  /\ generated \in [Key -> CounterValue]
  /\ counter \in [Key -> CounterValue]
  /\ prepared \in [Key -> CounterValue \cup {NoNonce}]
  /\ issued \in [Key -> Seq(CounterValue)]
  /\ refused \in [Key -> BOOLEAN]
  /\ sealed \in Seq(Message)
  /\ opened \in Seq(Nat)
  /\ opens \in Nat

\* A sequence never returns the same nonce twice, although its counter wraps:
\* "A given NonceSequence must never return the same Nonce twice from
\* advance()" (aead.rs).
NonceUnique ==
  \A k \in Key : \A i, j \in DOMAIN issued[k] :
    issued[k][i] = issued[k][j] => i = j

\* Not more nonces than the builder's limit are issued.
LimitRespected == \A k \in Key : Len(issued[k]) <= limit

\* "Once advance() fails, it must fail for all subsequent calls" (aead.rs):
\* no nonce is issued by a sequence that has refused one.
RefusalIsFinal == [][\A k \in Key : refused[k] => issued'[k] = issued[k]]_aeadVars

\* No two messages are ever sealed under one nonce, whatever mix of direct
\* and prepared calls, failed calls and dropped prepared nonces led there.
SealedUnique ==
  \A i, j \in DOMAIN sealed : sealed[i].nonce = sealed[j].nonce => i = j

\* The opening key accepts messages in the order they were sealed and each at
\* most once: a message that is replayed or arrives late is refused.
OpenedInOrder ==
  \A i, j \in DOMAIN opened : i < j => opened[i] < opened[j]
=============================================================================
