---------------------------- MODULE NativeHandles ----------------------------
(***************************************************************************)
(* The contexts that compat_shim.c allocates for the crate wolfcrypt and   *)
(* the Rust values that own them: digests, HMAC, CMAC, triple DES, DH and  *)
(* RSA keys, and the EVP_PKEYs that several owners share.  A context is    *)
(* made of parts that a call of wolfCrypt initialises; any call may fail.  *)
(***************************************************************************)
EXTENDS Integers, Sequences, FiniteSets, Functions

CONSTANTS
  Value,        \* Rust values
  Context,      \* places of the heap
  Kind,         \* the kinds of contexts that are made
  Pieces,       \* what an update may be given, sequences of bytes
  LenModulus,   \* 2^32: the length of a piece is passed as u32
  GroupSz,      \* bytes of a number of the DH group
  KeyBuf,       \* bytes of the buffers for a DH key, 512
  MaxPieces, MaxFaults

ASSUME HandlesAssumption ==
  /\ Kind \subseteq {"digest", "hmac", "cmac", "des3", "dh", "rsa", "pkey"}
  /\ Pieces \subseteq Seq(Nat) /\ LenModulus \in Nat /\ LenModulus > 0
  /\ GroupSz \in Nat /\ GroupSz > 0 /\ KeyBuf \in Nat /\ KeyBuf >= GroupSz
  /\ MaxPieces \in Nat /\ MaxFaults \in Nat

VARIABLES
  heap,         \* the contexts that are allocated
  value,        \* the values that are alive; ok is lost when a method has panicked
  peer,         \* the peerKey of an EVP_PKEY_CTX, a set of at most one context
  out,          \* what the last call has given to its caller
  left,         \* parts that were not released when their memory was
  lost,         \* contexts of RsaPrivateKey::public_key after a failed import
  faults        \* calls that have failed

handleVars == <<heap, value, peer, out, left, lost, faults>>

Nothing == [kind |-> "none"]

HandlesInit ==
  /\ heap = << >> /\ value = << >> /\ peer = {}
  /\ out = Nothing /\ left = {} /\ lost = {} /\ faults = 0

Fault == faults < MaxFaults /\ faults' = faults + 1
NoFault == UNCHANGED faults
NoOut == out' = Nothing

Put(f, x, y) == [z \in DOMAIN f \cup {x} |-> IF z = x THEN y ELSE f[z]]
Remove(f, x) == Restrict(f, DOMAIN f \ {x})

-----------------------------------------------------------------------------
(* Allocation and release.                                                 *)

\* The part that each call of a constructor initialises; a call that only sets a
\* key has none of its own.
Acquires(kind) ==
  CASE kind = "digest" -> <<{"Sha"}>>
    [] kind = "hmac" -> <<{"Hmac"}, {}>>
    [] kind = "cmac" -> <<{"Cmac"}>>
    [] kind = "des3" -> <<{"Des3"}, {}>>
    [] kind = "dh" -> <<{"Rng"}, {"DhKey"}, {}>>
    [] kind = "rsa" -> <<{"RsaKey"}, {"Rng"}>>
    [] kind = "pkey" -> <<{}>>

Parts(kind, n) == UNION {Acquires(kind)[i] : i \in 1 .. n}
AllParts(kind) == Parts(kind, Len(Acquires(kind)))

\* Only the part before the call that failed is released.
ReleasesLast(kind, k) == IF k > 1 THEN Acquires(kind)[k - 1] ELSE {}

\* What a constructor releases when its call k fails.
ReleasesOnFailure(kind, k) ==
  CASE kind = "hmac" /\ k = 2 -> {"Hmac"}
    [] kind = "des3" /\ k = 2 -> {"Des3"}
    [] kind = "dh" /\ k = 2 -> {"Rng"}
    [] kind = "dh" /\ k = 3 -> {"DhKey", "Rng"}
    [] kind = "rsa" /\ k = 2 -> {"RsaKey"}
    [] OTHER -> {}

\* What the free function of a kind releases; wolfcrypt_cmac_free only frees.
Releases(kind) ==
  CASE kind = "digest" -> {"Sha"}
    [] kind = "hmac" -> {"Hmac"}
    [] kind = "cmac" -> {}
    [] kind = "des3" -> {"Des3"}
    [] kind = "dh" -> {"DhKey", "Rng"}
    [] kind = "rsa" -> {"RsaKey", "Rng"}
    [] kind = "pkey" -> {}

Fresh(kind) == [kind |-> kind, parts |-> AllParts(kind), fed |-> << >>, pubSz |-> 0, refs |-> 1]
Owner(kind, c) == [kind |-> kind, ctx |-> c, given |-> << >>, long |-> FALSE, ok |-> TRUE]

Free(c) ==
  /\ heap' = Remove(heap, c)
  /\ left' = left \cup (heap[c].parts \ Releases(heap[c].kind))

\* malloc fails (k = 0) or call k does: the constructor returns NULL and the
\* Rust value is not made.
NewFails(kind) ==
  /\ Fault
  /\ \E k \in 0 .. Len(Acquires(kind)) :
       left' = left \cup (Parts(kind, k - 1) \ ReleasesOnFailure(kind, k))

\* dh_free, rsa_free after a failed generation or import.
Discarded(v, c, ctx) ==
  /\ left' = left \cup (ctx.parts \ Releases(ctx.kind))
  /\ UNCHANGED <<heap, value>>

\* DhSecret::generate, RsaPrivateKey::generate and the imports: the key is made
\* after the context.  A failed DH generation leaves the size of the whole buffer.
KeyFails(v, c, kind) ==
  /\ kind \in {"dh", "rsa"} /\ Fault
  /\ Discarded(v, c, [Fresh(kind) EXCEPT !.pubSz = IF kind = "dh" THEN KeyBuf ELSE 0])

New(v, kind) ==
  /\ v \notin DOMAIN value
  /\ \/ NewFails(kind) /\ UNCHANGED <<heap, value>>
     \/ \E c \in Context \ DOMAIN heap :
          \/ KeyFails(v, c, kind)
          \/ /\ \E sz \in (IF kind = "dh" THEN 1 .. GroupSz ELSE {0}) :
                  heap' = Put(heap, c, [Fresh(kind) EXCEPT !.pubSz = sz])
             /\ value' = Put(value, v, Owner(kind, c))
             /\ NoFault /\ UNCHANGED left
  /\ NoOut /\ UNCHANGED <<peer, lost>>

-----------------------------------------------------------------------------
(* Digests and MACs.                                                       *)

\* What a method works on: the value and its context.
Usable(v, kinds) == v \in DOMAIN value /\ value[v].ok /\ value[v].kind \in kinds
Ctx(v) == heap[value[v].ctx]

\* The value has panicked and unwinds: it is only dropped.
Panic(v) == value' = [value EXCEPT ![v].ok = FALSE]

\* update: the length is cut to 32 bits.
Cut(piece) == SubSeq(piece, 1, Len(piece) % LenModulus)
Update(v) ==
  /\ Usable(v, {"digest", "hmac", "cmac"})
  /\ \/ /\ Fault /\ Panic(v) /\ UNCHANGED heap
     \/ /\ Len(value[v].given) < MaxPieces
        /\ \E p \in Pieces :
             /\ heap' = [heap EXCEPT ![value[v].ctx].fed = @ \o Cut(p)]
             /\ value' = [value EXCEPT ![v].given = @ \o p, ![v].long = @ \/ Len(p) >= LenModulus]
        /\ NoFault
  /\ NoOut /\ UNCHANGED <<peer, left, lost>>

\* The copy starts empty.
EmptyCopy(ctx) == Fresh(ctx.kind)

CopyOf(ctx) == ctx

\* Clone: a failed copy is freed before the panic.
Clone(v, w) ==
  /\ Usable(v, {"digest"}) /\ w \notin DOMAIN value
  /\ \/ Fault /\ UNCHANGED <<heap, value>>
     \/ \E c \in Context \ DOMAIN heap :
          /\ heap' = Put(heap, c, CopyOf(Ctx(v)))
          /\ value' = Put(value, w, [value[v] EXCEPT !.ctx = c])
          /\ NoFault
  /\ NoOut /\ UNCHANGED <<peer, left, lost>>

ResultOf(v) == [kind |-> value[v].kind, data |-> Ctx(v).fed, given |-> value[v].given,
                long |-> value[v].long]

\* The pointer is not taken out of the value before the context is freed.
StillOwned(v) == UNCHANGED value

Consumed(v) == value' = Remove(value, v)

\* wc_CmacFinal may release what it has: this is not known here.
FinalReleases(v) ==
  IF value[v].kind = "cmac" THEN {{}, {"Cmac"}} ELSE {{}}

\* finalize_into takes the value: it frees the context itself, or Drop does when
\* the call has failed.
Finalize(v) ==
  /\ Usable(v, {"digest", "hmac", "cmac"})
  /\ Consumed(v)
  /\ heap' = Remove(heap, value[v].ctx)
  /\ \E done \in FinalReleases(v) :
       left' = left \cup (Ctx(v).parts \ (done \cup Releases(value[v].kind)))
  /\ \/ out' = ResultOf(v) /\ NoFault
     \/ NoOut /\ Fault
  /\ UNCHANGED <<peer, lost>>

\* wolfcrypt_sha*_reset: the part is released and initialised again.
ResetDone(ctx) == [ctx EXCEPT !.parts = AllParts(ctx.kind), !.fed = << >>]
ResetFailed(ctx) == [ctx EXCEPT !.parts = {}]

Reset(v) ==
  /\ Usable(v, {"digest"})
  /\ \/ /\ heap' = [heap EXCEPT ![value[v].ctx] = ResetDone(@)]
        /\ value' = [value EXCEPT ![v].given = << >>, ![v].long = FALSE]
        /\ NoFault
     \/ /\ heap' = [heap EXCEPT ![value[v].ctx] = ResetFailed(@)]
        /\ Panic(v) /\ Fault
  /\ NoOut /\ UNCHANGED <<peer, left, lost>>

\* finalize_into_reset: the result is given only if the reset does not panic.
FinalizeReset(v) ==
  /\ Usable(v, {"digest"})
  /\ \/ /\ heap' = [heap EXCEPT ![value[v].ctx] = ResetDone(@)]
        /\ value' = [value EXCEPT ![v].given = << >>, ![v].long = FALSE]
        /\ out' = ResultOf(v) /\ NoFault
     \/ /\ heap' \in {heap, [heap EXCEPT ![value[v].ctx] = ResetFailed(@)]}
        /\ Panic(v) /\ Fault /\ NoOut
  /\ UNCHANGED <<peer, left, lost>>

\* proc_block of triple DES: the context keeps the chain.
ProcBlock(v) ==
  /\ Usable(v, {"des3"})
  /\ \/ /\ Len(Ctx(v).fed) < MaxPieces
        /\ \E p \in Pieces :
             /\ heap' = [heap EXCEPT ![value[v].ctx].fed = Append(@, p[1])]
             /\ value' = [value EXCEPT ![v].given = Append(@, p[1])]
             /\ out' = [kind |-> "des3", data |-> Append(Ctx(v).fed, p[1]),
                        given |-> Append(value[v].given, p[1]), long |-> FALSE]
        /\ NoFault
     \/ Fault /\ Panic(v) /\ NoOut /\ UNCHANGED heap
  /\ UNCHANGED <<peer, left, lost>>

-----------------------------------------------------------------------------
(* DH and RSA keys.                                                        *)

\* The bytes written for a number of the bytes 1 .. sz: it is padded with zeros
\* on the left to the bytes of the group.
Written(sz) ==
  LET pad == IF sz < GroupSz THEN GroupSz - sz ELSE 0
  IN [i \in 1 .. pad + sz |-> IF i <= pad THEN 0 ELSE i - pad]

\* The caller's buffer has GroupSz bytes.
PublicKey(v) ==
  /\ Usable(v, {"dh"})
  /\ out' = [kind |-> "dh", sz |-> Ctx(v).pubSz, bytes |-> Written(Ctx(v).pubSz)]
  /\ NoFault /\ UNCHANGED <<heap, value, peer, left, lost>>

\* wolfcrypt_dh_agree: wc_DhAgree may refuse the peer's key.
DhAgree(v) ==
  /\ Usable(v, {"dh"})
  /\ \/ \E sz \in 1 .. GroupSz : out' = [kind |-> "dh", sz |-> sz, bytes |-> Written(sz)]
        /\ NoFault
     \/ NoOut /\ Fault
  /\ UNCHANGED <<heap, value, peer, left, lost>>

\* RsaPrivateKey::public_key: export, a new context, import; it asserts each of
\* them, and nothing owns the new context before the last one.
RsaPublicKey(v, w) ==
  /\ Usable(v, {"rsa"}) /\ w \notin DOMAIN value
  /\ \/ Fault /\ UNCHANGED <<heap, value, left, lost>>
     \/ NewFails("rsa") /\ UNCHANGED <<heap, value, lost>>
     \/ \E c \in Context \ DOMAIN heap :
          /\ heap' = Put(heap, c, Fresh("rsa")) /\ UNCHANGED left
          /\ \/ value' = Put(value, w, Owner("rsa", c)) /\ NoFault /\ UNCHANGED lost
             \/ lost' = lost \cup {c} /\ Fault /\ UNCHANGED value
  /\ NoOut /\ UNCHANGED peer

-----------------------------------------------------------------------------
(* Shared EVP_PKEYs.                                                       *)

UpRef(h, c) == IF c \in DOMAIN h THEN [h EXCEPT ![c].refs = @ + 1] ELSE h

Unref(h, c) ==
  IF c \notin DOMAIN h THEN h
  ELSE IF h[c].refs = 1 THEN Remove(h, c) ELSE [h EXCEPT ![c].refs = @ - 1]

UpRefAll(h, s) == IF s = {} THEN h ELSE UpRef(h, CHOOSE c \in s : TRUE)
UnrefAll(h, s) == IF s = {} THEN h ELSE Unref(h, CHOOSE c \in s : TRUE)

\* EVP_PKEY_up_ref by the owner of a key.
Share(v, w) ==
  /\ Usable(v, {"pkey"}) /\ w \notin DOMAIN value
  /\ heap' = UpRef(heap, value[v].ctx)
  /\ value' = Put(value, w, value[v])
  /\ NoFault /\ NoOut /\ UNCHANGED <<peer, left, lost>>

SetPeerKey(h, old, new) == UnrefAll(UpRefAll(h, new), old)

\* Set by the owner of a key, set again by who has asked for it, or cleared, as by
\* EVP_PKEY_derive_init and when the EVP_PKEY_CTX is freed.
SetPeer(new) ==
  /\ heap' = SetPeerKey(heap, peer, new)
  /\ peer' = new
  /\ NoFault /\ NoOut /\ UNCHANGED <<value, left, lost>>
SetPeerOf(v) == Usable(v, {"pkey"}) /\ SetPeer({value[v].ctx})
SetPeerAgain == peer # {} /\ SetPeer(peer)
ClearPeer == peer # {} /\ SetPeer({})

-----------------------------------------------------------------------------

\* Drop, also of a value that has panicked.
Drop(v) ==
  /\ v \in DOMAIN value
  /\ Consumed(v)
  /\ IF value[v].kind = "pkey" THEN heap' = Unref(heap, value[v].ctx) /\ UNCHANGED left
     ELSE Free(value[v].ctx)
  /\ NoFault /\ NoOut /\ UNCHANGED <<peer, lost>>

HandlesNext ==
  \/ \E v \in Value :
       \/ \E kind \in Kind : New(v, kind)
       \/ Update(v) \/ Finalize(v) \/ Reset(v) \/ FinalizeReset(v) \/ ProcBlock(v)
       \/ PublicKey(v) \/ DhAgree(v) \/ SetPeerOf(v) \/ Drop(v)
       \/ \E w \in Value : Clone(v, w) \/ RsaPublicKey(v, w) \/ Share(v, w)
  \/ SetPeerAgain \/ ClearPeer

HandlesSpec == HandlesInit /\ [][HandlesNext]_handleVars

-----------------------------------------------------------------------------

OfData == {"digest", "hmac", "cmac", "des3"}
Owners(c) == {v \in DOMAIN value : value[v].ctx = c}

\* A value has its context as long as it lives, no two values have the same one
\* unless it is a shared key, and no context is left without an owner, whichever
\* call has failed or panicked; except the context that public_key has made for
\* a public key that it could not import.  The references of a shared key are its
\* owners and the context it is the peer key of: it lives as long as one of them
\* needs it, and no longer.
ContextsAreOwned ==
  /\ \A v \in DOMAIN value :
       /\ value[v].ctx \in DOMAIN heap
       /\ heap[value[v].ctx].kind = value[v].kind
  /\ \A c \in DOMAIN heap : heap[c].kind # "pkey" =>
       Cardinality(Owners(c)) = (IF c \in lost THEN 0 ELSE 1)
  /\ peer \subseteq DOMAIN heap
  /\ \A c \in DOMAIN heap : heap[c].kind = "pkey" =>
       heap[c].refs = Cardinality(Owners(c)) + Cardinality(peer \cap {c})

\* Memory is freed only after what it holds was released, which wipes its keys; a
\* CMAC, whose free function releases nothing, is the exception.
KeysAreWiped == left \subseteq {"Cmac"}

\* Every type that holds a key is said to free it with the function of wolfCrypt
\* for it.  So no key should be left in memory that is freed, the key schedule and
\* the subkeys in a CMAC included.
EveryKeyIsWiped == left = {}

\* A digest, a MAC and a chained block are of exactly the data that the value and
\* the values it is a clone of were given since the last reset, if and only if no
\* piece was too long for the 32 bits of its length: such a piece is cut, and no
\* later piece makes up for it.  A public key and a secret of DH are in
\* the caller's buffer as a big-endian number: its bytes are the last ones, all
\* bytes before them are zero, and nothing is written behind the buffer, whatever
\* the size is that the key pair was made with.
ResultIsOfTheData ==
  /\ out.kind \in OfData => (out.data = out.given <=> ~out.long)
  /\ out.kind = "dh" =>
       out.bytes = [i \in 1 .. GroupSz |-> IF i + out.sz > GroupSz
                                           THEN i + out.sz - GroupSz ELSE 0]

\* A context that is allocated has a kind, parts of that kind and at least one
\* reference.
HandlesTypeOK ==
  /\ DOMAIN heap \subseteq Context /\ DOMAIN value \subseteq Value
  /\ \A c \in DOMAIN heap :
       /\ heap[c].kind \in Kind /\ heap[c].parts \subseteq AllParts(heap[c].kind)
       /\ heap[c].refs \in 1 .. Cardinality(Value) + 1 /\ heap[c].pubSz \in 0 .. KeyBuf
  /\ \A v \in DOMAIN value : value[v].kind \in Kind /\ value[v].ok \in BOOLEAN
  /\ Cardinality(peer) <= 1 /\ lost \subseteq Context /\ faults \in 0 .. MaxFaults
=============================================================================
