------------------------ MODULE NativeHandlesProofs -------------------------
(***************************************************************************)
(* The contexts of compat_shim.c and their owners, for any number of       *)
(* values, contexts, pieces and failures: no context is used after it was  *)
(* freed, freed twice or left without an owner (but the one of a failed    *)
(* RsaPrivateKey::public_key), what is freed was wiped (but a CMAC), and a *)
(* result is of the data its value was given.                              *)
(*                                                                         *)
(* The inductive invariant is stated for a heap h, values val, a peer key  *)
(* pr and lost contexts lo, so that the lemmas can say what the operations *)
(* on these functions do to it.                                            *)
(***************************************************************************)
EXTENDS NativeHandles, FiniteSetTheorems, SequenceTheorems, TLAPS

Kinds == {"digest", "hmac", "cmac", "des3", "dh", "rsa", "pkey"}
CtxFields == {"kind", "parts", "fed", "pubSz", "refs"}
ValueFields == {"kind", "ctx", "given", "long", "ok"}

IsContext(x) == DOMAIN x = CtxFields /\ x.kind \in Kinds /\ x.parts \subseteq AllParts(x.kind)

\* What was fed to a context is what its owner was given, or less if a piece was too long.
Fed(fed, given, long) ==
  /\ fed \in Seq(Nat) /\ given \in Seq(Nat) /\ long \in BOOLEAN
  /\ IF long THEN Len(fed) < Len(given) ELSE fed = given

\* The data in context x is what its owner r was given.
Holds(x, r) ==
  /\ r.kind \in {"digest", "hmac", "cmac"} => Fed(x.fed, r.given, r.long)
  /\ r.kind = "des3" => x.fed = r.given /\ ~r.long
  /\ r.kind = "dh" => x.pubSz \in 0 .. GroupSz

OwnersIn(val, c) == {v \in DOMAIN val : val[v].ctx = c}

HeapOK(h) == \A c \in DOMAIN h : IsContext(h[c])
ValuesOK(h, val) ==
  /\ IsFiniteSet(DOMAIN val)
  /\ \A v \in DOMAIN val : /\ DOMAIN val[v] = ValueFields /\ val[v].ctx \in DOMAIN h
                           /\ h[val[v].ctx].kind = val[v].kind /\ Holds(h[val[v].ctx], val[v])
Counted(h, val, pr, lo, c) ==
  /\ h[c].kind # "pkey" => Cardinality(OwnersIn(val, c)) = (IF c \in lo THEN 0 ELSE 1)
  /\ h[c].kind = "pkey" => h[c].refs = Cardinality(OwnersIn(val, c)) + Cardinality(pr \cap {c})
PeerOK(h, pr) ==
  /\ pr = {} \/ \E c : pr = {c}
  /\ \A c \in pr : c \in DOMAIN h /\ h[c].kind = "pkey"
LostOK(h, lo) == \A c \in lo : c \in DOMAIN h /\ h[c].kind = "rsa"

Owned(h, val, pr, lo) ==
  /\ HeapOK(h) /\ ValuesOK(h, val) /\ PeerOK(h, pr) /\ LostOK(h, lo)
  /\ \A c \in DOMAIN h : Counted(h, val, pr, lo, c)

HandlesInv == Owned(heap, value, peer, lost) /\ KeysAreWiped /\ ResultIsOfTheData

-----------------------------------------------------------------------------
(* Owners.                                                                 *)

\* The owners of a context are finitely many.
LEMMA OwnersFinite ==
  ASSUME NEW val, IsFiniteSet(DOMAIN val), NEW c
  PROVE  IsFiniteSet(OwnersIn(val, c)) /\ Cardinality(OwnersIn(val, c)) \in Nat
<1>1. OwnersIn(val, c) \in SUBSET DOMAIN val
  BY DEF OwnersIn
<1>2. IsFiniteSet(OwnersIn(val, c))
  BY <1>1, FS_Subset
<1> QED BY <1>2, FS_CardinalityType

\* A value is made.
LEMMA OwnersPut ==
  ASSUME NEW val, IsFiniteSet(DOMAIN val), NEW w, w \notin DOMAIN val, NEW r
  PROVE  LET val2 == Put(val, w, r)
         IN /\ IsFiniteSet(DOMAIN val2)
            /\ Cardinality(OwnersIn(val2, r.ctx)) = Cardinality(OwnersIn(val, r.ctx)) + 1
            /\ \A d : d # r.ctx => OwnersIn(val2, d) = OwnersIn(val, d)
<1> DEFINE val2 == Put(val, w, r)
<1>0. /\ DOMAIN val2 = DOMAIN val \cup {w} /\ val2[w] = r
      /\ \A z \in DOMAIN val : z # w => val2[z] = val[z]
  BY DEF Put
<1>1. DOMAIN val2 = DOMAIN val \cup {w} /\ val2[w] = r /\ \A z \in DOMAIN val : val2[z] = val[z]
  BY <1>0
<1> HIDE DEF val2
<1>2. OwnersIn(val2, r.ctx) = OwnersIn(val, r.ctx) \cup {w} /\ w \notin OwnersIn(val, r.ctx)
  BY <1>1 DEF OwnersIn
<1>3. \A d : d # r.ctx => OwnersIn(val2, d) = OwnersIn(val, d)
  BY <1>1 DEF OwnersIn
<1>4. IsFiniteSet(OwnersIn(val, r.ctx))
  BY OwnersFinite
<1>5. Cardinality(OwnersIn(val2, r.ctx)) = Cardinality(OwnersIn(val, r.ctx)) + 1
  BY <1>2, <1>4, FS_AddElement
<1>6. IsFiniteSet(DOMAIN val2)
  BY <1>1, FS_AddElement
<1> QED BY <1>3, <1>5, <1>6 DEF val2

\* A value is gone.
LEMMA OwnersRemove ==
  ASSUME NEW val, IsFiniteSet(DOMAIN val), NEW v \in DOMAIN val
  PROVE  LET val2 == Remove(val, v)
         IN /\ IsFiniteSet(DOMAIN val2)
            /\ Cardinality(OwnersIn(val2, val[v].ctx)) = Cardinality(OwnersIn(val, val[v].ctx)) - 1
            /\ \A d : d # val[v].ctx => OwnersIn(val2, d) = OwnersIn(val, d)
<1> DEFINE val2 == Remove(val, v)
<1>0. DOMAIN val2 = DOMAIN val \ {v} /\ \A z \in DOMAIN val : z # v => val2[z] = val[z]
  BY DEF Remove, Restrict
<1>1. DOMAIN val2 = DOMAIN val \ {v} /\ \A z \in DOMAIN val2 : val2[z] = val[z]
  BY <1>0
<1> HIDE DEF val2
<1>2. OwnersIn(val2, val[v].ctx) = OwnersIn(val, val[v].ctx) \ {v} /\ v \in OwnersIn(val, val[v].ctx)
  BY <1>1 DEF OwnersIn
<1>3. \A d : d # val[v].ctx => OwnersIn(val2, d) = OwnersIn(val, d)
  BY <1>1 DEF OwnersIn
<1>4. IsFiniteSet(OwnersIn(val, val[v].ctx))
  BY OwnersFinite
<1>5. Cardinality(OwnersIn(val2, val[v].ctx)) = Cardinality(OwnersIn(val, val[v].ctx)) - 1
  BY <1>2, <1>4, FS_RemoveElement
<1>6. IsFiniteSet(DOMAIN val2)
  BY <1>1, FS_RemoveElement
<1> QED BY <1>3, <1>5, <1>6 DEF val2

\* A context that is no shared key has one owner.
LEMMA OnlyOwner ==
  ASSUME NEW h, NEW val, NEW pr, NEW lo, Owned(h, val, pr, lo),
         NEW v \in DOMAIN val, val[v].kind # "pkey"
  PROVE  /\ \A u \in DOMAIN val : val[u].ctx = val[v].ctx => u = v
         /\ val[v].ctx \in DOMAIN h /\ val[v].ctx \notin lo /\ val[v].ctx \notin pr
<1> DEFINE c == val[v].ctx
<1>1. c \in DOMAIN h /\ h[c].kind # "pkey" /\ IsFiniteSet(DOMAIN val)
  BY DEF Owned, ValuesOK
<1>2. Cardinality(OwnersIn(val, c)) = (IF c \in lo THEN 0 ELSE 1)
  BY <1>1 DEF Owned, Counted
<1>3. IsFiniteSet(OwnersIn(val, c)) /\ v \in OwnersIn(val, c)
  BY <1>1, OwnersFinite DEF OwnersIn
<1>4. Cardinality(OwnersIn(val, c)) # 0
  BY <1>3, FS_EmptySet
<1>5. Cardinality(OwnersIn(val, c)) = 1 /\ c \notin lo
  BY <1>2, <1>4
<1>6. PICK u : OwnersIn(val, c) = {u}
  BY <1>3, <1>5, FS_Singleton
<1>7. \A w \in DOMAIN val : val[w].ctx = c => w \in OwnersIn(val, c)
  BY DEF OwnersIn
<1>8. c \notin pr
  BY <1>1 DEF Owned, PeerOK
<1> QED BY <1>1, <1>3, <1>5, <1>6, <1>7, <1>8

-----------------------------------------------------------------------------
(* What the operations on the heap and the values do to them.              *)

\* What is owned depends on the contexts that are allocated and on nothing else.
LEMMA OwnedSame ==
  ASSUME NEW h, NEW h2, NEW val, NEW pr, NEW lo, Owned(h, val, pr, lo),
         DOMAIN h2 = DOMAIN h, \A c \in DOMAIN h : h2[c] = h[c]
  PROVE  Owned(h2, val, pr, lo)
<1>1. HeapOK(h2)
  BY DEF Owned, HeapOK
<1>2. ValuesOK(h2, val)
  BY DEF Owned, ValuesOK
<1>3. PeerOK(h2, pr) /\ LostOK(h2, lo)
  BY DEF Owned, PeerOK, LostOK
<1>4. \A c \in DOMAIN h : Counted(h2, val, pr, lo, c)
  BY DEF Owned, Counted
<1> QED BY <1>1, <1>2, <1>3, <1>4 DEF Owned

\* Nothing owns a context that is not allocated.
LEMMA NoOwner ==
  ASSUME NEW h, NEW val, NEW pr, NEW lo, Owned(h, val, pr, lo), NEW c, c \notin DOMAIN h
  PROVE  OwnersIn(val, c) = {} /\ c \notin pr /\ c \notin lo
<1>1. OwnersIn(val, c) = {}
  BY DEF Owned, ValuesOK, OwnersIn
<1>2. c \notin pr /\ c \notin lo
  BY DEF Owned, PeerOK, LostOK
<1> QED BY <1>1, <1>2

\* A constructor or a copy makes a context and the value that owns it.
LEMMA OwnedNew ==
  ASSUME NEW h, NEW val, NEW pr, NEW lo, Owned(h, val, pr, lo),
         NEW c, c \notin DOMAIN h, NEW w, w \notin DOMAIN val, NEW x, NEW r,
         IsContext(x), DOMAIN r = ValueFields, r.ctx = c, r.kind = x.kind, Holds(x, r),
         x.kind = "pkey" => x.refs = 1
  PROVE  Owned(Put(h, c, x), Put(val, w, r), pr, lo)
<1> DEFINE h2 == Put(h, c, x)
           val2 == Put(val, w, r)
<1>1. DOMAIN h2 = DOMAIN h \cup {c} /\ h2[c] = x /\ \A d \in DOMAIN h : d # c => h2[d] = h[d]
  BY DEF Put
<1>2. /\ DOMAIN val2 = DOMAIN val \cup {w} /\ val2[w] = r
      /\ \A u \in DOMAIN val : u # w => val2[u] = val[u]
  BY DEF Put
<1>3. IsFiniteSet(DOMAIN val)
  BY DEF Owned, ValuesOK
<1>4. /\ IsFiniteSet(DOMAIN val2)
      /\ Cardinality(OwnersIn(val2, r.ctx)) = Cardinality(OwnersIn(val, r.ctx)) + 1
      /\ \A d : d # r.ctx => OwnersIn(val2, d) = OwnersIn(val, d)
  BY <1>3, OwnersPut
<1>5. OwnersIn(val, c) = {} /\ c \notin pr /\ c \notin lo
  BY NoOwner
<1> HIDE DEF h2, val2
<1>6. HeapOK(h2)
  BY <1>1 DEF Owned, HeapOK
<1>7. ValuesOK(h2, val2)
  <2>1. \A u \in DOMAIN val : val2[u] = val[u] /\ h2[val[u].ctx] = h[val[u].ctx]
                              /\ val[u].ctx \in DOMAIN h
    BY <1>1, <1>2 DEF Owned, ValuesOK
  <2> QED BY <2>1, <1>1, <1>2, <1>4 DEF Owned, ValuesOK
<1>8. PeerOK(h2, pr) /\ LostOK(h2, lo)
  BY <1>1, <1>5 DEF Owned, PeerOK, LostOK
<1>9. Counted(h2, val2, pr, lo, c)
  <2>1. Cardinality(OwnersIn(val, c)) = 0
    BY <1>5, FS_EmptySet
  <2>2. pr \cap {c} = {}
    BY <1>5
  <2>3. Cardinality(pr \cap {c}) = 0
    BY <2>2, FS_EmptySet
  <2>4. Cardinality(OwnersIn(val2, c)) = 1
    BY <2>1, <1>4
  <2> QED BY <2>3, <2>4, <1>1, <1>5 DEF Counted
<1>10. \A d \in DOMAIN h : Counted(h2, val2, pr, lo, d)
  BY <1>1, <1>4 DEF Owned, Counted
<1>11. \A d \in DOMAIN h2 : Counted(h2, val2, pr, lo, d)
  BY <1>1, <1>9, <1>10
<1>12. Owned(h2, val2, pr, lo)
  BY <1>6, <1>7, <1>8, <1>11 DEF Owned
<1> QED BY <1>12 DEF h2, val2

\* public_key makes a context, cannot import into it, and nothing owns it.
LEMMA OwnedLost ==
  ASSUME NEW h, NEW val, NEW pr, NEW lo, Owned(h, val, pr, lo),
         NEW c, c \notin DOMAIN h, NEW x, IsContext(x), x.kind = "rsa"
  PROVE  Owned(Put(h, c, x), val, pr, lo \cup {c})
<1> DEFINE h2 == Put(h, c, x)
<1>1. DOMAIN h2 = DOMAIN h \cup {c} /\ h2[c] = x /\ \A d \in DOMAIN h : d # c => h2[d] = h[d]
  BY DEF Put
<1>5. OwnersIn(val, c) = {} /\ c \notin pr /\ c \notin lo
  BY NoOwner
<1> HIDE DEF h2
<1>6. HeapOK(h2)
  BY <1>1 DEF Owned, HeapOK
<1>7. ValuesOK(h2, val)
  BY <1>1 DEF Owned, ValuesOK
<1>8. PeerOK(h2, pr) /\ LostOK(h2, lo \cup {c})
  BY <1>1, <1>5 DEF Owned, PeerOK, LostOK
<1>9. Counted(h2, val, pr, lo \cup {c}, c)
  BY <1>1, <1>5, FS_EmptySet DEF Counted
<1>10. \A d \in DOMAIN h : Counted(h2, val, pr, lo \cup {c}, d)
  BY <1>1 DEF Owned, Counted
<1>11. \A d \in DOMAIN h2 : Counted(h2, val, pr, lo \cup {c}, d)
  BY <1>1, <1>9, <1>10
<1>12. Owned(h2, val, pr, lo \cup {c})
  BY <1>6, <1>7, <1>8, <1>11 DEF Owned
<1> QED BY <1>12 DEF h2

\* A method changes a context that is no shared key and the value that owns it.
LEMMA OwnedStep ==
  ASSUME NEW h, NEW val, NEW pr, NEW lo, Owned(h, val, pr, lo),
         NEW v \in DOMAIN val, val[v].kind # "pkey", NEW h2, NEW val2,
         DOMAIN h2 = DOMAIN h, \A d \in DOMAIN h : d # val[v].ctx => h2[d] = h[d],
         DOMAIN val2 = DOMAIN val, \A u \in DOMAIN val : u # v => val2[u] = val[u],
         IsContext(h2[val[v].ctx]), h2[val[v].ctx].kind = h[val[v].ctx].kind,
         DOMAIN val2[v] = ValueFields, val2[v].ctx = val[v].ctx, val2[v].kind = val[v].kind,
         Holds(h2[val[v].ctx], val2[v])
  PROVE  Owned(h2, val2, pr, lo)
<1> DEFINE c == val[v].ctx
<1>1. /\ \A u \in DOMAIN val : val[u].ctx = c => u = v
      /\ c \in DOMAIN h /\ c \notin lo /\ c \notin pr
  BY OnlyOwner
<1>2. h[c].kind = val[v].kind
  BY DEF Owned, ValuesOK
<1> HIDE DEF c
<1>3. HeapOK(h2)
  BY <1>1 DEF Owned, HeapOK, c
<1>4. ValuesOK(h2, val2)
  <2>1. IsFiniteSet(DOMAIN val2)
    BY DEF Owned, ValuesOK
  <2>2. ASSUME NEW u \in DOMAIN val, u # v
        PROVE  /\ DOMAIN val2[u] = ValueFields /\ val2[u].ctx \in DOMAIN h2
               /\ h2[val2[u].ctx].kind = val2[u].kind /\ Holds(h2[val2[u].ctx], val2[u])
    <3>1. val2[u] = val[u] /\ val[u].ctx # c /\ val[u].ctx \in DOMAIN h
      BY <2>2, <1>1 DEF Owned, ValuesOK
    <3>2. h2[val[u].ctx] = h[val[u].ctx]
      BY <3>1 DEF c
    <3> QED BY <3>1, <3>2 DEF Owned, ValuesOK
  <2>3. /\ DOMAIN val2[v] = ValueFields /\ val2[v].ctx \in DOMAIN h2
        /\ h2[val2[v].ctx].kind = val2[v].kind /\ Holds(h2[val2[v].ctx], val2[v])
    BY <1>1, <1>2 DEF c
  <2> QED BY <2>1, <2>2, <2>3 DEF ValuesOK
<1>5. PeerOK(h2, pr) /\ LostOK(h2, lo)
  BY <1>1 DEF Owned, PeerOK, LostOK, c
<1>6. \A d : OwnersIn(val2, d) = OwnersIn(val, d)
  <2>1. \A u \in DOMAIN val : val2[u].ctx = val[u].ctx
    OBVIOUS
  <2> QED BY <2>1 DEF OwnersIn
<1>7. \A d \in DOMAIN h : Counted(h2, val2, pr, lo, d)
  <2>1. \A d \in DOMAIN h : Counted(h, val, pr, lo, d) /\ h2[d].kind = h[d].kind
                            /\ (h[d].kind = "pkey" => h2[d] = h[d])
    BY <1>2 DEF Owned, c
  <2> QED BY <2>1, <1>6 DEF Counted
<1> QED BY <1>3, <1>4, <1>5, <1>7 DEF Owned

\* A value that shares its context with none is dropped or finalized, and its
\* context is freed.
LEMMA OwnedFree ==
  ASSUME NEW h, NEW val, NEW pr, NEW lo, Owned(h, val, pr, lo),
         NEW v \in DOMAIN val, \A u \in DOMAIN val : val[u].ctx = val[v].ctx => u = v,
         val[v].ctx \notin pr, val[v].ctx \notin lo
  PROVE  Owned(Remove(h, val[v].ctx), Remove(val, v), pr, lo)
<1> DEFINE c == val[v].ctx
           h2 == Remove(h, c)
           val2 == Remove(val, v)
<1>1. DOMAIN h2 = DOMAIN h \ {c} /\ \A d \in DOMAIN h2 : h2[d] = h[d]
  BY DEF Remove, Restrict
<1>2. DOMAIN val2 = DOMAIN val \ {v} /\ \A u \in DOMAIN val2 : val2[u] = val[u]
  BY DEF Remove, Restrict
<1>3. IsFiniteSet(DOMAIN val)
  BY DEF Owned, ValuesOK
<1>4. IsFiniteSet(DOMAIN val2) /\ \A d : d # c => OwnersIn(val2, d) = OwnersIn(val, d)
  BY <1>3, OwnersRemove
<1>5. c \notin pr /\ c \notin lo /\ \A u \in DOMAIN val2 : val[u].ctx # c
  BY <1>2
<1> HIDE DEF h2, val2, c
<1>6. HeapOK(h2)
  BY <1>1 DEF Owned, HeapOK
<1>7. ValuesOK(h2, val2)
  <2>1. \A u \in DOMAIN val2 : /\ val2[u] = val[u] /\ val[u].ctx \in DOMAIN h2
                               /\ h2[val[u].ctx] = h[val[u].ctx]
    BY <1>1, <1>2, <1>5 DEF Owned, ValuesOK
  <2> QED BY <2>1, <1>2, <1>4 DEF Owned, ValuesOK
<1>8. PeerOK(h2, pr) /\ LostOK(h2, lo)
  BY <1>1, <1>5 DEF Owned, PeerOK, LostOK
<1>9. \A d \in DOMAIN h2 : Counted(h2, val2, pr, lo, d)
  BY <1>1, <1>4 DEF Owned, Counted
<1>10. Owned(h2, val2, pr, lo)
  BY <1>6, <1>7, <1>8, <1>9 DEF Owned
<1> QED BY <1>10 DEF h2, val2, c

\* EVP_PKEY_up_ref changes the references of one key, and nothing else.
LEMMA UpRefFacts ==
  ASSUME NEW h, NEW c \in DOMAIN h, IsContext(h[c])
  PROVE  LET h2 == UpRef(h, c)
         IN /\ DOMAIN h2 = DOMAIN h /\ \A d \in DOMAIN h : d # c => h2[d] = h[d]
            /\ IsContext(h2[c]) /\ h2[c].kind = h[c].kind /\ h2[c].refs = h[c].refs + 1
            /\ h2[c].fed = h[c].fed /\ h2[c].pubSz = h[c].pubSz
<1> DEFINE h2 == UpRef(h, c)
           x == [h[c] EXCEPT !.refs = @ + 1]
<1>1. DOMAIN h2 = DOMAIN h /\ \A d \in DOMAIN h : d # c => h2[d] = h[d]
  BY DEF UpRef
<1>2. h2[c] = x
  BY DEF UpRef
<1>3. /\ DOMAIN x = CtxFields /\ x.kind = h[c].kind /\ x.refs = h[c].refs + 1
      /\ x.fed = h[c].fed /\ x.pubSz = h[c].pubSz /\ x.parts = h[c].parts
  BY DEF IsContext, CtxFields
<1> HIDE DEF x
<1>4. IsContext(x)
  BY <1>3 DEF IsContext
<1> QED BY <1>1, <1>2, <1>3, <1>4 DEF x

\* EVP_PKEY_free does too, when it is not the last reference.
LEMMA UnrefFacts ==
  ASSUME NEW h, NEW c \in DOMAIN h, IsContext(h[c]), h[c].refs # 1
  PROVE  LET h2 == Unref(h, c)
         IN /\ DOMAIN h2 = DOMAIN h /\ \A d \in DOMAIN h : d # c => h2[d] = h[d]
            /\ IsContext(h2[c]) /\ h2[c].kind = h[c].kind /\ h2[c].refs = h[c].refs - 1
            /\ h2[c].fed = h[c].fed /\ h2[c].pubSz = h[c].pubSz
<1> DEFINE h2 == Unref(h, c)
           x == [h[c] EXCEPT !.refs = @ - 1]
<1>1. DOMAIN h2 = DOMAIN h /\ \A d \in DOMAIN h : d # c => h2[d] = h[d]
  BY DEF Unref
<1>2. h2[c] = x
  BY DEF Unref
<1>3. /\ DOMAIN x = CtxFields /\ x.kind = h[c].kind /\ x.refs = h[c].refs - 1
      /\ x.fed = h[c].fed /\ x.pubSz = h[c].pubSz /\ x.parts = h[c].parts
  BY DEF IsContext, CtxFields
<1> HIDE DEF x
<1>4. IsContext(x)
  BY <1>3 DEF IsContext
<1> QED BY <1>1, <1>2, <1>3, <1>4 DEF x

\* The references of a shared key change, and its owners and its use as the peer
\* key with them.
LEMMA OwnedRefs ==
  ASSUME NEW h, NEW val, NEW pr, NEW lo, Owned(h, val, pr, lo),
         NEW c \in DOMAIN h, h[c].kind = "pkey", NEW h2, NEW val2, NEW pr2,
         DOMAIN h2 = DOMAIN h, \A d \in DOMAIN h : d # c => h2[d] = h[d],
         IsContext(h2[c]), h2[c].kind = "pkey",
         IsFiniteSet(DOMAIN val2), \A u \in DOMAIN val2 : \E v \in DOMAIN val : val2[u] = val[v],
         \A d : d # c => OwnersIn(val2, d) = OwnersIn(val, d),
         pr2 = {} \/ (\E d : pr2 = {d}), pr2 \subseteq pr \cup {c},
         \A d : d # c => pr2 \cap {d} = pr \cap {d},
         h2[c].refs = Cardinality(OwnersIn(val2, c)) + Cardinality(pr2 \cap {c})
  PROVE  Owned(h2, val2, pr2, lo)
<1>1. HeapOK(h2)
  BY DEF Owned, HeapOK
<1>2. ValuesOK(h2, val2)
  <2>1. ASSUME NEW u \in DOMAIN val2
        PROVE  /\ DOMAIN val2[u] = ValueFields /\ val2[u].ctx \in DOMAIN h2
               /\ h2[val2[u].ctx].kind = val2[u].kind /\ Holds(h2[val2[u].ctx], val2[u])
    <3>1. PICK v \in DOMAIN val : val2[u] = val[v]
      BY <2>1
    <3>2. /\ DOMAIN val[v] = ValueFields /\ val[v].ctx \in DOMAIN h
          /\ h[val[v].ctx].kind = val[v].kind /\ Holds(h[val[v].ctx], val[v])
      BY DEF Owned, ValuesOK
    <3>3. CASE val[v].ctx = c
      BY <3>1, <3>2, <3>3 DEF Holds
    <3>4. CASE val[v].ctx # c
      BY <3>1, <3>2, <3>4
    <3> QED BY <3>3, <3>4
  <2> QED BY <2>1 DEF ValuesOK
<1>3. PeerOK(h2, pr2)
  <2>1. \A d \in pr2 : d \in DOMAIN h /\ h[d].kind = "pkey"
    BY DEF Owned, PeerOK
  <2> QED BY <2>1 DEF PeerOK
<1>4. LostOK(h2, lo)
  BY DEF Owned, LostOK
<1>5. Counted(h2, val2, pr2, lo, c)
  BY DEF Counted
<1>6. \A d \in DOMAIN h : d # c => Counted(h2, val2, pr2, lo, d)
  BY DEF Owned, Counted
<1> QED BY <1>1, <1>2, <1>3, <1>4, <1>5, <1>6 DEF Owned

\* What the references of a shared key count.
LEMMA RefsFacts ==
  ASSUME NEW h, NEW val, NEW pr, NEW lo, Owned(h, val, pr, lo),
         NEW c \in DOMAIN h, h[c].kind = "pkey"
  PROVE  /\ IsContext(h[c]) /\ c \notin lo /\ IsFiniteSet(DOMAIN val)
         /\ IsFiniteSet(OwnersIn(val, c)) /\ Cardinality(OwnersIn(val, c)) \in Nat
         /\ Cardinality(pr \cap {c}) = (IF c \in pr THEN 1 ELSE 0)
         /\ h[c].refs = Cardinality(OwnersIn(val, c)) + Cardinality(pr \cap {c})
<1>1. IsContext(h[c]) /\ c \notin lo /\ IsFiniteSet(DOMAIN val)
  BY DEF Owned, HeapOK, LostOK, ValuesOK
<1>2. IsFiniteSet(OwnersIn(val, c)) /\ Cardinality(OwnersIn(val, c)) \in Nat
  BY <1>1, OwnersFinite
<1>3. h[c].refs = Cardinality(OwnersIn(val, c)) + Cardinality(pr \cap {c})
  BY DEF Owned, Counted
<1>4. CASE c \in pr
  <2>1. pr \cap {c} = {c}
    BY <1>4
  <2>2. Cardinality(pr \cap {c}) = 1
    BY <2>1, FS_Singleton
  <2> QED BY <1>1, <1>2, <1>3, <1>4, <2>2
<1>5. CASE c \notin pr
  <2>1. pr \cap {c} = {}
    BY <1>5
  <2>2. Cardinality(pr \cap {c}) = 0
    BY <2>1, FS_EmptySet
  <2> QED BY <1>1, <1>2, <1>3, <1>5, <2>2
<1> QED BY <1>4, <1>5

\* The owner of a shared key makes another owner.
LEMMA OwnedShare ==
  ASSUME NEW h, NEW val, NEW pr, NEW lo, Owned(h, val, pr, lo),
         NEW v \in DOMAIN val, val[v].kind = "pkey", NEW w, w \notin DOMAIN val
  PROVE  Owned(UpRef(h, val[v].ctx), Put(val, w, val[v]), pr, lo)
<1> DEFINE c == val[v].ctx
           h2 == UpRef(h, c)
           val2 == Put(val, w, val[v])
<1>1. c \in DOMAIN h /\ h[c].kind = "pkey"
  BY DEF Owned, ValuesOK
<1>2. /\ IsContext(h[c]) /\ IsFiniteSet(DOMAIN val) /\ Cardinality(OwnersIn(val, c)) \in Nat
      /\ Cardinality(pr \cap {c}) = (IF c \in pr THEN 1 ELSE 0)
      /\ h[c].refs = Cardinality(OwnersIn(val, c)) + Cardinality(pr \cap {c})
  BY <1>1, RefsFacts
<1>3. /\ DOMAIN h2 = DOMAIN h /\ \A d \in DOMAIN h : d # c => h2[d] = h[d]
      /\ IsContext(h2[c]) /\ h2[c].kind = h[c].kind /\ h2[c].refs = h[c].refs + 1
  BY <1>1, <1>2, UpRefFacts
<1>4. /\ DOMAIN val2 = DOMAIN val \cup {w} /\ val2[w] = val[v]
      /\ \A u \in DOMAIN val : val2[u] = val[u]
  BY DEF Put
<1>5. /\ IsFiniteSet(DOMAIN val2)
      /\ Cardinality(OwnersIn(val2, c)) = Cardinality(OwnersIn(val, c)) + 1
      /\ \A d : d # c => OwnersIn(val2, d) = OwnersIn(val, d)
  BY <1>2, OwnersPut
<1> HIDE DEF h2, val2, c
<1>6. h2[c].refs = Cardinality(OwnersIn(val2, c)) + Cardinality(pr \cap {c})
  BY <1>2, <1>3, <1>5
<1>7. \A u \in DOMAIN val2 : \E t \in DOMAIN val : val2[u] = val[t]
  BY <1>4
<1>8. (pr = {} \/ \E d : pr = {d}) /\ pr \subseteq pr \cup {c} /\ h2[c].kind = "pkey"
  BY <1>1, <1>3 DEF Owned, PeerOK
<1>9. Owned(h2, val2, pr, lo)
  BY <1>1, <1>3, <1>5, <1>6, <1>7, <1>8, OwnedRefs, SMTT(30)
<1> QED BY <1>9 DEF h2, val2, c

\* An owner of a shared key is dropped; the last reference frees the key.
LEMMA OwnedUnshare ==
  ASSUME NEW h, NEW val, NEW pr, NEW lo, Owned(h, val, pr, lo),
         NEW v \in DOMAIN val, val[v].kind = "pkey"
  PROVE  Owned(Unref(h, val[v].ctx), Remove(val, v), pr, lo)
<1> DEFINE c == val[v].ctx
           h2 == Unref(h, c)
           val2 == Remove(val, v)
<1>1. c \in DOMAIN h /\ h[c].kind = "pkey"
  BY DEF Owned, ValuesOK
<1>2. /\ IsContext(h[c]) /\ IsFiniteSet(DOMAIN val) /\ Cardinality(OwnersIn(val, c)) \in Nat
      /\ IsFiniteSet(OwnersIn(val, c)) /\ c \notin lo
      /\ Cardinality(pr \cap {c}) = (IF c \in pr THEN 1 ELSE 0)
      /\ h[c].refs = Cardinality(OwnersIn(val, c)) + Cardinality(pr \cap {c})
  BY <1>1, RefsFacts
<1>3. CASE h[c].refs = 1
  <2>1. v \in OwnersIn(val, c)
    BY DEF OwnersIn
  <2>2. Cardinality(OwnersIn(val, c)) # 0
    BY <1>2, <2>1, FS_EmptySet
  <2>3. Cardinality(OwnersIn(val, c)) = 1 /\ c \notin pr
    BY <1>2, <1>3, <2>2
  <2>4. PICK u : OwnersIn(val, c) = {u}
    BY <1>2, <2>3, FS_Singleton
  <2>5. \A t \in DOMAIN val : val[t].ctx = c => t \in OwnersIn(val, c)
    BY DEF OwnersIn
  <2>6. \A t \in DOMAIN val : val[t].ctx = c => t = v
    BY <2>1, <2>4, <2>5
  <2>7. Owned(Remove(h, c), Remove(val, v), pr, lo)
    BY <2>3, <2>6, <1>2, OwnedFree
  <2> QED BY <2>7, <1>1, <1>3 DEF Unref
<1>4. CASE h[c].refs # 1
  <2>1. /\ DOMAIN h2 = DOMAIN h /\ \A d \in DOMAIN h : d # c => h2[d] = h[d]
        /\ IsContext(h2[c]) /\ h2[c].kind = h[c].kind /\ h2[c].refs = h[c].refs - 1
    BY <1>1, <1>2, <1>4, UnrefFacts
  <2>2. DOMAIN val2 = DOMAIN val \ {v} /\ \A u \in DOMAIN val2 : val2[u] = val[u]
    BY DEF Remove, Restrict
  <2>3. /\ IsFiniteSet(DOMAIN val2)
        /\ Cardinality(OwnersIn(val2, c)) = Cardinality(OwnersIn(val, c)) - 1
        /\ \A d : d # c => OwnersIn(val2, d) = OwnersIn(val, d)
    BY <1>2, OwnersRemove
  <2> HIDE DEF h2, val2, c
  <2>4. h2[c].refs = Cardinality(OwnersIn(val2, c)) + Cardinality(pr \cap {c})
    BY <1>2, <2>1, <2>3
  <2>5. \A u \in DOMAIN val2 : \E t \in DOMAIN val : val2[u] = val[t]
    BY <2>2
  <2>6. pr = {} \/ (\E d : pr = {d})
    BY DEF Owned, PeerOK
  <2>7. Owned(h2, val2, pr, lo)
    BY <1>1, <2>1, <2>3, <2>4, <2>5, <2>6, OwnedRefs, SMTT(30)
  <2> QED BY <2>7 DEF h2, val2, c
<1> QED BY <1>3, <1>4

\* A key becomes the peer key.
LEMMA OwnedPeer ==
  ASSUME NEW h, NEW val, NEW lo, Owned(h, val, {}, lo), NEW c \in DOMAIN h, h[c].kind = "pkey"
  PROVE  Owned(UpRef(h, c), val, {c}, lo)
<1> DEFINE h2 == UpRef(h, c)
<1>1. /\ IsContext(h[c]) /\ IsFiniteSet(DOMAIN val) /\ Cardinality(OwnersIn(val, c)) \in Nat
      /\ Cardinality({} \cap {c}) = (IF c \in {} THEN 1 ELSE 0)
      /\ h[c].refs = Cardinality(OwnersIn(val, c)) + Cardinality({} \cap {c})
  BY RefsFacts
<1>2. /\ DOMAIN h2 = DOMAIN h /\ \A d \in DOMAIN h : d # c => h2[d] = h[d]
      /\ IsContext(h2[c]) /\ h2[c].kind = h[c].kind /\ h2[c].refs = h[c].refs + 1
  BY <1>1, UpRefFacts
<1> HIDE DEF h2
<1>3. {c} \cap {c} = {c} /\ Cardinality({c}) = 1
  BY FS_Singleton
<1>4. h2[c].refs = Cardinality(OwnersIn(val, c)) + Cardinality({c} \cap {c})
  BY <1>1, <1>2, <1>3
<1>5. /\ h2[c].kind = "pkey" /\ {c} \subseteq {} \cup {c}
      /\ \A d : d # c => {c} \cap {d} = {} \cap {d}
      /\ \A u \in DOMAIN val : \E t \in DOMAIN val : val[u] = val[t]
  BY <1>2
<1>6. Owned(h2, val, {c}, lo)
  BY <1>1, <1>2, <1>4, <1>5, OwnedRefs
<1> QED BY <1>6 DEF h2

\* A key is the peer key no longer; it is freed when it has no owner.
LEMMA OwnedNoPeer ==
  ASSUME NEW h, NEW val, NEW lo, NEW c, Owned(h, val, {c}, lo)
  PROVE  Owned(Unref(h, c), val, {}, lo)
<1> DEFINE h2 == Unref(h, c)
<1>0. c \in DOMAIN h /\ h[c].kind = "pkey"
  BY DEF Owned, PeerOK
<1>1. /\ IsContext(h[c]) /\ IsFiniteSet(DOMAIN val) /\ Cardinality(OwnersIn(val, c)) \in Nat
      /\ IsFiniteSet(OwnersIn(val, c)) /\ c \notin lo
      /\ Cardinality({c} \cap {c}) = (IF c \in {c} THEN 1 ELSE 0)
      /\ h[c].refs = Cardinality(OwnersIn(val, c)) + Cardinality({c} \cap {c})
  BY <1>0, RefsFacts
<1>2. h[c].refs = Cardinality(OwnersIn(val, c)) + 1
  BY <1>1
<1>3. CASE h[c].refs = 1
  <2>1. DOMAIN h2 = DOMAIN h \ {c} /\ \A d \in DOMAIN h2 : h2[d] = h[d]
    BY <1>0, <1>3 DEF Unref, Remove, Restrict
  <2>2. Cardinality(OwnersIn(val, c)) = 0
    BY <1>1, <1>2, <1>3
  <2>3. OwnersIn(val, c) = {}
    BY <1>1, <2>2, FS_EmptySet
  <2>4. \A u \in DOMAIN val : val[u].ctx # c
    BY <2>3 DEF OwnersIn
  <2> HIDE DEF h2
  <2>5. HeapOK(h2) /\ ValuesOK(h2, val)
    BY <2>1, <2>4 DEF Owned, HeapOK, ValuesOK
  <2>6. PeerOK(h2, {}) /\ LostOK(h2, lo)
    BY <1>1, <2>1 DEF Owned, PeerOK, LostOK
  <2>7. \A d \in DOMAIN h2 : {c} \cap {d} = {} \cap {d} /\ d \in DOMAIN h
    BY <2>1
  <2>8. \A d \in DOMAIN h2 : Counted(h2, val, {}, lo, d)
    BY <2>1, <2>7 DEF Owned, Counted
  <2> QED BY <2>5, <2>6, <2>8 DEF Owned, h2
<1>4. CASE h[c].refs # 1
  <2>1. /\ DOMAIN h2 = DOMAIN h /\ \A d \in DOMAIN h : d # c => h2[d] = h[d]
        /\ IsContext(h2[c]) /\ h2[c].kind = h[c].kind /\ h2[c].refs = h[c].refs - 1
    BY <1>0, <1>1, <1>4, UnrefFacts
  <2> HIDE DEF h2
  <2>2. {} \cap {c} = {} /\ Cardinality({}) = 0
    BY FS_EmptySet
  <2>3. h2[c].refs = Cardinality(OwnersIn(val, c)) + Cardinality({} \cap {c})
    BY <1>1, <1>2, <2>1, <2>2
  <2>4. /\ h2[c].kind = "pkey" /\ {} \subseteq {c} \cup {c}
        /\ \A d : d # c => {} \cap {d} = {c} \cap {d}
        /\ \A u \in DOMAIN val : \E t \in DOMAIN val : val[u] = val[t]
    BY <1>0, <2>1
  <2>5. Owned(h2, val, {}, lo)
    BY <1>0, <1>1, <2>1, <2>3, <2>4, OwnedRefs
  <2> QED BY <2>5 DEF h2
<1> QED BY <1>3, <1>4

\* EVP_PKEY_derive_set_peer takes a reference of the new key before it gives back
\* the one of the old key, which may be the same.
LEMMA OwnedSetPeer ==
  ASSUME NEW h, NEW val, NEW pr, NEW lo, Owned(h, val, pr, lo),
         NEW new, new = {} \/ \E c \in DOMAIN h : h[c].kind = "pkey" /\ new = {c}
  PROVE  Owned(SetPeerKey(h, pr, new), val, new, lo)
<1>1. \A g, c : UpRefAll(g, {c}) = UpRef(g, c) /\ UnrefAll(g, {c}) = Unref(g, c)
  <2>1. \A c : {c} # {} /\ (CHOOSE d \in {c} : TRUE) = c
    OBVIOUS
  <2> QED BY <2>1 DEF UpRefAll, UnrefAll
<1>2. \A g : UpRefAll(g, {}) = g /\ UnrefAll(g, {}) = g
  BY DEF UpRefAll, UnrefAll
<1>3. pr = {} \/ \E d : pr = {d}
  BY DEF Owned, PeerOK
<1>4. CASE new = {} /\ pr = {}
  BY <1>2, <1>4 DEF SetPeerKey
<1>5. ASSUME NEW d, pr = {d}, new = {}
      PROVE  Owned(SetPeerKey(h, pr, new), val, new, lo)
  <2>1. SetPeerKey(h, pr, new) = Unref(h, d)
    BY <1>1, <1>2, <1>5 DEF SetPeerKey
  <2>2. Owned(Unref(h, d), val, {}, lo)
    BY <1>5, OwnedNoPeer
  <2> QED BY <1>5, <2>1, <2>2
<1>6. ASSUME NEW c \in DOMAIN h, h[c].kind = "pkey", new = {c}, pr = {}
      PROVE  Owned(SetPeerKey(h, pr, new), val, new, lo)
  <2>1. SetPeerKey(h, pr, new) = UpRef(h, c)
    BY <1>1, <1>2, <1>6 DEF SetPeerKey
  <2>2. Owned(UpRef(h, c), val, {c}, lo)
    BY <1>6, OwnedPeer
  <2> QED BY <1>6, <2>1, <2>2
<1>7. ASSUME NEW c \in DOMAIN h, h[c].kind = "pkey", new = {c}, pr = {c}
      PROVE  Owned(SetPeerKey(h, pr, new), val, new, lo)
  <2> DEFINE g == UpRef(h, c)
             h2 == Unref(g, c)
  <2>1. SetPeerKey(h, pr, new) = h2
    BY <1>1, <1>7 DEF SetPeerKey
  <2>2. /\ IsContext(h[c]) /\ IsFiniteSet(DOMAIN val) /\ Cardinality(OwnersIn(val, c)) \in Nat
        /\ Cardinality(pr \cap {c}) = (IF c \in pr THEN 1 ELSE 0)
        /\ h[c].refs = Cardinality(OwnersIn(val, c)) + Cardinality(pr \cap {c})
    BY <1>7, RefsFacts
  <2>3. /\ DOMAIN g = DOMAIN h /\ \A d \in DOMAIN h : d # c => g[d] = h[d]
        /\ IsContext(g[c]) /\ g[c].kind = h[c].kind /\ g[c].refs = h[c].refs + 1
    BY <2>2, UpRefFacts
  <2>4. h[c].refs \in Nat /\ h[c].refs >= 1
    BY <1>7, <2>2
  <2>5. g[c].refs # 1 /\ c \in DOMAIN g
    BY <2>3, <2>4
  <2> HIDE DEF g
  <2>6. /\ DOMAIN h2 = DOMAIN g /\ \A d \in DOMAIN g : d # c => h2[d] = g[d]
        /\ IsContext(h2[c]) /\ h2[c].kind = g[c].kind /\ h2[c].refs = g[c].refs - 1
    BY <2>3, <2>5, UnrefFacts
  <2> HIDE DEF h2
  <2>7. DOMAIN h2 = DOMAIN h /\ (\A d \in DOMAIN h : d # c => h2[d] = h[d]) /\ h2[c].kind = "pkey"
    BY <1>7, <2>3, <2>6
  <2>8. h2[c].refs = Cardinality(OwnersIn(val, c)) + Cardinality(pr \cap {c})
    BY <2>2, <2>3, <2>4, <2>6
  <2>9. /\ pr \subseteq pr \cup {c} /\ \A d : d # c => pr \cap {d} = pr \cap {d}
        /\ \A u \in DOMAIN val : \E t \in DOMAIN val : val[u] = val[t]
    OBVIOUS
  <2>10. Owned(h2, val, pr, lo)
    BY <1>3, <1>7, <2>2, <2>6, <2>7, <2>8, <2>9, OwnedRefs
  <2> QED BY <1>7, <2>1, <2>10
<1>8. ASSUME NEW c \in DOMAIN h, h[c].kind = "pkey", new = {c}, NEW d, pr = {d}, c # d
      PROVE  Owned(SetPeerKey(h, pr, new), val, new, lo)
  <2> DEFINE g == Unref(h, d)
             k == UpRef(g, c)
             h2 == Unref(UpRef(h, c), d)
  <2>1. SetPeerKey(h, pr, new) = h2
    BY <1>1, <1>8 DEF SetPeerKey
  <2>2. d \in DOMAIN h
    BY <1>8 DEF Owned, PeerOK
  <2>3. Owned(g, val, {}, lo)
    BY <1>8, OwnedNoPeer
  <2>4. c \in DOMAIN g /\ g[c] = h[c]
    BY <1>8, <2>2 DEF Unref, Remove, Restrict
  <2>5. Owned(k, val, {c}, lo)
    <3> HIDE DEF g
    <3> QED BY <1>8, <2>3, <2>4, OwnedPeer
  <2>6. DOMAIN h2 = DOMAIN k /\ \A e \in DOMAIN k : h2[e] = k[e]
    <3>1. CASE h[d].refs = 1
      BY <1>8, <2>2, <3>1 DEF UpRef, Unref, Remove, Restrict
    <3>2. CASE h[d].refs # 1
      BY <1>8, <2>2, <3>2 DEF UpRef, Unref
    <3> QED BY <3>1, <3>2
  <2> HIDE DEF h2, k, g
  <2>7. Owned(h2, val, {c}, lo)
    BY <2>5, <2>6, OwnedSame
  <2> QED BY <1>8, <2>1, <2>7
<1>9. CASE \E c \in DOMAIN h : h[c].kind = "pkey" /\ new = {c}
  <2>1. PICK c \in DOMAIN h : h[c].kind = "pkey" /\ new = {c}
    BY <1>9
  <2>2. CASE pr = {}
    BY <2>1, <2>2, <1>6
  <2>3. CASE pr = {c}
    BY <2>1, <2>3, <1>7
  <2>4. ASSUME NEW d, pr = {d}, c # d
        PROVE  Owned(SetPeerKey(h, pr, new), val, new, lo)
    BY <2>1, <2>4, <1>8
  <2> QED BY <1>3, <2>2, <2>3, <2>4
<1> QED BY <1>3, <1>4, <1>5, <1>9

-----------------------------------------------------------------------------
(* What is wiped.                                                          *)

\* A part of a kind is made by one of the calls of its constructor.
LEMMA PartsFacts ==
  ASSUME NEW kind, NEW n \in Int, NEW part \in Parts(kind, n)
  PROVE  \E i \in 1 .. n : part \in Acquires(kind)[i]
BY DEF Parts

\* The free function of a kind releases all its parts, but that of CMAC.
LEMMA FreeWipes ==
  ASSUME NEW kind \in Kinds
  PROVE  AllParts(kind) \ Releases(kind) \subseteq {"Cmac"}
<1> SUFFICES ASSUME NEW part \in AllParts(kind)
             PROVE  part \in Releases(kind) \/ part = "Cmac"
  OBVIOUS
<1>0. Len(Acquires(kind)) \in 1 .. 3
  BY DEF Acquires, Kinds
<1>1. PICK i \in 1 .. Len(Acquires(kind)) : part \in Acquires(kind)[i]
  BY <1>0, PartsFacts DEF AllParts
<1>2. CASE kind = "digest"
  BY <1>1, <1>2 DEF Acquires, Releases
<1>3. CASE kind = "hmac"
  BY <1>1, <1>3 DEF Acquires, Releases
<1>4. CASE kind = "cmac"
  BY <1>1, <1>4 DEF Acquires, Releases
<1>5. CASE kind = "des3"
  BY <1>1, <1>5 DEF Acquires, Releases
<1>6. CASE kind = "dh"
  BY <1>1, <1>6 DEF Acquires, Releases
<1>7. CASE kind = "rsa"
  BY <1>1, <1>7 DEF Acquires, Releases
<1>8. CASE kind = "pkey"
  BY <1>1, <1>8 DEF Acquires, Releases
<1> QED BY <1>2, <1>3, <1>4, <1>5, <1>6, <1>7, <1>8 DEF Kinds

\* A constructor that fails releases what it has made.
LEMMA FailureWipes ==
  ASSUME NEW kind \in Kinds, NEW k \in 0 .. Len(Acquires(kind))
  PROVE  Parts(kind, k - 1) \ ReleasesOnFailure(kind, k) \subseteq {"Cmac"}
<1> SUFFICES ASSUME NEW part \in Parts(kind, k - 1)
             PROVE  part \in ReleasesOnFailure(kind, k)
  OBVIOUS
<1>0. Len(Acquires(kind)) \in 1 .. 3
  BY DEF Acquires, Kinds
<1>1. PICK i \in 1 .. (k - 1) : part \in Acquires(kind)[i]
  BY <1>0, PartsFacts
<1>2. CASE kind = "digest"
  BY <1>1, <1>2 DEF Acquires, ReleasesOnFailure
<1>3. CASE kind = "hmac"
  BY <1>1, <1>3 DEF Acquires, ReleasesOnFailure
<1>4. CASE kind = "cmac"
  BY <1>1, <1>4 DEF Acquires, ReleasesOnFailure
<1>5. CASE kind = "des3"
  BY <1>1, <1>5 DEF Acquires, ReleasesOnFailure
<1>6. CASE kind = "dh"
  BY <1>1, <1>6 DEF Acquires, ReleasesOnFailure
<1>7. CASE kind = "rsa"
  BY <1>1, <1>7 DEF Acquires, ReleasesOnFailure
<1>8. CASE kind = "pkey"
  BY <1>1, <1>8 DEF Acquires, ReleasesOnFailure
<1> QED BY <1>2, <1>3, <1>4, <1>5, <1>6, <1>7, <1>8 DEF Kinds

-----------------------------------------------------------------------------
(* The actions.                                                            *)

\* The bytes of a number of the group at the end of the buffer.
Padded(sz) == [i \in 1 .. GroupSz |-> IF i + sz > GroupSz THEN i + sz - GroupSz ELSE 0]

\* A number of the group, padded, fills the buffer from its end.
LEMMA WrittenFacts ==
  ASSUME NEW sz \in 0 .. GroupSz
  PROVE  Written(sz) = Padded(sz)
<1>1. CASE sz < GroupSz
  <2>1. Written(sz) = [i \in 1 .. (GroupSz - sz) + sz |->
                         IF i <= GroupSz - sz THEN 0 ELSE i - (GroupSz - sz)]
    BY <1>1 DEF Written
  <2>2. (GroupSz - sz) + sz = GroupSz
    BY HandlesAssumption
  <2>3. \A i \in 1 .. GroupSz :
          (IF i <= GroupSz - sz THEN 0 ELSE i - (GroupSz - sz)) =
          (IF i + sz > GroupSz THEN i + sz - GroupSz ELSE 0)
    BY HandlesAssumption
  <2> QED BY <2>1, <2>2, <2>3 DEF Padded
<1>2. CASE sz = GroupSz
  <2>1. Written(sz) = [i \in 1 .. 0 + sz |-> IF i <= 0 THEN 0 ELSE i - 0]
    BY <1>2, HandlesAssumption DEF Written
  <2>2. 0 + sz = GroupSz
    BY <1>2, HandlesAssumption
  <2>3. \A i \in 1 .. GroupSz :
          (IF i <= 0 THEN 0 ELSE i - 0) =
          (IF i + sz > GroupSz THEN i + sz - GroupSz ELSE 0)
    BY <1>2, HandlesAssumption
  <2> QED BY <2>1, <2>2, <2>3 DEF Padded
<1> QED BY <1>1, <1>2, HandlesAssumption

\* A piece that is too long is cut, any other is not.
LEMMA CutFacts ==
  ASSUME NEW p \in Pieces
  PROVE  /\ p \in Seq(Nat) /\ Len(p) \in Nat /\ Cut(p) \in Seq(Nat)
         /\ IF Len(p) >= LenModulus THEN Len(Cut(p)) < Len(p) ELSE Cut(p) = p
<1> DEFINE n == Len(p) % LenModulus
<1>1. p \in Seq(Nat) /\ Len(p) \in Nat
  BY HandlesAssumption
<1>2. n \in Nat /\ n < LenModulus /\ n <= Len(p) /\ (Len(p) < LenModulus => n = Len(p))
  BY <1>1, HandlesAssumption
<1> HIDE DEF n
<1>3. SubSeq(p, 1, n) \in Seq(Nat) /\ Len(SubSeq(p, 1, n)) = n
  BY <1>1, <1>2
<1>4. SubSeq(p, 1, Len(p)) = p
  BY <1>1
<1>5. Cut(p) = SubSeq(p, 1, n)
  BY DEF Cut, n
<1>6. CASE Len(p) >= LenModulus
  BY <1>1, <1>2, <1>3, <1>5, <1>6, HandlesAssumption
<1>7. CASE Len(p) < LenModulus
  BY <1>1, <1>2, <1>3, <1>4, <1>5, <1>7, HandlesAssumption
<1> QED BY <1>1, <1>6, <1>7, HandlesAssumption

\* Nothing yet.
LEMMA FedNothing == Fed(<< >>, << >>, FALSE)
<1>1. << >> \in Seq(Nat)
  BY EmptySeq
<1> QED BY <1>1 DEF Fed

\* One more piece.
LEMMA FedStep ==
  ASSUME NEW fed, NEW given, NEW long, Fed(fed, given, long), NEW p \in Pieces
  PROVE  Fed(fed \o Cut(p), given \o p, long \/ Len(p) >= LenModulus)
<1>1. /\ p \in Seq(Nat) /\ Len(p) \in Nat /\ Cut(p) \in Seq(Nat)
      /\ IF Len(p) >= LenModulus THEN Len(Cut(p)) < Len(p) ELSE Cut(p) = p
  BY CutFacts
<1>2. /\ fed \in Seq(Nat) /\ given \in Seq(Nat) /\ long \in BOOLEAN
      /\ IF long THEN Len(fed) < Len(given) ELSE fed = given
  BY DEF Fed
<1>3. Len(fed) \in Nat /\ Len(given) \in Nat /\ Len(Cut(p)) \in Nat /\ LenModulus \in Nat
  BY <1>1, <1>2, HandlesAssumption
<1>4. /\ fed \o Cut(p) \in Seq(Nat) /\ Len(fed \o Cut(p)) = Len(fed) + Len(Cut(p))
      /\ given \o p \in Seq(Nat) /\ Len(given \o p) = Len(given) + Len(p)
  BY <1>1, <1>2
<1>5. CASE long \/ Len(p) >= LenModulus
  <2>1. Len(Cut(p)) <= Len(p) /\ Len(fed) <= Len(given)
    BY <1>1, <1>2, <1>3
  <2>2. Len(Cut(p)) < Len(p) \/ Len(fed) < Len(given)
    BY <1>1, <1>2, <1>5
  <2>3. Len(fed \o Cut(p)) < Len(given \o p)
    BY <1>1, <1>3, <1>4, <2>1, <2>2
  <2> QED BY <1>4, <1>5, <2>3 DEF Fed
<1>6. CASE ~(long \/ Len(p) >= LenModulus)
  <2>1. fed \o Cut(p) = given \o p
    BY <1>1, <1>2, <1>6
  <2> QED BY <1>4, <1>6, <2>1 DEF Fed
<1> QED BY <1>5, <1>6

\* What differs in length is not the same.
LEMMA FedMeans ==
  ASSUME NEW fed, NEW given, NEW long, Fed(fed, given, long)
  PROVE  fed = given <=> ~long
BY DEF Fed

\* A context that was just made, and its owner.
LEMMA FreshFacts ==
  ASSUME NEW kind \in Kinds, NEW c, NEW sz \in 0 .. GroupSz
  PROVE  LET x == [Fresh(kind) EXCEPT !.pubSz = sz]
             r == Owner(kind, c)
         IN /\ IsContext(x) /\ x.kind = kind /\ x.refs = 1
            /\ DOMAIN r = ValueFields /\ r.ctx = c /\ r.kind = kind /\ Holds(x, r)
<1> DEFINE x == [Fresh(kind) EXCEPT !.pubSz = sz]
           r == Owner(kind, c)
<1>1. /\ DOMAIN x = CtxFields /\ x.kind = kind /\ x.refs = 1 /\ x.fed = << >>
      /\ x.pubSz = sz /\ x.parts = AllParts(kind)
  BY DEF Fresh, CtxFields
<1>2. /\ DOMAIN r = ValueFields /\ r.ctx = c /\ r.kind = kind /\ r.given = << >>
      /\ r.long = FALSE
  BY DEF Owner, ValueFields
<1> HIDE DEF x, r
<1>3. IsContext(x) /\ Holds(x, r)
  BY <1>1, <1>2, FedNothing DEF IsContext, Holds
<1> QED BY <1>1, <1>2, <1>3 DEF x, r

\* What the invariant says of a value that a method may work on.
LEMMA UsableFacts ==
  ASSUME HandlesInv, NEW v, NEW kinds, Usable(v, kinds), kinds \subseteq Kinds
  PROVE  /\ v \in DOMAIN value /\ value[v].kind \in kinds /\ DOMAIN value[v] = ValueFields
         /\ value[v].ctx \in DOMAIN heap /\ heap[value[v].ctx].kind = value[v].kind
         /\ IsContext(heap[value[v].ctx]) /\ Holds(heap[value[v].ctx], value[v])
BY DEF HandlesInv, Owned, ValuesOK, HeapOK, Usable

\* Nothing is given to the caller.
LEMMA NoOutHolds ==
  ASSUME NoOut
  PROVE  ResultIsOfTheData'
BY DEF NoOut, Nothing, ResultIsOfTheData, OfData

\* The constructors.
LEMMA NewStep ==
  ASSUME HandlesInv, NEW v, NEW kind \in Kind, New(v, kind)
  PROVE  HandlesInv'
<1>0. kind \in Kinds
  BY HandlesAssumption DEF Kinds
<1>1. ResultIsOfTheData'
  BY NoOutHolds DEF New
<1>2. Owned(heap, value, peer, lost) /\ left \subseteq {"Cmac"}
  BY DEF HandlesInv, KeysAreWiped
<1>3. peer' = peer /\ lost' = lost
  BY DEF New
<1>4. CASE NewFails(kind) /\ UNCHANGED <<heap, value>>
  <2>1. left' \subseteq {"Cmac"}
    BY <1>0, <1>2, <1>4, FailureWipes DEF NewFails
  <2> QED BY <1>1, <1>2, <1>3, <1>4, <2>1 DEF HandlesInv, KeysAreWiped
<1>5. ASSUME NEW c \in Context \ DOMAIN heap, KeyFails(v, c, kind)
      PROVE  HandlesInv'
  <2> DEFINE x == [Fresh(kind) EXCEPT !.pubSz = IF kind = "dh" THEN KeyBuf ELSE 0]
  <2>1. x.parts = AllParts(kind) /\ x.kind = kind
    BY DEF Fresh
  <2>2. left' = left \cup (x.parts \ Releases(x.kind)) /\ UNCHANGED <<heap, value>>
    BY <1>5 DEF KeyFails, Discarded
  <2>3. left' \subseteq {"Cmac"}
    BY <1>0, <1>2, <2>1, <2>2, FreeWipes
  <2> QED BY <1>1, <1>2, <1>3, <2>2, <2>3 DEF HandlesInv, KeysAreWiped
<1>6. ASSUME NEW c \in Context \ DOMAIN heap,
             NEW sz \in (IF kind = "dh" THEN 1 .. GroupSz ELSE {0}),
             heap' = Put(heap, c, [Fresh(kind) EXCEPT !.pubSz = sz]),
             value' = Put(value, v, Owner(kind, c)), UNCHANGED left
      PROVE  HandlesInv'
  <2> DEFINE x == [Fresh(kind) EXCEPT !.pubSz = sz]
             r == Owner(kind, c)
  <2>1. sz \in 0 .. GroupSz
    BY HandlesAssumption
  <2>2. /\ IsContext(x) /\ x.kind = kind /\ x.refs = 1
        /\ DOMAIN r = ValueFields /\ r.ctx = c /\ r.kind = kind /\ Holds(x, r)
    BY <1>0, <2>1, FreshFacts
  <2>3. v \notin DOMAIN value /\ c \notin DOMAIN heap
    BY DEF New
  <2> HIDE DEF x, r
  <2>4. Owned(Put(heap, c, x), Put(value, v, r), peer, lost)
    BY <1>2, <2>2, <2>3, OwnedNew
  <2> QED BY <1>1, <1>2, <1>3, <1>6, <2>4 DEF HandlesInv, KeysAreWiped, x, r
<1> QED BY <1>4, <1>5, <1>6 DEF New

\* A method panics; it may have changed the parts of the context.
LEMMA OwnedPanic ==
  ASSUME Owned(heap, value, peer, lost), NEW v \in DOMAIN value, value[v].kind # "pkey", Panic(v),
         DOMAIN heap' = DOMAIN heap, \A d \in DOMAIN heap : d # value[v].ctx => heap'[d] = heap[d],
         IsContext(heap'[value[v].ctx]), heap'[value[v].ctx].kind = heap[value[v].ctx].kind,
         heap'[value[v].ctx].fed = heap[value[v].ctx].fed,
         heap'[value[v].ctx].pubSz = heap[value[v].ctx].pubSz
  PROVE  Owned(heap', value', peer, lost)
<1>0. DOMAIN value[v] = ValueFields /\ Holds(heap[value[v].ctx], value[v])
  BY DEF Owned, ValuesOK
<1>1. /\ DOMAIN value' = DOMAIN value /\ \A u \in DOMAIN value : u # v => value'[u] = value[u]
      /\ value'[v] = [value[v] EXCEPT !.ok = FALSE]
  BY DEF Panic
<1>2. /\ DOMAIN value'[v] = ValueFields /\ value'[v].ctx = value[v].ctx
      /\ value'[v].kind = value[v].kind /\ value'[v].given = value[v].given
      /\ value'[v].long = value[v].long
  BY <1>0, <1>1 DEF ValueFields
<1>3. Holds(heap'[value[v].ctx], value'[v])
  BY <1>0, <1>2 DEF Holds
<1>4. ASSUME NEW h2, NEW val2, h2 = heap', val2 = value'
      PROVE  Owned(h2, val2, peer, lost)
  <2>1. /\ DOMAIN h2 = DOMAIN heap /\ \A d \in DOMAIN heap : d # value[v].ctx => h2[d] = heap[d]
        /\ IsContext(h2[value[v].ctx]) /\ h2[value[v].ctx].kind = heap[value[v].ctx].kind
    BY <1>4
  <2>2. /\ DOMAIN val2 = DOMAIN value /\ \A u \in DOMAIN value : u # v => val2[u] = value[u]
        /\ DOMAIN val2[v] = ValueFields /\ val2[v].ctx = value[v].ctx
        /\ val2[v].kind = value[v].kind /\ Holds(h2[value[v].ctx], val2[v])
    BY <1>1, <1>2, <1>3, <1>4
  <2> QED BY <2>1, <2>2, OwnedStep
<1> QED BY <1>4

\* Update of a digest or a MAC.
LEMMA UpdateStep ==
  ASSUME HandlesInv, NEW v, Update(v)
  PROVE  HandlesInv'
<1> DEFINE c == value[v].ctx
<1>0. /\ v \in DOMAIN value /\ value[v].kind \in {"digest", "hmac", "cmac"}
      /\ DOMAIN value[v] = ValueFields
      /\ c \in DOMAIN heap /\ heap[c].kind = value[v].kind
      /\ IsContext(heap[c]) /\ Holds(heap[c], value[v])
  BY UsableFacts DEF Update, Kinds
<1>1. ResultIsOfTheData'
  BY NoOutHolds DEF Update
<1>2. Owned(heap, value, peer, lost) /\ KeysAreWiped'
  BY DEF HandlesInv, KeysAreWiped, Update
<1>3. peer' = peer /\ lost' = lost
  BY DEF Update
<1>4. CASE Panic(v) /\ UNCHANGED heap
  <2>1. Owned(heap', value', peer, lost)
    BY <1>0, <1>2, <1>4, OwnedPanic
  <2> QED BY <1>1, <1>2, <1>3, <2>1 DEF HandlesInv
<1>5. ASSUME NEW p \in Pieces,
             heap' = [heap EXCEPT ![value[v].ctx].fed = @ \o Cut(p)],
             value' = [value EXCEPT ![v].given = @ \o p,
                                    ![v].long = @ \/ Len(p) >= LenModulus]
      PROVE  HandlesInv'
  <2>1. /\ DOMAIN value' = DOMAIN value /\ \A u \in DOMAIN value : u # v => value'[u] = value[u]
        /\ DOMAIN heap' = DOMAIN heap /\ \A d \in DOMAIN heap : d # c => heap'[d] = heap[d]
    BY <1>0, <1>5
  <2>2. heap'[c] = [heap[c] EXCEPT !.fed = @ \o Cut(p)]
    BY <1>0, <1>5
  <2>3. value'[v] = [value[v] EXCEPT !.given = @ \o p, !.long = @ \/ Len(p) >= LenModulus]
    BY <1>0, <1>5
  <2>4. /\ DOMAIN value'[v] = ValueFields /\ value'[v].ctx = value[v].ctx
        /\ value'[v].kind = value[v].kind /\ value'[v].given = value[v].given \o p
        /\ value'[v].long = (value[v].long \/ Len(p) >= LenModulus)
    BY <1>0, <2>3 DEF ValueFields
  <2>5. /\ DOMAIN heap'[c] = CtxFields /\ heap'[c].kind = heap[c].kind
        /\ heap'[c].parts = heap[c].parts /\ heap'[c].fed = heap[c].fed \o Cut(p)
    BY <1>0, <2>2 DEF CtxFields, IsContext
  <2>6. IsContext(heap'[c])
    BY <1>0, <2>5 DEF IsContext
  <2>7. Fed(heap'[c].fed, value'[v].given, value'[v].long)
    <3>1. Fed(heap[c].fed, value[v].given, value[v].long)
      BY <1>0 DEF Holds
    <3>2. Fed(heap[c].fed \o Cut(p), value[v].given \o p, value[v].long \/ Len(p) >= LenModulus)
      BY <3>1, FedStep
    <3> QED BY <2>4, <2>5, <3>2
  <2>8. Holds(heap'[c], value'[v])
    BY <1>0, <2>4, <2>7 DEF Holds
  <2>9. Owned(heap', value', peer, lost)
    BY <1>0, <1>2, <2>1, <2>4, <2>5, <2>6, <2>8, OwnedStep
  <2> QED BY <1>1, <1>2, <1>3, <2>9 DEF HandlesInv
<1> QED BY <1>4, <1>5 DEF Update

\* A digest is cloned.
LEMMA CloneStep ==
  ASSUME HandlesInv, NEW v, NEW w, Clone(v, w)
  PROVE  HandlesInv'
<1> DEFINE x == heap[value[v].ctx]
<1>0. /\ v \in DOMAIN value /\ value[v].kind \in {"digest"} /\ DOMAIN value[v] = ValueFields
      /\ x.kind = value[v].kind /\ IsContext(x) /\ Holds(x, value[v])
  BY UsableFacts DEF Clone, Kinds
<1>1. ResultIsOfTheData'
  BY NoOutHolds DEF Clone
<1>2. Owned(heap, value, peer, lost) /\ KeysAreWiped'
  BY DEF HandlesInv, KeysAreWiped, Clone
<1>3. peer' = peer /\ lost' = lost /\ w \notin DOMAIN value
  BY DEF Clone
<1>4. CASE UNCHANGED <<heap, value>>
  BY <1>1, <1>2, <1>3, <1>4 DEF HandlesInv
<1>5. ASSUME NEW c \in Context \ DOMAIN heap, heap' = Put(heap, c, CopyOf(Ctx(v))),
             value' = Put(value, w, [value[v] EXCEPT !.ctx = c])
      PROVE  HandlesInv'
  <2> DEFINE r == [value[v] EXCEPT !.ctx = c]
  <2>1. /\ DOMAIN r = ValueFields /\ r.ctx = c /\ r.kind = value[v].kind
        /\ r.given = value[v].given /\ r.long = value[v].long
    BY <1>0 DEF ValueFields
  <2> HIDE DEF r, x
  <2>2. Holds(x, r) /\ r.kind = x.kind /\ x.kind # "pkey" /\ c \notin DOMAIN heap
    BY <1>0, <2>1 DEF Holds
  <2>3. Owned(Put(heap, c, x), Put(value, w, r), peer, lost)
    BY <1>0, <1>2, <1>3, <2>1, <2>2, OwnedNew
  <2> QED BY <1>1, <1>2, <1>3, <1>5, <2>3 DEF HandlesInv, CopyOf, Ctx, x, r
<1> QED BY <1>4, <1>5 DEF Clone

\* What is released with a context leaves nothing but a CMAC.
LEMMA FreeHolds ==
  ASSUME HandlesInv, NEW x, IsContext(x), NEW done,
         left' = left \cup (x.parts \ (done \cup Releases(x.kind)))
  PROVE  KeysAreWiped'
<1>1. x.parts \subseteq AllParts(x.kind) /\ AllParts(x.kind) \ Releases(x.kind) \subseteq {"Cmac"}
  BY FreeWipes DEF IsContext
<1> QED BY <1>1 DEF HandlesInv, KeysAreWiped

\* The result of a value is of its data, but for a piece that was too long.
LEMMA ResultHolds ==
  ASSUME NEW v, value[v].kind \in {"digest", "hmac", "cmac", "des3"},
         Holds(heap[value[v].ctx], value[v]), out' = ResultOf(v)
  PROVE  ResultIsOfTheData'
<1>1. /\ out'.kind = value[v].kind /\ out'.data = heap[value[v].ctx].fed
      /\ out'.given = value[v].given /\ out'.long = value[v].long
  BY DEF ResultOf, Ctx
<1>2. out'.data = out'.given <=> ~out'.long
  BY <1>1, FedMeans DEF Holds
<1> QED BY <1>1, <1>2 DEF ResultIsOfTheData, OfData

\* A digest or a MAC is finalized.
LEMMA FinalizeStep ==
  ASSUME HandlesInv, NEW v, Finalize(v)
  PROVE  HandlesInv'
<1> DEFINE c == value[v].ctx
<1>0. /\ v \in DOMAIN value /\ value[v].kind \in {"digest", "hmac", "cmac"}
      /\ c \in DOMAIN heap /\ heap[c].kind = value[v].kind
      /\ IsContext(heap[c]) /\ Holds(heap[c], value[v])
  BY UsableFacts DEF Finalize, Kinds
<1>1. ResultIsOfTheData'
  <2>1. CASE out' = ResultOf(v)
    BY <1>0, <2>1, ResultHolds
  <2>2. CASE NoOut
    BY <2>2, NoOutHolds
  <2> QED BY <2>1, <2>2 DEF Finalize
<1>2. KeysAreWiped'
  <2>1. PICK done : left' = left \cup (heap[c].parts \ (done \cup Releases(heap[c].kind)))
    BY <1>0 DEF Finalize, Ctx
  <2> QED BY <1>0, <2>1, FreeHolds
<1>3. Owned(heap, value, peer, lost)
  BY DEF HandlesInv
<1>4. /\ \A u \in DOMAIN value : value[u].ctx = c => u = v
      /\ c \notin lost /\ c \notin peer
  BY <1>0, <1>3, OnlyOwner
<1>5. Owned(Remove(heap, c), Remove(value, v), peer, lost)
  BY <1>0, <1>3, <1>4, OwnedFree
<1>6. heap' = Remove(heap, c) /\ value' = Remove(value, v) /\ peer' = peer /\ lost' = lost
  BY DEF Finalize, Consumed
<1> QED BY <1>1, <1>2, <1>5, <1>6 DEF HandlesInv

\* A digest starts again.
LEMMA ResetDoneHolds ==
  ASSUME Owned(heap, value, peer, lost), NEW v \in DOMAIN value, value[v].kind = "digest",
         heap' = [heap EXCEPT ![value[v].ctx] = ResetDone(@)],
         value' = [value EXCEPT ![v].given = << >>, ![v].long = FALSE]
  PROVE  Owned(heap', value', peer, lost)
<1> DEFINE c == value[v].ctx
<1>0. /\ DOMAIN value[v] = ValueFields /\ c \in DOMAIN heap /\ IsContext(heap[c])
  BY DEF Owned, ValuesOK, HeapOK
<1>1. /\ DOMAIN heap' = DOMAIN heap /\ \A d \in DOMAIN heap : d # c => heap'[d] = heap[d]
      /\ heap'[c] = ResetDone(heap[c])
  BY <1>0
<1>2. /\ DOMAIN heap'[c] = CtxFields /\ heap'[c].kind = heap[c].kind
      /\ heap'[c].parts = AllParts(heap[c].kind) /\ heap'[c].fed = << >>
  BY <1>0, <1>1 DEF ResetDone, IsContext, CtxFields
<1>3. /\ DOMAIN value' = DOMAIN value /\ \A u \in DOMAIN value : u # v => value'[u] = value[u]
      /\ value'[v] = [value[v] EXCEPT !.given = << >>, !.long = FALSE]
  BY <1>0
<1>4. /\ DOMAIN value'[v] = ValueFields /\ value'[v].ctx = c /\ value'[v].kind = value[v].kind
      /\ value'[v].given = << >> /\ value'[v].long = FALSE
  BY <1>0, <1>3 DEF ValueFields
<1>5. IsContext(heap'[c]) /\ Holds(heap'[c], value'[v])
  BY <1>0, <1>2, <1>4, FedNothing DEF IsContext, Holds
<1> HIDE DEF c
<1>6. ASSUME NEW h2, NEW val2, h2 = heap', val2 = value'
      PROVE  Owned(h2, val2, peer, lost)
  <2>1. /\ DOMAIN h2 = DOMAIN heap /\ \A d \in DOMAIN heap : d # c => h2[d] = heap[d]
        /\ IsContext(h2[c]) /\ h2[c].kind = heap[c].kind
    BY <1>1, <1>2, <1>5, <1>6
  <2>2. /\ DOMAIN val2 = DOMAIN value /\ \A u \in DOMAIN value : u # v => val2[u] = value[u]
        /\ DOMAIN val2[v] = ValueFields /\ val2[v].ctx = c
        /\ val2[v].kind = value[v].kind /\ Holds(h2[c], val2[v])
    BY <1>3, <1>4, <1>5, <1>6
  <2> QED BY <2>1, <2>2, OwnedStep DEF c
<1> QED BY <1>6

\* The initialisation of a digest has failed after its part was released.
LEMMA ResetFailedHolds ==
  ASSUME Owned(heap, value, peer, lost), NEW v \in DOMAIN value, value[v].kind = "digest",
         heap' = [heap EXCEPT ![value[v].ctx] = ResetFailed(@)] \/ heap' = heap, Panic(v)
  PROVE  Owned(heap', value', peer, lost)
<1> DEFINE c == value[v].ctx
<1>0. c \in DOMAIN heap /\ IsContext(heap[c])
  BY DEF Owned, ValuesOK, HeapOK
<1>1. CASE heap' = heap
  BY <1>0, <1>1, OwnedPanic
<1>2. CASE heap' = [heap EXCEPT ![value[v].ctx] = ResetFailed(@)]
  <2>1. /\ DOMAIN heap' = DOMAIN heap /\ \A d \in DOMAIN heap : d # c => heap'[d] = heap[d]
        /\ heap'[c] = ResetFailed(heap[c])
    BY <1>0, <1>2
  <2>2. /\ DOMAIN heap'[c] = CtxFields /\ heap'[c].kind = heap[c].kind /\ heap'[c].parts = {}
        /\ heap'[c].fed = heap[c].fed /\ heap'[c].pubSz = heap[c].pubSz
    BY <1>0, <2>1 DEF ResetFailed, IsContext, CtxFields
  <2>3. IsContext(heap'[c])
    BY <1>0, <2>2 DEF IsContext
  <2> QED BY <2>1, <2>2, <2>3, OwnedPanic
<1> QED BY <1>1, <1>2

\* A digest is reset, with or without its result.
LEMMA ResetStep ==
  ASSUME HandlesInv, NEW v, Reset(v) \/ FinalizeReset(v)
  PROVE  HandlesInv'
<1>0. Usable(v, {"digest"})
  BY DEF Reset, FinalizeReset
<1>1. v \in DOMAIN value /\ value[v].kind = "digest" /\ Holds(heap[value[v].ctx], value[v])
  BY <1>0, UsableFacts DEF Kinds
<1>2. Owned(heap, value, peer, lost) /\ KeysAreWiped'
  BY DEF HandlesInv, KeysAreWiped, Reset, FinalizeReset
<1>3. peer' = peer /\ lost' = lost
  BY DEF Reset, FinalizeReset
<1>4. ResultIsOfTheData'
  <2>1. CASE out' = ResultOf(v)
    BY <1>1, <2>1, ResultHolds
  <2>2. CASE NoOut
    BY <2>2, NoOutHolds
  <2> QED BY <2>1, <2>2 DEF Reset, FinalizeReset
<1>5. CASE /\ heap' = [heap EXCEPT ![value[v].ctx] = ResetDone(@)]
           /\ value' = [value EXCEPT ![v].given = << >>, ![v].long = FALSE]
  <2>1. Owned(heap', value', peer, lost)
    BY <1>1, <1>2, <1>5, ResetDoneHolds
  <2> QED BY <1>2, <1>3, <1>4, <2>1 DEF HandlesInv
<1>6. CASE /\ heap' = [heap EXCEPT ![value[v].ctx] = ResetFailed(@)] \/ heap' = heap
           /\ Panic(v)
  <2>1. Owned(heap', value', peer, lost)
    BY <1>1, <1>2, <1>6, ResetFailedHolds
  <2> QED BY <1>2, <1>3, <1>4, <2>1 DEF HandlesInv
<1> QED BY <1>5, <1>6 DEF Reset, FinalizeReset

\* A block of triple DES.
LEMMA ProcBlockStep ==
  ASSUME HandlesInv, NEW v, ProcBlock(v)
  PROVE  HandlesInv'
<1> DEFINE c == value[v].ctx
<1>0. /\ v \in DOMAIN value /\ value[v].kind = "des3" /\ DOMAIN value[v] = ValueFields
      /\ c \in DOMAIN heap /\ heap[c].kind = value[v].kind
      /\ IsContext(heap[c]) /\ Holds(heap[c], value[v])
  BY UsableFacts DEF ProcBlock, Kinds
<1>1. Owned(heap, value, peer, lost) /\ KeysAreWiped'
  BY DEF HandlesInv, KeysAreWiped, ProcBlock
<1>2. peer' = peer /\ lost' = lost
  BY DEF ProcBlock
<1>3. CASE Panic(v) /\ NoOut /\ UNCHANGED heap
  <2>1. Owned(heap', value', peer, lost)
    BY <1>0, <1>1, <1>3, OwnedPanic
  <2>2. ResultIsOfTheData'
    BY <1>3, NoOutHolds
  <2> QED BY <1>1, <1>2, <2>1, <2>2 DEF HandlesInv
<1>4. ASSUME NEW p \in Pieces,
             heap' = [heap EXCEPT ![value[v].ctx].fed = Append(@, p[1])],
             value' = [value EXCEPT ![v].given = Append(@, p[1])],
             out' = [kind |-> "des3", data |-> Append(Ctx(v).fed, p[1]),
                     given |-> Append(value[v].given, p[1]), long |-> FALSE]
      PROVE  HandlesInv'
  <2>1. /\ DOMAIN value' = DOMAIN value /\ \A u \in DOMAIN value : u # v => value'[u] = value[u]
        /\ DOMAIN heap' = DOMAIN heap /\ \A d \in DOMAIN heap : d # c => heap'[d] = heap[d]
    BY <1>0, <1>4
  <2>2. heap'[c] = [heap[c] EXCEPT !.fed = Append(@, p[1])]
    BY <1>0, <1>4
  <2>3. value'[v] = [value[v] EXCEPT !.given = Append(@, p[1])]
    BY <1>0, <1>4
  <2>4. /\ DOMAIN value'[v] = ValueFields /\ value'[v].ctx = value[v].ctx
        /\ value'[v].kind = value[v].kind /\ value'[v].given = Append(value[v].given, p[1])
        /\ value'[v].long = value[v].long
    BY <1>0, <2>3 DEF ValueFields
  <2>5. /\ DOMAIN heap'[c] = CtxFields /\ heap'[c].kind = heap[c].kind
        /\ heap'[c].parts = heap[c].parts /\ heap'[c].fed = Append(heap[c].fed, p[1])
    BY <1>0, <2>2 DEF CtxFields, IsContext
  <2>6. IsContext(heap'[c])
    BY <1>0, <2>5 DEF IsContext
  <2>7. heap[c].fed = value[v].given /\ ~value[v].long
    BY <1>0 DEF Holds
  <2>8. Holds(heap'[c], value'[v])
    BY <1>0, <2>4, <2>5, <2>7 DEF Holds
  <2>9. Owned(heap', value', peer, lost)
    BY <1>0, <1>1, <2>1, <2>4, <2>5, <2>6, <2>8, OwnedStep
  <2>10. ResultIsOfTheData'
    BY <1>4, <2>7 DEF ResultIsOfTheData, OfData, Ctx
  <2> QED BY <1>1, <1>2, <2>9, <2>10 DEF HandlesInv
<1> QED BY <1>3, <1>4 DEF ProcBlock

\* The public key and the secrets of DH.
LEMMA DhStep ==
  ASSUME HandlesInv, NEW v, PublicKey(v) \/ DhAgree(v)
  PROVE  HandlesInv'
<1>1. Owned(heap', value', peer', lost') /\ KeysAreWiped'
  BY DEF HandlesInv, KeysAreWiped, PublicKey, DhAgree
<1>2. CASE PublicKey(v)
  <2>1. heap[value[v].ctx].pubSz \in 0 .. GroupSz
    BY <1>2, UsableFacts DEF PublicKey, Holds, Kinds
  <2> DEFINE sz == heap[value[v].ctx].pubSz
  <2>2. out' = [kind |-> "dh", sz |-> sz, bytes |-> Padded(sz)]
    BY <1>2, <2>1, WrittenFacts DEF PublicKey, Ctx
  <2>3. ResultIsOfTheData'
    BY <2>2 DEF ResultIsOfTheData, Padded, OfData
  <2> QED BY <1>1, <2>3 DEF HandlesInv
<1>3. CASE DhAgree(v)
  <2>1. CASE NoOut
    BY <1>1, <2>1, NoOutHolds DEF HandlesInv
  <2>2. ASSUME NEW sz \in 1 .. GroupSz,
               out' = [kind |-> "dh", sz |-> sz, bytes |-> Written(sz)]
        PROVE  HandlesInv'
    <3>1. sz \in 0 .. GroupSz
      BY HandlesAssumption
    <3>2. out' = [kind |-> "dh", sz |-> sz, bytes |-> Padded(sz)]
      BY <2>2, <3>1, WrittenFacts
    <3>3. ResultIsOfTheData'
      BY <3>2 DEF ResultIsOfTheData, Padded, OfData
    <3> QED BY <1>1, <3>3 DEF HandlesInv
  <2> QED BY <1>3, <2>1, <2>2 DEF DhAgree
<1> QED BY <1>2, <1>3

\* The public key of an RSA key.
LEMMA RsaPublicKeyStep ==
  ASSUME HandlesInv, NEW v, NEW w, RsaPublicKey(v, w)
  PROVE  HandlesInv'
<1>1. ResultIsOfTheData' /\ peer' = peer /\ w \notin DOMAIN value
  BY NoOutHolds DEF RsaPublicKey
<1>2. Owned(heap, value, peer, lost) /\ KeysAreWiped /\ left \subseteq {"Cmac"}
  BY DEF HandlesInv, KeysAreWiped
<1>3. CASE UNCHANGED <<heap, value, left, lost>>
  BY <1>1, <1>2, <1>3 DEF HandlesInv, KeysAreWiped
<1>4. CASE NewFails("rsa") /\ UNCHANGED <<heap, value, lost>>
  <2>1. left' \subseteq {"Cmac"}
    BY <1>2, <1>4, FailureWipes DEF NewFails, Kinds
  <2> QED BY <1>1, <1>2, <1>4, <2>1 DEF HandlesInv, KeysAreWiped
<1>5. ASSUME NEW c \in Context \ DOMAIN heap, heap' = Put(heap, c, Fresh("rsa")), UNCHANGED left,
             \/ value' = Put(value, w, Owner("rsa", c)) /\ UNCHANGED lost
             \/ lost' = lost \cup {c} /\ UNCHANGED value
      PROVE  HandlesInv'
  <2> DEFINE x == Fresh("rsa")
             r == Owner("rsa", c)
  <2>1. /\ DOMAIN x = CtxFields /\ x.kind = "rsa" /\ x.parts = AllParts("rsa")
        /\ DOMAIN r = ValueFields /\ r.ctx = c /\ r.kind = "rsa"
    BY DEF Fresh, Owner, CtxFields, ValueFields
  <2> HIDE DEF x, r
  <2>2. IsContext(x) /\ Holds(x, r)
    BY <2>1 DEF IsContext, Holds, Kinds
  <2>3. CASE value' = Put(value, w, Owner("rsa", c)) /\ UNCHANGED lost
    <3>1. Owned(Put(heap, c, x), Put(value, w, r), peer, lost)
      BY <1>1, <1>2, <2>1, <2>2, OwnedNew
    <3> QED BY <1>1, <1>2, <1>5, <2>3, <3>1 DEF HandlesInv, KeysAreWiped, x, r
  <2>4. CASE lost' = lost \cup {c} /\ UNCHANGED value
    <3>1. Owned(Put(heap, c, x), value, peer, lost \cup {c})
      BY <1>2, <2>1, <2>2, OwnedLost
    <3> QED BY <1>1, <1>2, <1>5, <2>4, <3>1 DEF HandlesInv, KeysAreWiped, x
  <2> QED BY <1>5, <2>3, <2>4
<1> QED BY <1>3, <1>4, <1>5 DEF RsaPublicKey

\* A key is shared.
LEMMA ShareStep ==
  ASSUME HandlesInv, NEW v, NEW w, Share(v, w)
  PROVE  HandlesInv'
<1>1. ResultIsOfTheData' /\ KeysAreWiped' /\ Owned(heap, value, peer, lost)
  BY NoOutHolds DEF Share, HandlesInv, KeysAreWiped
<1>2. v \in DOMAIN value /\ value[v].kind = "pkey" /\ w \notin DOMAIN value
  BY DEF Share, Usable
<1>3. Owned(UpRef(heap, value[v].ctx), Put(value, w, value[v]), peer, lost)
  BY <1>1, <1>2, OwnedShare
<1> QED BY <1>1, <1>3 DEF Share, HandlesInv

\* The peer key is set or cleared.
LEMMA SetPeerStep ==
  ASSUME HandlesInv, NEW new, SetPeer(new),
         new = {} \/ \E c \in DOMAIN heap : heap[c].kind = "pkey" /\ new = {c}
  PROVE  HandlesInv'
<1>1. ResultIsOfTheData' /\ KeysAreWiped' /\ Owned(heap, value, peer, lost)
  BY NoOutHolds DEF SetPeer, HandlesInv, KeysAreWiped
<1>2. Owned(SetPeerKey(heap, peer, new), value, new, lost)
  BY <1>1, OwnedSetPeer
<1> QED BY <1>1, <1>2 DEF SetPeer, HandlesInv

\* A value is dropped.
LEMMA DropStep ==
  ASSUME HandlesInv, NEW v, Drop(v)
  PROVE  HandlesInv'
<1> DEFINE c == value[v].ctx
<1>1. ResultIsOfTheData' /\ Owned(heap, value, peer, lost) /\ v \in DOMAIN value
  BY NoOutHolds DEF Drop, HandlesInv
<1>2. value' = Remove(value, v) /\ peer' = peer /\ lost' = lost
  BY DEF Drop, Consumed
<1>3. CASE value[v].kind = "pkey"
  <2>1. heap' = Unref(heap, c) /\ KeysAreWiped'
    BY <1>3 DEF Drop, HandlesInv, KeysAreWiped
  <2>2. Owned(Unref(heap, c), Remove(value, v), peer, lost)
    BY <1>1, <1>3, OwnedUnshare
  <2> QED BY <1>1, <1>2, <2>1, <2>2 DEF HandlesInv
<1>4. CASE value[v].kind # "pkey"
  <2>1. /\ heap' = Remove(heap, c)
        /\ left' = left \cup (heap[c].parts \ ({} \cup Releases(heap[c].kind)))
    BY <1>4 DEF Drop, Free
  <2>2. IsContext(heap[c])
    BY <1>1 DEF Owned, ValuesOK, HeapOK
  <2>3. KeysAreWiped'
    BY <2>1, <2>2, FreeHolds
  <2>4. /\ \A u \in DOMAIN value : value[u].ctx = c => u = v
        /\ c \notin lost /\ c \notin peer
    BY <1>1, <1>4, OnlyOwner
  <2>5. Owned(Remove(heap, c), Remove(value, v), peer, lost)
    BY <1>1, <2>4, OwnedFree
  <2> QED BY <1>1, <1>2, <2>1, <2>3, <2>5 DEF HandlesInv
<1> QED BY <1>3, <1>4

-----------------------------------------------------------------------------
(* The theorems.                                                           *)

\* The inductive invariant of the contexts and their owners holds in every state,
\* whatever the program does with its values and whichever calls fail.
THEOREM HandlesHold == HandlesSpec => []HandlesInv
<1>1. HandlesInit => HandlesInv
  <2> SUFFICES ASSUME HandlesInit PROVE HandlesInv
    OBVIOUS
  <2>1. DOMAIN heap = {} /\ DOMAIN value = {} /\ IsFiniteSet({})
    BY FS_EmptySet DEF HandlesInit
  <2>2. Owned(heap, value, peer, lost)
    BY <2>1 DEF HandlesInit, Owned, HeapOK, ValuesOK, PeerOK, LostOK
  <2> QED BY <2>2 DEF HandlesInit, HandlesInv, KeysAreWiped, ResultIsOfTheData, OfData, Nothing
<1>2. HandlesInv /\ [HandlesNext]_handleVars => HandlesInv'
  <2> SUFFICES ASSUME HandlesInv, [HandlesNext]_handleVars PROVE HandlesInv'
    OBVIOUS
  <2>1. ASSUME NEW v \in Value, NEW kind \in Kind, New(v, kind) PROVE HandlesInv'
    BY <2>1, NewStep
  <2>2. ASSUME NEW v \in Value, Update(v) PROVE HandlesInv'
    BY <2>2, UpdateStep
  <2>3. ASSUME NEW v \in Value, Finalize(v) PROVE HandlesInv'
    BY <2>3, FinalizeStep
  <2>4. ASSUME NEW v \in Value, Reset(v) \/ FinalizeReset(v) PROVE HandlesInv'
    BY <2>4, ResetStep
  <2>5. ASSUME NEW v \in Value, ProcBlock(v) PROVE HandlesInv'
    BY <2>5, ProcBlockStep
  <2>6. ASSUME NEW v \in Value, PublicKey(v) \/ DhAgree(v) PROVE HandlesInv'
    BY <2>6, DhStep
  <2>7. ASSUME NEW v \in Value, SetPeerOf(v) PROVE HandlesInv'
    <3>1. value[v].ctx \in DOMAIN heap /\ heap[value[v].ctx].kind = "pkey"
      BY <2>7, UsableFacts DEF SetPeerOf, Kinds
    <3> QED BY <2>7, <3>1, SetPeerStep DEF SetPeerOf
  <2>8. ASSUME NEW v \in Value, Drop(v) PROVE HandlesInv'
    BY <2>8, DropStep
  <2>9. ASSUME NEW v \in Value, NEW w \in Value, Clone(v, w) PROVE HandlesInv'
    BY <2>9, CloneStep
  <2>10. ASSUME NEW v \in Value, NEW w \in Value, RsaPublicKey(v, w) PROVE HandlesInv'
    BY <2>10, RsaPublicKeyStep
  <2>11. ASSUME NEW v \in Value, NEW w \in Value, Share(v, w) PROVE HandlesInv'
    BY <2>11, ShareStep
  <2>12. CASE SetPeerAgain
    <3>1. peer = {} \/ \E c \in DOMAIN heap : heap[c].kind = "pkey" /\ peer = {c}
      BY DEF HandlesInv, Owned, PeerOK
    <3> QED BY <2>12, <3>1, SetPeerStep DEF SetPeerAgain
  <2>13. CASE ClearPeer
    BY <2>13, SetPeerStep DEF ClearPeer
  <2>14. CASE UNCHANGED handleVars
    BY <2>14 DEF handleVars, HandlesInv, KeysAreWiped, ResultIsOfTheData, OfData
  <2> QED BY <2>1, <2>2, <2>3, <2>4, <2>5, <2>6, <2>7, <2>8, <2>9, <2>10, <2>11, <2>12, <2>13,
             <2>14 DEF HandlesNext
<1> QED BY <1>1, <1>2, PTL DEF HandlesSpec

\* Every value has its context while it lives, no context that is not a shared key
\* has two owners, none is leaked but the one of a failed public_key, and the
\* references of a shared EVP_PKEY are exactly its owners and its use as a peer key.
THEOREM ContextsHold == HandlesSpec => []ContextsAreOwned
<1>1. HandlesInv => ContextsAreOwned
  <2> SUFFICES ASSUME HandlesInv PROVE ContextsAreOwned
    OBVIOUS
  <2>1. \A c : Owners(c) = OwnersIn(value, c)
    BY DEF Owners, OwnersIn
  <2>2. \A v \in DOMAIN value :
          value[v].ctx \in DOMAIN heap /\ heap[value[v].ctx].kind = value[v].kind
    BY DEF HandlesInv, Owned, ValuesOK
  <2>3. peer \subseteq DOMAIN heap
    BY DEF HandlesInv, Owned, PeerOK
  <2>4. \A c \in DOMAIN heap : Counted(heap, value, peer, lost, c)
    BY DEF HandlesInv, Owned
  <2> QED BY <2>1, <2>2, <2>3, <2>4 DEF ContextsAreOwned, Counted
<1> QED BY <1>1, HandlesHold, PTL

\* No memory is freed with a part that was not released, and so wiped, in a free
\* function or in a constructor that fails; a CMAC is the exception.
THEOREM WipesHold == HandlesSpec => []KeysAreWiped
<1>1. HandlesInv => KeysAreWiped
  BY DEF HandlesInv
<1> QED BY <1>1, HandlesHold, PTL

\* A digest, a MAC and a chained block are of the data that the value was given,
\* for pieces of any length below 2^32, and a DH number fills the caller's buffer.
THEOREM ResultsHold == HandlesSpec => []ResultIsOfTheData
<1>1. HandlesInv => ResultIsOfTheData
  BY DEF HandlesInv
<1> QED BY <1>1, HandlesHold, PTL
=============================================================================
