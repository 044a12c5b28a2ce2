-------------------------- MODULE HsmClientProofs --------------------------
(***************************************************************************)
(* Proofs about HsmClient: the registry of crypto callbacks, the shims and *)
(* the keys.                                                               *)
(***************************************************************************)
EXTENDS HsmClient, SequenceTheorems, WellFoundedInduction, TLAPS

-----------------------------------------------------------------------------
(* The registry of CryptoCb.                                               *)

\* The types that the argument needs.
CbTypes ==
  /\ REGISTERED \in BOOLEAN
  /\ cbAt \in [CbClient -> Place]
  /\ exists \subseteq CbClient

\* The flag is taken exactly while a client registers, holds a guard or drops
\* one, it is one client that does, and this client is not dropped.
FlagIsALock ==
  /\ \A c \in CbClient : cbAt[c] # "idle" => REGISTERED /\ c \in exists
  /\ \A c, d \in CbClient : cbAt[c] # "idle" /\ cbAt[d] # "idle" => c = d
  /\ REGISTERED => \E c \in CbClient : cbAt[c] # "idle"

\* The device is in the table exactly while there is a guard, with its client;
\* every other entry has a box that is not freed.
EntriesAreOwned ==
  /\ \A c \in CbClient : cbAt[c] = "guard" => DEV_ID \in DOMAIN table /\ table[DEV_ID] = c
  /\ DEV_ID \in DOMAIN table => \E c \in CbClient : cbAt[c] = "guard"
  /\ \A d \in DOMAIN table : d # DEV_ID => table[d] \in boxes

CbInv == CbTypes /\ FlagIsALock /\ EntriesAreOwned

\* Before the first call nobody is registered.
LEMMA CbInvInit == CbInit => CbInv
BY DEF CbInit, CbInv, CbTypes, FlagIsALock, EntriesAreOwned, Place

\* Every step on the registry keeps the invariant, whatever the threads of the
\* other clients are doing: register_cryptocb, the drop of a guard or of a
\* client, register_device and unregister_device.
LEMMA CbInvStep == CbInv /\ CbNext => CbInv'
<1> SUFFICES ASSUME CbInv, CbNext PROVE CbInv'
  OBVIOUS
<1> USE DEF CbInv, CbTypes, FlagIsALock, EntriesAreOwned, Place, CbGoto, Borrowed
<1>1. ASSUME NEW c \in CbClient, Claim(c) PROVE CbInv'
  <2>1. CASE ~REGISTERED /\ REGISTERED' = TRUE /\ CbGoto(c, "claimed")
    <3>1. \A d \in CbClient : cbAt[d] = "idle" /\ (d # c => cbAt'[d] = "idle")
      BY <2>1
    <3>2. cbAt' \in [CbClient -> Place] /\ cbAt'[c] = "claimed"
      BY <2>1
    <3> QED BY <1>1, <2>1, <3>1, <3>2 DEF Claim
  <2>2. CASE UNCHANGED <<REGISTERED, cbAt>>
    BY <1>1, <2>2 DEF Claim
  <2> QED BY <1>1, <2>1, <2>2 DEF Claim
<1>2. ASSUME NEW c \in CbClient, RegisterDevice(c) PROVE CbInv'
  BY <1>2 DEF RegisterDevice, Registered
<1>3. ASSUME NEW c \in CbClient, ReleaseClaim(c) PROVE CbInv'
  BY <1>3 DEF ReleaseClaim
<1>4. ASSUME NEW c \in CbClient, DropGuard(c) PROVE CbInv'
  BY <1>4 DEF DropGuard, Undo, DropOrder, Unregistered
<1>5. ASSUME NEW c \in CbClient, DropRest(c) PROVE CbInv'
  BY <1>5 DEF DropRest, Undo, DropOrder
<1>6. ASSUME NEW c \in CbClient, DropClient(c) PROVE CbInv'
  BY <1>6 DEF DropClient
<1>7. ASSUME NEW d \in Device, register_device(d) PROVE CbInv'
  BY <1>7, CbAssumption DEF register_device, KeepsBox, Registered
<1>8. ASSUME NEW d \in Device, unregister_device(d) PROVE CbInv'
  BY <1>8, CbAssumption DEF unregister_device, Unregistered
<1> QED BY <1>1, <1>2, <1>3, <1>4, <1>5, <1>6, <1>7, <1>8 DEF CbNext

\* The key operations of a client leave the registry alone.
LEMMA CbInvStutter == CbInv /\ UNCHANGED cbVars => CbInv'
BY DEF CbInv, CbTypes, FlagIsALock, EntriesAreOwned, cbVars

\* RegistryIsConsistent is what remains of the invariant for the reader.
LEMMA CbInvMeans == CbInv => RegistryIsConsistent
BY DEF CbInv, FlagIsALock, EntriesAreOwned, RegistryIsConsistent, Borrowed

\* While a guard lives (wolfhsm/src/cryptocb.rs) its own client is in the table of
\* wolfCrypt, no entry points to a client that was dropped or to a box that was
\* freed, and no finished registration keeps the flag: for any number of clients
\* and threads, of other devices and of entries in the table.
THEOREM RegistryHolds == ClientSpec => []RegistryIsConsistent
<1>1. ClientInit => CbInv
  BY CbInvInit DEF ClientInit
<1>2. CbInv /\ [ClientNext]_clientVars => CbInv'
  <2> SUFFICES ASSUME CbInv, [ClientNext]_clientVars PROVE CbInv'
    OBVIOUS
  <2>1. CASE CbNext
    BY <2>1, CbInvStep
  <2>2. CASE UNCHANGED cbVars
    BY <2>2, CbInvStutter
  <2> QED BY <2>1, <2>2 DEF ClientNext, clientVars
<1> QED BY <1>1, <1>2, CbInvMeans, PTL DEF ClientSpec

-----------------------------------------------------------------------------
(* Induction.                                                              *)

\* Less-than on the numbers, as a set of pairs.
Less == {ss \in Nat \X Nat : ss[1] < ss[2]}

\* Induction on the numbers, stated with a set.
LEMMA NatSetInduction ==
  ASSUME NEW S, 0 \in S, \A n \in Nat : n \in S => n + 1 \in S
  PROVE  Nat \subseteq S
<1> DEFINE T == Nat \ S
<1>1. SUFFICES ASSUME T # {} PROVE FALSE
  OBVIOUS
<1>2. IsWellFoundedOn(Less, Nat)
  BY NatLessThanWellFounded, Zenon DEF OpToRel, Less
<1>3. PICK x \in T : \A y \in T : <<y, x>> \notin Less
  <2>1. T \subseteq Nat
    OBVIOUS
  <2> HIDE DEF T
  <2> QED BY <1>1, <1>2, <2>1, WFMin, Zenon
<1>4. x \in Nat /\ x # 0 /\ x - 1 \in Nat
  BY <1>3
<1>5. <<x - 1, x>> \in Less
  BY <1>4 DEF Less
<1>6. x - 1 \in S
  BY <1>3, <1>4, <1>5
<1> QED BY <1>3, <1>4, <1>6

-----------------------------------------------------------------------------
(* The shims of HsmShims.                                                  *)

\* g is the run of the shim up to statement n.
Upto(g, n, shim, fails, reply) ==
  g = [i \in 0 .. n |-> IF i = 0 THEN Entered
                        ELSE Statement(g[i - 1], shim[i], i = fails, reply)]

\* There is such a run, so that Trace is one: by induction on its length.
LEMMA TraceIsDefined ==
  ASSUME NEW shim, Len(shim) \in Nat, NEW fails, NEW reply
  PROVE  Upto(Trace(shim, fails, reply), Len(shim), shim, fails, reply)
<1> DEFINE S == {n \in Nat : \E g : Upto(g, n, shim, fails, reply)}
<1>1. 0 \in S
  <2> DEFINE g == [i \in 0 .. 0 |-> Entered]
  <2>1. Upto(g, 0, shim, fails, reply)
    BY DEF Upto
  <2> QED BY <2>1
<1>2. ASSUME NEW n \in Nat, n \in S PROVE n + 1 \in S
  <2>1. PICK g : Upto(g, n, shim, fails, reply)
    BY <1>2
  <2> DEFINE h == [i \in 0 .. n + 1 |->
                    IF i = n + 1 THEN Statement(g[n], shim[n + 1], n + 1 = fails, reply)
                    ELSE g[i]]
  <2>2. h = [i \in 0 .. n + 1 |-> IF i = 0 THEN Entered
                        ELSE Statement(h[i - 1], shim[i], i = fails, reply)]
    <3> SUFFICES ASSUME NEW i \in 0 .. n + 1
        PROVE h[i] = IF i = 0 THEN Entered ELSE Statement(h[i - 1], shim[i], i = fails, reply)
      BY Zenon
    <3>1. CASE i = n + 1
      <4>1. n \in 0 .. n + 1 /\ n # n + 1 /\ i - 1 = n /\ i # 0
        BY <3>1
      <4>2. h[n] = g[n]
        BY <4>1
      <4> QED BY <3>1, <4>1, <4>2
    <3>2. CASE i \in 0 .. n
      <4>1. h[i] = g[i]
        BY <3>2
      <4>2. g[i] = IF i = 0 THEN Entered ELSE Statement(g[i - 1], shim[i], i = fails, reply)
        BY <2>1, <3>2, Zenon DEF Upto
      <4>3. i # 0 => h[i - 1] = g[i - 1]
        BY <3>2
      <4> HIDE DEF h
      <4> QED BY <4>1, <4>2, <4>3
    <3> QED BY <3>1, <3>2
  <2>3. Upto(h, n + 1, shim, fails, reply)
    BY <2>2, Zenon DEF Upto
  <2> HIDE DEF h
  <2> QED BY <2>3
<1>3. Nat \subseteq S
  <2> HIDE DEF S
  <2> QED BY <1>1, <1>2, NatSetInduction
<1>4. PICK g : Upto(g, Len(shim), shim, fails, reply)
  BY <1>3
<1> QED BY <1>4, Zenon DEF Upto, Trace

\* The types of a statement and of a run.
RcName == {"ok", "local_error", "comm_error", "wh_error", "not_found"}
StructName == {ByValue, "key", "priv", "pub", "sha"}
OpName == {"init", "refuse", "setid", "local", "request", "out", "free"}
RunState == [rc : RcName, returned : BOOLEAN, live : SUBSET StructName,
             ids : SUBSET StructName, asked : BOOLEAN, keyed : BOOLEAN, wrote : BOOLEAN]
Statements == [op : OpName, struct : StructName, frees : SUBSET StructName]

\* A run that gets another value in one of its fields.
LEMMA RunFields ==
  ASSUME NEW f \in RunState
  PROVE  /\ \A x \in RcName : [f EXCEPT !.rc = x] \in RunState
         /\ \A x \in SUBSET StructName : /\ [f EXCEPT !.live = x] \in RunState
                                     /\ [f EXCEPT !.ids = x] \in RunState
         /\ \A x \in BOOLEAN : /\ [f EXCEPT !.returned = x] \in RunState
                               /\ [f EXCEPT !.asked = x] \in RunState
                               /\ [f EXCEPT !.keyed = x] \in RunState
                               /\ [f EXCEPT !.wrote = x] \in RunState
<1>1. ASSUME NEW x \in RcName PROVE [f EXCEPT !.rc = x] \in RunState
  BY DEF RunState
<1>2. ASSUME NEW x \in SUBSET StructName PROVE [f EXCEPT !.live = x] \in RunState
  BY DEF RunState
<1>3. ASSUME NEW x \in SUBSET StructName PROVE [f EXCEPT !.ids = x] \in RunState
  BY DEF RunState
<1>4. ASSUME NEW x \in BOOLEAN PROVE [f EXCEPT !.returned = x] \in RunState
  BY DEF RunState
<1>5. ASSUME NEW x \in BOOLEAN PROVE [f EXCEPT !.asked = x] \in RunState
  BY DEF RunState
<1>6. ASSUME NEW x \in BOOLEAN PROVE [f EXCEPT !.keyed = x] \in RunState
  BY DEF RunState
<1>7. ASSUME NEW x \in BOOLEAN PROVE [f EXCEPT !.wrote = x] \in RunState
  BY DEF RunState
<1> QED BY <1>1, <1>2, <1>3, <1>4, <1>5, <1>6, <1>7

\* The types are kept.
LEMMA ExecutedTypes ==
  ASSUME NEW f \in RunState, NEW s \in Statements, NEW bad \in BOOLEAN, NEW reply \in RcName
  PROVE  Executed(f, s, bad, reply) \in RunState
<1>0. /\ f.live \in SUBSET StructName /\ f.ids \in SUBSET StructName
      /\ s.struct \in StructName /\ s.frees \in SUBSET StructName
  BY DEF RunState, Statements
<1>9. "local_error" \in RcName
  BY DEF RcName
<1>1. [f EXCEPT !.rc = "local_error", !.returned = TRUE, !.live = @ \ s.frees] \in RunState
  <2>1. [f EXCEPT !.rc = "local_error"] \in RunState
    BY <1>9, RunFields, Zenon
  <2>2. [[f EXCEPT !.rc = "local_error"] EXCEPT !.returned = TRUE] \in RunState
    BY <2>1, RunFields
  <2> QED BY <1>0, <2>2, RunFields
<1>2. [f EXCEPT !.live = @ \cup {s.struct}] \in RunState
  BY <1>0, RunFields
<1>3. [f EXCEPT !.ids = @ \cup {s.struct}] \in RunState
  BY <1>0, RunFields
<1>4. [f EXCEPT !.rc = "local_error"] \in RunState
  BY <1>9, RunFields, Zenon
<1>5. [f EXCEPT !.asked = TRUE, !.rc = reply, !.keyed = s.struct \in f.ids] \in RunState
  <2>1. [f EXCEPT !.asked = TRUE] \in RunState
    BY RunFields
  <2>2. [[f EXCEPT !.asked = TRUE] EXCEPT !.rc = reply] \in RunState
    BY <2>1, RunFields
  <2>3. (s.struct \in f.ids) \in BOOLEAN
    OBVIOUS
  <2> QED BY <2>2, <2>3, RunFields, Zenon
<1>6. [f EXCEPT !.wrote = TRUE] \in RunState
  BY RunFields
<1> QED BY <1>1, <1>2, <1>3, <1>4, <1>5, <1>6, Zenon DEF Executed
\* What a statement initialises and frees.
LEMMA ExecutedLive ==
  ASSUME NEW f \in RunState, NEW s \in Statements, NEW bad \in BOOLEAN, NEW reply \in RcName
  PROVE  /\ Executed(f, s, bad, reply).live =
              IF s.op \in {"init", "refuse"} /\ bad THEN f.live \ s.frees
              ELSE IF s.op = "init" THEN f.live \cup {s.struct} ELSE f.live
         /\ Executed(f, s, bad, reply).returned
              = IF s.op \in {"init", "refuse"} /\ bad THEN TRUE ELSE f.returned
<1>1. Executed(f, s, bad, reply).live =
              IF s.op \in {"init", "refuse"} /\ bad THEN f.live \ s.frees
              ELSE IF s.op = "init" THEN f.live \cup {s.struct} ELSE f.live
  BY DEF Executed, RunState, Statements
<1>2. Executed(f, s, bad, reply).returned
              = IF s.op \in {"init", "refuse"} /\ bad THEN TRUE ELSE f.returned
  BY DEF Executed, RunState, Statements
<1> QED BY <1>1, <1>2
\* The types are kept.
LEMMA StatementTypes ==
  ASSUME NEW f \in RunState, NEW s \in Statements, NEW bad \in BOOLEAN, NEW reply \in RcName
  PROVE  Statement(f, s, bad, reply) \in RunState
<1>1. [f EXCEPT !.live = @ \ {s.struct}] \in RunState
  <2>1. f.live \ {s.struct} \in SUBSET StructName
    BY DEF RunState
  <2> QED BY <2>1, RunFields
<1> QED BY <1>1, ExecutedTypes, Zenon DEF Statement

\* If the run held at most H, it holds at most G after a statement that frees
\* what is in H and not in G, and after a return it holds nothing.
LEMMA StatementOwns ==
  ASSUME NEW f \in RunState, NEW s \in Statements, NEW bad \in BOOLEAN, NEW reply \in RcName,
         NEW H, NEW G,
         f.returned => f.live = {}, f.live \subseteq H,
         s.op \in {"init", "refuse"} => H \subseteq s.frees,
         H \subseteq G \cup (IF s.op = "free" THEN {s.struct} ELSE {}),
         s.op = "init" => s.struct \in G
  PROVE  /\ Statement(f, s, bad, reply).live \subseteq G
         /\ Statement(f, s, bad, reply).returned => Statement(f, s, bad, reply).live = {}
<1> DEFINE e == Executed(f, s, bad, reply)
<1> DEFINE g == [f EXCEPT !.live = @ \ {s.struct}]
<1>1. CASE f.returned
  BY <1>1 DEF Statement
<1>2. CASE ~f.returned /\ s.op = "free"
  <2>1. g.live = f.live \ {s.struct} /\ g.returned = f.returned
    BY DEF RunState
  <2>2. Statement(f, s, bad, reply) = g
    BY <1>2 DEF Statement
  <2> HIDE DEF g
  <2> QED BY <1>2, <2>1, <2>2
<1>3. CASE ~f.returned /\ s.op # "free" /\ f.rc # "ok"
  <2>1. Statement(f, s, bad, reply) = f
    BY <1>3 DEF Statement
  <2> QED BY <1>3, <2>1
<1>4. CASE ~f.returned /\ s.op # "free" /\ f.rc = "ok"
  <2>1. Statement(f, s, bad, reply) = e
    BY <1>4 DEF Statement
  <2>2. /\ e.live = IF s.op \in {"init", "refuse"} /\ bad THEN f.live \ s.frees
                    ELSE IF s.op = "init" THEN f.live \cup {s.struct} ELSE f.live
        /\ e.returned = IF s.op \in {"init", "refuse"} /\ bad THEN TRUE ELSE f.returned
    BY ExecutedLive
  <2> HIDE DEF e
  <2> QED BY <1>4, <2>1, <2>2
<1> QED BY <1>1, <1>2, <1>3, <1>4

\* The structs that some statement up to i initialises and none frees after it.
Held(shim, i) ==
  {shim[j].struct :
     j \in {j \in 1 .. i :
             /\ shim[j].op = "init"
             /\ \A k \in j .. i : ~(shim[k].op = "free" /\ shim[k].struct = shim[j].struct)}}

\* The discipline of the shims: what a statement initialises is freed at the end,
\* and by every statement in between that may return.
FreesWhatItInits(shim) ==
  \A j \in 1 .. Len(shim) : shim[j].op = "init" =>
    /\ \E k \in j .. Len(shim) : shim[k].op = "free" /\ shim[k].struct = shim[j].struct
    /\ \A i \in j + 1 .. Len(shim) : shim[i].op \in {"init", "refuse"} =>
         shim[j].struct \in shim[i].frees


\* The statements in order: what is initialised when statement n is done is held
\* there, and nothing is once the shim has returned.
LEMMA RunFrees ==
  ASSUME NEW shim \in Seq(Statements), FreesWhatItInits(shim), NEW fails, NEW reply \in RcName
  PROVE  Run(shim, fails, reply) \in RunState /\ Run(shim, fails, reply).live = {}
<1> DEFINE t == Trace(shim, fails, reply)
           Owns(n) == /\ t[n] \in RunState
                      /\ t[n].returned => t[n].live = {}
                      /\ t[n].live \subseteq Held(shim, n)
           S == {n \in Nat : n <= Len(shim) => Owns(n)}
<1>1. Len(shim) \in Nat
  OBVIOUS
<1>2. /\ t[0] = Entered
      /\ \A n \in Nat : n + 1 <= Len(shim) =>
           t[n + 1] = Statement(t[n], shim[n + 1], n + 1 = fails, reply)
  <2>1. Upto(t, Len(shim), shim, fails, reply)
    BY <1>1, TraceIsDefined
  <2> HIDE DEF t
  <2> QED BY <1>1, <2>1 DEF Upto
<1>3. 0 \in S
  <2>1. Entered \in RunState
    BY DEF Entered, RunState, RcName, StructName, ByValue
  <2>2. Entered.live = {} /\ Entered.returned = FALSE
    BY DEF Entered
  <2> HIDE DEF t
  <2> QED BY <1>2, <2>1, <2>2
<1>4. ASSUME NEW n \in Nat, n \in S PROVE n + 1 \in S
  <2> SUFFICES ASSUME n + 1 <= Len(shim) PROVE Owns(n + 1)
    OBVIOUS
  <2> DEFINE f == t[n]
             s == shim[n + 1]
  <2>1. Owns(n)
    BY <1>1, <1>4
  <2>2. s \in Statements /\ (n + 1 = fails) \in BOOLEAN
    BY <1>1
  <2>3. s.op \in {"init", "refuse"} => Held(shim, n) \subseteq s.frees
    BY <1>1 DEF FreesWhatItInits, Held
  <2>4. Held(shim, n) \subseteq Held(shim, n + 1) \cup (IF s.op = "free" THEN {s.struct} ELSE {})
    BY <1>1 DEF Held
  <2>5. s.op = "init" => s.struct \in Held(shim, n + 1)
    BY <1>1 DEF Held
  <2>6. t[n + 1] = Statement(f, s, n + 1 = fails, reply)
    BY <1>1, <1>2
  <2> HIDE DEF t, s
  <2>7. t[n + 1] \in RunState
    BY <2>1, <2>2, <2>6, StatementTypes
  <2>8. /\ Statement(f, s, n + 1 = fails, reply).live \subseteq Held(shim, n + 1)
        /\ Statement(f, s, n + 1 = fails, reply).returned
             => Statement(f, s, n + 1 = fails, reply).live = {}
    <3> HIDE DEF f
    <3>1. f \in RunState /\ (f.returned => f.live = {}) /\ f.live \subseteq Held(shim, n)
      BY <2>1 DEF f
    <3> QED BY <2>2, <2>3, <2>4, <2>5, <3>1, StatementOwns
  <2> QED BY <2>6, <2>7, <2>8
<1>5. Owns(Len(shim))
  <2>1. Nat \subseteq S
    <3> HIDE DEF S
    <3> QED BY <1>3, <1>4, NatSetInduction
  <2> QED BY <1>1, <2>1
<1>6. Held(shim, Len(shim)) = {}
  BY <1>1 DEF Held, FreesWhatItInits
<1> QED BY <1>5, <1>6 DEF Run

\* The statements that the shims are made of.
LEMMA StatementConstructors ==
  /\ \A s \in StructName, x \in SUBSET StructName : InitStruct(s, x) \in Statements
  /\ \A x \in SUBSET StructName : Refuse(x) \in Statements
  /\ \A s \in StructName : SetKeyId(s) \in Statements /\ ShimRequest(s) \in Statements /\ Free(s) \in Statements
  /\ Local \in Statements /\ Out \in Statements
BY DEF InitStruct, Refuse, SetKeyId, Local, ShimRequest, Out, Free, Statements, OpName, StructName, ByValue

\* One struct around one request.
\* One struct around one request.
LEMMA WrappedFrees == Wrapped \in Seq(Statements) /\ FreesWhatItInits(Wrapped)
<1> DEFINE w == Wrapped
<1>1. w \in Seq(Statements) /\ Len(w) = 5
  <2>1. {"key"} \subseteq StructName
    BY DEF StructName
  <2> QED BY <2>1, StatementConstructors DEF Wrapped
<1>2. /\ w[1].op = "init" /\ w[1].struct = "key"
      /\ w[2].op = "setid"
      /\ w[3].op = "request"
      /\ w[4].op = "out"
      /\ w[5].op = "free" /\ w[5].struct = "key"
  BY DEF Wrapped, InitStruct, Refuse, SetKeyId, Local, ShimRequest, Out, Free
<1> HIDE DEF w
<1>3. \A j \in 1 .. 5 : j = 1 \/ j = 2 \/ j = 3 \/ j = 4 \/ j = 5
  OBVIOUS
<1>4. FreesWhatItInits(w)
  BY <1>1, <1>2, <1>3 DEF FreesWhatItInits
<1> QED BY <1>1, <1>4 DEF w

\* The refusal comes before the struct.
LEMMA AesGcmEncryptFrees == wolfhsm_aes_gcm_encrypt \in Seq(Statements) /\ FreesWhatItInits(wolfhsm_aes_gcm_encrypt)
<1> DEFINE w == wolfhsm_aes_gcm_encrypt
<1>1. w \in Seq(Statements) /\ Len(w) = 6
  <2>1. {"key"} \subseteq StructName
    BY DEF StructName
  <2> QED BY <2>1, StatementConstructors DEF wolfhsm_aes_gcm_encrypt
<1>2. /\ w[1].op = "refuse" /\ w[1].frees = {}
      /\ w[2].op = "init" /\ w[2].struct = "key" /\ w[2].frees = {}
      /\ w[3].op = "setid"
      /\ w[4].op = "request"
      /\ w[5].op = "out"
      /\ w[6].op = "free" /\ w[6].struct = "key"
  BY DEF wolfhsm_aes_gcm_encrypt, InitStruct, Refuse, SetKeyId, Local, ShimRequest, Out, Free
<1> HIDE DEF w
<1>3. \A j \in 1 .. 6 : j = 1 \/ j = 2 \/ j = 3 \/ j = 4 \/ j = 5 \/ j = 6
  OBVIOUS
<1>4. FreesWhatItInits(w)
  BY <1>1, <1>2, <1>3 DEF FreesWhatItInits
<1> QED BY <1>1, <1>4 DEF w

\* The refusal frees the struct.
LEMMA RsaFunctionFrees == wolfhsm_rsa_function \in Seq(Statements) /\ FreesWhatItInits(wolfhsm_rsa_function)
<1> DEFINE w == wolfhsm_rsa_function
<1>1. w \in Seq(Statements) /\ Len(w) = 6
  <2>1. {"key"} \subseteq StructName
    BY DEF StructName
  <2> QED BY <2>1, StatementConstructors DEF wolfhsm_rsa_function
<1>2. /\ w[1].op = "init" /\ w[1].struct = "key"
      /\ w[2].op = "setid"
      /\ w[3].op = "refuse" /\ w[3].frees = {"key"}
      /\ w[4].op = "request"
      /\ w[5].op = "out"
      /\ w[6].op = "free" /\ w[6].struct = "key"
  BY DEF wolfhsm_rsa_function, InitStruct, Refuse, SetKeyId, Local, ShimRequest, Out, Free
<1> HIDE DEF w
<1>3. \A j \in 1 .. 6 : j = 1 \/ j = 2 \/ j = 3 \/ j = 4 \/ j = 5 \/ j = 6
  OBVIOUS
<1>4. FreesWhatItInits(w)
  BY <1>1, <1>2, <1>3 DEF FreesWhatItInits
<1> QED BY <1>1, <1>4 DEF w

\* The step between the initialisation and the request may fail.
LEMMA MldsaSignFrees == wolfhsm_mldsa_sign \in Seq(Statements) /\ FreesWhatItInits(wolfhsm_mldsa_sign)
<1> DEFINE w == wolfhsm_mldsa_sign
<1>1. w \in Seq(Statements) /\ Len(w) = 6
  <2>1. {"key"} \subseteq StructName
    BY DEF StructName
  <2> QED BY <2>1, StatementConstructors DEF wolfhsm_mldsa_sign
<1>2. /\ w[1].op = "init" /\ w[1].struct = "key"
      /\ w[2].op = "local"
      /\ w[3].op = "setid"
      /\ w[4].op = "request"
      /\ w[5].op = "out"
      /\ w[6].op = "free" /\ w[6].struct = "key"
  BY DEF wolfhsm_mldsa_sign, InitStruct, Refuse, SetKeyId, Local, ShimRequest, Out, Free
<1> HIDE DEF w
<1>3. \A j \in 1 .. 6 : j = 1 \/ j = 2 \/ j = 3 \/ j = 4 \/ j = 5 \/ j = 6
  OBVIOUS
<1>4. FreesWhatItInits(w)
  BY <1>1, <1>2, <1>3 DEF FreesWhatItInits
<1> QED BY <1>1, <1>4 DEF w

\* The encoding may fail after the request.
LEMMA EccExportFrees == wolfhsm_ecc_export_public_der \in Seq(Statements) /\ FreesWhatItInits(wolfhsm_ecc_export_public_der)
<1> DEFINE w == wolfhsm_ecc_export_public_der
<1>1. w \in Seq(Statements) /\ Len(w) = 5
  <2>1. {ByValue, "key"} \subseteq StructName
    BY DEF StructName
  <2> QED BY <2>1, StatementConstructors DEF wolfhsm_ecc_export_public_der
<1>2. /\ w[1].op = "init" /\ w[1].struct = "key"
      /\ w[2].op = "request"
      /\ w[3].op = "local"
      /\ w[4].op = "out"
      /\ w[5].op = "free" /\ w[5].struct = "key"
  BY DEF wolfhsm_ecc_export_public_der, InitStruct, Refuse, SetKeyId, Local, ShimRequest, Out, Free
<1> HIDE DEF w
<1>3. \A j \in 1 .. 5 : j = 1 \/ j = 2 \/ j = 3 \/ j = 4 \/ j = 5
  OBVIOUS
<1>4. FreesWhatItInits(w)
  BY <1>1, <1>2, <1>3 DEF FreesWhatItInits
<1> QED BY <1>1, <1>4 DEF w

\* The encoding may fail even after the result is out.
LEMMA Ed25519ExportFrees == wolfhsm_ed25519_export_public \in Seq(Statements) /\ FreesWhatItInits(wolfhsm_ed25519_export_public)
<1> DEFINE w == wolfhsm_ed25519_export_public
<1>1. w \in Seq(Statements) /\ Len(w) = 6
  <2>1. {ByValue, "key"} \subseteq StructName
    BY DEF StructName
  <2> QED BY <2>1, StatementConstructors DEF wolfhsm_ed25519_export_public
<1>2. /\ w[1].op = "init" /\ w[1].struct = "key"
      /\ w[2].op = "request"
      /\ w[3].op = "local"
      /\ w[4].op = "out"
      /\ w[5].op = "local"
      /\ w[6].op = "free" /\ w[6].struct = "key"
  BY DEF wolfhsm_ed25519_export_public, InitStruct, Refuse, SetKeyId, Local, ShimRequest, Out, Free
<1> HIDE DEF w
<1>3. \A j \in 1 .. 6 : j = 1 \/ j = 2 \/ j = 3 \/ j = 4 \/ j = 5 \/ j = 6
  OBVIOUS
<1>4. FreesWhatItInits(w)
  BY <1>1, <1>2, <1>3 DEF FreesWhatItInits
<1> QED BY <1>1, <1>4 DEF w

\* The second initialisation frees the first struct if it fails.
LEMMA SharedSecretFrees == wolfhsm_ecc_shared_secret \in Seq(Statements) /\ FreesWhatItInits(wolfhsm_ecc_shared_secret)
<1> DEFINE w == wolfhsm_ecc_shared_secret
<1>1. w \in Seq(Statements) /\ Len(w) = 9
  <2>1. {"priv", "pub"} \subseteq StructName
    BY DEF StructName
  <2> QED BY <2>1, StatementConstructors DEF wolfhsm_ecc_shared_secret, SecondInitFrees
<1>2. /\ w[1].op = "init" /\ w[1].struct = "priv"
      /\ w[2].op = "init" /\ w[2].struct = "pub" /\ w[2].frees = SecondInitFrees
      /\ w[3].op = "setid"
      /\ w[4].op = "local"
      /\ w[5].op = "local"
      /\ w[6].op = "request"
      /\ w[7].op = "out"
      /\ w[8].op = "free" /\ w[8].struct = "pub"
      /\ w[9].op = "free" /\ w[9].struct = "priv"
  BY DEF wolfhsm_ecc_shared_secret, SecondInitFrees, InitStruct, Refuse, SetKeyId, Local, ShimRequest, Out, Free
<1> HIDE DEF w
<1>3. \A j \in 1 .. 9 : j = 1 \/ j = 2 \/ j = 3 \/ j = 4 \/ j = 5 \/ j = 6 \/ j = 7 \/ j = 8 \/ j = 9
  OBVIOUS
<1>4. FreesWhatItInits(w)
  BY <1>1, <1>2, <1>3 DEF FreesWhatItInits, SecondInitFrees
<1> QED BY <1>1, <1>4 DEF w

\* A hash.
LEMMA Sha256Frees == wolfhsm_sha256 \in Seq(Statements) /\ FreesWhatItInits(wolfhsm_sha256)
<1> DEFINE w == wolfhsm_sha256
<1>1. w \in Seq(Statements) /\ Len(w) = 4
  <2>1. {ByValue, "sha"} \subseteq StructName
    BY DEF StructName
  <2> QED BY <2>1, StatementConstructors DEF wolfhsm_sha256
<1>2. /\ w[1].op = "init" /\ w[1].struct = "sha"
      /\ w[2].op = "request"
      /\ w[3].op = "out"
      /\ w[4].op = "free" /\ w[4].struct = "sha"
  BY DEF wolfhsm_sha256, InitStruct, Refuse, SetKeyId, Local, ShimRequest, Out, Free
<1> HIDE DEF w
<1>3. \A j \in 1 .. 4 : j = 1 \/ j = 2 \/ j = 3 \/ j = 4
  OBVIOUS
<1>4. FreesWhatItInits(w)
  BY <1>1, <1>2, <1>3 DEF FreesWhatItInits
<1> QED BY <1>1, <1>4 DEF w

\* A key is made without a struct.
LEMMA MakeKeyFrees == MakeKey \in Seq(Statements) /\ FreesWhatItInits(MakeKey)
<1> DEFINE w == MakeKey
<1>1. w \in Seq(Statements) /\ Len(w) = 2
  <2>1. ByValue \in StructName
    BY DEF StructName
  <2> QED BY <2>1, StatementConstructors DEF MakeKey
<1>2. /\ w[1].op = "request"
      /\ w[2].op = "out"
  BY DEF MakeKey, InitStruct, Refuse, SetKeyId, Local, ShimRequest, Out, Free
<1> HIDE DEF w
<1>3. \A j \in 1 .. 2 : j = 1 \/ j = 2
  OBVIOUS
<1>4. FreesWhatItInits(w)
  BY <1>1, <1>2, <1>3 DEF FreesWhatItInits
<1> QED BY <1>1, <1>4 DEF w


\* Every shim of shims.c is one of these.
LEMMA ShimsOwn ==
  \A shim \in KeyShims \cup HashShims \cup MakeShims :
    shim \in Seq(Statements) /\ FreesWhatItInits(shim)
<1>1. \A shim \in KeyShims : shim \in {Wrapped, wolfhsm_aes_gcm_encrypt, wolfhsm_rsa_function,
        wolfhsm_mldsa_sign, wolfhsm_ecc_export_public_der, wolfhsm_ed25519_export_public,
        wolfhsm_ecc_shared_secret}
  BY DEF KeyShims, wolfhsm_ecc_sign, wolfhsm_ecc_verify, wolfhsm_rsa_get_size,
         wolfhsm_aes_gcm_decrypt, wolfhsm_ed25519_sign, wolfhsm_ed25519_verify, wolfhsm_cmac,
         wolfhsm_mldsa_verify, wolfhsm_rsa_export_public_der,
         wolfhsm_curve25519_export_public, wolfhsm_curve25519_shared_secret
<1>2. \A shim \in HashShims : shim = wolfhsm_sha256
  BY DEF HashShims, wolfhsm_sha384, wolfhsm_sha512
<1>3. \A shim \in MakeShims : shim = MakeKey
  BY DEF MakeShims, wolfhsm_ecc_make_key, wolfhsm_curve25519_make_key, wolfhsm_rsa_make_key,
         wolfhsm_mldsa_make_key, wolfhsm_ed25519_make_key
<1> QED BY <1>1, <1>2, <1>3, WrappedFrees, AesGcmEncryptFrees, RsaFunctionFrees, MldsaSignFrees,
           EccExportFrees, Ed25519ExportFrees, SharedSecretFrees, Sha256Frees, MakeKeyFrees

\* A make_key shim answers what the server did, and hands the id out exactly then.
LEMMA MakeKeyAnswers ==
  ASSUME NEW shim \in MakeShims, NEW reply \in RcName
  PROVE  LET ran == Run(shim, 0, reply)
         IN ran.rc = reply /\ ran.wrote = (reply = "ok") /\ ran.live = {}
<1> DEFINE t == Trace(MakeKey, 0, reply)
<1>1. shim = MakeKey
  BY DEF MakeShims, wolfhsm_ecc_make_key, wolfhsm_curve25519_make_key, wolfhsm_rsa_make_key,
         wolfhsm_mldsa_make_key, wolfhsm_ed25519_make_key
<1>2. Len(MakeKey) = 2 /\ MakeKey[1] = ShimRequest(ByValue) /\ MakeKey[2] = Out
  BY DEF MakeKey
<1>3. /\ t[0] = Entered
      /\ t[1] = Statement(Entered, ShimRequest(ByValue), FALSE, reply)
      /\ t[2] = Statement(t[1], Out, FALSE, reply)
  <2>1. Upto(t, Len(MakeKey), MakeKey, 0, reply)
    <3>1. Len(MakeKey) \in Nat
      BY <1>2
    <3> QED BY <3>1, TraceIsDefined
  <2> HIDE DEF t
  <2>2. /\ t[0] = Entered
        /\ t[1] = Statement(t[0], MakeKey[1], 1 = 0, reply)
        /\ t[2] = Statement(t[1], MakeKey[2], 2 = 0, reply)
    BY <1>2, <2>1 DEF Upto
  <2>3. (1 = 0) = FALSE /\ (2 = 0) = FALSE
    OBVIOUS
  <2> QED BY <1>2, <2>2, <2>3
<1> HIDE DEF t
<1>4. t[1] = [rc |-> reply, returned |-> FALSE, live |-> {}, ids |-> {ByValue},
              asked |-> TRUE, keyed |-> TRUE, wrote |-> FALSE]
  BY <1>3 DEF Statement, Executed, Entered, ShimRequest
<1> DEFINE f == t[1]
<1>5. /\ f \in RunState /\ f.rc = reply /\ f.live = {} /\ f.wrote = FALSE /\ f.returned = FALSE
  BY <1>4 DEF RunState, StructName
<1>6. Out.op = "out"
  BY DEF Out
<1> HIDE DEF f
<1>7. reply # "ok" => Statement(f, Out, FALSE, reply) = f
  BY <1>5, <1>6 DEF Statement
<1>8. reply = "ok" => Statement(f, Out, FALSE, reply) = [f EXCEPT !.wrote = TRUE]
  BY <1>5, <1>6 DEF Statement, Executed
<1>9. LET g == [f EXCEPT !.wrote = TRUE]
      IN g.rc = f.rc /\ g.live = f.live /\ g.wrote = TRUE
  BY <1>5 DEF RunState
<1>10. t[2].rc = reply /\ t[2].live = {} /\ t[2].wrote = (reply = "ok")
  <2>1. t[2] = Statement(f, Out, FALSE, reply)
    BY <1>3 DEF f
  <2>2. CASE reply = "ok"
    BY <1>5, <1>8, <1>9, <2>1, <2>2
  <2>3. CASE reply # "ok"
    BY <1>5, <1>7, <2>1, <2>3
  <2> QED BY <2>2, <2>3
<1> QED BY <1>1, <1>2, <1>10 DEF Run, t
-----------------------------------------------------------------------------
(* The keys of HsmKeys.                                                    *)

Frame == [id : KeyId, key : Nat, lost : BOOLEAN]

\* The ids are ids, the keys are among those that were made.
KeyTypes ==
  /\ made \in Nat
  /\ DOMAIN cache \subseteq KeyId /\ \A i \in DOMAIN cache : cache[i] \in 1 .. made
  /\ DOMAIN nvm \subseteq KeyId /\ \A i \in DOMAIN nvm : nvm[i] \in 1 .. made
  /\ frames \in Seq(Frame) /\ \A n \in 1 .. Len(frames) : frames[n].key \in 1 .. made
  /\ over \subseteq 1 .. made

\* A key has one id, in the cache, in the NVM and in the frame that made it, and
\* no two frames have the same key.
OneHome ==
  /\ \A i, j \in DOMAIN cache : cache[i] = cache[j] => i = j
  /\ \A i, j \in DOMAIN nvm : nvm[i] = nvm[j] => i = j
  /\ \A i \in DOMAIN cache, j \in DOMAIN nvm : cache[i] = nvm[j] => i = j
  /\ \A n \in 1 .. Len(frames) :
       /\ \A i \in DOMAIN cache : cache[i] = frames[n].key => i = frames[n].id
       /\ \A i \in DOMAIN nvm : nvm[i] = frames[n].key => i = frames[n].id
  /\ \A m, n \in 1 .. Len(frames) : frames[m].key = frames[n].key => m = n

\* A frame that got the id of an outer one did so when the id was free again.
InnerIsNewer ==
  \A m, n \in 1 .. Len(frames) : m < n /\ frames[m].id = frames[n].id => frames[m].lost

\* FrameOwnsSlot and LeakIsTold, with the frames counted.
Owned ==
  \A n \in 1 .. Len(frames) : ~frames[n].lost =>
    frames[n].id \in DOMAIN cache /\ cache[frames[n].id] = frames[n].key

OkIsGone ==
  returned.key # NoKey /\ returned.rc = "ok" => \A i \in DOMAIN cache : cache[i] # returned.key

Told ==
  \A i \in DOMAIN cache : cache[i] \in over =>
    cache[i] \in told \/ \E n \in 1 .. Len(frames) : frames[n].id = i

KeysInv ==
  KeyTypes /\ OneHome /\ InnerIsNewer /\ Owned /\ OkIsGone /\ Told /\ ShimsFree

\* With and Without, entry by entry.
LEMMA WithIs ==
  ASSUME NEW f, NEW id, NEW k
  PROVE  /\ DOMAIN With(f, id, k) = DOMAIN f \cup {id}
         /\ With(f, id, k)[id] = k
         /\ \A i \in DOMAIN f : i # id => With(f, id, k)[i] = f[i]
BY DEF With

LEMMA WithoutIs ==
  ASSUME NEW f, NEW id
  PROVE  /\ DOMAIN Without(f, id) = DOMAIN f \ {id}
         /\ \A i \in DOMAIN f : i # id => Without(f, id)[i] = f[i]
BY DEF Without

\* The stack of frames, entry by entry.
LEMMA DisturbedIs ==
  ASSUME NEW fs \in Seq(Frame), NEW id
  PROVE  /\ Disturbed(fs, id) \in Seq(Frame) /\ Len(Disturbed(fs, id)) = Len(fs)
         /\ \A n \in 1 .. Len(fs) :
              /\ Disturbed(fs, id)[n].id = fs[n].id
              /\ Disturbed(fs, id)[n].key = fs[n].key
              /\ ~Disturbed(fs, id)[n].lost => ~fs[n].lost /\ fs[n].id # id
<1>1. DOMAIN fs = 1 .. Len(fs) /\ Len(fs) \in Nat
  OBVIOUS
<1>2. ASSUME NEW n \in 1 .. Len(fs)
      PROVE  LET f == [fs[n] EXCEPT !.lost = @ \/ fs[n].id = id]
             IN f \in Frame /\ f.id = fs[n].id /\ f.key = fs[n].key
                /\ f.lost = (fs[n].lost \/ fs[n].id = id)
  <2>1. fs[n] \in Frame
    OBVIOUS
  <2> QED BY <2>1 DEF Frame
<1> DEFINE d == Disturbed(fs, id)
<1>3. d = [n \in 1 .. Len(fs) |-> [fs[n] EXCEPT !.lost = @ \/ fs[n].id = id]]
  BY <1>1 DEF Disturbed
<1>4. d \in Seq(Frame) /\ Len(d) = Len(fs)
  BY <1>1, <1>2, <1>3
<1>5. ASSUME NEW n \in 1 .. Len(fs)
      PROVE  d[n].id = fs[n].id /\ d[n].key = fs[n].key /\ (~d[n].lost => ~fs[n].lost /\ fs[n].id # id)
  <2>1. d[n] = [fs[n] EXCEPT !.lost = @ \/ fs[n].id = id]
    BY <1>3
  <2> QED BY <1>2, <2>1, Zenon
<1> QED BY <1>4, <1>5

LEMMA FrontIs ==
  ASSUME NEW fs \in Seq(Frame), fs # <<>>
  PROVE  /\ Front(fs) \in Seq(Frame) /\ Len(Front(fs)) = Len(fs) - 1
         /\ Len(fs) \in Nat \ {0} /\ fs[Len(fs)] \in Frame
         /\ \A n \in 1 .. Len(fs) - 1 : Front(fs)[n] = fs[n]
<1>1. Len(fs) \in Nat /\ Len(fs) # 0 /\ fs[Len(fs)] \in Frame
  OBVIOUS
<1>2. Front(fs) \in Seq(Frame) /\ Len(Front(fs)) = Len(fs) - 1
  <2> DEFINE n == Len(fs) - 1
  <2>1. n \in Int /\ 1 \in Int /\ \A i \in 1 .. n : fs[i] \in Frame
    BY <1>1
  <2>2. n \in Nat
    BY <1>1
  <2> HIDE DEF n
  <2>3. SubSeq(fs, 1, n) \in Seq(Frame) /\ Len(SubSeq(fs, 1, n)) = IF 1 <= n THEN n - 1 + 1 ELSE 0
    BY <2>1, SubSeqProperties
  <2>4. Len(SubSeq(fs, 1, n)) = n
    BY <2>2, <2>3
  <2> QED BY <2>3, <2>4, Zenon DEF Front, n
<1>3. \A n \in 1 .. Len(fs) - 1 : Front(fs)[n] = fs[n]
  BY <1>1 DEF Front
<1> QED BY <1>1, <1>2, <1>3

LEMMA AppendIs ==
  ASSUME NEW fs \in Seq(Frame), NEW f \in Frame
  PROVE  /\ Append(fs, f) \in Seq(Frame) /\ Len(Append(fs, f)) = Len(fs) + 1
         /\ Len(fs) \in Nat /\ Append(fs, f)[Len(fs) + 1] = f
         /\ \A n \in 1 .. Len(fs) : Append(fs, f)[n] = fs[n]
OBVIOUS

\* Before the first call there are no keys.
LEMMA KeysInvInit == KeysInit => KeysInv
BY DEF KeysInit, KeysInv, KeyTypes, OneHome, InnerIsNewer, Owned, OkIsGone, Told, ShimsFree, Result, NoKey, Empty


\* A new key: it takes a free id, and no frame, no slot and no record knows it.
LEMMA MadeKeeps ==
  ASSUME KeysInv, NEW delivery \in Delivery, NEW a \in Answers, Made(delivery, a)
  PROVE  /\ made' \in Nat /\ made <= made'
         /\ \/ UNCHANGED <<cache, made>> /\ ~Stored(delivery, a)
            \/ /\ Stored(delivery, a) /\ made' = made + 1
               /\ a.id \in KeyId /\ a.id \notin DOMAIN cache /\ a.id \notin DOMAIN nvm
               /\ a.rc = "ok"
               /\ DOMAIN cache' = DOMAIN cache \cup {a.id} /\ cache'[a.id] = made + 1
               /\ \A i \in DOMAIN cache : cache'[i] = cache[i]
<1>1. CASE ~Stored(delivery, a)
  BY <1>1 DEF Made, KeysInv, KeyTypes
<1>2. CASE Stored(delivery, a)
  <2>1. a.id # ERASED
    BY <1>2 DEF Stored
  <2>2. a.id \in FreeIds /\ a.rc = "ok"
    BY <2>1 DEF Answers
  <2>3. cache' = With(cache, a.id, made + 1) /\ made' = made + 1
    BY <1>2 DEF Made
  <2>4. /\ DOMAIN cache' = DOMAIN cache \cup {a.id} /\ cache'[a.id] = made + 1
        /\ \A i \in DOMAIN cache : i # a.id => cache'[i] = cache[i]
    <3> DEFINE k == made + 1
               c == With(cache, a.id, k)
    <3> HIDE DEF k
    <3>1. /\ DOMAIN c = DOMAIN cache \cup {a.id} /\ c[a.id] = k
          /\ \A i \in DOMAIN cache : i # a.id => c[i] = cache[i]
      BY DEF With
    <3>2. cache' = c
      BY <2>3 DEF k
    <3> HIDE DEF c
    <3> QED BY <3>1, <3>2 DEF k
  <2>5. a.id \in KeyId /\ a.id \notin DOMAIN cache /\ a.id \notin DOMAIN nvm
    BY <2>2 DEF FreeIds
  <2>6. made' \in Nat /\ made <= made'
    BY <2>3 DEF KeysInv, KeyTypes
  <2> QED BY <1>2, <2>2, <2>3, <2>4, <2>5, <2>6, Zenon
<1> QED BY <1>1, <1>2

\* The calls by id.
LEMMA key_cacheKeeps == KeysInv /\ key_cache => KeysInv'
<1> SUFFICES ASSUME KeysInv, key_cache PROVE KeysInv'
  OBVIOUS
<1>1. PICK delivery \in Delivery, a \in Answers :
        /\ Made(delivery, a)
        /\ returned' = Result(MadeOutcome(Reply(delivery, a.rc), a.id), NoKey)
        /\ UNCHANGED <<nvm, frames, over, told, stack>>
  BY DEF key_cache
<1>2. returned'.key = NoKey
  BY <1>1 DEF Result
<1>3. CASE UNCHANGED <<cache, made>>
  BY <1>1, <1>2, <1>3 DEF KeysInv, KeyTypes, OneHome, InnerIsNewer, Owned, OkIsGone, Told, ShimsFree
<1>4. CASE ~UNCHANGED <<cache, made>>
  <2>1. /\ made' = made + 1
        /\ a.id \in KeyId /\ a.id \notin DOMAIN cache /\ a.id \notin DOMAIN nvm
        /\ DOMAIN cache' = DOMAIN cache \cup {a.id} /\ cache'[a.id] = made + 1
        /\ \A i \in DOMAIN cache : cache'[i] = cache[i]
    BY <1>1, <1>4, MadeKeeps
  <2>2. KeyTypes'
    BY <1>1, <2>1 DEF KeysInv, KeyTypes
  <2>3. OneHome'
    BY <1>1, <2>1 DEF KeysInv, KeyTypes, OneHome
  <2>4. Owned'
    BY <1>1, <2>1 DEF KeysInv, KeyTypes, Owned
  <2>5. Told'
    BY <1>1, <2>1 DEF KeysInv, KeyTypes, Told
  <2> QED BY <1>1, <1>2, <2>2, <2>3, <2>4, <2>5 DEF KeysInv, InnerIsNewer, OkIsGone, ShimsFree
<1> QED BY <1>3, <1>4

\* Taking an id out of the cache, and its frames with it.
LEMMA EvictionKeeps ==
  ASSUME KeysInv, NEW id \in KeyId,
         cache' = Without(cache, id), frames' = Disturbed(frames, id),
         nvm' = nvm \/ nvm' = Without(nvm, id),
         returned'.key = NoKey, UNCHANGED <<made, over, told, stack>>
  PROVE  KeysInv'
<1>1. /\ DOMAIN cache' = DOMAIN cache \ {id}
      /\ \A i \in DOMAIN cache : i # id => cache'[i] = cache[i]
  BY WithoutIs
<1>2. /\ DOMAIN nvm' \subseteq DOMAIN nvm
      /\ \A i \in DOMAIN nvm' : nvm'[i] = nvm[i]
  <2>1. CASE nvm' = Without(nvm, id)
    <3>1. /\ DOMAIN nvm' = DOMAIN nvm \ {id}
          /\ \A i \in DOMAIN nvm : i # id => nvm'[i] = nvm[i]
      BY <2>1, WithoutIs, Zenon
    <3> QED BY <3>1
  <2> QED BY <2>1
<1>3. /\ frames' \in Seq(Frame) /\ Len(frames') = Len(frames)
      /\ \A n \in 1 .. Len(frames) :
           /\ frames'[n].id = frames[n].id
           /\ frames'[n].key = frames[n].key
           /\ ~frames'[n].lost => ~frames[n].lost /\ frames[n].id # id
  BY DisturbedIs DEF KeysInv, KeyTypes
<1>4. KeyTypes'
  BY <1>1, <1>2, <1>3 DEF KeysInv, KeyTypes
<1>5. OneHome'
  BY <1>1, <1>2, <1>3 DEF KeysInv, OneHome
<1>6. Owned'
  BY <1>1, <1>3 DEF KeysInv, Owned
<1>7. Told'
  BY <1>1, <1>3 DEF KeysInv, Told
<1>8. InnerIsNewer'
  BY <1>3 DEF KeysInv, InnerIsNewer
<1> QED BY <1>4, <1>5, <1>6, <1>7, <1>8 DEF KeysInv, OkIsGone, ShimsFree

\* A call that changes nothing but what it returns.
LEMMA QuietStepKeeps ==
  ASSUME KeysInv, UNCHANGED <<cache, nvm, made, frames, over, told, stack>>,
         returned'.key = NoKey
  PROVE  KeysInv'
BY DEF KeysInv, KeyTypes, OneHome, InnerIsNewer, Owned, OkIsGone, Told, ShimsFree

LEMMA key_evictKeeps == ASSUME KeysInv, NEW id \in KeyId, key_evict(id) PROVE KeysInv'
<1>1. returned'.key = NoKey
  BY DEF key_evict, Result
<1>2. /\ UNCHANGED <<nvm, made, over, told, stack>>
      /\ \/ UNCHANGED <<cache, frames>>
         \/ cache' = Without(cache, id) /\ frames' = Disturbed(frames, id)
  BY DEF key_evict
<1> QED BY <1>1, <1>2, EvictionKeeps, QuietStepKeeps

LEMMA key_eraseKeeps == ASSUME KeysInv, NEW id \in KeyId, key_erase(id) PROVE KeysInv'
<1>1. returned'.key = NoKey
  BY DEF key_erase, Result
<1>2. /\ UNCHANGED <<made, over, told, stack>>
      /\ \/ UNCHANGED <<cache, nvm, frames>>
         \/ cache' = Without(cache, id) /\ nvm' = Without(nvm, id) /\ frames' = Disturbed(frames, id)
  BY DEF key_erase
<1> QED BY <1>1, <1>2, EvictionKeeps, QuietStepKeeps

LEMMA key_commitKeeps == ASSUME KeysInv, NEW id \in KeyId, key_commit(id) PROVE KeysInv'
<1>1. returned'.key = NoKey
  BY DEF key_commit, Result
<1>2. /\ UNCHANGED <<cache, made, frames, over, told, stack>>
      /\ \/ nvm' = nvm
         \/ id \in DOMAIN cache /\ nvm' = With(nvm, id, cache[id])
  BY DEF key_commit
<1>3. CASE id \in DOMAIN cache /\ nvm' = With(nvm, id, cache[id])
  <2>1. /\ DOMAIN nvm' = DOMAIN nvm \cup {id} /\ nvm'[id] = cache[id]
        /\ \A i \in DOMAIN nvm : i # id => nvm'[i] = nvm[i]
    <3> DEFINE k == cache[id]
               c == With(nvm, id, k)
    <3> HIDE DEF k
    <3>1. /\ DOMAIN c = DOMAIN nvm \cup {id} /\ c[id] = k
          /\ \A i \in DOMAIN nvm : i # id => c[i] = nvm[i]
      BY DEF With
    <3>2. nvm' = c
      BY <1>3 DEF k
    <3> HIDE DEF c
    <3> QED BY <3>1, <3>2 DEF k
  <2>2. KeyTypes'
    BY <1>2, <1>3, <2>1 DEF KeysInv, KeyTypes
  <2>3. OneHome'
    BY <1>2, <1>3, <2>1 DEF KeysInv, OneHome
  <2> QED BY <1>1, <1>2, <2>2, <2>3 DEF KeysInv, InnerIsNewer, Owned, OkIsGone, Told, ShimsFree
<1> QED BY <1>1, <1>2, <1>3, QuietStepKeeps

\* with_key opens: the frame gets the id under which the key was stored, or the
\* key is an orphan of which the error tells.
LEMMA OpenKeyKeeps ==
  ASSUME KeysInv, NEW shim \in MakeShims, OpenKey(shim)
  PROVE  KeysInv'
<1>1. PICK delivery \in Delivery, a \in Answers :
        LET ran == Run(shim, 0, Reply(delivery, a.rc))
            key_id == IF ran.wrote THEN a.id ELSE ERASED
            rc == MadeOutcome(ran.rc, key_id)
            orphan == IF rc # "ok" /\ Stored(delivery, a) THEN {made + 1} ELSE {}
        IN /\ Made(delivery, a)
           /\ stack' = stack \cup ran.live
           /\ returned' = Result(rc, NoKey)
           /\ frames' = IF rc = "ok"
                        THEN Append(frames, [id |-> key_id, key |-> made + 1, lost |-> FALSE])
                        ELSE frames
           /\ over' = over \cup orphan
           /\ told' = told \cup orphan
           /\ UNCHANGED nvm
  BY DEF OpenKey
<1> DEFINE reply == Reply(delivery, a.rc)
           ran == Run(shim, 0, reply)
           key_id == IF ran.wrote THEN a.id ELSE ERASED
           rc == MadeOutcome(ran.rc, key_id)
<1>2. reply \in RcName /\ (reply = "ok" <=> delivery = "done" /\ a.rc = "ok")
  <2>1. a.rc \in {"ok", "wh_error"}
    BY DEF Answers
  <2> QED BY <2>1 DEF Reply, RcName
<1>3. ran.rc = reply /\ ran.wrote = (reply = "ok") /\ ran.live = {}
  <2> HIDE DEF reply
  <2> QED BY <1>2, MakeKeyAnswers
<1>4. (rc = "ok" <=> reply = "ok" /\ a.id # ERASED) /\ (rc = "ok" => key_id = a.id)
  <2> HIDE DEF reply, ran
  <2> QED BY <1>3 DEF MadeOutcome
<1>5. /\ returned'.key = NoKey /\ stack' = {} /\ nvm' = nvm
      /\ rc = "ok" => frames' = Append(frames, [id |-> a.id, key |-> made + 1, lost |-> FALSE])
      /\ rc # "ok" => frames' = frames
      /\ rc # "ok" /\ Stored(delivery, a) => over' = over \cup {made + 1} /\ told' = told \cup {made + 1}
      /\ rc = "ok" \/ ~Stored(delivery, a) => over' = over /\ told' = told
  <2>1. returned'.key = NoKey
    BY <1>1 DEF Result
  <2> HIDE DEF reply, ran
  <2> QED BY <1>1, <1>3, <1>4, <2>1 DEF ran, reply, KeysInv, ShimsFree
<1>6. rc = "ok" => Stored(delivery, a)
  BY <1>2, <1>4 DEF Stored
<1> HIDE DEF rc
<1>7. CASE ~Stored(delivery, a)
  BY <1>1, <1>5, <1>6, <1>7, MadeKeeps, QuietStepKeeps DEF KeysInv, ShimsFree
<1>8. CASE Stored(delivery, a)
  <2>1. /\ made \in Nat /\ made' = made + 1
        /\ a.id \in KeyId /\ a.id \notin DOMAIN cache /\ a.id \notin DOMAIN nvm
        /\ DOMAIN cache' = DOMAIN cache \cup {a.id} /\ cache'[a.id] = made + 1
        /\ \A i \in DOMAIN cache : cache'[i] = cache[i]
    BY <1>1, <1>8, MadeKeeps DEF KeysInv, KeyTypes
  <2>2. CASE rc = "ok"
    <3> DEFINE f == [id |-> a.id, key |-> made + 1, lost |-> FALSE]
    <3>1. f \in Frame /\ f.id = a.id /\ f.key = made + 1 /\ f.lost = FALSE
      BY <2>1 DEF Frame
    <3>2. frames' = Append(frames, f) /\ over' = over /\ told' = told
      BY <1>5, <1>8, <2>2
    <3> HIDE DEF f
    <3>3. /\ frames' \in Seq(Frame) /\ Len(frames') = Len(frames) + 1
          /\ Len(frames) \in Nat /\ frames'[Len(frames) + 1] = f
          /\ \A n \in 1 .. Len(frames) : frames'[n] = frames[n]
      BY <3>1, <3>2, AppendIs DEF KeysInv, KeyTypes
    <3>4. KeyTypes'
      BY <1>5, <2>1, <3>1, <3>2, <3>3 DEF KeysInv, KeyTypes
    <3>8. \A n \in 1 .. Len(frames') :
            \/ n \in 1 .. Len(frames) /\ frames'[n] = frames[n]
            \/ frames'[n] = f /\ n = Len(frames) + 1
      BY <3>3
    <3>9. \A n \in 1 .. Len(frames) : frames[n].key \in 1 .. made
      BY DEF KeysInv, KeyTypes
    <3>10. /\ \A i \in DOMAIN cache : cache[i] \in 1 .. made
           /\ \A i \in DOMAIN nvm : nvm[i] \in 1 .. made
      BY DEF KeysInv, KeyTypes
    <3>5. OneHome'
      <4>1. /\ \A i, j \in DOMAIN cache' : cache'[i] = cache'[j] => i = j
            /\ \A i, j \in DOMAIN nvm' : nvm'[i] = nvm'[j] => i = j
            /\ \A i \in DOMAIN cache', j \in DOMAIN nvm' : cache'[i] = nvm'[j] => i = j
        BY <1>5, <2>1, <3>10 DEF KeysInv, OneHome
      <4>2. ASSUME NEW n \in 1 .. Len(frames')
            PROVE  /\ \A i \in DOMAIN cache' : cache'[i] = frames'[n].key => i = frames'[n].id
                   /\ \A i \in DOMAIN nvm' : nvm'[i] = frames'[n].key => i = frames'[n].id
        BY <1>5, <2>1, <3>1, <3>8, <3>9, <3>10 DEF KeysInv, OneHome
      <4>3. \A m, n \in 1 .. Len(frames') : frames'[m].key = frames'[n].key => m = n
        BY <2>1, <3>1, <3>8, <3>9 DEF KeysInv, OneHome
      <4> QED BY <4>1, <4>2, <4>3 DEF OneHome
    <3>6. Owned'
      BY <2>1, <3>1, <3>8 DEF KeysInv, Owned
    <3>7. Told'
      BY <2>1, <3>1, <3>2, <3>3 DEF KeysInv, KeyTypes, Told
    <3>11. InnerIsNewer'
      <4> SUFFICES ASSUME NEW m \in 1 .. Len(frames'), NEW n \in 1 .. Len(frames'), m < n,
                          frames'[m].id = frames'[n].id
                   PROVE  frames'[m].lost
        BY DEF InnerIsNewer
      <4>1. m \in 1 .. Len(frames) /\ frames'[m] = frames[m]
        BY <3>3
      <4>2. CASE n \in 1 .. Len(frames)
        BY <3>3, <4>1, <4>2 DEF KeysInv, InnerIsNewer
      <4>3. CASE n = Len(frames) + 1
        <5>1. frames[m].id = a.id
          BY <3>1, <3>3, <4>1, <4>3
        <5> QED BY <2>1, <4>1, <5>1 DEF KeysInv, Owned
      <4> QED BY <3>3, <4>2, <4>3
    <3> QED BY <1>5, <3>4, <3>5, <3>6, <3>7, <3>11 DEF KeysInv, OkIsGone, ShimsFree
  <2>3. CASE rc # "ok"
    <3>1. frames' = frames /\ over' = over \cup {made + 1} /\ told' = told \cup {made + 1}
      BY <1>5, <1>8, <2>3
    <3>2. KeyTypes'
      BY <1>5, <2>1, <3>1 DEF KeysInv, KeyTypes
    <3>3. OneHome'
      BY <1>5, <2>1, <3>1 DEF KeysInv, KeyTypes, OneHome
    <3>4. Owned'
      BY <2>1, <3>1 DEF KeysInv, KeyTypes, Owned
    <3>5. Told'
      BY <2>1, <3>1 DEF KeysInv, KeyTypes, Told
    <3> QED BY <1>5, <3>1, <3>2, <3>3, <3>4, <3>5 DEF KeysInv, InnerIsNewer, OkIsGone, ShimsFree
  <2> QED BY <2>2, <2>3
<1> QED BY <1>7, <1>8


\* The end of a frame: its key counts as over; the id stays or is evicted, and
\* what stays is told of.
LEMMA PopKeeps ==
  ASSUME KeysInv, frames # <<>>, frames' = Front(frames),
         UNCHANGED <<nvm, made, stack>>, over' = over \cup {Innermost.key},
         told \subseteq told',
         \/ cache' = Without(cache, Innermost.id)
         \/ cache' = cache /\ Holding(Innermost.id) \subseteq told',
         returned'.rc = "ok" =>
           returned'.key = Innermost.key /\ cache' = Without(cache, Innermost.id)
  PROVE  KeysInv'
<1> DEFINE f == Innermost
           L == Len(frames)
<1>1. /\ frames' \in Seq(Frame) /\ Len(frames') = L - 1 /\ L \in Nat \ {0}
      /\ f \in Frame /\ f = frames[L]
      /\ \A n \in 1 .. L - 1 : frames'[n] = frames[n]
  BY FrontIs DEF KeysInv, KeyTypes, Innermost
<1> HIDE DEF f
<1>2. /\ f.key \in 1 .. made
      /\ \A i \in DOMAIN cache : cache[i] = f.key => i = f.id
      /\ \A n \in 1 .. L - 1 : frames[n].key # f.key
  BY <1>1 DEF KeysInv, KeyTypes, OneHome
<1>3. cache' = Without(cache, f.id) =>
        /\ DOMAIN cache' = DOMAIN cache \ {f.id}
        /\ \A i \in DOMAIN cache : i # f.id => cache'[i] = cache[i]
  <2> DEFINE id == f.id
             c == Without(cache, id)
  <2> HIDE DEF id
  <2>1. DOMAIN c = DOMAIN cache \ {id} /\ \A i \in DOMAIN cache : i # id => c[i] = cache[i]
    BY WithoutIs
  <2> HIDE DEF c
  <2>2. cache' = Without(cache, f.id) => cache' = c
    BY DEF c, id
  <2> QED BY <2>1, <2>2 DEF id
<1>4. \/ cache' = Without(cache, f.id)
      \/ cache' = cache /\ Holding(f.id) \subseteq told'
  BY DEF f
<1>5. /\ DOMAIN cache' \subseteq DOMAIN cache
      /\ \A i \in DOMAIN cache' : cache'[i] = cache[i]
      /\ \A i \in DOMAIN cache : i # f.id => i \in DOMAIN cache'
  BY <1>3, <1>4
<1>6. KeyTypes'
  <2>1. over' \subseteq 1 .. made'
    BY <1>2 DEF KeysInv, KeyTypes, f
  <2> QED BY <1>1, <1>2, <1>5, <2>1 DEF KeysInv, KeyTypes
<1>7. OneHome'
  BY <1>1, <1>5 DEF KeysInv, OneHome
<1>8. InnerIsNewer'
  BY <1>1 DEF KeysInv, InnerIsNewer
<1>9. Owned'
  <2> SUFFICES ASSUME NEW n \in 1 .. L - 1, ~frames[n].lost
               PROVE  frames[n].id \in DOMAIN cache' /\ cache'[frames[n].id] = frames[n].key
    BY <1>1 DEF Owned
  <2>1. frames[n].id \in DOMAIN cache /\ cache[frames[n].id] = frames[n].key
    BY <1>1 DEF KeysInv, Owned
  <2>2. frames[n].id # f.id
    BY <1>1 DEF KeysInv, InnerIsNewer
  <2> QED BY <1>5, <2>1, <2>2
<1>10. Told'
  <2> SUFFICES ASSUME NEW i \in DOMAIN cache', cache'[i] \in over'
               PROVE  cache'[i] \in told' \/ \E n \in 1 .. Len(frames') : frames'[n].id = i
    BY DEF Told
  <2>1. i \in DOMAIN cache /\ cache'[i] = cache[i]
    BY <1>5
  <2>2. CASE i = f.id
    <3>1. Holding(f.id) \subseteq told'
      BY <1>3, <1>4, <2>2
    <3> QED BY <2>1, <2>2, <3>1 DEF Holding
  <2>3. CASE i # f.id
    <3>1. cache[i] # f.key
      BY <1>2, <2>1, <2>3
    <3>2. cache[i] \in over
      BY <2>1, <3>1 DEF f
    <3>3. cache[i] \in told \/ \E n \in 1 .. L : frames[n].id = i
      BY <2>1, <3>2 DEF KeysInv, Told
    <3> QED BY <1>1, <2>1, <2>3, <3>3
  <2> QED BY <2>2, <2>3
<1>11. OkIsGone'
  <2> SUFFICES ASSUME returned'.rc = "ok", NEW i \in DOMAIN cache'
               PROVE  cache'[i] # returned'.key
    BY DEF OkIsGone
  <2>1. returned'.key = f.key /\ cache' = Without(cache, f.id)
    BY DEF f
  <2>2. i \in DOMAIN cache /\ i # f.id /\ cache'[i] = cache[i]
    BY <1>3, <2>1
  <2> QED BY <1>2, <2>1, <2>2
<1> QED BY <1>6, <1>7, <1>8, <1>9, <1>10, <1>11 DEF KeysInv, ShimsFree

\* with_key ends: only an eviction that the server never saw leaves the slot, and
\* its error is told.
LEMMA CloseKeyKeeps ==
  ASSUME KeysInv, NEW result \in {"ok", "err"}, CloseKey(result)
  PROVE  KeysInv'
<1>1. PICK delivery \in Delivery :
        LET evict == Reply(delivery, EvictRc(EvictedId))
        IN /\ frames # <<>>
           /\ IF delivery = "request_lost" THEN UNCHANGED cache
              ELSE cache' = Without(cache, EvictedId)
           /\ frames' = Front(frames)
           /\ returned' = Result(WithKeyRc(result, evict), Innermost.key)
           /\ over' = over \cup {Innermost.key}
           /\ told' = IF Logged(result, evict) \/ (result = "ok" /\ returned'.rc # "ok")
                      THEN told \cup {Innermost.key} \cup Holding(EvictedId) ELSE told
           /\ UNCHANGED <<nvm, made, stack>>
  BY DEF CloseKey
<1> DEFINE evict == Reply(delivery, EvictRc(EvictedId))
<1>2. returned'.rc = WithKeyRc(result, evict) /\ returned'.key = Innermost.key
  BY <1>1 DEF Result
<1>3. EvictedId = Innermost.id
  BY DEF EvictedId
<1>4. delivery = "request_lost" => evict # "ok"
  BY DEF Reply
<1>5. told \subseteq told'
  BY <1>1
<1>6. CASE delivery = "request_lost"
  <2>1. returned'.rc # "ok" /\ (Logged(result, evict) \/ result = "ok")
    BY <1>2, <1>4, <1>6 DEF WithKeyRc, Logged
  <2>2. Holding(Innermost.id) \subseteq told'
    BY <1>1, <1>3, <2>1
  <2>3. cache' = cache
    BY <1>1, <1>6
  <2> QED BY <1>1, <1>5, <2>1, <2>2, <2>3, PopKeeps
<1>7. CASE delivery # "request_lost"
  <2>1. cache' = Without(cache, Innermost.id)
    BY <1>1, <1>3, <1>7
  <2> QED BY <1>1, <1>2, <1>5, <2>1, PopKeeps
<1> QED BY <1>6, <1>7

\* A panic: the id is not ERASED, so that Drop warns.
LEMMA UnwindKeeps == KeysInv /\ Unwind => KeysInv'
<1> SUFFICES ASSUME KeysInv, Unwind PROVE KeysInv'
  OBVIOUS
<1>1. Innermost \in Frame
  BY FrontIs DEF KeysInv, KeyTypes, Innermost, Unwind
<1>2. IdAtUnwind = Innermost.id /\ IdAtUnwind # ERASED
  BY <1>1, KeysAssumption DEF IdAtUnwind, Frame
<1>3. told \subseteq told' /\ Holding(Innermost.id) \subseteq told'
  BY <1>2 DEF Unwind
<1>4. returned'.rc = "panic"
  BY DEF Unwind, Result
<1> QED BY <1>3, <1>4, PopKeeps DEF Unwind

\* A use brings back at most the key of a frame's id.
LEMMA UseKeyKeeps ==
  ASSUME KeysInv, NEW n \in DOMAIN frames, NEW shim \in KeyShims, UseKey(n, shim)
  PROVE  KeysInv'
<1> DEFINE id == frames[n].id
<1>1. PICK delivery \in Delivery, fails \in MayFail(shim) :
        LET ran == Run(shim, fails, Reply(delivery, IF Usable(id) THEN "ok" ELSE "not_found"))
        IN /\ cache' = IF ran.asked /\ delivery # "request_lost" /\ Usable(id)
                       THEN Loaded(id) ELSE cache
           /\ stack' = stack \cup ran.live
           /\ returned' = Result(ran.rc, NoKey)
           /\ UNCHANGED <<nvm, made, frames, over, told>>
  BY DEF UseKey
<1> DEFINE reply == Reply(delivery, IF Usable(id) THEN "ok" ELSE "not_found")
           ran == Run(shim, fails, reply)
<1>2. reply \in RcName
  BY DEF Reply, RcName
<1>3. ran.live = {}
  <2> HIDE DEF reply
  <2> QED BY <1>2, ShimsOwn, RunFrees
<1>4. n \in 1 .. Len(frames)
  BY DEF KeysInv, KeyTypes
<1>5. returned'.key = NoKey
  BY <1>1 DEF Result
<1>6. stack' = stack /\ UNCHANGED <<nvm, made, frames, over, told>>
  BY <1>1, <1>3
<1>7. cache' = cache \/ (cache' = Loaded(id) /\ Usable(id))
  BY <1>1
<1> HIDE DEF ran, reply
<1>8. CASE cache' = cache
  BY <1>5, <1>6, <1>8, QuietStepKeeps
<1>9. CASE cache' # cache
  <2>1. id \notin DOMAIN cache /\ id \in DOMAIN nvm /\ cache' = With(cache, id, nvm[id])
    BY <1>7, <1>9 DEF Loaded, Usable
  <2>2. /\ DOMAIN cache' = DOMAIN cache \cup {id} /\ cache'[id] = nvm[id]
        /\ \A i \in DOMAIN cache : cache'[i] = cache[i]
    <3> HIDE DEF id
    <3> DEFINE k == nvm[id]
               c == With(cache, id, k)
    <3> HIDE DEF k
    <3>1. /\ DOMAIN c = DOMAIN cache \cup {id} /\ c[id] = k
          /\ \A i \in DOMAIN cache : i # id => c[i] = cache[i]
      BY DEF With
    <3>2. cache' = c
      BY <2>1 DEF k
    <3> HIDE DEF c
    <3> QED BY <2>1, <3>1, <3>2 DEF k
  <2>3. KeyTypes'
    BY <1>6, <2>1, <2>2 DEF KeysInv, KeyTypes
  <2>4. OneHome'
    BY <1>6, <2>1, <2>2 DEF KeysInv, OneHome
  <2>5. Owned'
    BY <1>6, <2>1, <2>2 DEF KeysInv, Owned
  <2>6. Told'
    BY <1>4, <1>6, <2>1, <2>2 DEF KeysInv, Told
  <2> QED BY <1>5, <1>6, <2>3, <2>4, <2>5, <2>6 DEF KeysInv, InnerIsNewer, OkIsGone, ShimsFree
<1> QED BY <1>8, <1>9

LEMMA HashKeeps == ASSUME KeysInv, NEW shim \in HashShims, Hash(shim) PROVE KeysInv'
<1>1. PICK delivery \in Delivery, fails \in MayFail(shim) :
        LET ran == Run(shim, fails, Reply(delivery, "ok"))
        IN /\ stack' = stack \cup ran.live
           /\ returned' = Result(ran.rc, NoKey)
           /\ UNCHANGED <<cache, nvm, made, frames, over, told>>
  BY DEF Hash
<1>2. Reply(delivery, "ok") \in RcName
  BY DEF Reply, RcName
<1>3. Run(shim, fails, Reply(delivery, "ok")).live = {}
  BY <1>2, ShimsOwn, RunFrees
<1>4. returned'.key = NoKey
  BY <1>1 DEF Result
<1> QED BY <1>1, <1>3, <1>4, QuietStepKeeps

\* Every call of the client keeps the invariant, whatever gets lost.
LEMMA KeysInvStep == KeysInv /\ KeysNext => KeysInv'
BY key_cacheKeeps, key_evictKeeps, key_commitKeeps, key_eraseKeeps, OpenKeyKeeps, CloseKeyKeeps,
   UnwindKeeps, UseKeyKeeps, HashKeeps DEF KeysNext

\* The registrations leave the keys alone.
LEMMA KeysInvStutter == KeysInv /\ UNCHANGED keyVars => KeysInv'
BY DEF KeysInv, KeyTypes, OneHome, InnerIsNewer, Owned, OkIsGone, Told, ShimsFree, keyVars

\* What the reader is told of.
LEMMA KeysInvMeans == KeysInv => FrameOwnsSlot /\ LeakIsTold /\ ShimsFree
<1> SUFFICES ASSUME KeysInv PROVE FrameOwnsSlot /\ LeakIsTold
  BY DEF KeysInv
<1>1. DOMAIN frames = 1 .. Len(frames)
  BY DEF KeysInv, KeyTypes
<1>2. FrameOwnsSlot
  BY <1>1 DEF KeysInv, Owned, FrameOwnsSlot
<1>3. LeakIsTold
  BY <1>1 DEF KeysInv, OkIsGone, Told, LeakIsTold, KeysOf
<1> QED BY <1>2, <1>3

LEMMA KeysInvHolds == ClientSpec => []KeysInv
<1>1. ClientInit => KeysInv
  BY KeysInvInit DEF ClientInit
<1>2. KeysInv /\ [ClientNext]_clientVars => KeysInv'
  <2> SUFFICES ASSUME KeysInv, [ClientNext]_clientVars PROVE KeysInv'
    OBVIOUS
  <2>1. CASE KeysNext
    BY <2>1, KeysInvStep
  <2>2. CASE UNCHANGED keyVars
    BY <2>2, KeysInvStutter
  <2> QED BY <2>1, <2>2 DEF ClientNext, clientVars
<1> QED BY <1>1, <1>2, PTL DEF ClientSpec

\* While the closure of with_key runs (wolfhsm/src/key.rs), its key is in the
\* cache of the server under the id that the closure has, unless somebody evicted
\* or erased that id: for any number of ids, any depth of nested calls, any size
\* of the cache, and whatever requests and replies get lost.
THEOREM FramesHold == ClientSpec => []FrameOwnsSlot
BY KeysInvHolds, KeysInvMeans, PTL

\* No slot of the server's cache leaks in silence: with_key that returns Ok has
\* evicted its key, and of any other key that it leaves there an error, a warning
\* or a panic has told, or an open call has the id and will evict it.
THEOREM LeaksAreTold == ClientSpec => []LeakIsTold
BY KeysInvHolds, KeysInvMeans, PTL

\* No path through a shim of wolfhsm-sys/src/shims.c leaves a wolfCrypt struct
\* initialised, whichever of its statements fails and however the request ends.
THEOREM ShimsFreeHolds == ClientSpec => []ShimsFree
BY KeysInvHolds, KeysInvMeans, PTL
=============================================================================
