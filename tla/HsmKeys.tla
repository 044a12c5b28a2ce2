------------------------------ MODULE HsmKeys ------------------------------
(***************************************************************************)
(* The keys of a wolfHSM client: wolfhsm/src/key.rs and the key types of   *)
(* wolfhsm/src/crypto.                                                     *)
(*                                                                         *)
(* with_ecc_p256_key and its kin make a key in the server's cache, run a   *)
(* closure with it and evict it.  The closure has the client too: it may   *)
(* open further keys, and may cache, evict, commit and erase keys by id    *)
(* (KeyId is Copy, and KeyId::new makes one from any number).  The open    *)
(* calls are a stack of frames.  A call is one step, for the client is     *)
(* borrowed until its reply is in.                                         *)
(*                                                                         *)
(* The server is external: it gives a new key an id that neither its cache *)
(* nor its NVM uses, refuses when the cache is full, loads a committed key *)
(* into the cache when it is used, and knows keys by id alone.  A request  *)
(* or its reply may get lost.  To tell apart two keys that had the same id *)
(* one after the other, every key is a number of its own.                  *)
(***************************************************************************)
EXTENDS Integers, Sequences, FiniteSets, HsmShims

CONSTANTS
  KeyId,       \* the ids the server gives, none of them ERASED
  CacheCap,    \* how many keys the server's cache holds
  MaxKeys,     \* bound: keys ever made
  MaxDepth,    \* bound: nested with_key calls
  MaxLosses    \* bound: requests and replies that get lost

ERASED == 0

ASSUME KeysAssumption ==
  /\ ERASED \notin KeyId
  /\ CacheCap \in Nat
  /\ MaxKeys \in Nat
  /\ MaxDepth \in Nat
  /\ MaxLosses \in Nat

VARIABLES
  cache,     \* the server's key cache: from the ids in use to keys
  nvm,       \* the committed keys, likewise
  made,      \* how many keys were made
  frames,    \* the open with_key calls, the innermost last
  returned,  \* how the latest call ended; the key if it was with_key
  over,      \* the keys whose with_key has ended
  told,      \* the keys whose slot an error, a warning or a panic told of
  stack,     \* the structs that a shim left initialised
  losses     \* how many messages were lost

keyVars == <<cache, nvm, made, frames, returned, over, told, stack, losses>>

-----------------------------------------------------------------------------
(* The server (external).                                                  *)

KeysOf(f) == {f[i] : i \in DOMAIN f}
With(f, id, k) == [i \in DOMAIN f \cup {id} |-> IF i = id THEN k ELSE f[i]]
Without(f, id) == [i \in DOMAIN f \ {id} |-> f[i]]

HasRoom == Cardinality(DOMAIN cache) < CacheCap
FreeIds == KeyId \ (DOMAIN cache \cup DOMAIN nvm)

\* A use brings a committed key back into the cache if there is room.
Usable(id) == id \in DOMAIN cache \/ (id \in DOMAIN nvm /\ HasRoom)
Loaded(id) == IF id \in DOMAIN cache THEN cache ELSE With(cache, id, nvm[id])

\* How a message exchange ends: not executed, executed without an answer, done.
Delivery == {"request_lost", "reply_lost", "done"}

Exchange(delivery) ==
  /\ delivery # "done" => losses < MaxLosses
  /\ losses' = losses + (IF delivery = "done" THEN 0 ELSE 1)

\* What wh_Client returns when the server's answer would be rc.
Reply(delivery, rc) == IF delivery = "done" THEN rc ELSE "comm_error"

-----------------------------------------------------------------------------
(* Calls by id: key_cache, key_evict, key_commit, key_erase.               *)

Result(rc, k) == [rc |-> rc, key |-> k]
NoKey == 0

\* The server's answers to a request for a slot: a free id, or a refusal, which
\* may be an error or the id ERASED.
Answers ==
  IF HasRoom /\ FreeIds # {} /\ made < MaxKeys
  THEN [id : FreeIds, rc : {"ok"}]
  ELSE [id : {ERASED}, rc : {"ok", "wh_error"}]

\* The new key takes its slot if the server got the request and has room.
Stored(delivery, a) == delivery # "request_lost" /\ a.id # ERASED

Made(delivery, a) ==
  IF Stored(delivery, a)
  THEN cache' = With(cache, a.id, made + 1) /\ made' = made + 1
  ELSE UNCHANGED <<cache, made>>

\* The checks after the call: the error of the call, then the id.
MadeOutcome(rc, id) ==
  IF rc # "ok" THEN rc ELSE IF id = ERASED THEN "protocol_error" ELSE "ok"

key_cache ==
  \E delivery \in Delivery, a \in Answers :
    /\ Exchange(delivery)
    /\ Made(delivery, a)
    /\ returned' = Result(MadeOutcome(Reply(delivery, a.rc), a.id), NoKey)
    /\ UNCHANGED <<nvm, frames, over, told, stack>>

\* The frames whose id an eviction or erasure takes from under them.
Disturbed(fs, id) == [i \in DOMAIN fs |-> [fs[i] EXCEPT !.lost = @ \/ fs[i].id = id]]

EvictRc(id) == IF id \in DOMAIN cache THEN "ok" ELSE "not_found"

key_evict(id) ==
  \E delivery \in Delivery :
    /\ Exchange(delivery)
    /\ returned' = Result(Reply(delivery, EvictRc(id)), NoKey)
    /\ IF delivery = "request_lost" THEN UNCHANGED <<cache, frames>>
       ELSE cache' = Without(cache, id) /\ frames' = Disturbed(frames, id)
    /\ UNCHANGED <<nvm, made, over, told, stack>>

key_commit(id) ==
  \E delivery \in Delivery :
    /\ Exchange(delivery)
    /\ returned' = Result(Reply(delivery, EvictRc(id)), NoKey)
    /\ nvm' = IF delivery = "request_lost" \/ id \notin DOMAIN cache THEN nvm
              ELSE With(nvm, id, cache[id])
    /\ UNCHANGED <<cache, made, frames, over, told, stack>>

key_erase(id) ==
  \E delivery \in Delivery :
    /\ Exchange(delivery)
    /\ returned' = Result(Reply(delivery, "ok"), NoKey)
    /\ IF delivery = "request_lost" THEN UNCHANGED <<cache, nvm, frames>>
       ELSE /\ cache' = Without(cache, id)
            /\ nvm' = Without(nvm, id)
            /\ frames' = Disturbed(frames, id)
    /\ UNCHANGED <<made, over, told, stack>>

-----------------------------------------------------------------------------
(* with_key.                                                               *)

\* generate, through a make_key shim, then the closure is entered.  The cache
\* of AesKey and CmacKey makes the same request and the same checks in key_cache.
OpenKey(shim) ==
  \E delivery \in Delivery, a \in Answers :
    LET k == made + 1
        ran == Run(shim, 0, Reply(delivery, a.rc))
        key_id == IF ran.wrote THEN a.id ELSE ERASED
        rc == MadeOutcome(ran.rc, key_id)
        orphan == IF rc # "ok" /\ Stored(delivery, a) THEN {k} ELSE {}
    IN /\ Len(frames) < MaxDepth
       /\ Exchange(delivery)
       /\ Made(delivery, a)
       /\ stack' = stack \cup ran.live
       /\ returned' = Result(rc, NoKey)
       /\ frames' = IF rc = "ok"
                    THEN Append(frames, [id |-> key_id, key |-> k, lost |-> FALSE])
                    ELSE frames
       /\ over' = over \cup orphan
       /\ told' = told \cup orphan
       /\ UNCHANGED nvm

Innermost == frames[Len(frames)]

\* What is told of an id is told of the key that has it now.
Holding(id) == IF id \in DOMAIN cache THEN {cache[id]} ELSE {}

EvictsOutermost == frames[1].id

\* The id that with_key copied before the closure ran.
EvictedId == Innermost.id

\* On success the eviction's error is propagated ...
WithKeyRc(result, evict) == IF result = "ok" THEN evict ELSE "closure_error"

\* ... and on the error path it is only logged.
Logged(result, evict) == result = "err" /\ evict # "ok"

\* The closure has returned: key.id is cleared, the copy of the id is evicted;
\* then the result decides what becomes of the eviction's error.
CloseKey(result) ==
  \E delivery \in Delivery :
    LET f == Innermost
        id == EvictedId
        evict == Reply(delivery, EvictRc(id))
    IN /\ frames # <<>>
       /\ Exchange(delivery)
       /\ IF delivery = "request_lost" THEN UNCHANGED cache
          ELSE cache' = Without(cache, id)
       /\ frames' = Front(frames)
       /\ returned' = Result(WithKeyRc(result, evict), f.key)
       /\ over' = over \cup {f.key}
       /\ told' = IF Logged(result, evict) \/ (result = "ok" /\ returned'.rc # "ok")
                  THEN told \cup {f.key} \cup Holding(id) ELSE told
       /\ UNCHANGED <<nvm, made, stack>>

ClearedEarly == ERASED

\* What Drop finds in key.id when the closure unwinds: the id, for it is
\* cleared only after the closure.
IdAtUnwind == Innermost.id

\* A panic of the closure: no eviction; Drop warns if the id is not ERASED.
Unwind ==
  /\ frames # <<>>
  /\ frames' = Front(frames)
  /\ over' = over \cup {Innermost.key}
  /\ told' = IF IdAtUnwind # ERASED
             THEN told \cup {Innermost.key} \cup Holding(IdAtUnwind) ELSE told
  /\ returned' = Result("panic", Innermost.key)
  /\ UNCHANGED <<cache, nvm, made, stack, losses>>

-----------------------------------------------------------------------------
(* Operations on the key of an open frame, and hashes.                     *)

UseKey(i, shim) ==
  \E delivery \in Delivery, fails \in MayFail(shim) :
    LET id == frames[i].id
        ran == Run(shim, fails, Reply(delivery, IF Usable(id) THEN "ok" ELSE "not_found"))
    IN /\ IF ran.asked
          THEN Exchange(delivery)
          ELSE delivery = "done" /\ UNCHANGED losses
       /\ cache' = IF ran.asked /\ delivery # "request_lost" /\ Usable(id)
                   THEN Loaded(id) ELSE cache
       /\ stack' = stack \cup ran.live
       /\ returned' = Result(ran.rc, NoKey)
       /\ UNCHANGED <<nvm, made, frames, over, told>>

Hash(shim) ==
  \E delivery \in Delivery, fails \in MayFail(shim) :
    LET ran == Run(shim, fails, Reply(delivery, "ok"))
    IN /\ IF ran.asked
          THEN Exchange(delivery)
          ELSE delivery = "done" /\ UNCHANGED losses
       /\ stack' = stack \cup ran.live
       /\ returned' = Result(ran.rc, NoKey)
       /\ UNCHANGED <<cache, nvm, made, frames, over, told>>

-----------------------------------------------------------------------------
(* The client.                                                             *)

Empty == [i \in {} |-> NoKey]

KeysInit ==
  /\ cache = Empty
  /\ nvm = Empty
  /\ made = 0
  /\ frames = <<>>
  /\ returned = Result("ok", NoKey)
  /\ over = {}
  /\ told = {}
  /\ stack = {}
  /\ losses = 0

KeysNext ==
  \/ key_cache
  \/ \E id \in KeyId : key_evict(id)
  \/ \E id \in KeyId : key_commit(id)
  \/ \E id \in KeyId : key_erase(id)
  \/ \E shim \in MakeShims : OpenKey(shim)
  \/ \E result \in {"ok", "err"} : CloseKey(result)
  \/ Unwind
  \/ \E i \in DOMAIN frames : \E shim \in KeyShims : UseKey(i, shim)
  \/ \E shim \in HashShims : Hash(shim)

-----------------------------------------------------------------------------
(* Properties.                                                             *)

Key == 1 .. MaxKeys

\* Every variable has its type; the cache is within its capacity and no key
\* has two ids.
KeysTypeOK ==
  /\ DOMAIN cache \subseteq KeyId /\ KeysOf(cache) \subseteq Key
  /\ DOMAIN nvm \subseteq KeyId /\ KeysOf(nvm) \subseteq Key
  /\ Cardinality(DOMAIN cache) <= CacheCap
  /\ \A i, j \in DOMAIN cache : cache[i] = cache[j] => i = j
  /\ made \in 0 .. MaxKeys
  /\ frames \in Seq([id : KeyId, key : Key, lost : BOOLEAN])
  /\ over \subseteq Key /\ told \subseteq Key
  /\ losses \in 0 .. MaxLosses

\* The key of an open frame is in the cache under its id, unless somebody
\* evicted or erased that id during the frame: neither an inner with_key nor
\* a lost message nor the id of a key that is gone takes it away.
FrameOwnsSlot ==
  \A i \in DOMAIN frames : ~frames[i].lost =>
    /\ frames[i].id \in DOMAIN cache
    /\ cache[frames[i].id] = frames[i].key

\* No slot leaks in silence: with_key that returns Ok has left its key nowhere in
\* the cache, whatever the closure did with ids, and a key whose with_key is over
\* and that is still in the cache was told of by an error, a warning or a panic,
\* or the id is that of an open frame, which will evict it.
LeakIsTold ==
  /\ returned.key # NoKey /\ returned.rc = "ok" => returned.key \notin KeysOf(cache)
  /\ \A id \in DOMAIN cache : cache[id] \in over =>
       \/ cache[id] \in told
       \/ \E i \in DOMAIN frames : frames[i].id = id

\* No operation leaves a wolfCrypt struct initialised, on any path of a shim.
ShimsFree == stack = {}
=============================================================================
