# A TLA+ verification project for wolfssl-rs

wolfssl-rs is a Rust workspace over the C libraries wolfSSL, wolfCrypt, wolfHSM
and wolfTPM.  Many of its lines are bindings, stateless wrappers of primitives
and test vectors.  The parts with a life of their own are the async TLS
adapters, which turn a callback-driven C library into `AsyncRead`/`AsyncWrite`;
the nonce sequences of the AEAD keys; the clients of an HSM and of a TPM; the
native contexts behind the Rust types; and the streaming ciphers.  Most of its C
code is the single-precision arithmetic (SP) that the build puts in place of the
upstream files.  This project models those parts, checks the models with TLC on
small instances and proves the most important properties with TLAPS for every
value of the parameters.

## 1. Inventory

### Async TLS: `wolfcrypt-tls-tokio`, `wolfcrypt-tls-futures-io`

State.  A `TlsStream` owns the transport `io`, a wolfSSL session, two
network-side buffers (`NetBuffers { net_in, net_out }`, shared with wolfSSL
through its recv and send callbacks), the plaintext buffer `read_buf` and the
flag `shutdown_sent`.  The futures `Connect` and `Accept` own a stream and the
flag `handshake_done`.

Operations.  `recv` gives wolfSSL what is in `net_in` (WANT_READ when that is
empty), `send` appends to `net_out` and never blocks.  `fill_net_in` polls the
transport once for input; `flush_net_out` writes until `net_out` is empty.
`poll_read`, `poll_write`, `poll_flush`, `poll_shutdown` (`poll_close` in the
futures-io crate), `Drop`, `Connect::poll` and `Accept::poll` are built from them.

Interaction.  The two crates hold the same code against two sets of traits.
Two endpoints talk through a transport that buffers a bounded number of bytes.
A poll that cannot go on leaves its waker in the transport and returns Pending.

Hard.  A poll can be suspended in the middle of a record, cancelled, and
resumed by another call; the peer runs in between.  Best-effort flushes ignore
Pending.  A waker left in the wrong slot, or too late, hangs a task.  The end of
a connection arrives as a close_notify record, as end of file of the transport,
or as both, and a cut connection must not look like a clean end.  Two handshake
futures over a small transport can wait for each other.

Correct means: no byte between the two sessions is lost, doubled or reordered;
the application sees a prefix of what was written; a clean end means everything
arrived; a pending task will be woken; handshakes and calls end.

### AEAD keys and nonce sequences: `wolfcrypt-ring-compat/src/aead*`

State.  `Counter32`/`Counter64`: `limit`, `generated`, `counter`.  `SealingKey`
and `OpeningKey` own a key and a sequence; `prepare_nonce` lends a nonce that is
consumed by one seal or open.

Hard.  `counter` starts anywhere and wraps, `generated` must not; the limit is
checked after the increment; a nonce is consumed by calls that fail and by
prepared nonces that are dropped; the network replays and reorders.

Correct means: no nonce is issued or used twice, the limit holds, a refusal is
final, and the opening key accepts no message twice or out of order.

### Blocking TLS: `wolfcrypt-tls`

`TlsClient` and `TlsServer` drive wolfSSL over a blocking stream; `callback.rs`
catches panics at the C boundary; `config_holder.rs` keeps the configuration
alive as long as a session uses it.  Hard: retry loops on WANT_READ and
WANT_WRITE, shutdown in both directions, the order in which session, context and
callbacks are freed.

### wolfHSM client: `wolfhsm`

One request at a time per client against a server that several clients share.
`nvm_list` walks the objects with a cursor, `nvm_overwrite` deletes and adds,
`nvm_read` asks for the length first; counters saturate at `u32::MAX`; keys are
cached in slots and evicted by `with_key!` on every path; one client may
register as the wolfCrypt crypto callback.  Hard: another client acts between
two requests of one operation; a response is lost; the second step fails after
the first succeeded.

`wolfhsm-sys/src/shims.c` is the C half: each function initialises wolfCrypt
structures, binds them to a key of the server, does one operation and frees what
it initialised.  Hard: the paths on which the second of two initialisations, or
any call after it, fails.

### Crypto callback registry: `wolfcrypt/src/cryptocb.rs`, `wolfhsm/src/cryptocb.rs`

A table of wolfCrypt from device ids to callbacks, which boxes of Rust are given
to, and a flag that lets one HSM client at a time have the HSM's id.  Hard: the
order of unregistering, freeing and clearing the flag; a full table.

Correct means: an entry's context exists as long as the entry, a guard that lives
is registered, and the flag is set exactly while one does.

### SP arithmetic: `wolfssl-src/patches/sp_c64.c`, `sp_c32.c`

Replacements of upstream files, for 64 and 32 bits: arrays of signed words with
fewer bits than the word, Montgomery reduction, division, the points of P-256,
P-384 and P-521, ECDSA, ECDH, checks of keys, exponentiation, RSA and
Diffie-Hellman, each for several sizes and for a small and a normal build.  Hard:
digits that are not normalised, sums that use up the spare bits, windows across
digits, equal and infinite points, borrows, one buffer for all numbers of an
operation, secrets that must be wiped on each path.

Correct means: the digits stand for the number the routine is named after, points
follow the group law, signatures follow the standard.

### Native contexts: `wolfcrypt-rs/src/compat_shim.c` and its users

Contexts for digests, HMAC, CMAC, DH and RSA that C allocates and Rust owns;
counted EVP keys; key wrap with padding and two key derivations.  Hard: failing
calls between allocation and ownership, copies, resets that fail, panics, a peer
that replaces itself, lengths cut to 32 bits.

Correct means: each context is owned once and freed once, keys are wiped before
they are freed, a result is that of exactly the data fed in.

### wolfTPM and DPE: `wolftpm`, `wolftpm-tss`, `wolfcrypt-dpe`, `wolfcrypt-dpe-hw`

Transient handles that must be flushed on each failure path, the start-up lock
of the software TPM, the single exported CDI slot.

### Streaming ciphers and stateful signatures

`cipher/streaming.rs` (ring-compat) buffers a partial block between updates;
`gcm_stream.rs` has phases (AAD, data, tag); LMS keys are stateful and must never
sign twice with one leaf.

### Stateless parts

RustCrypto wrappers (`wolfcrypt`) without a native context, signatures and key
parsing of `wolfcrypt-ring-compat`, `ssh-key-wolfcrypt` (encoders and decoders),
the `-sys` crates (FFI and generated bindings), build scripts and conformance
suites.  Nothing in them is a matter of states and order, and they stay out.

## 2. Modules

| Module | Models | Extends |
| --- | --- | --- |
| `NetBuffers` | `NetBuffers`, `fill_net_in`, `flush_net_out`, transport and wakers | |
| `TlsStream` | two established `TlsStream`s and their applications | `NetBuffers` |
| `ByteStream` | what a pair of streams promises: the abstract specification | |
| `TlsHandshake` | `Connect` and `Accept` against each other | `NetBuffers` |
| `AeadKeys` | `SealingKey`, `OpeningKey`, prepared nonces, `Counter32/64` | |
| `HsmNvm` | the NVM operations of several wolfHSM clients, request by request | |
| `HsmShims` | the functions of `shims.c`, call by call | |
| `HsmKeys` | the key cache of the server, `with_key!`, key operations | `HsmShims` |
| `CryptoCb` | device registry and the HSM's guard | |
| `HsmClient` | a client with its keys, shims and registrations | `HsmKeys`, `CryptoCb` |
| `NativeHandles` | contexts, counted keys and key buffers of `compat_shim.c` and their Rust owners | |
| `KeyWrap`, `Kdf` | key wrap with padding, the two derivations of `compat_shim.c` | |
| `SpDigits` | the arithmetic of the digits on small numbers | |
| `SpField`, `SpPoint`, `SpMulmod`, `SpEcdsa` | field, points, scalar multiplication, ECDSA and keys, each on the one before | |
| `SpExp` | exponentiation, RSA and Diffie-Hellman on small numbers | |
| `EcGroup` | reference: the group of the curve by its textbook law | |
| `SpWords` | conversions and shifts at their real sizes (151 routines) | |
| `SpPowers` | how the exponentiations read their exponent (77) | `SpWords` |
| `SpDrivers` | the buffers of RSA and Diffie-Hellman (113) | `SpPowers` |
| `SpProducts` | products and squares (102) | `SpWords` |
| `SpSweeps`, `SpReduce` | sums, differences, comparison, normalising; products with a digit, conditional sums, Montgomery reduction (361) | `SpWords` |
| `SpC64`, `SpC32` | the tables of the routines of either file, stretch by stretch (183 and 184 stretches) | the above |
| `SpRoutines` | all of these: arguments, steps and what they have to do | `SpC64`, `SpC32` |
| `SpAlgorithms` | picks a function or a routine and its arguments; the properties | `SpEcdsa`, `EcGroup` and instances of the others |
| `MCTlsStream`, `MCTlsHandshake`, `MCNativeHandles`, `MCSpAlgorithms` | instances for TLC | the above |
| `MCHsm` | instance for TLC: the wolfhsm crate | `HsmNvm`, `HsmClient` |
| `MCCrypto` | instance for TLC: the cryptography below TLS | `AeadKeys`, `MCNativeHandles`, `MCSpAlgorithms` |
| `NetBuffersProofs`, `TlsStreamProofs`, `TlsStreamFlowProofs`, `TlsHandshakeProofs`, `AeadKeysProofs`, `HsmNvmProofs`, `HsmClientProofs`, `NativeHandlesProofs` | lemmas and theorems | the above |

The small definitions beside an action or operator with names such as
`FillDropsExcess`, `AdvancePastLimit`, `NeverDouble` or `CrtTight` are wrong
variants of it (a dropped guard, a missing reset, a wrong offset).  No specification uses them; they are there to show that each property
notices the mistake.

### How the stream model follows the code

* A poll takes `&mut self`: `at[e]` is the place the poll in progress at
  endpoint `e` has reached and `holder[e]` the task whose waker it passes on.
  Every poll of the transport is a step of its own, because the peer runs
  concurrently; calls into wolfSSL touch only this endpoint and are one step
  each.
* `Invoke` is the application making a call, `Poll` the executor polling it,
  `Cancel` the drop of a pending future, `Drop` the drop of the stream.
* wolfSSL is external.  A record is `RecLen` bytes.  `ssl_in` holds the bytes of
  an unfinished record that recv has already handed over, and a record is
  accepted only if it is, byte for byte, the peer's next one: that is what record
  authentication with sequence numbers gives.  A session whose read failed may
  refuse to write or to shut down.
* The transport is external: a bounded FIFO per direction, end of file after the
  sender's shutdown, an error for a writer whose reader is gone, and one waker
  slot per direction that keeps the latest waker, as the traits specify.
* `log` and `got` are history variables: everything wolfSSL produced, and
  everything it accepted.
* `Role` is the set of tasks that drive one endpoint: `{"main"}` for a stream
  owned by one task, `{"reader", "writer"}` for `tokio::io::split`.

`TlsHandshake` reuses `NetBuffers`; wolfSSL is a script of messages to send and
receive; `Init` picks the order of TLS 1.2 or that of TLS 1.3.
The owner of an established client may use its stream while the server is still
in its handshake (`EarlyWrite`, `EarlyRead`).

In `AeadKeys` both keys are built alike; `Max` is the largest value of the
counter's type and `Init` takes every start and limit.  The network presents any
message sealed so far, or a corrupted one, at any time.

In `HsmNvm` a step is one request with its reply (`&mut self` allows a client one
at a time), and the requests of several clients interleave.  The server is
external and known from what `nvm.rs` says of it; where it says nothing (the place
a new object takes in the directory, the answer to a delete of a missing object)
the model allows every answer.  `seen[c]` is history: the directory when the call
of `c` began and what came and went since.

### How the HSM client model follows the code

A stack of frames stands for nested `with_key!` calls: a frame remembers the id
it took before its closure ran.  The server's cache, a finite set of slots, and the
transport, which loses a request or a reply, are external.  A shim is a sequence of
C calls of which any may fail; `HsmShims` states for each one what is initialised,
when the server is asked and what is freed.  Registration is split into the steps
between which another client, or another device, may act.

### How the model of the native contexts follows the code

Every handle of Rust has an owner in the model; a C call that allocates,
initialises, updates, copies or frees is a step, may fail where the code checks it,
and a panic unwinds through the drops.  Data are sequences of pieces whose lengths
may exceed `LenModulus`, the cut to 32 bits; a DH number is its bytes.

### How the SP models follow the code

Two ways, because the code is arithmetic on large numbers at many sizes:

* *All values, small sizes.*  `SpDigits` to `SpExp` are the algorithms with the
  number of bits, the width of a digit and the curve as parameters, on all or on
  boundary values, compared with arithmetic and with `EcGroup`.  `SpField` works
  with residues: that the digits stand for them is what the part of
  `ArithmeticIsExact` about digits says.  The addition chains of the inverses and
  roots are their exponents.
* *Real sizes.*  A routine is a record, `MulDOf(57, 36, ...)` for `sp_2048_mul_d_36`,
  that gives the numbers of digits and bits, offsets, unrolled parts and limits that its
  text has; the steps, in `SpWords` to `SpReduce`, are those of its family, which the
  generator has written out for each size.  `SpC64` and `SpC32` list the records in the
  order of the two files, one definition for the routines that stand together, with the
  name of the one that the others serve.  The text of every
  routine listed was compared line by line, constants taken out, with the others of
  its family.  What moves bits is followed symbolically: in `SpWords` a bit is its
  position, in `SpPowers` and `SpDrivers` an exponent is counted from the bits read
  so far.  What computes is executed: `SpSweeps`, `SpProducts` and `SpReduce` run
  every statement on arrays of integers, with as many digits as the code has.  TLC's
  integers have 32 bits, so a digit holds `DigitScale` = 8 bits of the number where the
  code's holds w; above them it has exactly the spare bits that w leaves in `sp_digit`,
  and an accumulator those that 2w leave in its type (fewer where that would be more than
  30 bits in all), so that a sum wraps here whenever as many carries would make it wrap
  there.

## 3. Runs

| Run | Configuration | What it shows |
| --- | --- | --- |
| `stream_oneway` | records of 3 bytes, 3 writes, transport of 4, reads of 1 | conservation, reads that do not fail, wake-ups and the refinement of `ByteStream`, with cancellation and drop at every point; under fairness calls end, flushed data is delivered and a close is noticed |
| `stream_duplex` | streams split between two tasks at both ends, records of 2 bytes, both directions, ticket in flight, one corrupted byte | truncation is detected, close_notify is sent once and after the data, the reader's waker is never lost although both tasks flush |
| `handshake_both` | TLS 1.2 and 1.3, messages of 3 bytes, transport of 2, mutual TLS, abandonment, fair | both futures end; no mutual wait; early application data survives in `net_in`; both sides obtain their stream unless somebody rejected or gave up |
| `hsm` | NVM: two clients, any operations, a directory with a free slot or a full one, one message lost, a cursor that may stick, fair. Keys: two ids, a cache of two, frames nested twice, one fault, two clients, another device, a table of one entry | a list is exact, wherever objects are added, unless one that it has listed is deleted; a read of an undisturbed object is whole; an overwrite that destroyed its object and stored nothing says so; every NVM call ends; a frame evicts only its own key; a key that stays behind is reported; every shim frees what it initialised, once; registry, flag and boxes agree |
| `crypto` | AEAD: counter of 4 values, every start and limit, 4 opens. Contexts: three, two values, pieces of 1 to 3 with lengths cut at 3, two faults. C functions: the curve y^2 = x^3 - 3x + 37 modulo 59, of order 53; digits of 3 bits; key wrap with semiblocks of 2; and 805 routines at their real sizes | nonces are unique, within their limit and final when refused, messages open in order; contexts have one owner and are freed once; keys are wiped; a result is that of the data exactly if no piece was too long; a DH number stands padded in the caller's buffer; arithmetic, group law, ECDSA and ECDH, RSA, key wrap and derivations are right, except exactly where section 6 says; bits get where they belong, exponents are read whole, buffers do not overlap, sums fit |
| `stream_eof`, `handshake_alert`, `stream_split` | as the stream and handshake runs, with what the violation needs | violations, section 6 |
| `cmac_key` | the contexts of `crypto` | violation, section 6 |
| `sp_division`, `sp_long_division`, `sp_reduction` | the C functions of `crypto` | violations, section 6 |

The parts of `hsm` share no state, nor do those of `crypto`.  A behaviour of these
runs follows one of them (`part`) and leaves the others in an initial state, so a
run has the states of its parts added up, and what it finds of one part does not
depend on the others.

Bounds.  `PipeCap`, `FillMax`, `ReadMax` and `RecLen` are chosen against each
other so that a flush stops in the middle of a record (`PipeCap` no multiple of
`RecLen`), a fill takes parts of two records (`FillMax > RecLen`), a fill leaves
a partial record behind, and `read_buf` outlasts a call (`ReadMax` of 1).
`MaxWrites` and `MaxTamper` bound the applications and the network.  Two or three
records are enough for every relative position of the three cut points (wire,
`net_in`, wolfSSL).  `Max = 3` in `AeadKeys` lets the counter wrap from every
start and reach every limit including 0 and `Max`.  In `HsmNvm` four ids
and a directory that starts with two or three of them let an id be added before,
between and behind the stored ones, and let an add fail for want of room; the two
contents differ in length, so that a stale length shows; each client
makes one call, and since an overwrite is a delete followed by an add, the other
client can change the store twice between two requests; more calls than that are
beyond this run.  In `HsmClient` a cache of two slots and two ids make ids come
back to another frame while the first is still open; a table of one entry makes
registration fail.  Three contexts in `NativeHandles` allow a copy of a copy.  In
`SpAlgorithms` 53 points and all scalars of 6 bits contain every special case of
the formulas; 7 bits in digits of 3 leave a short top digit as the real sizes do;
boundary operands (`MCOperands`, `MCFactors`) stand in for all products where these
are too many; the ciphertexts of two and three semiblocks are complete.  The
routines at real sizes run on the arguments `SpRoutines` lists: too few, enough and
too many bytes; words wider and narrower than the digits; exponents of no bits, one
digit, the edge of a digit and all bits; each failing call of an RSA operation;
numbers of nothing, of all ones, with something else in every digit, with digits
that fill their type and with borrowed digits, in arrays of their own and in place;
moduli of all ones, the least ones and others, with the largest residues, and for RSA
and DH the residue that makes the digits gather most.

`CHECK_DEADLOCK FALSE` stands in the TLS configurations because an application
may stop calling and a handshake ends, in `Hsm.cfg` because the number of NVM calls
is bounded and all clients may be dropped, and in `Crypto.cfg` and those of
`MCSpAlgorithms` because a function ends; hanging is what `PendingWillWake`,
`NoMutualWait` and the liveness properties are about.

Fairness.  `Step` is weakly fair because a poll is a function that runs to its
end; `Poll` because an executor polls what was woken (and only that: a parked
task is not polled until a waker fires).  `stream_oneway` also assumes that a
reading application goes on reading, without which no flush over a full
transport could end; `handshake_both` that a future which returned an error is
dropped and that an established client reads.  In `hsm` the server answers
every NVM request; the number of calls is bounded, and without that bound a writer
could keep a list going for ever.  Nothing is
assumed of writing, closing, cancelling, dropping or of the network.

## 4. Proofs

All for every value of the constants that the named assumptions allow: any number
of values, clients, ids, tasks or contexts, any length of a record or a message, any
capacity.  TLC evaluates the assumptions on the instances of section 3.

* **`NetBuffersProofs`**: what `fill_net_in` and `flush_net_out` do to their
  sequences, as lemmas of which the two TLS modules make use.
* **`TlsStreamProofs`**: `TypeCorrect`; `ControlHolds`: the poll in progress
  belongs to a task of that endpoint that has called the stream, is at a place of
  that call, and is not parked; `CallsHold`: no write after the shutdown, no read
  after the end.  `ReadersAreWoken` (`PendingReadWillWake`) and `EveryoneIsWoken`
  (`PendingWillWake`) follow from `WakeInv`, which says of every parked task that its
  waker is in its slot and the transport is not ready, and adds that it has a call.
  It is kept because no other task of the endpoint polls that slot meanwhile.  For
  readers this is `HalvesAssumption` (only one half of a split reads).  For writers it is the hypothesis `OneTask` of `EveryoneIsWoken`: without
  it `poll_read` of the other half puts its own waker into the write slot, which is
  what the run `stream_split` shows.
* **`TlsStreamFlowProofs`**, first half: `NothingIsLost` (`Conservation`) and
  `ReadsDoNotFail` (`NoSpuriousFailure`).  `Conservation` is not inductive: it is
  silent about a direction one of whose streams was dropped, but what was read
  from a dropped peer must still be the next record of its log, or the reader
  would fail.  The strengthening `FlowInv` says that each direction's log is what
  the peer accepted, what is in transit, and some bytes `lost`, which are empty
  unless a stream was dropped.  Dropping moves the content of `net_out` to `lost`;
  a reader that is gone takes no more steps.  `FlowInv` quantifies over all byte
  sequences, so TLC cannot evaluate it; TLC checks the two properties it implies.
* **`TlsStreamFlowProofs`**, second half: `CloseComesLast` (`CloseAfterFlush`; the
  transport is closed at a place of `poll_shutdown` that is only reached with an empty
  `net_out`, and nothing is written afterwards), `CloseNotifyIsLast`
  (`CloseNotifyOnce`), `StreamsImplementByteStream`, the refinement, and
  `TruncationIsDetected`.  Here the network may corrupt bytes.  The invariant
  `StreamInv` reads bytes as records: each log consists of whole records, its n-th
  application record is the n-th that was written, and nothing follows a
  close_notify (`LogInv`); no more bytes arrive than were produced, and the bytes of
  a close_notify that `Drop` could not flush do not arrive (`LenInv`); what the
  caller has and what is in `read_buf` are the application records that wolfSSL
  accepted (`ReadInv`).  A clean end needs an accepted close_notify; that is the last
  record of the log, so all others were accepted before it.  The step of the
  abstract specification is found from which of `written`, `delivered`,
  `shutdown_sent` and `ended` a step changes.
* **`TlsHandshakeProofs`**: `TypeHolds`, `ConservationHolds` and
  `NoMutualWaitHolds`.  `HandshakeAssumption` says that the scripts are half-duplex
  (`HalfDuplex`): at no pair of positions are messages under way in both directions,
  and where none is under way not both sides wait for one; the scripts of TLS 1.2 and
  1.3 are.  `HsInv` counts: the bytes of each log are the messages sent and those
  accepted are the messages received, and a parked future is parked either to read,
  with nothing for it in `net_in` or on the wire, or to write, with a full wire.
  If both were parked, there would be bytes under way in both directions, or none
  and both would await a message.
* **`AeadKeysProofs`**: `NoncesAreUnique`, `LimitIsRespected`, `SealedOnce`,
  `OpenedOnceInOrder`, `RefusalIsForever`, for every width, start and limit.  The
  invariant `IInv` says that the i-th nonce issued is `start + i - 1` modulo
  `Max + 1`, that there are at most `Max` of them, that a prepared nonce is the
  latest one issued and was not used, and that sealed and opened messages follow
  the order of the nonces.  Uniqueness follows because a full cycle is never
  completed: `generated` stops at `Max`, one short of the number of values.
* **`HsmNvmProofs`**: `ListHolds`, `ReadHolds` and `LossHolds`, for any number of
  clients and calls between two requests.  The assumption on `InitDir` is that a
  directory has no id twice and fits the server.  A request of another client is an
  `Update`: objects that stay keep their contents and their order.  `NvmInv` says of a
  list under way that, unless an object that it has listed was deleted, the
  ids listed so far are distinct, were there, include every object stored at the
  beginning that still is and comes before the cursor, and are stored before it now; of a read
  that the length it has asked for is that of the object; of an overwrite what its
  history says at each of its places.
* **`HsmClientProofs`**: `RegistryHolds` (`RegistryIsConsistent`), assuming that no
  other device uses the HSM's id.  `CbInv`: the flag is a lock, taken exactly while
  one client registers, holds a guard or drops one; the HSM's entry is in the table
  exactly while a guard exists; every other entry has its box.
  `ShimsFreeHolds` (`ShimsFree`) rests on `RunFrees`: a shim of any length in which the
  struct of each init is freed by a later statement, on every path past it, leaves
  nothing initialised, whichever calls fail and whatever is answered.  It is an
  induction over the statements of the shim (`NatSetInduction`, induction over Nat stated
  with a set, which the provers can instantiate where they cannot a predicate); one lemma per shim
  shows that its text has this form.
  `FramesHold` (`FrameOwnsSlot`) and `LeaksAreTold` (`LeakIsTold`) hold for any number
  of keys, ids and slots and any depth of nested `with_key`.  Neither is inductive:
  `KeysInv` adds that a key has one id, in the cache, in the NVM and in the frame that
  made it, and that no two frames have the same key (`OneHome`; otherwise an eviction by id would
  leave a second copy, and a close could evict another frame's key), that the keys are those made so far
  (a new one is none of them), and that of two frames with the same id the outer one has lost its slot
  (`InnerIsNewer`; an inner frame evicts by id when it closes, and an outer one of
  that id that had not lost its slot would be evicted with it).
* **`NativeHandlesProofs`**: `ContextsHold` (`ContextsAreOwned`), `WipesHold`
  (`KeysAreWiped`) and `ResultsHold` (`ResultIsOfTheData`).  `HandlesInv` strengthens
  them: it says that the values are finitely many, that a context's parts are among
  those of its kind (so that its free function can release them all), that the lost
  contexts are RSA contexts and the peer key a shared key, and that the data in a
  context is what its owner was given or, if a piece was too long, something shorter
  (so that no later piece makes up for what was cut).  The invariant is stated for a heap and a map
  of values, with one lemma per operation on them; replacing the peer key is the
  composition of dropping the old and taking the new one, in either order, also when
  they are the same key.

Checked by TLC only:

* all liveness;
* everything about SP, key wrap and key derivation: these modules compute with
  recursive operators over scaled-down or sampled data, and the SMT backend is lost in
  every module that reaches one.

## 5. What the models leave out

* `WANT_WRITE` and the branches for a wolfSSL that wants to read although it did
  not drain `net_in`: `send` never refuses and `recv` drains, so no state reaches
  them.  Renegotiation and KeyUpdate.
* A transport whose `poll_write` returns `Ok(0)`, whose `poll_shutdown` is
  Pending, or that fails for other reasons than a departed reader; reads of a
  transport that fail.
* Use of a stream against the contract of its traits (writing after shutdown,
  reading after end of file).
* In `HsmNvm`: access and flags of objects, and with them a delete that the server
  refuses (to the client it is a request that got lost), labels, the check of data longer than
  `u16::MAX`, a server that reports more bytes than were asked for,
  `nvm_available` and `nvm_read_raw` (one request each, nothing changes).
* In `HsmClient`: certificates, authentication and SHE (single requests), counters,
  the contents of buffers, and the dispatch of an operation to a callback.
* In `NativeHandles`: what the algorithms compute and the parsers of keys.
* In the SP modules: timing; the non-blocking variants, the cache of FP_ECC, SAKKE
  and its pairings and `WC_NO_CACHE_RESISTANT`, which no settings file defines;
  failing allocations of the routines themselves (no settings define a small stack);
  the point routines at their real sizes; the stripping of leading zeros in
  `SpDrivers` (`SpExp` has it).  `mod_inv` of zero, which would loop, is excluded by
  its callers' checks.
* In `AeadKeys`: `LessSafeKey` and `RandomizedNonceKey`, which keep no state.

## 6. Disagreements between code and its documentation

1. `stream_eof`: `poll_read` returns buffered plaintext when it meets the
   close_notify in the same poll and keeps no note of it (`stream.rs:211`); the
   next `poll_read` refills `net_in` and reports `UnexpectedEof` when the peer has
   closed the transport.  The comment at `stream.rs:209` promises EOF after the
   plaintext.
2. `handshake_alert`: `Accept::poll` and `Connect::poll` return wolfSSL's error
   before `flush_net_out` (`acceptor.rs:99`, `connector.rs:114`), and the alert is
   dropped with the future.  The test at `tests/client_server.rs:208` says that
   the client receives it.
3. `stream_split`: the best-effort flush of `poll_read` (`stream.rs:203`)
   registers the reader's waker in the transport's write slot and displaces the
   writer's, whose `poll_flush` is not woken.  `PLAN-wolfcrypt-tls-tokio.md:259`
   says that `tokio::io::split` needs no special work.
4. `sp_division`: `sp_521_div_9` (`sp_c64.c:38188`) masks its second subtraction
   with a digit that the borrow of the lowest one has not reached (`38217`); the
   correction after the loop (`38222`) repairs the last step only, and the remainder
   can be wrong.  The comment at `sp_c64.c:38177` says m*d + r = a.  Compiled, the
   routine gives wrong squares modulo 2^521 - 1 for operands chosen near the borrow
   and never for random ones; `sp_c32.c:39038` has the same loop.  P-256, P-384 and
   the order of P-521 are further from a power of two and safe.

5. `sp_long_division`: a step of the long division (`sp_c64.c:5031`, and its kind at
   every size) adds an estimated multiple of the divisor back without the top digit of
   the product (`5040`).  The remainder is still right unless the rest is then negative
   or has a digit more than the divisor: that digit is `t1[36 + i]`, which no later step
   looks at.  The comment at `sp_c64.c:4997` says m*d + r = a.  The run has 28 for 29 in
   digits of 3 bits; at the real widths it happens for moduli whose second digit (after
   the shift) is zero and numbers just below a multiple of them, and for the modulus of
   all ones with chosen operands, and not for random ones.  `ArithmeticIsExact` has the
   limit: a remainder is exact if and only if no step leaves too much (`LeavesTooMuch`).
6. `sp_reduction`: `sp_3072_mont_reduce_54` (`sp_c64.c:11059`) adds up to 108 parts of
   products of 57 bits to a digit that has room for 64, `sp_2048_mont_reduce_36`
   (`4737`) up to 72.  The comments at `11053` and `4731` say that the number is reduced.
   `Gathering` in `SpRoutines` is the number that needs only multiples that make both
   parts large for a modulus with digits 2^w - 15.  At the real widths the 54 digits
   overflow for this modulus also with a few of some thousand random products, the 36
   digits with the chosen number; all other reductions have room (`HasRoom`).
   `ArithmeticIsExact` has the limit: a reduction is right if and only if it has room or
   its digits hold what this number makes them gather (`Fits`).
7. `cmac_key`: `wolfcrypt_cmac_free` (`compat_shim.c:1781`) neither calls `wc_CmacFree`
   nor wipes, while `rustcrypto-trait-gaps.md:45` says that every type that holds key
   material does.  `KeysAreWiped` is about all other kinds.

The statements about real widths here come from executing the routines' statements
outside TLC, on integers of their full size.

Met while modelling, without a run of their own.  Of the first four a property of a
passing run gives the limit: what the code promises up to there and, in the second and
third, that it does not beyond.

* `nvm_list`: the server's NOTFOUND for a cursor whose object another client has
  deleted is taken for the end of the list (`nvm.rs:242`), which is returned with
  objects missing; the doc at `nvm.rs:199` says that all are listed.  `ListIsExact`
  leaves out lists that lost an object they had listed, and no others.
* The exponent 1: `sp_RsaPublic` reduces the remainder of a division with no squaring in
  between (`sp_c64.c:2298`), and with it what the corrections of the division have left
  in the digits above (`sp_c64.c:1810` copies them).  The comment at `2130` promises the
  exponentiation result.  At the real widths about one in eight random moduli and bases
  gives a wrong one.  `BuffersAreKept` says that the result is wrong for this exponent
  exactly when something was left there, and right for all others (`HalfCopied`).
* `data.len() as u32` cuts lengths in `digest.rs:105`, `hmac.rs:86` and `cmac.rs:89`,
  although `error.rs:68` has a checked conversion; `wolfcrypt/src/lib.rs:59` says that
  longer buffers panic and are not truncated.  `ResultIsOfTheData` says that a result is
  of all the data exactly if no piece was too long.
* `nvm_read`: the first bytes of a longer object are returned if that has replaced the
  one whose length was asked for (`nvm.rs:324`); the doc at `nvm.rs:316` says that it
  reads to the end of the object.  `ReadIsWhole` is about objects nobody deletes.
* In `sp_2048_sqr_72` and `sp_2048_mul_72` of `sp_c32.c` the sums of the halves would
  outgrow their type if all 72 digits were full (`Crowded` in `SpRoutines`): the numbers
  of 2048 bits have 71, and are fine.  `sp_c32.c:787` normalises `a1` twice and `a2`
  never: harmless, the sums fit.
* Without a table the private exponentiation with d (`SP_RSA_PRIVATE_EXP_D`, in no
  settings) wipes the base and not d; the branch of `from_mp` for equal widths is
  compiled by no settings.
* `RsaPrivateKey::public_key` leaks the new context if the import panics
  (`rsa.rs:568`); `unregister_device` leaks its box, as its comment says.

## 7. Plan

In order:

1. `CipherStream`: the block buffer of the streaming keys and the phases of the
   GCM stream, against the one-shot cipher as reference.
2. `BlockingTls`: `TlsClient` and `TlsServer`, their retries and shutdown.
3. `TpmKeys`: transient handles and the start-up lock; the exported CDI slot.
4. The point routines of SP at their real sizes.
5. Proofs: what `SpDigits` computes, for every width and number of digits.

Not modelled: LMS (the leaf counter and the key store are driven by a C library that
is not in the repository), the bindings and settings headers, SSH key formats, build
support and conformance suites.
