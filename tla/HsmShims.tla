------------------------------ MODULE HsmShims ------------------------------
(***************************************************************************)
(* The C shims of wolfhsm-sys/src/shims.c.                                 *)
(*                                                                         *)
(* A shim initialises wolfCrypt structs on its stack, sets the id of the   *)
(* HSM key in them, sends a request through the client and frees the       *)
(* structs.  It is the sequence of its statements; Run executes it for     *)
(* given failures.  Once rc is not 0, what follows is skipped, except      *)
(* Free; a statement that returns from the shim names what it frees first. *)
(* Buffers, lengths and key material are left out.                         *)
(***************************************************************************)
EXTENDS Naturals, Sequences, SequencesExt

\* rc = wc_..._init(&s); if (rc != 0) { free; return rc; }
InitStruct(s, frees) == [op |-> "init", struct |-> s, frees |-> frees]
\* if (...) { free; return WH_ERROR_BADARGS; }
Refuse(frees) == [op |-> "refuse", struct |-> "", frees |-> frees]
\* wh_Client_...SetKeyId(&s, keyId);
SetKeyId(s) == [op |-> "setid", struct |-> s, frees |-> {}]
\* A local step that can fail: a decoding, a range check, an encoding.
Local == [op |-> "local", struct |-> "", frees |-> {}]
\* The wh_Client call; it names the key through struct s, or as an argument.
ShimRequest(s) == [op |-> "request", struct |-> s, frees |-> {}]
\* Results go to the caller's memory.
Out == [op |-> "out", struct |-> "", frees |-> {}]
Free(s) == [op |-> "free", struct |-> s, frees |-> {}]

\* The key id is an argument of the request.
ByValue == ""

-----------------------------------------------------------------------------
(* One struct around one request.                                          *)

Wrapped == <<InitStruct("key", {}), SetKeyId("key"), ShimRequest("key"), Out, Free("key")>>

wolfhsm_ecc_sign == Wrapped
wolfhsm_ecc_verify == Wrapped
wolfhsm_rsa_get_size == Wrapped
wolfhsm_aes_gcm_decrypt == Wrapped
wolfhsm_ed25519_sign == Wrapped
wolfhsm_ed25519_verify == Wrapped
wolfhsm_cmac == Wrapped

\* A refusal before the struct is initialised, and one that frees it.
wolfhsm_aes_gcm_encrypt ==
  <<Refuse({}), InitStruct("key", {}), SetKeyId("key"), ShimRequest("key"), Out, Free("key")>>
wolfhsm_rsa_function ==
  <<InitStruct("key", {}), SetKeyId("key"), Refuse({"key"}), ShimRequest("key"), Out, Free("key")>>

\* The parameters are set first.
wolfhsm_mldsa_sign ==
  <<InitStruct("key", {}), Local, SetKeyId("key"), ShimRequest("key"), Out, Free("key")>>
wolfhsm_mldsa_verify == wolfhsm_mldsa_sign

(* A public key: export it, then encode it.                                *)

wolfhsm_ecc_export_public_der ==
  <<InitStruct("key", {}), ShimRequest(ByValue), Local, Out, Free("key")>>
wolfhsm_rsa_export_public_der == wolfhsm_ecc_export_public_der
wolfhsm_ed25519_export_public ==
  <<InitStruct("key", {}), ShimRequest(ByValue), Local, Out, Local, Free("key")>>
wolfhsm_curve25519_export_public == wolfhsm_ed25519_export_public

(* A shared secret takes a second struct for the peer's key: decode it,    *)
(* check the length, ask.                                                  *)

SecondInitKeepsFirst == {}
SecondInitFrees == {"priv"}

wolfhsm_ecc_shared_secret ==
  <<InitStruct("priv", {}), InitStruct("pub", SecondInitFrees), SetKeyId("priv"),
    Local, Local, ShimRequest("priv"), Out, Free("pub"), Free("priv")>>
wolfhsm_curve25519_shared_secret == wolfhsm_ecc_shared_secret

(* A hash has no key.                                                      *)

wolfhsm_sha256 == <<InitStruct("sha", {}), ShimRequest(ByValue), Out, Free("sha")>>
wolfhsm_sha384 == wolfhsm_sha256
wolfhsm_sha512 == wolfhsm_sha256

(* A key is made by the request alone.                                     *)

MakeKey == <<ShimRequest(ByValue), Out>>

wolfhsm_ecc_make_key == MakeKey
wolfhsm_curve25519_make_key == MakeKey
wolfhsm_rsa_make_key == MakeKey
wolfhsm_mldsa_make_key == MakeKey
wolfhsm_ed25519_make_key == MakeKey

\* The operations on a cached key.
KeyShims ==
  {wolfhsm_ecc_sign, wolfhsm_ecc_verify, wolfhsm_ecc_export_public_der,
   wolfhsm_ecc_shared_secret, wolfhsm_curve25519_shared_secret, wolfhsm_rsa_function,
   wolfhsm_rsa_get_size, wolfhsm_rsa_export_public_der, wolfhsm_mldsa_sign,
   wolfhsm_mldsa_verify, wolfhsm_aes_gcm_encrypt, wolfhsm_aes_gcm_decrypt,
   wolfhsm_ed25519_sign, wolfhsm_ed25519_verify, wolfhsm_ed25519_export_public,
   wolfhsm_curve25519_export_public, wolfhsm_cmac}

HashShims == {wolfhsm_sha256, wolfhsm_sha384, wolfhsm_sha512}

MakeShims ==
  {wolfhsm_ecc_make_key, wolfhsm_curve25519_make_key, wolfhsm_rsa_make_key,
   wolfhsm_mldsa_make_key, wolfhsm_ed25519_make_key}

-----------------------------------------------------------------------------
(* Running a shim.                                                         *)

\* rc: "ok" or the error.  live: the structs initialised and not freed.
\* ids: those whose key id is set.  asked: whether the request was sent, and
\* keyed: whether it named the key.  wrote: whether results were handed out.
Entered == [rc |-> "ok", returned |-> FALSE, live |-> {}, ids |-> {ByValue},
            asked |-> FALSE, keyed |-> TRUE, wrote |-> FALSE]

\* One statement; bad says that it fails, and reply is how the request ends.
Executed(f, s, bad, reply) ==
  IF s.op \in {"init", "refuse"} /\ bad
  THEN [f EXCEPT !.rc = "local_error", !.returned = TRUE, !.live = @ \ s.frees]
  ELSE IF s.op = "init" THEN [f EXCEPT !.live = @ \cup {s.struct}]
  ELSE IF s.op = "setid" THEN [f EXCEPT !.ids = @ \cup {s.struct}]
  ELSE IF s.op = "local" /\ bad THEN [f EXCEPT !.rc = "local_error"]
  ELSE IF s.op = "request"
  THEN [f EXCEPT !.asked = TRUE, !.rc = reply, !.keyed = s.struct \in f.ids]
  ELSE IF s.op = "out" THEN [f EXCEPT !.wrote = TRUE]
  ELSE f

Statement(f, s, bad, reply) ==
  IF f.returned THEN f
  ELSE IF s.op = "free" THEN [f EXCEPT !.live = @ \ {s.struct}]
  ELSE IF f.rc # "ok" THEN f
  ELSE Executed(f, s, bad, reply)

\* How the shim stands after each of its statements, of which the one with the
\* number fails does not succeed (0: all do).
Trace(shim, fails, reply) ==
  LET after[i \in 0 .. Len(shim)] ==
        IF i = 0 THEN Entered
        ELSE Statement(after[i - 1], shim[i], i = fails, reply)
  IN after

Run(shim, fails, reply) == Trace(shim, fails, reply)[Len(shim)]

\* The statements that can fail by themselves.
MayFail(shim) == {0} \cup {i \in DOMAIN shim : shim[i].op \in {"init", "refuse", "local"}}
=============================================================================
