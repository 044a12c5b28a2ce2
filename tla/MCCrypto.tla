------------------------------ MODULE MCCrypto ------------------------------
(***************************************************************************)
(* The cryptography below the TLS crates for model checking: nonces of the *)
(* AEAD keys (AeadKeys), native contexts of the Rust values                *)
(* (NativeHandles) and the C functions they call (SpAlgorithms).  The      *)
(* three share no state, so a behaviour follows one of them and leaves the *)
(* others where they start.                                                *)
(***************************************************************************)
EXTENDS AeadKeys, MCNativeHandles, MCSpAlgorithms

VARIABLE part

\* A part that is not followed has one initial state.
CryptoInit ==
  /\ part \in {"aead", "handles", "sp"}
  /\ AeadInit /\ (part # "aead" => start = 0 /\ limit = 0)
  /\ HandlesInit
  /\ SpInit

CryptoNext ==
  \/ part = "aead" /\ AeadNext /\ UNCHANGED <<part, handleVars, input>>
  \/ part = "handles" /\ HandlesNext /\ UNCHANGED <<part, aeadVars, input>>
  \/ part = "sp" /\ SpNext /\ UNCHANGED <<part, aeadVars, handleVars>>

CryptoSpec == CryptoInit /\ [][CryptoNext]_<<part, aeadVars, handleVars, input>>
=============================================================================
