----------------------------- MODULE HsmClient -----------------------------
(***************************************************************************)
(* wolfHSM clients in one process: the keys of one of them, and the crypto *)
(* callback registrations of all.  register_cryptocb borrows the client    *)
(* until the guard is dropped: meanwhile no key operation, and no end of a *)
(* closure that holds the client, can happen.                              *)
(***************************************************************************)
EXTENDS HsmKeys, CryptoCb

CONSTANT Owner   \* the client whose keys are modelled

ASSUME OwnerAssumption == Owner \in CbClient

clientVars == <<keyVars, cbVars>>

ClientInit == KeysInit /\ CbInit

\* A client with an open frame is borrowed by the with_key call.
ClientNext ==
  \/ Owner \in exists /\ ~Borrowed(Owner) /\ KeysNext /\ UNCHANGED cbVars
  \/ CbNext /\ (Owner \notin exists' => frames = <<>>) /\ UNCHANGED keyVars

ClientSpec == ClientInit /\ [][ClientNext]_clientVars
=============================================================================
