------------------------------- MODULE MCHsm -------------------------------
(***************************************************************************)
(* The wolfhsm crate for model checking.  A client's NVM calls (HsmNvm)    *)
(* share no state with its keys and callbacks (HsmClient), so a behaviour  *)
(* follows one of the two parts and leaves the other where it starts: what *)
(* is found of a part holds whatever the other does.                       *)
(***************************************************************************)
EXTENDS HsmNvm, HsmClient

VARIABLE part

Short == <<1>>
Long == <<2, 2>>
Contents == {Short, Long}

Object1 == [id |-> 1, data |-> Long]
Object2 == [id |-> 2, data |-> Short]
Object3 == [id |-> 3, data |-> Short]
\* A directory with a free slot and a full one.
FreeOrFull == {<<Object1, Object3>>, <<Object1, Object2, Object3>>}

Everything == [c \in Client |-> Operation]

\* A part that is not followed has one initial state.
HsmInit ==
  /\ part \in {"nvm", "keys"}
  /\ NvmInit /\ (part # "nvm" => dir = CHOOSE d \in InitDir : TRUE)
  /\ ClientInit

HsmNext ==
  \/ part = "nvm" /\ NvmNext /\ UNCHANGED <<part, clientVars>>
  \/ part = "keys" /\ ClientNext /\ UNCHANGED <<part, nvmVars>>

HsmSpec == HsmInit /\ [][HsmNext]_<<part, nvmVars, clientVars>> /\ NvmFairness
=============================================================================
