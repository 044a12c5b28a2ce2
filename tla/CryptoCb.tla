------------------------------ MODULE CryptoCb ------------------------------
(***************************************************************************)
(* Who is in the crypto callback table of wolfCrypt:                       *)
(* Client::register_cryptocb and CryptoCbGuard (wolfhsm/src/cryptocb.rs),  *)
(* register_device and unregister_device (wolfcrypt/src/cryptocb.rs).      *)
(*                                                                         *)
(* Every client lives in a thread of its own.  Registering and dropping    *)
(* the guard are two steps each, one on the flag REGISTERED and one on the *)
(* table, and the threads interleave between them.  The table is external: *)
(* a device that is there already is replaced, a new one needs a free      *)
(* entry.  One call of it is one step.  A guard that is leaked with        *)
(* mem::forget, which never unregisters, is left out.                      *)
(***************************************************************************)
EXTENDS Naturals, FiniteSets

CONSTANTS
  CbClient,    \* wolfHSM clients
  Device,      \* ids that register_device uses, other than DEV_ID
  TableSize,   \* how many devices the table holds
  MaxBoxes     \* bound: calls of register_device

DEV_ID == "wolfhsm"

ASSUME CbAssumption == DEV_ID \notin Device /\ TableSize \in Nat /\ MaxBoxes \in Nat

VARIABLES
  REGISTERED,  \* the flag that lets one registration through
  table,       \* from the registered devices to their context pointers
  cbAt,        \* cbAt[c]: what the thread of c is doing
  exists,      \* the clients not yet dropped
  boxes,       \* the boxes of register_device that are not freed
  boxed        \* how many there ever were

cbVars == <<REGISTERED, table, cbAt, exists, boxes, boxed>>

\* "claimed": the flag is taken, the device not yet registered; "failed": the
\* table was full; "guard": the guard lives; "dropping": half of its drop is done.
Place == {"idle", "claimed", "failed", "guard", "dropping"}

\* The borrow of the client by the registration and by the guard.
Borrowed(c) == cbAt[c] # "idle"

CbGoto(c, place) == cbAt' = [cbAt EXCEPT ![c] = place]

-----------------------------------------------------------------------------
(* The table (external).                                                   *)

CanRegister(d) == d \in DOMAIN table \/ Cardinality(DOMAIN table) < TableSize
Registered(d, ctx) == [x \in DOMAIN table \cup {d} |-> IF x = d THEN ctx ELSE table[x]]
Unregistered(d) == [x \in DOMAIN table \ {d} |-> table[x]]

-----------------------------------------------------------------------------
(* register_cryptocb and the guard.                                        *)

\* compare_exchange: AlreadyRegistered if another registration lives.
Claim(c) ==
  /\ c \in exists
  /\ cbAt[c] = "idle"
  /\ \/ ~REGISTERED /\ REGISTERED' = TRUE /\ CbGoto(c, "claimed")
     \/ REGISTERED /\ UNCHANGED <<REGISTERED, cbAt>>
  /\ UNCHANGED <<table, exists, boxes, boxed>>

RegisterDevice(c) ==
  /\ cbAt[c] = "claimed"
  /\ IF CanRegister(DEV_ID)
     THEN table' = Registered(DEV_ID, c) /\ CbGoto(c, "guard")
     ELSE CbGoto(c, "failed") /\ UNCHANGED table
  /\ UNCHANGED <<REGISTERED, exists, boxes, boxed>>

\* The error path gives the flag back.
ReleaseClaim(c) ==
  /\ cbAt[c] = "failed"
  /\ REGISTERED' = FALSE
  /\ CbGoto(c, "idle")
  /\ UNCHANGED <<table, exists, boxes, boxed>>

\* Drop for CryptoCbGuard undoes two things, one after the other: first the
\* device, then the flag.
FlagFirst == <<"flag", "device">>
DropOrder == <<"device", "flag">>

Undo(what) ==
  /\ table' = IF what = "device" THEN Unregistered(DEV_ID) ELSE table
  /\ REGISTERED' = (REGISTERED /\ what # "flag")

DropGuard(c) ==
  /\ cbAt[c] = "guard"
  /\ Undo(DropOrder[1])
  /\ CbGoto(c, "dropping")
  /\ UNCHANGED <<exists, boxes, boxed>>

DropRest(c) ==
  /\ cbAt[c] = "dropping"
  /\ Undo(DropOrder[2])
  /\ CbGoto(c, "idle")
  /\ UNCHANGED <<exists, boxes, boxed>>

\* The client is dropped; the borrow checker allows it when nothing borrows it.
DropClient(c) ==
  /\ c \in exists
  /\ ~Borrowed(c)
  /\ exists' = exists \ {c}
  /\ UNCHANGED <<REGISTERED, table, cbAt, boxes, boxed>>

-----------------------------------------------------------------------------
(* register_device and unregister_device.                                  *)

KeepsBox(box, ok) == IF ok THEN boxes \cup {box} ELSE boxes

\* The callbacks are boxed; the box is freed if the table refuses.
register_device(d) ==
  LET box == boxed + 1 IN
  /\ boxed < MaxBoxes
  /\ boxed' = box
  /\ boxes' = KeepsBox(box, CanRegister(d))
  /\ table' = IF CanRegister(d) THEN Registered(d, box) ELSE table
  /\ UNCHANGED <<REGISTERED, cbAt, exists>>

\* The box cannot be reclaimed and leaks.
unregister_device(d) ==
  /\ d \in DOMAIN table
  /\ table' = Unregistered(d)
  /\ UNCHANGED <<REGISTERED, cbAt, exists, boxes, boxed>>

-----------------------------------------------------------------------------

CbInit ==
  /\ REGISTERED = FALSE
  /\ table = [x \in {} |-> 0]
  /\ cbAt = [c \in CbClient |-> "idle"]
  /\ exists = CbClient
  /\ boxes = {}
  /\ boxed = 0

CbNext ==
  \/ \E c \in CbClient : Claim(c)
  \/ \E c \in CbClient : RegisterDevice(c)
  \/ \E c \in CbClient : ReleaseClaim(c)
  \/ \E c \in CbClient : DropGuard(c)
  \/ \E c \in CbClient : DropRest(c)
  \/ \E c \in CbClient : DropClient(c)
  \/ \E d \in Device : register_device(d)
  \/ \E d \in Device : unregister_device(d)

-----------------------------------------------------------------------------
(* Properties.                                                             *)

\* While a guard lives its own client is in the table: the drop of another guard,
\* a failed registration and other devices never remove or replace it.  Every
\* context pointer in the table points to a client not yet dropped or to a box not
\* yet freed.  The flag is taken only while somebody registers, holds a guard or
\* drops one: no failed or finished registration keeps later ones out.
RegistryIsConsistent ==
  /\ \A c \in CbClient : cbAt[c] = "guard" => DEV_ID \in DOMAIN table /\ table[DEV_ID] = c
  /\ \A d \in DOMAIN table :
       IF d = DEV_ID THEN table[d] \in exists ELSE table[d] \in boxes
  /\ REGISTERED => \E c \in CbClient : Borrowed(c)
=============================================================================
