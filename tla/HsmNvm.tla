------------------------------- MODULE HsmNvm -------------------------------
(***************************************************************************)
(* The NVM operations of wolfHSM clients: wolfhsm/src/nvm.rs.              *)
(*                                                                         *)
(* A client sends one request at a time (&mut self) and waits for the      *)
(* reply, but nvm_list, nvm_read and nvm_overwrite are made of several     *)
(* requests, and between two of them the server answers other clients.     *)
(* at[c] names the request that c sends next; a request, its execution     *)
(* and the handling of its reply are one step.                             *)
(*                                                                         *)
(* The server is external.  It keeps a directory of objects in some order: *)
(* an add fails if the id exists or no slot is free and may put the object *)
(* anywhere, a list request looks its cursor up by exact match and answers *)
(* with the object after it, and a read past the end of an object fails,   *)
(* all as nvm.rs says.  A request or its reply may get lost, and a server  *)
(* that misbehaves may answer a list request with the cursor itself.       *)
(***************************************************************************)
EXTENDS Integers, Sequences, FiniteSets

CONSTANTS
  Client,
  OpsOf,       \* OpsOf[c]: the operations the application of c uses
  Id,          \* object ids, none of them INVALID
  Datum,       \* contents to write: sequences
  Offset,      \* offsets to read from
  NvmCap,      \* how many objects the server holds
  InitDir,     \* the directories to start from
  MaxCalls,    \* bound: calls of one client
  MaxFaults,   \* bound: requests and replies that get lost
  CanStick     \* whether the server may answer a list with the cursor

INVALID == 0
Operation == {"list", "metadata", "read", "add", "overwrite", "delete"}
Object == [id : Id, data : Datum]

ASSUME NvmAssumption ==
  /\ OpsOf \in [Client -> SUBSET Operation]
  /\ Id \subseteq Nat \ {INVALID}
  /\ \A data \in Datum : Len(data) \in Nat
  /\ \A d \in InitDir :
       /\ d \in Seq(Object) /\ Len(d) <= NvmCap
       /\ \A i, j \in DOMAIN d : d[i].id = d[j].id => i = j
  /\ Offset \subseteq Nat
  /\ NvmCap \in Nat
  /\ MaxCalls \in Nat
  /\ MaxFaults \in Nat
  /\ CanStick \in BOOLEAN

VARIABLES
  dir,      \* the server's directory: a sequence of [id, data]
  job,      \* job[c]: the arguments of c's latest call
  at,       \* at[c]: the next request of the call, "idle" if there is none
  outcome,  \* outcome[c]: how the latest call ended
  ids,      \* ids[c]: what nvm_list has gathered; the last one is its cursor
  len,      \* len[c]: the length nvm_read learned from the metadata
  value,    \* value[c]: what nvm_read returned
  calls,    \* calls[c]: how many calls c has made
  faults,   \* how many requests and replies were lost
  seen      \* seen[c]: what happened at the server during the latest call

server == <<dir, faults>>
local == <<job, ids, len, value>>
nvmVars == <<dir, job, at, outcome, ids, len, value, calls, faults, seen>>

At == {"idle", "list", "metadata", "length", "read", "add", "overwrite", "replace",
       "delete"}
Outcome == {"none", "ok", "wh_error", "comm_error", "protocol_error", "invalid_input",
            "data_lost"}

-----------------------------------------------------------------------------
(* The server (external).                                                  *)

IdsOf(d) == {d[i].id : i \in DOMAIN d}
Exists(id) == id \in IdsOf(dir)
PlaceOf(d, id) == CHOOSE i \in DOMAIN d : d[i].id = id
Content(d, id) == d[PlaceOf(d, id)].data

\* The object after the cursor; INVALID at the end of the directory and for a
\* cursor that is not there, which is where the server answers NOTFOUND.
After(start_id) ==
  LET p == IF start_id = INVALID THEN 1
           ELSE IF Exists(start_id) THEN PlaceOf(dir, start_id) + 1
           ELSE Len(dir) + 1
  IN IF p \in DOMAIN dir THEN dir[p].id ELSE INVALID

\* Objects are stored in one of the free places and removed from theirs.
Inserted(d, new) ==
  {[j \in 1 .. Len(d) + 1 |-> IF j <= i THEN d[j] ELSE IF j = i + 1 THEN new ELSE d[j - 1]] :
     i \in 0 .. Len(d)}
Removed(d, id) ==
  IF id \notin IdsOf(d) THEN d
  ELSE LET p == PlaceOf(d, id)
       IN [i \in 1 .. Len(d) - 1 |-> IF i < p THEN d[i] ELSE d[i + 1]]

CanAdd(id) == ~Exists(id) /\ Len(dir) < NvmCap

\* A request of c changes the directory to d, and every call under way
\* witnesses the ids that came and those that went.
Execute(c, d) ==
  /\ dir' = d
  /\ seen' = [x \in Client |->
       IF at[x] = "idle" THEN seen[x]
       ELSE LET came == IdsOf(d) \ IdsOf(dir)
                gone == IdsOf(dir) \ IdsOf(d)
            IN [seen[x] EXCEPT !.came = @ \cup came,
                               !.gone = @ \cup gone,
                               !.stored = @ \/ (x = c /\ came # {}),
                               !.destroyed = @ \/ (x = c /\ gone # {})]]

-----------------------------------------------------------------------------
(* Calls begin, end and fail.                                              *)

Goto(c, request) ==
  /\ at' = [at EXCEPT ![c] = request]
  /\ UNCHANGED outcome

Return(c, r) ==
  /\ at' = [at EXCEPT ![c] = "idle"]
  /\ outcome' = [outcome EXCEPT ![c] = r]

\* The first request of each operation.
FirstRequest(op) == IF op = "read" THEN "length" ELSE op

\* nvm_add and nvm_overwrite refuse NvmId::INVALID before any request.
Refused(op, id) == op \in {"add", "overwrite"} /\ id = INVALID

Invoke(c, op, id, data, offset) ==
  /\ at[c] = "idle"
  /\ op \in OpsOf[c]
  /\ calls[c] < MaxCalls
  /\ calls' = [calls EXCEPT ![c] = @ + 1]
  /\ job' = [job EXCEPT ![c] = [op |-> op, id |-> id, data |-> data, offset |-> offset]]
  /\ at' = [at EXCEPT ![c] = IF Refused(op, id) THEN "idle" ELSE FirstRequest(op)]
  /\ outcome' = [outcome EXCEPT ![c] = IF Refused(op, id) THEN "invalid_input" ELSE "none"]
  /\ ids' = [ids EXCEPT ![c] = <<>>]
  /\ value' = [value EXCEPT ![c] = <<>>]
  /\ seen' = [seen EXCEPT ![c] = [base |-> dir, came |-> {}, gone |-> {},
                                  stored |-> FALSE, destroyed |-> FALSE]]
  /\ UNCHANGED <<server, len>>

\* The reply does not come: every wrapper returns the error of its wh_Client
\* call; the add of nvm_overwrite turns it into DataLost.
CommOutcome(c) == IF at[c] = "replace" THEN "data_lost" ELSE "comm_error"

Lose(c) ==
  /\ faults < MaxFaults
  /\ faults' = faults + 1
  /\ Return(c, CommOutcome(c))
  /\ UNCHANGED <<local, calls>>

LoseRequest(c) ==
  /\ at[c] # "idle"
  /\ Lose(c)
  /\ UNCHANGED <<dir, seen>>

\* The request was executed, and its reply is lost.
LoseReply(c) ==
  LET id == job[c].id IN
  /\ \/ /\ at[c] \in {"overwrite", "delete"}
        /\ Exists(id)
        /\ Execute(c, Removed(dir, id))
     \/ /\ at[c] \in {"add", "replace"}
        /\ CanAdd(id)
        /\ \E d \in Inserted(dir, [id |-> id, data |-> job[c].data]) : Execute(c, d)
  /\ Lose(c)

-----------------------------------------------------------------------------
(* nvm_list.                                                               *)

CursorPlusOne(c) == IF ids[c] = <<>> THEN INVALID ELSE ids[c][Len(ids[c])] + 1

\* start_id: 0 at first, then the id seen last.
StartId(c) == IF ids[c] = <<>> THEN INVALID ELSE ids[c][Len(ids[c])]

\* The id the server answers with.
ListReplies(c) ==
  {After(StartId(c))} \cup (IF CanStick THEN {StartId(c)} \ {INVALID} ELSE {})

\* The guard against a server whose cursor does not move.
Stuck(c, out_id) == out_id = StartId(c) /\ StartId(c) # INVALID

List(c) ==
  /\ at[c] = "list"
  /\ \E out_id \in ListReplies(c) :
       \/ out_id = INVALID /\ Return(c, "ok") /\ UNCHANGED ids
       \/ /\ out_id # INVALID
          /\ Stuck(c, out_id)
          /\ Return(c, "protocol_error")
          /\ UNCHANGED ids
       \/ /\ out_id # INVALID
          /\ ~Stuck(c, out_id)
          /\ ids' = [ids EXCEPT ![c] = Append(@, out_id)]
          /\ Goto(c, "list")
  /\ UNCHANGED <<server, job, len, value, calls, seen>>

-----------------------------------------------------------------------------
(* nvm_metadata and nvm_read.                                              *)

Metadata(c) ==
  /\ at[c] = "metadata"
  /\ Return(c, IF Exists(job[c].id) THEN "ok" ELSE "wh_error")
  /\ UNCHANGED <<server, local, calls, seen>>

DataLenWithoutOffset(c, n) == n

\* data_len = meta.len.saturating_sub(offset)
DataLen(c, n) == IF n > job[c].offset THEN n - job[c].offset ELSE 0

\* The metadata request of nvm_read: nothing more to do if the object is
\* missing or has nothing behind the offset.
ReadLength(c) ==
  LET id == job[c].id IN
  /\ at[c] = "length"
  /\ \/ ~Exists(id) /\ Return(c, "wh_error") /\ UNCHANGED len
     \/ /\ Exists(id)
        /\ len' = [len EXCEPT ![c] = DataLen(c, Len(Content(dir, id)))]
        /\ IF len'[c] = 0 THEN Return(c, "ok") ELSE Goto(c, "read")
  /\ UNCHANGED <<server, job, ids, value, calls, seen>>

\* The read request asks for the length learned before; the server refuses to
\* read past the end of the object it now has.
Within(c) ==
  Exists(job[c].id) /\ job[c].offset + len[c] <= Len(Content(dir, job[c].id))

ReadData(c) ==
  /\ at[c] = "read"
  /\ \/ /\ ~Within(c)
        /\ Return(c, "wh_error")
        /\ UNCHANGED value
     \/ /\ Within(c)
        /\ value' = [value EXCEPT ![c] = SubSeq(Content(dir, job[c].id),
                                               job[c].offset + 1, job[c].offset + len[c])]
        /\ Return(c, "ok")
  /\ UNCHANGED <<server, job, ids, len, calls, seen>>

-----------------------------------------------------------------------------
(* nvm_add, nvm_overwrite and nvm_delete.                                  *)

\* A request that adds an object; failed is what the client makes of a refusal.
AddObject(c, failed) ==
  LET id == job[c].id IN
  /\ \/ /\ CanAdd(id)
        /\ \E d \in Inserted(dir, [id |-> id, data |-> job[c].data]) : Execute(c, d)
        /\ Return(c, "ok")
     \/ /\ ~CanAdd(id)
        /\ Return(c, failed)
        /\ UNCHANGED <<dir, seen>>
  /\ UNCHANGED <<local, calls, faults>>

Add(c) == at[c] = "add" /\ AddObject(c, "wh_error")

\* A server asked to destroy an object it does not have answers OK or NOTFOUND.
Delete(c) ==
  /\ at[c] = "delete"
  /\ Execute(c, Removed(dir, job[c].id))
  /\ \/ Return(c, "ok")
     \/ ~Exists(job[c].id) /\ Return(c, "wh_error")
  /\ UNCHANGED <<local, calls, faults>>

\* nvm_overwrite deletes first; NOTFOUND counts as success.
OverwriteDelete(c) ==
  /\ at[c] = "overwrite"
  /\ Execute(c, Removed(dir, job[c].id))
  /\ Goto(c, "replace")
  /\ UNCHANGED <<local, calls, faults>>

ReplaceAsPlainAdd(c) == at[c] = "replace" /\ AddObject(c, "wh_error")

RetryUntilStored(c) ==
  \/ at[c] = "replace" /\ CanAdd(job[c].id) /\ AddObject(c, "data_lost")
  \/ at[c] = "replace" /\ ~CanAdd(job[c].id) /\ UNCHANGED nvmVars

\* Then it adds; a refusal now is DataLost.
OverwriteAdd(c) == at[c] = "replace" /\ AddObject(c, "data_lost")

-----------------------------------------------------------------------------
(* The specification.                                                      *)

NoJob == [op |-> "none", id |-> INVALID, data |-> <<>>, offset |-> 0]
NothingSeen == [base |-> <<>>, came |-> {}, gone |-> {}, stored |-> FALSE, destroyed |-> FALSE]

NvmInit ==
  /\ dir \in InitDir
  /\ job = [c \in Client |-> NoJob]
  /\ at = [c \in Client |-> "idle"]
  /\ outcome = [c \in Client |-> "none"]
  /\ ids = [c \in Client |-> <<>>]
  /\ len = [c \in Client |-> 0]
  /\ value = [c \in Client |-> <<>>]
  /\ calls = [c \in Client |-> 0]
  /\ faults = 0
  /\ seen = [c \in Client |-> NothingSeen]

\* The arguments an operation uses; the others are left at their defaults.
Arguments(op) ==
  CASE op = "list" -> {INVALID} \X {<<>>} \X {0}
    [] op \in {"metadata", "delete"} -> Id \X {<<>>} \X {0}
    [] op = "read" -> Id \X {<<>>} \X Offset
    [] op \in {"add", "overwrite"} -> (Id \cup {INVALID}) \X Datum \X {0}

\* One request of the call under way.
Request(c) ==
  \/ List(c)
  \/ Metadata(c)
  \/ ReadLength(c)
  \/ ReadData(c)
  \/ Add(c)
  \/ OverwriteDelete(c)
  \/ OverwriteAdd(c)
  \/ Delete(c)

NvmNext == \E c \in Client :
  \/ Request(c)
  \/ LoseRequest(c)
  \/ LoseReply(c)
  \/ \E op \in Operation : \E a \in Arguments(op) : Invoke(c, op, a[1], a[2], a[3])

NvmSpec == NvmInit /\ [][NvmNext]_nvmVars

\* The server answers: a call under way goes on.
NvmFairness == \A c \in Client : WF_nvmVars(Request(c))

-----------------------------------------------------------------------------
(* Properties.                                                             *)

\* Every variable has its type, and the directory never holds an id twice nor
\* more objects than it has room for.
TypeOK ==
  /\ dir \in Seq(Object)
  /\ Cardinality(IdsOf(dir)) = Len(dir)
  /\ Len(dir) <= NvmCap
  /\ \A c \in Client :
       /\ job[c].op \in Operation \cup {"none"}
       /\ job[c].id \in Id \cup {INVALID}
       /\ at[c] \in At
       /\ outcome[c] \in Outcome
       /\ ids[c] \in Seq(Id)
       /\ len[c] \in Nat
       /\ calls[c] \in 0 .. MaxCalls
  /\ faults \in 0 .. MaxFaults

Succeeded(c, op) == at[c] = "idle" /\ job[c].op = op /\ outcome[c] = "ok"
Listed(c) == {ids[c][i] : i \in DOMAIN ids[c]}

\* A list is exact, wherever other clients add objects and whatever they delete, if
\* no object that it lists was deleted during the call, as the one is on which its
\* cursor loses its place: it holds every object that was there from the beginning
\* to the end, none of them twice, and nothing that was not there at some moment.
ListIsExact ==
  \A c \in Client : Succeeded(c, "list") /\ Listed(c) \cap seen[c].gone = {} =>
    /\ IdsOf(seen[c].base) \ seen[c].gone \subseteq Listed(c)
    /\ Listed(c) \subseteq IdsOf(seen[c].base) \cup seen[c].came
    /\ Cardinality(Listed(c)) = Len(ids[c])

Rest(data, offset) == SubSeq(data, offset + 1, Len(data))

\* nvm_read of an object that nobody deletes during the call does not fail,
\* unless a message is lost, and returns all of the object behind the offset.
ReadIsWhole ==
  \A c \in Client :
    LET id == job[c].id IN
    /\ at[c] = "idle" /\ job[c].op = "read" /\ outcome[c] # "comm_error"
    /\ id \in IdsOf(seen[c].base) \ seen[c].gone
    => /\ outcome[c] = "ok"
       /\ value[c] = Rest(Content(seen[c].base, id), job[c].offset)

\* An overwrite that destroyed the object and did not store the new one says
\* so, unless the reply to its delete is what was lost; and one that succeeds
\* has stored its object.
LossIsReported ==
  \A c \in Client : at[c] = "idle" /\ job[c].op = "overwrite" =>
    /\ seen[c].destroyed /\ ~seen[c].stored => outcome[c] \in {"data_lost", "comm_error"}
    /\ outcome[c] = "ok" => seen[c].stored

\* Every call ends, also with a server whose list cursor does not move.
CallsEnd == \A c \in Client : (at[c] # "idle") ~> (at[c] = "idle")
=============================================================================
