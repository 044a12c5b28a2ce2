---------------------------- MODULE MCTlsStream -----------------------------
(* TlsStream for model checking: who does what in each run.                *)
EXTENDS TlsStream

\* The client writes and closes, the server reads.
OneWay ==
  [t \in Task |-> IF EndOf(t) = "client"
                  THEN {"write", "flush", "shutdown", "cancel", "drop"}
                  ELSE {"read", "cancel", "drop"}]

\* The same between applications that wait for every call they make.
OneWayPatient ==
  [t \in Task |-> IF EndOf(t) = "client" THEN {"write", "flush", "shutdown"}
                  ELSE {"read"}]

\* tokio::io::split at both ends: one task reads, the other one writes, flushes
\* and closes.
BothWays ==
  [t \in Task |-> IF t[2] = "reader" THEN {"read", "drop"}
                  ELSE {"write", "flush", "shutdown", "drop"}]

\* The same for a client that never closes and a server that only writes.
Split ==
  [t \in Task |->
    IF t[2] = "reader" THEN {"read"}
    ELSE IF EndOf(t) = "client" THEN {"write", "flush"} ELSE {"write"}]

NoTickets == [e \in End |-> FALSE]
ServerTickets == [e \in End |-> e = "server"]
=============================================================================
