--------------------------- MODULE MCTlsHandshake ---------------------------
(* TlsHandshake for model checking: the message scripts of two versions.   *)
EXTENDS TlsHandshake

\* TLS 1.3: the client is done once it has sent its Finished; the server adds
\* a session ticket.
Tls13 ==
  [e \in End |->
    IF e = "client" THEN << <<"send", "CH">>, <<"recv", "SH">>, <<"send", "CF">> >>
    ELSE << <<"recv", "CH">>, <<"send", "SH">>, <<"recv", "CF">>, <<"send", "ticket">> >>]

\* TLS 1.2: the client also waits for the server's Finished.
Tls12 ==
  [e \in End |->
    IF e = "client"
    THEN << <<"send", "CH">>, <<"recv", "SH">>, <<"send", "CF">>, <<"recv", "SFIN">> >>
    ELSE << <<"recv", "CH">>, <<"send", "SH">>, <<"recv", "CF">>, <<"send", "SFIN">> >>]

Scripts == [v \in Version |-> IF v = "1.3" THEN Tls13 ELSE Tls12]

\* The client judges the server's certificate, the server the client's.
MutualTls == [e \in End |-> IF e = "client" THEN {"SH"} ELSE {"CF"}]
OnlyServerJudges == [e \in End |-> IF e = "client" THEN {} ELSE {"CF"}]
=============================================================================
