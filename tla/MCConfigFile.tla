---------------------------- MODULE MCConfigFile ----------------------------
(***************************************************************************)
(* One file context and one session of the application, and configuration  *)
(* files that are complete, refused while they are parsed, or refused when *)
(* they are applied.                                                       *)
(***************************************************************************)
EXTENDS ConfigFile

Version(lo, hi, no) == [min |-> lo, max |-> hi, forbid |-> no]
Cert(type, text) == [certType |-> type, text |-> text]
Key(auth, cipher) == [text |-> "private_key", auth |-> [storeBuf |-> auth, isCipher |-> cipher]]

MCConfs ==
    { [version |-> Version(3, 4, <<3>>), suites |-> <<"tls13_suite">>,
       certs |-> <<Cert("CA", "ca"), Cert("EE", "ee"), Cert("EE_CHAIN", "chain"), Cert("CRL", "crl")>>,
       privKey |-> Key("text", TRUE)],
      [version |-> None, suites |-> None,
       certs |-> <<Cert("EE", "ee")>>, privKey |-> Key("text", FALSE)],
      [version |-> Version(1, 4, <<>>), suites |-> <<"other_suite">>,
       certs |-> <<>>, privKey |-> Key("text", TRUE)],
      [version |-> None, suites |-> <<>>, certs |-> <<>>, privKey |-> None] }
=============================================================================
