---------------------------- MODULE MCPolicyConfig ----------------------------
(***************************************************************************)
(* One context and one object at a time, with bounds below, inside and     *)
(* above the supported versions and lists with unknown members.            *)
(***************************************************************************)
EXTENDS PolicyConfig

MCVerifyModes == {{}, {"DEFAULT"}, {"CUSTOMER"}, {"PEER", "CUSTOMER"}}
MCBounds == {0, 1, TLS12, TLS13, 9}
MCForbids == {{}, {TLS12}, {TLS13}, {TLS12, 1}}
MCSuites == {{}, {"other_suite"}, {"tls12_suite"}, {"tls13_suite", "other_suite"}}
=============================================================================
