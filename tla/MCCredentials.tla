--------------------------- MODULE MCCredentials ---------------------------
(* An instance of Credentials for TLC.                                      *)
EXTENDS Credentials, TLC
CONSTANTS account, secret, good, bad

Accepted == {c \in Configs : \A f \in Fields : c[f] = good}
=============================================================================
