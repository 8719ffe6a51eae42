------------------------------- MODULE MCRudp -------------------------------
(* Rudp on small windows; the constants are in the cfg files.              *)
EXTENDS Rudp
=============================================================================
