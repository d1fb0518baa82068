----------------------------- MODULE MCPairing ------------------------------
(***************************************************************************)
(* Pairing for TLC: two players and two phones, three codes, one of which  *)
(* takes the place of one that expired.                                    *)
(***************************************************************************)
EXTENDS Pairing

CONSTANTS rita, rui, web1, web2, bcd, fgh, jkm

ThreeCodes == <<bcd, fgh, jkm>>

DeviceOf == [r \in Clients |-> r]
=============================================================================
