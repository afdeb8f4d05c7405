---------------------------- MODULE MCLogPrune ----------------------------
(* Instances of LogPrune for TLC.                                            *)
EXTENDS LogPrune

\* Below one row with bodies, between rows and bodies, and above most rows.
MCCaps == {2, 4}

===========================================================================
