------------------------------- MODULE MCAccess ------------------------------
(* Small instances of Access for TLC.                                      *)
EXTENDS Access

CONSTANTS i1, i2

TwoInvocations   == {i1, i2}
AllKinds         == {"get", "list", "other"}
ShortAndLong     == {1, 3}
=============================================================================
