----------------------------- MODULE MCSmsOutbox -----------------------------
(* Instances of SmsOutbox for TLC.                                          *)
EXTENDS SmsOutbox, TLC

=============================================================================
