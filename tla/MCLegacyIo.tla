----------------------------- MODULE MCLegacyIo ------------------------------
(* LegacyIo with two bytes to tell apart and a short countdown.            *)
EXTENDS LegacyIo
=============================================================================
