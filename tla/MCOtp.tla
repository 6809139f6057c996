-------------------------------- MODULE MCOtp --------------------------------
(* The two keys of include/boot_pubkeys.h, for TLC.                           *)
EXTENDS Otp

CONSTANTS k0, k1
MCKeys == {k0, k1}
==============================================================================
