----------------------------- MODULE MCFirmware -----------------------------
(* A small instance of Firmware.                                            *)
EXTENDS Firmware

MCMistyped == {"mistyped"}
=============================================================================
