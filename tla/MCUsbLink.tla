----------------------------- MODULE MCUsbLink -----------------------------
(* Small instances of UsbLink; the numbers are in the configurations.       *)
EXTENDS UsbLink
=============================================================================
