------------------------------ MODULE MCUsbWait ------------------------------
(* Model-checking instance of UsbWait.                                     *)
EXTENDS UsbWait
==============================================================================
