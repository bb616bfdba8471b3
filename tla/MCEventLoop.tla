---------------------------- MODULE MCEventLoop ----------------------------
(* Two listeners with a slot each, two connections, one libusb handle.     *)
EXTENDS EventLoop
=============================================================================
