--------------------------- MODULE MCCaptureHost ---------------------------
(* An instance of CaptureHost for TLC. *)
EXTENDS CaptureHost, TLC

CONSTANT h1
=============================================================================
