-------------------------- MODULE MCFirmwareUpdate ---------------------------
(* Two images, whose updates may run one after the other or at once.       *)
EXTENDS FirmwareUpdate
=============================================================================
