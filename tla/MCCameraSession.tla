-------------------------- MODULE MCCameraSession --------------------------
(* Checked with two interfaces, three changes of the route and one fault.  *)
EXTENDS CameraSession
=============================================================================
