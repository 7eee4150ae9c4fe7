--------------------------- MODULE MCEventBridge ---------------------------
(***************************************************************************)
(* The instance of EventBridge that TLC checks.  Of the callbacks that     *)
(* only pass on what they are told, two stand for the rest.                *)
(***************************************************************************)
EXTENDS EventBridge

Names ==
  {"joinchannel", "leavechannel", "error", "audiovolumeindication",
   "userjoin", "recordingStats"}
=============================================================================
