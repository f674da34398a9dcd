--------------------------- MODULE MCDeviceMonitor ---------------------------
(* Four devices against a window of two. *)
EXTENDS DeviceMonitor
===============================================================================
