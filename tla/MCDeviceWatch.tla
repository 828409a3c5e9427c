--------------------------- MODULE MCDeviceWatch ----------------------------
(***************************************************************************)
(* Two device nodes, so that one can change while another is handled.      *)
(***************************************************************************)
EXTENDS DeviceWatch
=============================================================================
