---------------------------- MODULE MCDeviceTree ----------------------------
(* Blocks of two usable slots, so that every few operations need a block.  *)
EXTENDS DeviceTree
=============================================================================
