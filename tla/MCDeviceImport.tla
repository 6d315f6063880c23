---------------------------- MODULE MCDeviceImport ----------------------------
(* DeviceImport on small instances: three libraries, of which an update of the  *)
(* app replaces one; two pulls into one folder.                               *)
EXTENDS DeviceImport

CONSTANTS d1
TwoVersions == <<<<1, 1, 1>>, <<1, 2, 1>>>>
================================================================================
