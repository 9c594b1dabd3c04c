---------------------------- MODULE MCPushWatcher ----------------------------
(* Instances of PushWatcher for TLC; no symmetry, because of the liveness  *)
(* properties.                                                             *)
EXTENDS PushWatcher
=============================================================================
