---------------------------- MODULE MCFixPipeline ----------------------------
(* Small instances of FixPipeline for TLC: one file of each kind the gates   *)
(* tell apart, and diffs of one or two of them.                              *)
EXTENDS FixPipeline, TLC

CONSTANTS
  free, secret, auth, drop, \* files: unrestricted, never_modify, approval, critical
  r1

AllPatches == {{}, {free}, {free, secret}, {auth}, {drop}}

FewPatches == {{}, {free}, {secret}}

=============================================================================
