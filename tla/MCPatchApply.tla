---------------------------- MODULE MCPatchApply ----------------------------
(* Two patches made from the same old file, for different new ones, and a  *)
(* content that is neither a user's nor a patch's: a bad rebuild.          *)
EXTENDS PatchApply

CONSTANTS a1, a2, old, other, new1, new2, bad

MCPatchSrc == [a \in Appliers |-> old]
MCPatchDst == [a \in Appliers |-> IF a = a1 THEN new1 ELSE new2]
=============================================================================
