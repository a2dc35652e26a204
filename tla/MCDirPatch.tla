------------------------------ MODULE MCDirPatch ------------------------------
(* A file f, the name f.tmp, and a directory d with a file g in it.        *)
EXTENDS DirPatch

CONSTANTS f, ftmp, d, g, x, y, z

MCAbove  == [p \in Paths |-> IF p = g THEN {d} ELSE {}]
MCTemp   == [p \in Paths |-> IF p = f THEN ftmp ELSE NoPath]
MCSizeOf == [c \in Data |-> IF c = z THEN 2 ELSE 1]
=============================================================================
