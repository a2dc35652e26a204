------------------------------- MODULE Parts -------------------------------
(***************************************************************************)
(* Files that are written part by part: the data area of a patch           *)
(* (pkg/patch/format.go) and the entries of a directory patch              *)
(* (pkg/patch/dir_serializer.go).                                          *)
(***************************************************************************)
EXTENDS Naturals, Sequences

\* What has been written after each of the parts.
Joined(parts) ==
    LET joined[i \in 0..Len(parts)] == IF i = 0 THEN <<>> ELSE joined[i - 1] \o parts[i]
    IN  joined
=============================================================================
