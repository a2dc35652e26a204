----------------------------- MODULE MCReadAhead -----------------------------
(* Readers 1 and 2 read one file, reader 3 a shorter one.                  *)
EXTENDS ReadAhead

MCFileOf == [r \in Readers |-> IF r = 3 THEN 2 ELSE 1]
MCFileSize == <<4, 2>>
=============================================================================
