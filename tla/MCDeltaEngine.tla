---------------------------- MODULE MCDeltaEngine ----------------------------
EXTENDS DeltaEngine

\* A checksum that tells apart any two of the short contents of the model and
\* is never 0: the content as a number with a leading one.
MCCrc(data) ==
    LET n[i \in 0..Len(data)] == IF i = 0 THEN 1 ELSE n[i - 1] * 4 + data[i]
    IN  n[Len(data)]
=============================================================================
