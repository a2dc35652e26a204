------------------------------ MODULE MCDirDiff ------------------------------
EXTENDS DirDiffDisplay

\* Sizes that differ, so that a size lost or counted twice shows: of a tree of
\* few bytes, and of one of 100 bytes and more.
MCSize      == [f \in Files |-> 2 ^ (f - 1)]
MCLargeSize == [f \in Files |-> 25 * 2 ^ (f - 1)]
=============================================================================
