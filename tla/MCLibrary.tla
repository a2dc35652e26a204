------------------------------ MODULE MCLibrary ------------------------------
(***************************************************************************)
(* The parts of the library that do not act on each other, each in its own *)
(* small instance: a behaviour is one of the part that `part' names, and   *)
(* the others stay in their initial states.                                *)
(***************************************************************************)
EXTENDS MCDirDiff, MCCommandLine, Streaming, WorkerPool, BatchProcessor,
        ConcurrentVerifier, WriteBuffer, MCReadAhead, PatchGenerator, DirPatchFile, Metadata

VARIABLE part

Parts == {"display", "stream", "pool", "batch", "verifier", "write", "read", "patch",
          "dirfile", "metadata", "command"}

LibraryInit ==
    /\ DisplayInit /\ StreamInit /\ PoolInit /\ BatchInit /\ VerifierInit /\ WriteInit
    /\ ReadInit /\ PatchInit /\ DirFileInit /\ MetadataInit /\ CommandInit
    /\ part \in Parts

LibraryNext ==
    /\ UNCHANGED part
    /\ IF part = "display"  THEN DisplayNext  ELSE UNCHANGED displayVars
    /\ IF part = "stream"   THEN StreamNext   ELSE UNCHANGED streamVars
    /\ IF part = "pool"     THEN PoolNext     ELSE UNCHANGED poolVars
    /\ IF part = "batch"    THEN BatchNext    ELSE UNCHANGED batchVars
    /\ IF part = "verifier" THEN VerifierNext ELSE UNCHANGED verifierVars
    /\ IF part = "write"    THEN WriteNext    ELSE UNCHANGED writeVars
    /\ IF part = "read"     THEN ReadNext     ELSE UNCHANGED readVars
    /\ IF part = "patch"    THEN PatchNext    ELSE UNCHANGED patchVars
    /\ IF part = "dirfile"  THEN DirFileNext  ELSE UNCHANGED dirFileVars
    /\ IF part = "metadata" THEN MetadataNext ELSE UNCHANGED metadataVars
    /\ IF part = "command"  THEN CommandNext  ELSE UNCHANGED commandVars

libraryVars == <<part, displayVars, streamVars, poolVars, batchVars, verifierVars,
                 writeVars, readVars, patchVars, dirFileVars, metadataVars, commandVars>>

\* The fairness of DirDiffDisplay, Streaming, WorkerPool and ConcurrentVerifier,
\* each for the behaviours of its part.
LibraryFairness ==
    /\ WF_displayVars(part = "display" /\ Command)
    /\ WF_displayVars(part = "display" /\ Quiet(Worker))
    /\ WF_displayVars(part = "display" /\ Progress)
    /\ \A f \in Inputs :
          /\ WF_streamVars(part = "stream" /\ Call(f))
          /\ WF_streamVars(part = "stream" /\ Collecting(f))
          /\ \A w \in StreamWorkers : WF_streamVars(part = "stream" /\ StreamWorker(f, w))
    /\ WF_poolVars(part = "pool" /\ PoolOwner)
    /\ \A w \in PoolWorkers : WF_poolVars(part = "pool" /\ PoolWork(w))
    /\ \A j \in PoolJobs : WF_poolVars(part = "pool" /\ PoolSubmit(j))
    /\ WF_verifierVars(part = "verifier" /\ VerifyClient)
    /\ WF_verifierVars(part = "verifier" /\ GetResults)
    /\ \A w \in VerifyWorkers : WF_verifierVars(part = "verifier" /\ VerifyWork(w))

LibrarySpec == LibraryInit /\ [][LibraryNext]_libraryVars /\ LibraryFairness

\* The types of all parts.
LibraryTypeOK ==
    /\ DisplayTypeOK /\ StreamTypeOK /\ PoolTypeOK /\ BatchTypeOK /\ VerifierTypeOK
    /\ WriteTypeOK /\ ReadTypeOK /\ PatchTypeOK /\ DirFileTypeOK /\ MetadataTypeOK
    /\ CommandTypeOK

-----------------------------------------------------------------------------
(* The instances.                                                          *)

\* A file that ends with a full chunk and one that does not, their first chunks alike.
MCChunks == <<<<2, 2>>, <<2, 1>>>>

MCSources == {<<1, 2, 3>>, <<3, 1>>}

\* Operations that overlap, leave gaps, are empty, or copy past the end.
MCOperations ==
    {Copy(0, 1, 0), Copy(0, 2, 1), Copy(1, 2, 2), Insert(0, <<7>>), Insert(1, <<8, 9>>),
     Insert(3, <<>>), Delete(0, 3)}
MCLists ==
    <<UNION {[1..n -> MCOperations] : n \in 0..2}
        \cup {<<Insert(0, <<7, 8>>), Copy(2, 1, 0), Insert(3, <<9, 9>>)>>,
              <<Insert(0, <<7>>), Copy(1, 1, 0), Insert(3, <<9, 9>>)>>},
      {<<Insert(0, <<9>>), Copy(1, 1, 0)>>}>>

\* Data of 4 bytes does not fit 2 bits.
MCEntries == [path : {<<1>>, <<1, 2>>}, data : {<<>>, <<5>>, <<5, 6, 7>>, <<5, 6, 7, 8>>}]

\* Patches 1, 2 and 3; the first two have one base name.
MCPatchOf  == <<1, 2, 1, 3>>
MCBaseName == <<"p", "p", "q">>
=============================================================================
