------------------------------- MODULE Metadata -------------------------------
(***************************************************************************)
(* MetadataManager of pkg/metadata: one JSON file per patch, rewritten in  *)
(* place.  UpdateMetadata reads the record, changes it and writes it back, *)
(* with no lock; the write first empties the file.  A killed process may   *)
(* leave it so.  Any error of the load counts as a missing record, which a *)
(* new one replaces.                                                       *)
(*                                                                         *)
(* A record is the set of updates in it.  The file's name is the patch's   *)
(* base name, so patches of two directories may share a record.            *)
(***************************************************************************)
EXTENDS Naturals, FiniteSets

CONSTANTS
    Updates,          \* the calls of UpdateMetadata
    PatchOf,          \* PatchOf[u]: the patch it is for
    BaseName,         \* BaseName[p]: filepath.Base of a patch's path
    MaxMetadataFaults \* bound: reads and writes that fail or are killed

Patches == {PatchOf[u] : u \in Updates}
Records == {BaseName[p] : p \in Patches}

ASSUME MetadataAssumption ==
    /\ IsFiniteSet(Updates) /\ MaxMetadataFaults \in Nat
    /\ Patches \subseteq DOMAIN BaseName

VARIABLES
    stored,        \* stored[r]: the record on disk, {} if there is none
    torn,          \* records whose file is empty
    updateStep,    \* updateStep[u]: "waiting", "loaded", "writing", "ok" or "error"
    loaded,        \* loaded[u]: the record as the update read and changed it
    disturbed,     \* records deleted, torn, not read by an update that replaces
                   \* them, or read while another update had them
    metadataFaults

metadataVars == <<stored, torn, updateStep, loaded, disturbed, metadataFaults>>

MetadataInit ==
    /\ stored = [r \in Records |-> {}] /\ torn = {}
    /\ updateStep = [u \in Updates |-> "waiting"]
    /\ loaded = [u \in Updates |-> {}]
    /\ disturbed = {} /\ metadataFaults = 0

\* getMetadataPath.
RecordOf(u) == BaseName[PatchOf[u]]

\* Updates of the same record that have read it and not written it back.
Between(r) == {v \in Updates : RecordOf(v) = r /\ updateStep[v] \in {"loaded", "writing"}}

LoadedFrom_Fresh(r) == {}

\* LoadMetadata, or CreateMetadata if the record is missing or does not parse.
LoadedFrom(r) == IF r \in torn THEN {} ELSE stored[r]

LoadMetadata(u) ==
    LET r == RecordOf(u) IN
    /\ updateStep[u] = "waiting"
    /\ updateStep' = [updateStep EXCEPT ![u] = "loaded"]
    /\ loaded' = [loaded EXCEPT ![u] = LoadedFrom(r) \cup {u}]
    /\ disturbed' = IF Between(r) # {} THEN disturbed \cup {r} ELSE disturbed
    /\ UNCHANGED <<stored, torn, metadataFaults>>

\* The read of a whole record fails: UpdateMetadata goes on with a new one.
LoadFails(u) ==
    LET r == RecordOf(u) IN
    /\ updateStep[u] = "waiting"
    /\ stored[r] # {} /\ r \notin torn
    /\ metadataFaults < MaxMetadataFaults
    /\ metadataFaults' = metadataFaults + 1
    /\ updateStep' = [updateStep EXCEPT ![u] = "loaded"]
    /\ loaded' = [loaded EXCEPT ![u] = {u}]
    /\ disturbed' = disturbed \cup {r}
    /\ UNCHANGED <<stored, torn>>

\* os.WriteFile empties the file ...
EmptyRecord(u) ==
    /\ updateStep[u] = "loaded"
    /\ updateStep' = [updateStep EXCEPT ![u] = "writing"]
    /\ torn' = torn \cup {RecordOf(u)}
    /\ UNCHANGED <<stored, loaded, disturbed, metadataFaults>>

\* ... and writes it; the two writes of two updates may come in any order.
SaveMetadata(u) ==
    /\ updateStep[u] = "writing"
    /\ updateStep' = [updateStep EXCEPT ![u] = "ok"]
    /\ stored' = [stored EXCEPT ![RecordOf(u)] = loaded[u]]
    /\ torn' = torn \ {RecordOf(u)}
    /\ UNCHANGED <<loaded, disturbed, metadataFaults>>

\* The directory cannot be made or the file not opened; or, once it is empty,
\* the write fails or the process is killed.
SaveFails(u) ==
    /\ updateStep[u] \in {"loaded", "writing"}
    /\ metadataFaults < MaxMetadataFaults
    /\ metadataFaults' = metadataFaults + 1
    /\ updateStep' = [updateStep EXCEPT ![u] = "error"]
    /\ disturbed' = IF updateStep[u] = "writing" THEN disturbed \cup {RecordOf(u)}
                                                  ELSE disturbed
    /\ UNCHANGED <<stored, torn, loaded>>

DeleteMetadata(r) ==
    /\ stored[r] # {} \/ r \in torn
    /\ stored' = [stored EXCEPT ![r] = {}]
    /\ torn' = torn \ {r}
    /\ disturbed' = disturbed \cup {r}
    /\ UNCHANGED <<updateStep, loaded, metadataFaults>>

MetadataNext ==
    \/ \E u \in Updates :
          LoadMetadata(u) \/ LoadFails(u) \/ EmptyRecord(u) \/ SaveMetadata(u) \/ SaveFails(u)
    \/ \E r \in Records : DeleteMetadata(r)

MetadataSpec == MetadataInit /\ [][MetadataNext]_metadataVars

-----------------------------------------------------------------------------
(* Properties.                                                             *)

MetadataTypeOK ==
    /\ stored \in [Records -> SUBSET Updates] /\ torn \subseteq Records
    /\ updateStep \in [Updates -> {"waiting", "loaded", "writing", "ok", "error"}]
    /\ disturbed \subseteq Records

\* A record keeps every update that returned without error and holds no other,
\* as long as nobody deleted it, no write of it was cut off, no update failed
\* to read it and none read it between another's read and write; in each of
\* these cases updates are lost, also those of earlier calls and of a patch of
\* the same base name, and the calls return no error.
UpdatesKept ==
    \A r \in Records \ disturbed :
        stored[r] = {u \in Updates : RecordOf(u) = r /\ updateStep[u] = "ok"}
=============================================================================
