---------------------------- MODULE DirPatchFile ----------------------------
(***************************************************************************)
(* The file of a directory patch (pkg/patch/dir_serializer.go and          *)
(* dir_format.go): a header with the number of entries and the lengths of  *)
(* the names, then per entry a fixed part with the lengths of its path and *)
(* data, the path and the data.  The writer ignores every error of its     *)
(* buffered writes; the reader takes each part by its length.              *)
(*                                                                         *)
(* The file is a sequence of units: a fixed part is one unit, a name, a    *)
(* path or data one unit per byte.  The field of a length holds            *)
(* LengthValues numbers.                                                   *)
(***************************************************************************)
EXTENDS Parts

CONSTANTS
    Entries,      \* bound: the entries of a patch, records [path, data]
    MaxEntries,   \* bound: how many
    LengthValues  \* numbers that a length field holds: 2 ^ 32 for a uint32

ASSUME DirPatchFileAssumption ==
    /\ MaxEntries \in Nat /\ LengthValues \in Nat \ {0}
    /\ Entries \subseteq [path : Seq(0..255), data : Seq(0..255)]

VARIABLES
    entries,     \* dirPatch.Files, as SerializeDirPatch has collected them
    dirFile,     \* the file at outputPath
    dirStep,     \* "new", "collected", "written" or "read"
    outcome      \* [ok, files]: what DeserializeDirPatch returned

dirFileVars == <<entries, dirFile, dirStep, outcome>>

DirFileInit ==
    /\ entries = <<>> /\ dirFile = <<>> /\ dirStep = "new"
    /\ outcome = [ok |-> FALSE, files |-> <<>>]

\* uint32(n).
Length(n) == n % LengthValues

Bytes(s) == [i \in DOMAIN s |-> <<"byte", s[i]>>]

MarshalEntry_Swapped(e) ==
    <<<<"entry", Length(Len(e.data)), Length(Len(e.path))>>>> \o Bytes(e.path) \o Bytes(e.data)

\* DirPatchEntry.Marshal, the path and the data.
MarshalEntry(e) ==
    <<<<"entry", Length(Len(e.path)), Length(Len(e.data))>>>> \o Bytes(e.path) \o Bytes(e.data)

\* writeDirPatch.
MarshalPatch(es) ==
    <<<<"header", Len(es)>>>> \o Joined([i \in DOMAIN es |-> MarshalEntry(es[i])])[Len(es)]

\* SerializeDirPatch: added files with their content, deleted ones without
\* data, modified ones with their delta.
CollectEntries ==
    /\ dirStep = "new"
    /\ \E n \in 0..MaxEntries : entries' \in [1..n -> Entries]
    /\ dirStep' = "collected"
    /\ UNCHANGED <<dirFile, outcome>>

\* The whole file or, when a write fails or the process is killed, a part.
WriteDirPatch ==
    /\ dirStep = "collected"
    /\ LET whole == MarshalPatch(entries)
       IN  \E n \in 0..Len(whole) : dirFile' = SubSeq(whole, 1, n)
    /\ dirStep' = "written"
    /\ UNCHANGED <<entries, outcome>>

\* What a reader of bytes makes of the units: the values only.
Values(units) == [i \in DOMAIN units |-> units[i][2]]

\* io.ReadFull has all the bytes that the fixed part announces.
EntryComplete(fixed, rest) == 1 + fixed[2] + fixed[3] <= Len(rest)

\* One round of the loop of DeserializeDirPatch, on [ok, rest, files].  Where
\* the lengths have wrapped, bytes are taken for a fixed part, which gives no
\* entry that was written.
ReadEntry(r) ==
    LET fixed == Head(r.rest)
        path  == SubSeq(r.rest, 2, 1 + fixed[2])
        data  == SubSeq(r.rest, 2 + fixed[2], 1 + fixed[2] + fixed[3])
    IN  IF r.ok /\ r.rest # <<>> /\ Head(r.rest)[1] = "entry" /\ EntryComplete(fixed, r.rest)
        THEN [ok    |-> TRUE,
              rest  |-> SubSeq(r.rest, 2 + fixed[2] + fixed[3], Len(r.rest)),
              files |-> Append(r.files, [path |-> Values(path), data |-> Values(data)])]
        ELSE [r EXCEPT !.ok = FALSE]

\* The header, and as many entries as it says; what follows is not looked at.
ReadPatch(file) ==
    LET start == [ok |-> TRUE, rest |-> Tail(file), files |-> <<>>]
        count == file[1][2]
        reads[i \in 0..count] == IF i = 0 THEN start ELSE ReadEntry(reads[i - 1])
    IN  IF file = <<>> THEN [ok |-> FALSE, files |-> <<>>]
        ELSE [ok |-> reads[count].ok, files |-> reads[count].files]

DeserializeDirPatch ==
    /\ dirStep = "written"
    /\ outcome' = ReadPatch(dirFile)
    /\ dirStep' = "read"
    /\ UNCHANGED <<entries, dirFile>>

DirFileNext == CollectEntries \/ WriteDirPatch \/ DeserializeDirPatch

DirFileSpec == DirFileInit /\ [][DirFileNext]_dirFileVars

-----------------------------------------------------------------------------
(* Properties.                                                             *)

DirFileTypeOK == dirStep \in {"new", "collected", "written", "read"}

\* As long as the lengths fit their fields: the reader refuses a file that was
\* cut anywhere, and of a whole file gives the entries, each with its data.
DirPatchReadsBack ==
    dirStep = "read"
      /\ (\A i \in DOMAIN entries : Len(entries[i].path) < LengthValues
                                    /\ Len(entries[i].data) < LengthValues) =>
        /\ outcome.ok = (dirFile = MarshalPatch(entries))
        /\ outcome.ok => outcome.files = entries
=============================================================================
