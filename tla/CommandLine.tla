----------------------------- MODULE CommandLine -----------------------------
(***************************************************************************)
(* Runs of the hexdiff program (pkg/cli) and calls of the library          *)
(* (HexDiff.go) on the same files: which of them accept which file, what   *)
(* they leave on disk and the exit code.  Both reach the same              *)
(* EngineAdapter.                                                          *)
(*                                                                         *)
(* The two patch formats have one magic number and differ in the version,  *)
(* 1 for a file patch and 2 for a directory patch.  Contents are values;   *)
(* what a patch does to the bytes is in PatchApply and DirPatch.  The      *)
(* backup the library makes of n is the file n.backup, which no command is *)
(* given as a path; a process that is killed is in PatchApply.             *)
(***************************************************************************)
EXTENDS Naturals, Sequences

CONSTANTS
    Names,            \* the paths that are used
    Disks,            \* what may be at the paths at first: files and directories
    Home,             \* of Names: the configuration file in the home directory
    MaxCommands,      \* bound: runs and calls
    MaxCommandFaults  \* bound: writes that fail

ASSUME CommandAssumption ==
    Home \in Names /\ MaxCommands \in Nat /\ MaxCommandFaults \in Nat

VARIABLES
    disk,          \* disk[n]: what is at n
    backups,       \* backups[n]: what is at n.backup
    lastRun,       \* the last run: command, what it found at its paths, exit code
    commands, commandFaults

commandVars == <<disk, backups, lastRun, commands, commandFaults>>

Nothing  == [kind |-> "nothing"]
Text(v)  == [kind |-> "text", is |-> v]
Tree(t)  == [kind |-> "tree", is |-> t]
Settings == [kind |-> "settings"]
Cut      == [kind |-> "cut"]     \* a patch that was not written to its end
Stub     == [kind |-> "stub"]    \* another file that is empty or cut short
Mixed    == [kind |-> "mixed"]   \* a tree with a part of a patch applied, or a new one

ASSUME DisksAssumption ==
    \A d \in Disks :
        DOMAIN d = Names /\ \A n \in Names : d[n].kind \in {"text", "tree"} \/ d[n] = Nothing

\* plain: the operations only insert, and insert something.
Patch(version, from, to, plain) ==
    [kind |-> "patch", version |-> version, from |-> from, to |-> to, plain |-> plain]

IsFile(c) == c.kind \in {"text", "patch", "settings", "cut", "stub"}
IsTree(c) == c.kind \in {"tree", "mixed"}

\* PatchHeader.Validate and DirPatchHeader.Validate.
FileHeaderValid(c) == c.kind = "patch" /\ c.version = 1
DirHeaderValid(c)  == c.kind = "patch" /\ c.version = 2

\* setDefaultExitCodes; an error of the flag parser or of the library is 1.
Exit == [ok |-> 0, unknown |-> 1, argument |-> 2, notFound |-> 3, read |-> 10,
         generation |-> 20, application |-> 21, validation |-> 22, backup |-> 32,
         config |-> 50]

CommandInit ==
    /\ disk \in Disks /\ backups = [n \in Names |-> Nothing]
    /\ lastRun = [command |-> "none", found |-> <<>>, exit |-> Exit.ok]
    /\ commands = 0 /\ commandFaults = 0

\* One process at a time: what two do to each other is in PatchApply.
Ran(command, paths, exit) ==
    /\ commands < MaxCommands
    /\ commands' = commands + 1
    /\ lastRun' = [command |-> command, exit |-> exit,
                   found |-> [i \in DOMAIN paths |-> disk[paths[i]]]]

Writes(n, c) == disk' = [disk EXCEPT ![n] = c] /\ UNCHANGED <<backups, commandFaults>>
Leaves       == UNCHANGED <<disk, backups, commandFaults>>

Fault ==
    /\ commandFaults < MaxCommandFaults
    /\ commandFaults' = commandFaults + 1

WriteFails(n, c) == Fault /\ disk' = [disk EXCEPT ![n] = c] /\ UNCHANGED backups

-----------------------------------------------------------------------------
(* Commands and calls that make a patch.                                   *)

\* A command that is given something else than it needs.
Refused(command, paths, exit) == Ran(command, paths, exit) /\ Leaves

\* DiffCommand, and DiffTo of the library, whose error has no code.  Without an
\* error the file can still be cut short: a deferred Flush writes its end.
Diff(old, new, out) ==
    LET paths == <<old, new, out>> IN
    IF ~IsFile(disk[old]) \/ ~IsFile(disk[new]) THEN Refused("diff", paths, Exit.read)
    ELSE \/ IsTree(disk[out]) /\ Refused("diff", paths, Exit.generation)
         \/ /\ ~IsTree(disk[out]) /\ Ran("diff", paths, Exit.ok)
            /\ \/ \E plain \in BOOLEAN : Writes(out, Patch(1, disk[old], disk[new], plain))
               \/ WriteFails(out, Cut)
         \/ /\ ~IsTree(disk[out]) /\ Ran("diff", paths, Exit.generation)
            /\ \E c \in {disk[out], Cut} : WriteFails(out, c)

\* DirDiffCommand and DiffDirTo.  An error comes before the file is made, and
\* no error of a write is noticed.
DirDiff(old, new, out) ==
    LET paths == <<old, new, out>> IN
    IF ~IsTree(disk[old]) \/ ~IsTree(disk[new]) THEN Refused("dir-diff", paths, Exit.read)
    ELSE \/ IsTree(disk[out]) /\ Refused("dir-diff", paths, Exit.generation)
         \/ /\ ~IsTree(disk[out]) /\ Ran("dir-diff", paths, Exit.ok)
            /\ \/ Writes(out, Patch(2, disk[old], disk[new], FALSE))
               \/ WriteFails(out, Cut)
         \/ /\ ~IsTree(disk[out]) /\ Ran("dir-diff", paths, Exit.generation)
            /\ WriteFails(out, disk[out])

-----------------------------------------------------------------------------
(* Commands and calls that apply one.                                      *)

\* The entries one after the other, as far as they fit.  DirPatch has the
\* cases in which not even the old directory takes the whole patch.
ApplyEntries(command, paths, patch, target) ==
    \/ /\ disk[target] = patch.from
       /\ Ran(command, paths, Exit.ok) /\ Writes(target, patch.to)
    \/ \E exit \in {Exit.ok, Exit.application} :
          /\ Ran(command, paths, exit)
          /\ ~IsFile(disk[target]) /\ Writes(target, Mixed)
    \/ Refused(command, paths, Exit.application)

\* ApplyTo of the library: ApplyPatch of the adapter, whose applier makes
\* backups.  A patch for another source fails before the backup.  What is at
\* `out' is copied to its backup, a directory as an empty file; the copy may
\* fail, and so may the rename after it, always for a directory.
ApplyTo(patch, target, out) ==
    LET paths == <<patch, target, out>>
        fits  == FileHeaderValid(disk[patch]) /\ disk[target] = disk[patch].from
        BacksUp(c) == backups' = [backups EXCEPT ![out] = c]
    IN  \/ ~fits /\ Refused("ApplyTo", paths, Exit.unknown)
        \/ /\ fits /\ ~IsTree(disk[out]) /\ Ran("ApplyTo", paths, Exit.ok)
           /\ disk' = [disk EXCEPT ![out] = disk[patch].to] /\ UNCHANGED commandFaults
           /\ BacksUp(IF disk[out] = Nothing THEN backups[out] ELSE disk[out])
        \/ /\ fits /\ IsTree(disk[out]) /\ Ran("ApplyTo", paths, Exit.unknown)
           /\ BacksUp(Stub) /\ UNCHANGED <<disk, commandFaults>>
        \/ /\ fits /\ Ran("ApplyTo", paths, Exit.unknown) /\ Fault /\ UNCHANGED disk
           /\ \E c \in {backups[out]} \cup (IF IsFile(disk[out]) THEN {Stub, disk[out]} ELSE {}) :
                 BacksUp(c)

RejectPatch_AfterBackup(patch, target) ==
    /\ Ran("apply", <<patch, target>>, Exit.read)
    /\ backups' = [backups EXCEPT ![target] = disk[target]] /\ UNCHANGED <<disk, commandFaults>>

RejectPatch(patch, target) == Refused("apply", <<patch, target>>, Exit.read)

\* ApplyCommand, and ApplyDirTo for a directory patch.  IsDirPatch, which is to
\* tell the two formats apart, returns an error for what has no header of
\* version 2: the branch for file patches, with its backup, is never taken.
Apply(patch, target) ==
    IF DirHeaderValid(disk[patch])
    THEN ApplyEntries("apply", <<patch, target>>, disk[patch], target)
    ELSE \/ RejectPatch(patch, target)
         \/ disk[patch] = Cut /\ Refused("apply", <<patch, target>>, Exit.application)

-----------------------------------------------------------------------------
(* The other commands.                                                     *)

\* What validateInputFile says of a path that is no file.
NoFile(n) == IF IsTree(disk[n]) THEN Exit.argument ELSE Exit.notFound

\* ValidateCommand.  The validator has an issue with every copy operation and
\* with a patch without data.
Validate(patch) ==
    Refused("validate", <<patch>>,
            IF ~IsFile(disk[patch]) THEN NoFile(patch)
            ELSE IF FileHeaderValid(disk[patch]) /\ disk[patch].plain THEN Exit.ok
            ELSE Exit.validation)

\* InfoCommand asks IsDirPatch too, and reads the whole of a directory patch.
Info(patch) ==
    Refused("info", <<patch>>,
            IF ~IsFile(disk[patch]) THEN NoFile(patch)
            ELSE IF DirHeaderValid(disk[patch]) THEN Exit.ok ELSE Exit.read)

\* SignatureCommand: the signature is computed and dropped.
Sign(in) == Refused("signature", <<in>>, IF IsFile(disk[in]) THEN Exit.ok ELSE NoFile(in))

\* ConfigCommand: init.  os.WriteFile may fail before or after it has made
\* the file.
InitConfig ==
    IF disk[Home] # Nothing THEN Refused("config", <<Home>>, Exit.config)
    ELSE \/ Ran("config", <<Home>>, Exit.ok) /\ Writes(Home, Settings)
         \/ /\ Ran("config", <<Home>>, Exit.config)
            /\ \E c \in {Nothing, Stub} : WriteFails(Home, c)

\* App.Run with a global option: args[1] is the option, and no command has its
\* name.  The same exit code comes from an unknown command or flag.  A log
\* file has been opened to append by then, and its directory made; the error
\* itself goes to the logger of before.
GlobalOption ==
    /\ Ran("option", <<>>, Exit.unknown)
    /\ \/ Leaves
       \/ \E log \in Names : disk[log] = Nothing /\ \E c \in {Stub, Mixed} : Writes(log, c)

\* help, version, benchmark and config get, set and list.
Shows == Refused("help", <<>>, Exit.ok)

CommandNext ==
    \/ \E a, b, c \in Names : Diff(a, b, c) \/ DirDiff(a, b, c) \/ ApplyTo(a, b, c)
    \/ \E a, b \in Names : Apply(a, b)
    \/ \E a \in Names : Validate(a) \/ Info(a) \/ Sign(a)
    \/ InitConfig \/ GlobalOption \/ Shows

CommandSpec == CommandInit /\ [][CommandNext]_commandVars

-----------------------------------------------------------------------------
(* Properties.                                                             *)

CommandTypeOK ==
    /\ \A n \in Names : IsFile(disk[n]) \/ IsTree(disk[n]) \/ disk[n] = Nothing
    /\ \A n \in Names : IsFile(backups[n]) \/ backups[n] = Nothing
    /\ \E e \in DOMAIN Exit : lastRun.exit = Exit[e]

\* The exit code tells a script what may have changed.  After an argument,
\* not-found, read or validation error nothing has.  After a configuration
\* error or one without a code, from the option parser or the library, no
\* path that held something has, but a new file may be there: a piece of the
\* configuration, an empty log file, or a backup, also one cut short in place
\* of an older backup.
RefusalsKeepFiles ==
    [][/\ lastRun'.exit \in {Exit.argument, Exit.notFound, Exit.read, Exit.validation} =>
              UNCHANGED <<disk, backups>>
       /\ lastRun'.exit \in {Exit.unknown, Exit.config} =>
              \A n \in Names : disk[n] # Nothing => disk'[n] = disk[n]]_commandVars

\* apply takes what diff made, for the file it was made of.
ApplyAcceptsDiffs ==
    lastRun.command = "apply" =>
        LET patch == lastRun.found[1] IN
        FileHeaderValid(patch) /\ lastRun.found[2] = patch.from => lastRun.exit = Exit.ok
=============================================================================
