---------------------------- MODULE SurfaceFiles ----------------------------
(***************************************************************************)
(* The source files of one shard page, edited by several agents through    *)
(* different processes: one file, its .history copies and the list of      *)
(* installed libraries. Every store mutation holds the lock of the page's   *)
(* directory and ends in a rename, so it is one step; what a command reads  *)
(* before, and the copies it keeps after, are steps of their own.           *)
(*                                                                         *)
(* The contents of a file are the set of commands whose text is in it:      *)
(* a write replaces them, an edit adds to what it read.                     *)
(***************************************************************************)
EXTENDS Integers, FiniteSets, FiniteSetsExt

CONSTANTS
  FileCommands,     \* the commands agents send
  Mixes,        \* what they may be
  HistoryKeep,  \* how many copies are kept
  FileFaults    \* [crashes, errors]: processes that die, and copies that cannot be written

VARIABLES
  source,   \* the file: whether it is there, and its contents
  copies,   \* .history: stamp and contents
  clock,    \* the stamps taken
  libs,     \* install_lib.json
  order,    \* what each command is
  step,     \* where it is, and what it read: contents, stamp, names to delete
  kept,     \* history: the contents the command replaced, once it did
  fileFaults

fileState == <<source, copies, clock, libs, step, kept>>
fileVars == <<fileState, order, fileFaults>>

Orders == {"create", "overwrite", "edit", "hashed", "remove", "install"}
Contents == [there : BOOLEAN, text : SUBSET FileCommands]
ASSUME SurfaceFilesAssumption ==
  /\ HistoryKeep \in Nat \ {0} /\ Mixes \subseteq [FileCommands -> Orders]
  /\ FileFaults \in [crashes : Nat, errors : Nat]

NoFile == [there |-> FALSE, text |-> {}]
Reads == [at : {"unsent", "read", "copy", "write", "stamped", "list", "prune", "done", "refused"},
          saw : Contents, stamp : Nat, names : SUBSET Nat, then : {"write", "done"}]

\* The type invariant: no two copies bear one stamp.
SurfaceFilesTypeOK ==
  /\ source \in Contents /\ (source.there \/ source.text = {})
  /\ \A c \in copies : c.stamp \in 1 .. clock /\ c.contents \in Contents
  /\ \A c, d \in copies : c.stamp = d.stamp => c = d
  /\ step \in [FileCommands -> Reads] /\ libs \subseteq FileCommands
  /\ order \in [FileCommands -> Orders] /\ kept \in [FileCommands -> Contents]

SurfaceFilesInit ==
  /\ source \in {NoFile, [there |-> TRUE, text |-> {}]}
  /\ copies = {} /\ clock = 0 /\ libs = {}
  /\ order \in Mixes
  /\ step = [c \in FileCommands |-> [at |-> "unsent", saw |-> NoFile, stamp |-> 0, names |-> {}, then |-> "done"]]
  /\ kept = [c \in FileCommands |-> NoFile]
  /\ fileFaults = FileFaults

At(c, place) == step' = [step EXCEPT ![c].at = place]
Fault(what) == fileFaults[what] > 0 /\ fileFaults' = [fileFaults EXCEPT ![what] = @ - 1]

-----------------------------------------------------------------------------
(* The commands. *)

\* read_file: the agent has the contents, and their hash.
ReadRange(c) ==
  /\ order[c] = "hashed" /\ step[c].at = "unsent" /\ source.there
  /\ step' = [step EXCEPT ![c].at = "read", ![c].saw = source]
  /\ UNCHANGED <<source, copies, clock, libs, order, kept, fileFaults>>

\* What was there is copied first; a file that is there is only replaced on demand.
WriteReads(c) ==
  /\ order[c] \in {"create", "overwrite"} /\ step[c].at = "unsent"
  /\ step' = [step EXCEPT ![c].saw = source, ![c].then = "write",
                          ![c].at = IF ~source.there THEN "write" ELSE IF order[c] = "create" THEN "refused" ELSE "copy"]
  /\ UNCHANGED <<source, copies, clock, libs, order, kept, fileFaults>>

DeleteReads(c) ==
  /\ order[c] = "remove" /\ step[c].at = "unsent"
  /\ step' = [step EXCEPT ![c].saw = source, ![c].then = "write", ![c].at = IF source.there THEN "copy" ELSE "write"]
  /\ UNCHANGED <<source, copies, clock, libs, order, kept, fileFaults>>

\* Refused when the hash is not the one the agent read, or the text to replace is
\* not there once.
EditReads(c) ==
  /\ \/ order[c] = "edit" /\ step[c].at = "unsent"
     \/ order[c] = "hashed" /\ step[c].at = "read"
  /\ \/ At(c, "refused")
     \/ source.there /\ (order[c] = "hashed" => source = step[c].saw)
           /\ step' = [step EXCEPT ![c].saw = source, ![c].at = "write"]
  /\ UNCHANGED <<source, copies, clock, libs, order, kept, fileFaults>>

BugSwap(c) == TRUE

\* CompareAndSwapFile compares under the lock it writes under.
Swap(c) == source = step[c].saw

EditWrites(c) ==
  /\ order[c] \in {"edit", "hashed"} /\ step[c].at = "write"
  /\ IF Swap(c)
     THEN /\ source' = [there |-> TRUE, text |-> step[c].saw.text \cup {c}]
          /\ kept' = [kept EXCEPT ![c] = step[c].saw] /\ At(c, "copy")
     ELSE At(c, "refused") /\ UNCHANGED <<source, kept>>
  /\ UNCHANGED <<copies, clock, libs, order, fileFaults>>

\* WriteFile and DeleteFile of the store do not compare.
FileWrites(c) ==
  /\ order[c] \in {"create", "overwrite", "remove"} /\ step[c].at = "write"
  /\ source' = IF order[c] = "remove" THEN NoFile ELSE [there |-> TRUE, text |-> {c}]
  /\ kept' = [kept EXCEPT ![c] = source] /\ At(c, "done")
  /\ UNCHANGED <<copies, clock, libs, order, fileFaults>>

InstallReads(c) ==
  /\ order[c] = "install" /\ step[c].at = "unsent"
  /\ step' = [step EXCEPT ![c].saw.text = libs, ![c].at = "write"]
  /\ UNCHANGED <<source, copies, clock, libs, order, kept, fileFaults>>

InstallWrites(c) ==
  /\ order[c] = "install" /\ step[c].at = "write"
  /\ libs' = step[c].saw.text \cup {c} /\ At(c, "done")
  /\ UNCHANGED <<source, copies, clock, order, kept, fileFaults>>

-----------------------------------------------------------------------------
(* snapshotFile and pruneHistory. *)

\* No two commands read the same nanosecond.
Stamp == clock + 1

TakeStamp(c) ==
  /\ step[c].at = "copy"
  /\ clock' = Stamp /\ step' = [step EXCEPT ![c].at = "stamped", ![c].stamp = Stamp]
  /\ UNCHANGED <<source, copies, libs, order, kept, fileFaults>>

\* A copy that cannot be written is given up, and nothing is pruned.
KeepCopy(c) ==
  /\ step[c].at = "stamped"
  /\ \/ copies' = copies \cup {[stamp |-> step[c].stamp, contents |-> step[c].saw]}
        /\ At(c, "list") /\ UNCHANGED fileFaults
     \/ Fault("errors") /\ At(c, step[c].then) /\ UNCHANGED copies
  /\ UNCHANGED <<source, clock, libs, order, kept>>

\* All but the HistoryKeep newest.
Oldest(stamps) == {s \in stamps : Cardinality({t \in stamps : t > s}) >= HistoryKeep}

ListCopies(c) ==
  /\ step[c].at = "list"
  /\ LET names == Oldest({d.stamp : d \in copies})
     IN step' = [step EXCEPT ![c].names = names, ![c].at = IF names = {} THEN step[c].then ELSE "prune"]
  /\ UNCHANGED <<source, copies, clock, libs, order, kept, fileFaults>>

PruneOne(c) ==
  /\ step[c].at = "prune"
  /\ LET name == Min(step[c].names)
         left == step[c].names \ {name}
     IN /\ copies' = {d \in copies : d.stamp # name}
        /\ step' = [step EXCEPT ![c].names = left, ![c].at = IF left = {} THEN step[c].then ELSE "prune"]
  /\ UNCHANGED <<source, clock, libs, order, kept, fileFaults>>

\* The process of a command dies.
CommandDies(c) ==
  /\ step[c].at \notin {"unsent", "done", "refused"}
  /\ Fault("crashes") /\ At(c, "refused")
  /\ UNCHANGED <<source, copies, clock, libs, order, kept>>

Step(c) ==
  \/ ReadRange(c) \/ WriteReads(c) \/ DeleteReads(c) \/ EditReads(c) \/ EditWrites(c) \/ FileWrites(c)
  \/ InstallReads(c) \/ InstallWrites(c) \/ TakeStamp(c) \/ KeepCopy(c) \/ ListCopies(c) \/ PruneOne(c)

SurfaceFilesNext == \E c \in FileCommands : Step(c) \/ CommandDies(c)

SurfaceFilesSpec == SurfaceFilesInit /\ [][SurfaceFilesNext]_fileVars

-----------------------------------------------------------------------------
(* Properties. *)

\* edit_file: "a mismatch or concurrent change rejects the edit without writing": no
\* text another command wrote is lost by an edit, whatever came in between its
\* read and its write.
EditsLoseNothing ==
  [][\A c \in FileCommands : order[c] \in {"edit", "hashed"} /\ kept'[c] # kept[c] =>
        source.text \subseteq source'.text]_fileVars

\* pruneHistory: a copy is deleted only while HistoryKeep newer ones are there,
\* though the list it was chosen from is old and others delete as well.
NewestCopiesStay ==
  [][\A c \in copies \ copies' : Cardinality({d \in copies : d.stamp > c.stamp}) >= HistoryKeep]_fileVars

\* Once the commands have answered no more than HistoryKeep copies are left, unless
\* a process died or a copy failed.
HistoryIsPruned ==
  (\A c \in FileCommands : step[c].at \in {"unsent", "read", "done", "refused"}) /\ fileFaults = FileFaults
     => Cardinality(copies) <= HistoryKeep

\* No command's work is lost to another's: neither the text of a file nor the copies
\* that are to be kept, and those alone are kept.
FilesKeepWork == EditsLoseNothing /\ NewestCopiesStay /\ []HistoryIsPruned

\* "recoverable file mutation" (authoring.go): what a finished command replaced can
\* be found in the history, unless newer copies pushed it out.
ReplacedIsRecoverable ==
  \A c \in FileCommands :
    step[c].at = "done" /\ kept[c].there => kept[c] \in {d.contents : d \in copies} \/ Cardinality(copies) >= HistoryKeep
=============================================================================
