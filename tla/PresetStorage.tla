--------------------------- MODULE PresetStorage ---------------------------
(***************************************************************************)
(* The directory of the user presets of one plug-in, and the instances of  *)
(* the plug-in, each in a process of its own, that list, load, save and    *)
(* remove presets in it.  Every call of the file system that others can    *)
(* see the effect of is a step.  Processes and the machine may stop at any *)
(* step.                                                                   *)
(*                                                                         *)
(* The names of temporary files are unique, so a temporary file is part of *)
(* the call that writes it.  Listing reads the directory and its files in  *)
(* one step.                                                               *)
(***************************************************************************)
EXTENDS PresetCodec

CONSTANTS
  Plugin,      \* the plug-in whose presets these are
  Identities,  \* the names of files
  Instances,   \* instances of the plug-in
  Imports,     \* what each file may hold that was copied into the directory, not saved there
  MaxLosses    \* bound on the number of times the machine loses power

ASSUME StorageAssumption == Plugin \in Plugins /\ Identities # {} /\ MaxLosses \in Nat

VARIABLES
  files,     \* the directory as the running system shows it
  disk,      \* the directory as it is on disk
  calls,     \* the call of saveAs() or remove() each instance is in, and the result of the last
  promised,  \* history: what the last successful save of a preset wrote, while nobody else changes it
  losses     \* history: how often power was lost

storageVars == <<files, disk, calls, promised, losses>>

Missing == [exists |-> FALSE, bytes |-> <<>>, flushed |-> TRUE]
File(bytes, flushed) == [exists |-> TRUE, bytes |-> bytes, flushed |-> flushed]
Exists(i) == files[i].exists

Nothing == [made |-> FALSE, bytes |-> <<>>]

NoCall == [pc |-> "idle", identity |-> "", file |-> Missing, overwrite |-> FALSE, result |-> "none"]
Finished(result) == [NoCall EXCEPT !.result = result]

StorageInit ==
  /\ files \in [Identities -> {Missing} \cup {File(b, TRUE) : b \in UNION {Imports[i] : i \in Identities}}]
  /\ \A i \in Identities : Exists(i) => files[i].bytes \in Imports[i]
  /\ disk = files
  /\ calls = [p \in Instances |-> NoCall]
  /\ promised = [i \in Identities |-> Nothing]
  /\ losses = 0

-----------------------------------------------------------------------------
(* What load() and list() return. *)

Loads(i) == Exists(i) /\ Parses(files[i].bytes, Plugin)
Loaded(i) == Parsed(files[i].bytes)
Listed == {i \in Identities : Exists(i) /\ MetadataParses(files[i].bytes, Plugin)}

-----------------------------------------------------------------------------
(* saveAs(): a sibling file is written and flushed, and put in place at once. *)

Goes(p, pc) == calls' = [calls EXCEPT ![p].pc = pc]

\* Mutant of Written: the temporary file is put in place without being flushed.
WrittenOnly(document) == File(Serialize(document), FALSE)

\* The temporary file: it is flushed before it is put in place.
Written(document) == File(Serialize(document), TRUE)

\* The checks, and the writing of the temporary file, which nobody else sees.
BeginSave(p, i, document, overwrite) ==
  /\ calls[p].pc = "idle"
  /\ calls' = [calls EXCEPT ![p] =
       IF document.target = Plugin /\ Serializable(document) /\ Exists(i) = overwrite
       THEN [pc |-> "commit", identity |-> i, file |-> Written(document),
             overwrite |-> overwrite, result |-> "none"]
       ELSE Finished("failed")]
  /\ UNCHANGED <<files, disk, promised, losses>>

\* Mutant of MayCommit: a file that appeared since the call looked is replaced.
MayCommitAnyway(p) == TRUE

\* linkat() does not replace a file; renameat() does, and makes one that is gone.
MayCommit(p) == calls[p].overwrite \/ ~Exists(calls[p].identity)

CommitTemporary(p) ==
  /\ calls[p].pc = "commit"
  /\ MayCommit(p)
  /\ files' = [files EXCEPT ![calls[p].identity] = calls[p].file]
  /\ promised' = [promised EXCEPT ![calls[p].identity] = Nothing]
  /\ Goes(p, "sync saved")
  /\ UNCHANGED <<disk, losses>>

\* A file of that name appeared meanwhile, or a call of the file system failed;
\* the temporary file is removed.
SaveFails(p) ==
  /\ calls[p].pc = "commit"
  /\ calls' = [calls EXCEPT ![p] = Finished("failed")]
  /\ UNCHANGED <<files, disk, promised, losses>>

\* Mutant of SyncDirectory: the directory is left to the system to write.
SyncDirectoryLater(p) ==
  /\ calls[p].pc \in {"sync saved", "sync removed"}
  /\ LET i == calls[p].identity
     IN  promised' =
           IF calls[p].pc = "sync saved" /\ files[i] = calls[p].file
           THEN [promised EXCEPT ![i] = [made |-> TRUE, bytes |-> files[i].bytes]]
           ELSE promised
  /\ calls' = [calls EXCEPT ![p] = Finished("ok")]
  /\ UNCHANGED <<files, disk, losses>>

SyncDirectory(p) ==
  /\ calls[p].pc \in {"sync saved", "sync removed"}
  /\ disk' = files
  /\ LET i == calls[p].identity
     IN  promised' =
           IF calls[p].pc = "sync saved" /\ files[i] = calls[p].file
           THEN [promised EXCEPT ![i] = [made |-> TRUE, bytes |-> files[i].bytes]]
           ELSE promised
  /\ calls' = [calls EXCEPT ![p] = Finished("ok")]
  /\ UNCHANGED <<files, losses>>

\* The directory could not be flushed: the code takes no notice.
SyncFails(p) ==
  /\ calls[p].pc \in {"sync saved", "sync removed"}
  /\ calls' = [calls EXCEPT ![p] = Finished("ok")]
  /\ UNCHANGED <<files, disk, promised, losses>>

RemoveFile(p, i) ==
  /\ calls[p].pc = "idle"
  /\ Exists(i)
  /\ files' = [files EXCEPT ![i] = Missing]
  /\ promised' = [promised EXCEPT ![i] = Nothing]
  /\ calls' = [calls EXCEPT ![p] = [NoCall EXCEPT !.pc = "sync removed", !.identity = i]]
  /\ UNCHANGED <<disk, losses>>

\* It is not there, or cannot be removed.
RemoveFails(p) ==
  /\ calls[p].pc = "idle"
  /\ calls' = [calls EXCEPT ![p] = Finished("failed")]
  /\ UNCHANGED <<files, disk, promised, losses>>

StorageStep(p) == CommitTemporary(p) \/ SaveFails(p) \/ SyncDirectory(p) \/ SyncFails(p)

Crash(p) ==
  /\ calls[p].pc # "idle"
  /\ calls' = [calls EXCEPT ![p] = NoCall]
  /\ UNCHANGED <<files, disk, promised, losses>>

\* Each change of the directory that is not on disk may be lost, and so may the
\* end of a file that was not flushed.
LosePower ==
  /\ losses < MaxLosses
  /\ losses' = losses + 1
  /\ LET Left(i) ==
           {f \in {files[i], disk[i]} : f.flushed}
             \cup {File(b, TRUE) : b \in UNION {Torn(f.bytes) : f \in {g \in {files[i], disk[i]} : ~g.flushed}}}
     IN  files' \in {f \in [Identities -> UNION {Left(i) : i \in Identities}] :
                       \A i \in Identities : f[i] \in Left(i)}
  /\ disk' = files'
  /\ calls' = [p \in Instances |-> NoCall]
  /\ UNCHANGED promised

-----------------------------------------------------------------------------
(***************************************************************************)
(* Whatever stops when, a preset that was saved is whole: it loads.        *)
(***************************************************************************)
SavedIsWhole ==
  \A i \in Identities : Exists(i) => files[i].bytes \in Imports[i] \/ Loads(i)

(***************************************************************************)
(* A save that was reported as successful outlives a loss of power, until  *)
(* the preset is saved again or removed; unless the directory could not be *)
(* flushed, which the code does not report.                                *)
(***************************************************************************)
SavedIsDurable ==
  \A i \in Identities : promised[i].made => Exists(i) /\ files[i].bytes = promised[i].bytes

(***************************************************************************)
(* Only a save that was asked to overwrite replaces a preset, whichever    *)
(* instances save at the same time.                                        *)
(***************************************************************************)
NoClobber ==
  [][\A i \in Identities :
       Exists(i) /\ Exists(i)' /\ files[i] # files'[i] /\ losses' = losses =>
         \E p \in Instances : calls[p].pc = "commit" /\ calls[p].overwrite /\ calls[p].identity = i
    ]_storageVars

-----------------------------------------------------------------------------
(* The directory as a folder of presets: what is flushed, and the temporary *)
(* files, are not seen.                                                     *)

Contents(bytes) == [exists |-> TRUE, bytes |-> bytes]
NoContents == [exists |-> FALSE, bytes |-> <<>>]
InFolder(directory) ==
  [i \in Identities |-> [exists |-> directory[i].exists, bytes |-> directory[i].bytes]]

Captures == {Contents(Serialize(Captured(Plugin, s))) : s \in States}
Copies == [i \in Identities |-> {Contents(b) : b \in Imports[i]}]

Request(call) ==
  CASE call.pc = "idle" -> [phase |-> "idle", answer |-> call.result]
    [] call.pc = "commit" -> [phase |-> "saving", name |-> call.identity,
                              preset |-> Contents(call.file.bytes), replace |-> call.overwrite]
    [] OTHER -> [phase |-> "done"]

Requests == [p \in Instances |-> Request(calls[p])]

Folder ==
  INSTANCE PresetFolder
    WITH Names <- Identities, Clients <- Instances, Presets <- Captures, Foreign <- Copies,
         Absent <- NoContents, shown <- InFolder(files), kept <- InFolder(disk),
         requests <- Requests

(***************************************************************************)
(* Between them the steps of saveAs() and remove(), in whatever order the  *)
(* processes take them and wherever they stop, are a folder in which a     *)
(* preset is saved or removed at once: it is never shown in parts, a name  *)
(* is never taken from another save that was first, and an answer tells    *)
(* what happened.                                                          *)
(***************************************************************************)
IsFolder == Folder!Spec

=============================================================================
