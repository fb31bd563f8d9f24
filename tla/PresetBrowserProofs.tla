------------------------ MODULE PresetBrowserProofs -------------------------
(***************************************************************************)
(* Proofs about PresetBrowser and the directory under it, for every set of *)
(* files, instances, parameters and factory presets, whatever was copied   *)
(* into the directory, and every bound.                                    *)
(***************************************************************************)
EXTENDS PresetBrowser, TLAPS

(***************************************************************************)
(* The directory.                                                          *)
(***************************************************************************)

\* What a file of the directory may be: none is there that was not flushed.
Sound(i, file) ==
  /\ file.flushed
  /\ file.exists => file.bytes \in Imports[i] \/ Parses(file.bytes, Plugin)

FilesAreSound ==
  /\ DOMAIN files = Identities /\ DOMAIN disk = Identities
  /\ \A i \in Identities : Sound(i, files[i]) /\ Sound(i, disk[i])

CallFields == {"pc", "identity", "file", "overwrite", "result"}

\* A temporary file is whole before it is put in place.
CallsAreSound ==
  /\ DOMAIN calls = Instances
  /\ \A p \in Instances :
       /\ DOMAIN calls[p] = CallFields
       /\ calls[p].pc \in {"commit", "sync saved"} =>
            /\ calls[p].file.exists /\ calls[p].file.flushed
            /\ Parses(calls[p].file.bytes, Plugin)

\* What was promised is on disk as well.
PromisesAreKept ==
  /\ DOMAIN promised = Identities
  /\ \A i \in Identities : promised[i].made =>
       /\ files[i].exists /\ files[i].bytes = promised[i].bytes
       /\ disk[i].exists /\ disk[i].bytes = promised[i].bytes

StorageIInv == FilesAreSound /\ CallsAreSound /\ PromisesAreKept /\ losses \in Nat

-----------------------------------------------------------------------------
(***************************************************************************)
(* The browser.                                                            *)
(***************************************************************************)

Shapes ==
  /\ DOMAIN browser = {"refreshed", "listed", "current", "dirty"}
  /\ DOMAIN main = {"pc", "entry", "state"}
  /\ DOMAIN audio = {"busy", "state", "superseded"}
  /\ DOMAIN stands = {"state", "misses", "late", "strayed"}

\* The browser claims that the current preset is what the plug-in plays.
Shown == browser.current.kind # "None" /\ ~browser.dirty /\ ~stands.strayed

\* No edit is on its way, and the plug-in plays s.
Plays(s) == ~Waiting /\ ~InFlight /\ state = s

\* An edit was noted since the state was replaced or captured.
NotedLate == pending /\ stands.late

\* Where the state is replaced or captured already, and the browser does not show it yet.
Marking == {"mark", "mark init", "host", "saving"}

MarkedState == IF main.pc = "mark init" THEN Default ELSE main.state

\* Outside of a load, an edit the browser does not show is noted in the flag.
ShownIsPlayed ==
  main.pc \notin {"mark", "mark init", "host", "restore", "finish"} =>
    (Shown /\ ~pending => Plays(stands.state))

\* A command that is being answered forgets the flag: all that is late in it strays.
FinishIsPlayed == main.pc = "finish" => (Shown /\ ~NotedLate => Plays(stands.state))

\* What is to be marked is played, but for the edits it misses.
MarkedIsPlayed ==
  main.pc \in Marking => (~stands.misses /\ ~NotedLate => Plays(MarkedState))

\* A command that replaces nothing has consumed what was noted before it.
NotedIsLate == main.pc \in {"snapshot", "refresh", "delete", "deleting"} => (pending => stands.late)

BrowserIInv ==
  Shapes /\ CurrentIsEntry /\ ShownIsPlayed /\ FinishIsPlayed /\ MarkedIsPlayed /\ NotedIsLate

IInv == StorageIInv /\ BrowserIInv
-----------------------------------------------------------------------------
(* A document that may be written can be read. *)

LEMMA LinesOfSerialized ==
  ASSUME NEW d
  PROVE  /\ Len(Serialize(d)) = 5
         /\ Serialize(d)[1] = Magic
         /\ Serialize(d)[2] = Metadata(d) /\ Serialize(d)[3] = EndOfLine
         /\ Serialize(d)[4] = Payload(d) /\ Serialize(d)[5] = EndOfLine
  BY DEF Serialize

LEMMA SerializedIsFramed ==
  ASSUME NEW d
  PROVE  Framed(Serialize(d))
<1> DEFINE s == Serialize(d)
<1>1. Metadata(d) # EndOfLine /\ Payload(d) # EndOfLine
  BY DEF Metadata, Payload, Json, EndOfLine
<1>2. /\ Len(s) = 5 /\ s[1] = Magic /\ s[2] # EndOfLine /\ s[3] = EndOfLine
      /\ s[4] # EndOfLine /\ s[5] = EndOfLine
  BY <1>1, LinesOfSerialized
<1> HIDE DEF s
<1>3. \A k \in 2 .. 5 : k \in {2, 3, 4, 5}
  OBVIOUS
<1>4. LineEnds(s) = {3, 5}
  BY <1>2, <1>3 DEF LineEnds
<1>5. Framed(s)
  BY <1>2, <1>4 DEF Framed
<1> QED BY <1>5 DEF s

LEMMA SerializedParses ==
  ASSUME NEW d, ValidDocument(d), d.target = Plugin
  PROVE  Parses(Serialize(d), Plugin)
<1> DEFINE s == Serialize(d)
           meta == [schema |-> d.schema, target |-> d.target, name |-> d.name,
                    loadKey |-> d.loadKey, texts |-> TRUE, extensions |-> Array(d.extensions)]
           payload == [object |-> TRUE, parameters |-> Array(d.parameters),
                       settings |-> Array(d.settings)]
<1>1. MetadataOf(s) = meta /\ PayloadOf(s) = payload
  <2>1. /\ Len(s) = 5 /\ s[2] = [token |-> "json", value |-> meta]
        /\ s[4] = [token |-> "json", value |-> payload]
    BY LinesOfSerialized, Zenon DEF Metadata, Payload, Json
  <2> HIDE DEF s, meta, payload
  <2>2. s[2].token = "json" /\ s[2].value = meta /\ s[4].token = "json" /\ s[4].value = payload
    BY <2>1
  <2> QED BY <2>1, <2>2 DEF MetadataOf, PayloadOf, Line
<1>2. IsObject(meta) /\ IsObject(payload)
  BY DEF IsObject
<1>3. /\ meta.schema = SchemaVersion /\ meta.target = Plugin
      /\ meta.name = d.name /\ meta.loadKey = d.loadKey /\ meta.texts
      /\ meta.extensions.wellFormed /\ meta.extensions.list = d.extensions
  BY DEF ValidDocument, Array
<1>4. /\ payload.object
      /\ payload.parameters.wellFormed /\ payload.parameters.list = d.parameters
      /\ payload.settings.wellFormed /\ payload.settings.list = d.settings
  BY DEF Array
<1>5. Framed(s)
  BY SerializedIsFramed
<1> HIDE DEF s, meta, payload
<1>6. MetadataParses(s, Plugin)
  <2>1. meta.schema \in 0 .. SchemaVersion
    BY <1>3 DEF SchemaVersion
  <2>2. MetadataFieldsParse(meta)
    BY <1>3 DEF MetadataFieldsParse, ValidDocument
  <2>3. Named(meta.extensions.list) /\ Distinct(meta.extensions.list) /\ Finite(meta.extensions.list)
    BY <1>3, Zenon DEF ValidDocument
  <2> QED BY <1>1, <1>2, <1>3, <1>5, <2>1, <2>2, <2>3, Zenon DEF MetadataParses
<1>7. Parses(s, Plugin)
  BY <1>1, <1>2, <1>4, <1>6 DEF Parses, ParametersParse, SettingsParse, ValidDocument
<1> QED BY <1>7 DEF s

-----------------------------------------------------------------------------
(* Steps of the directory. *)

StorageMove ==
  \/ UNCHANGED storageVars
  \/ LosePower
  \/ \E p \in Instances :
       \/ Crash(p) \/ StorageStep(p) \/ RemoveFails(p)
       \/ \E i : RemoveFile(p, i)
       \/ \E i, document, overwrite : BeginSave(p, i, document, overwrite)

LEMMA StorageMoves == [Next]_vars => StorageMove
<1> SUFFICES ASSUME [Next]_vars PROVE StorageMove
  OBVIOUS
<1> USE BrowserAssumption DEF StorageMove
<1>1. CASE Receive \/ Sync \/ \E p \in Parameters, v \in Values : UiEdit(p, v)
  BY <1>1 DEF Receive, Sync, UiEdit, Consume
<1>2. CASE Snapshot \/ Refresh \/ Select \/ Apply \/ Mark \/ ResetInit \/ MarkInit \/ Saved
           \/ Deleted \/ Finish
  BY <1>2 DEF Snapshot, Refresh, Select, Apply, Mark, ResetInit, MarkInit, Saved, Deleted, Finish
<1>3. CASE SaveAs
  BY <1>3 DEF SaveAs
<1>4. CASE Delete
  BY <1>4 DEF Delete
<1>5. CASE \/ \E entry \in Locations : HostLoad(entry)
           \/ \E s \in Projects : StateLoad(s)
           \/ HostLoaded \/ Restored \/ BlockBegin \/ BlockEnd
  BY <1>5 DEF HostLoad, StateLoad, HostLoaded, Restored, BlockBegin, BlockEnd
<1>6. CASE \E p \in Instances \ {"me"}, i \in Identities : OtherSaves(p, i) \/ OtherRemoves(p, i)
  BY <1>6 DEF OtherSaves, OtherRemoves
<1>7. CASE StorageSteps
  BY <1>7 DEF StorageSteps
<1>8. CASE Crashes
  BY <1>8 DEF Crashes
<1>9. CASE UNCHANGED vars
  BY <1>9 DEF vars
<1> QED BY <1>1, <1>2, <1>3, <1>4, <1>5, <1>6, <1>7, <1>8, <1>9 DEF Next

LEMMA StorageIsKept ==
  ASSUME StorageIInv, StorageMove
  PROVE  StorageIInv'
<1>0. FilesAreSound /\ CallsAreSound /\ PromisesAreKept /\ losses \in Nat
  BY DEF StorageIInv
<1>c. \A q \in Instances :
        /\ DOMAIN calls[q] = CallFields
        /\ calls[q].pc \in {"commit", "sync saved"} =>
             /\ calls[q].file.exists /\ calls[q].file.flushed
             /\ Parses(calls[q].file.bytes, Plugin)
  BY <1>0 DEF CallsAreSound
<1>f. DOMAIN files = Identities /\ DOMAIN disk = Identities
  BY <1>0 DEF FilesAreSound
<1>d. DOMAIN calls = Instances
  BY <1>0 DEF CallsAreSound
\* A call that is put at rest, or that holds a whole file, keeps the calls sound.
<1>r. ASSUME NEW q \in Instances, NEW c, calls' = [calls EXCEPT ![q] = c],
             DOMAIN c = CallFields,
             c.pc \in {"commit", "sync saved"} =>
               c.file.exists /\ c.file.flushed /\ Parses(c.file.bytes, Plugin)
      PROVE  CallsAreSound'
  <2>1. DOMAIN calls' = Instances /\ calls'[q] = c
    BY <1>r, <1>d
  <2>2. \A o \in Instances \ {q} : calls'[o] = calls[o]
    BY <1>r, <1>d
  <2> QED BY <1>r, <2>1, <2>2, <1>c DEF CallsAreSound
<1>n. DOMAIN NoCall = CallFields /\ NoCall.pc = "idle"
  BY DEF NoCall, CallFields
<1>m. ASSUME NEW result
      PROVE  DOMAIN Finished(result) = CallFields /\ Finished(result).pc = "idle"
  BY <1>n DEF Finished, CallFields
<1>1. CASE UNCHANGED storageVars
  BY <1>0, <1>1 DEF storageVars, Sound, StorageIInv, FilesAreSound, CallsAreSound, PromisesAreKept
<1>2. CASE LosePower
  <2>1. ASSUME NEW i \in Identities PROVE files'[i] \in {files[i], disk[i]} /\ disk' = files'
    BY <1>0, <1>2 DEF LosePower, Sound, FilesAreSound
  <2>2. DOMAIN files' = Identities /\ disk' = files'
    BY <1>2 DEF LosePower
  <2>3. FilesAreSound'
    BY <1>0, <2>1, <2>2 DEF Sound, FilesAreSound
  <2>4. PromisesAreKept'
    BY <1>0, <1>2, <2>1, <2>2 DEF LosePower, PromisesAreKept
  <2>5. CallsAreSound'
    <3>1. calls' = [p \in Instances |-> NoCall]
      BY <1>2 DEF LosePower
    <3> QED BY <3>1, <1>n DEF CallsAreSound
  <2>6. losses' = losses + 1
    BY <1>2, Zenon DEF LosePower
  <2>7. losses' \in Nat
    BY <2>6, <1>0
  <2> QED BY <2>3, <2>4, <2>5, <2>7 DEF StorageIInv
<1>3. ASSUME NEW p \in Instances, Crash(p) \/ RemoveFails(p) \/ SaveFails(p) \/ SyncFails(p)
      PROVE  StorageIInv'
  <2>1. /\ UNCHANGED <<files, disk, promised, losses>>
        /\ \E result : calls' = [calls EXCEPT ![p] = Finished(result)]
                       \/ calls' = [calls EXCEPT ![p] = NoCall]
    BY <1>3 DEF Crash, RemoveFails, SaveFails, SyncFails
  <2>2. CallsAreSound'
    BY <2>1, <1>n, <1>m, <1>r
  <2> QED BY <1>0, <2>1, <2>2 DEF Sound, StorageIInv, FilesAreSound, PromisesAreKept
<1>4. ASSUME NEW p \in Instances, CommitTemporary(p) PROVE StorageIInv'
  <2> DEFINE i == calls[p].identity
             c == [calls[p] EXCEPT !.pc = "sync saved"]
  <2>1. /\ files' = [files EXCEPT ![i] = calls[p].file]
        /\ promised' = [promised EXCEPT ![i] = Nothing]
        /\ calls' = [calls EXCEPT ![p].pc = "sync saved"]
        /\ UNCHANGED <<disk, losses>> /\ calls[p].pc = "commit"
    BY <1>4 DEF CommitTemporary, Goes
  <2>2. FilesAreSound'
    BY <1>0, <1>c, <2>1 DEF Sound, FilesAreSound
  <2>3. PromisesAreKept'
    BY <1>0, <1>f, <2>1 DEF Nothing, PromisesAreKept
  <2>4. DOMAIN c = CallFields /\ c.file = calls[p].file
    BY <1>c DEF CallFields
  <2>5. calls' = [calls EXCEPT ![p] = c]
    BY <2>1
  <2>6. calls[p].file.exists /\ calls[p].file.flushed /\ Parses(calls[p].file.bytes, Plugin)
    BY <2>1, <1>c
  <2>7. CallsAreSound'
    BY <1>r, <2>4, <2>5, <2>6
  <2> QED BY <1>0, <2>1, <2>2, <2>3, <2>7 DEF StorageIInv
<1>5. ASSUME NEW p \in Instances, SyncDirectory(p) PROVE StorageIInv'
  <2> DEFINE i == calls[p].identity
  <2>1. /\ disk' = files /\ UNCHANGED <<files, losses>>
        /\ calls' = [calls EXCEPT ![p] = Finished("ok")]
        /\ \/ promised' = promised
           \/ /\ calls[p].pc = "sync saved" /\ files[i] = calls[p].file
              /\ promised' = [promised EXCEPT ![i] = [made |-> TRUE, bytes |-> files[i].bytes]]
    BY <1>5 DEF SyncDirectory
  <2>2. FilesAreSound'
    BY <1>0, <2>1 DEF Sound, FilesAreSound
  <2>3. PromisesAreKept'
    <3>1. CASE promised' = promised
      BY <1>0, <2>1, <3>1 DEF PromisesAreKept
    <3>2. CASE /\ calls[p].pc = "sync saved" /\ files[i] = calls[p].file
               /\ promised' = [promised EXCEPT ![i] = [made |-> TRUE, bytes |-> files[i].bytes]]
      <4>1. files[i].exists
        BY <3>2, <1>c
      <4>2. DOMAIN promised' = Identities
        BY <1>0, <3>2 DEF PromisesAreKept
      <4>3. ASSUME NEW j \in Identities, j # i PROVE promised'[j] = promised[j]
        BY <1>0, <3>2, <4>3 DEF PromisesAreKept
      <4>4. i \in Identities => promised'[i] = [made |-> TRUE, bytes |-> files[i].bytes]
        BY <1>0, <3>2 DEF PromisesAreKept
      <4>5. ASSUME NEW j \in Identities, promised'[j].made
            PROVE  /\ files'[j].exists /\ files'[j].bytes = promised'[j].bytes
                   /\ disk'[j].exists /\ disk'[j].bytes = promised'[j].bytes
        <5>1. CASE j = i
          <6>1. promised'[j].bytes = files[j].bytes
            BY <4>4, <5>1
          <6> QED BY <2>1, <4>1, <5>1, <6>1
        <5>2. CASE j # i
          <6>1. promised'[j] = promised[j]
            BY <4>3, <5>2
          <6> QED BY <1>0, <2>1, <4>5, <6>1, Zenon DEF PromisesAreKept, FilesAreSound
        <5> QED BY <5>1, <5>2
      <4> QED BY <4>2, <4>5 DEF PromisesAreKept
    <3> QED BY <2>1, <3>1, <3>2
  <2>4. CallsAreSound'
    BY <2>1, <1>n, <1>m, <1>r
  <2> QED BY <1>0, <2>1, <2>2, <2>3, <2>4 DEF StorageIInv
<1>6. ASSUME NEW p \in Instances, NEW i, RemoveFile(p, i) PROVE StorageIInv'
  <2> DEFINE c == [NoCall EXCEPT !.pc = "sync removed", !.identity = i]
  <2>1. /\ files' = [files EXCEPT ![i] = Missing]
        /\ promised' = [promised EXCEPT ![i] = Nothing]
        /\ calls' = [calls EXCEPT ![p] = [NoCall EXCEPT !.pc = "sync removed", !.identity = i]]
        /\ UNCHANGED <<disk, losses>>
    BY <1>6 DEF RemoveFile
  <2>2. FilesAreSound'
    BY <1>0, <2>1 DEF Sound, Missing, FilesAreSound
  <2>3. PromisesAreKept'
    BY <1>0, <1>f, <2>1 DEF Nothing, PromisesAreKept
  <2>4. DOMAIN c = CallFields /\ c.pc = "sync removed"
    BY <1>n DEF CallFields
  <2>5. calls' = [calls EXCEPT ![p] = c]
    BY <2>1
  <2>6. CallsAreSound'
    BY <2>4, <2>5, <1>r
  <2> QED BY <1>0, <2>1, <2>2, <2>3, <2>6 DEF StorageIInv
<1>7. ASSUME NEW p \in Instances, NEW i, NEW document, NEW overwrite,
             BeginSave(p, i, document, overwrite)
      PROVE  StorageIInv'
  <2> DEFINE c == [pc |-> "commit", identity |-> i, file |-> Written(document),
                   overwrite |-> overwrite, result |-> "none"]
  <2>1. /\ UNCHANGED <<files, disk, promised, losses>>
        /\ \/ calls' = [calls EXCEPT ![p] = Finished("failed")]
           \/ /\ document.target = Plugin /\ ValidDocument(document)
              /\ calls' = [calls EXCEPT ![p] = c]
    BY <1>7 DEF BeginSave, Serializable
  <2>2. ASSUME calls' = [calls EXCEPT ![p] = Finished("failed")] PROVE CallsAreSound'
    BY <2>2, <1>m, <1>r
  <2>3. ASSUME document.target = Plugin, ValidDocument(document), calls' = [calls EXCEPT ![p] = c]
        PROVE  CallsAreSound'
    <3>1. /\ Written(document).exists /\ Written(document).flushed
          /\ Parses(Written(document).bytes, Plugin)
      BY <2>3, SerializedParses DEF Written, File
    <3>2. CallsAreSound'
      BY <2>3, <3>1, <1>r DEF CallFields
    <3> QED BY <3>2
  <2>4. CallsAreSound'
    BY <2>1, <2>2, <2>3
  <2> QED BY <1>0, <2>1, <2>4 DEF Sound, StorageIInv, FilesAreSound, PromisesAreKept
<1> QED BY <1>1, <1>2, <1>3, <1>4, <1>5, <1>6, <1>7 DEF StorageMove, StorageStep

-----------------------------------------------------------------------------
(* Steps of the browser. *)

LEMMA CommandsReplaceNothing ==
  ASSUME NEW c \in Commands
  PROVE  /\ DOMAIN c = {"pc", "entry", "state"}
         /\ c.pc \in {"snapshot", "refresh", "next", "previous", "init", "load", "replace",
                      "delete", "save"}
  BY DEF Commands, Command

\* The list is replaced and the current preset is kept when it is still in it.
LEMMA ReplacedKeepsEntry ==
  ASSUME NEW b, NEW listed, DOMAIN b = {"refreshed", "listed", "current", "dirty"}
  PROVE  LET r == Replaced(b, listed)
         IN  /\ DOMAIN r = DOMAIN b /\ r.refreshed = TRUE /\ r.listed = listed
             /\ \/ r.current = b.current /\ r.dirty = b.dirty
                \/ r.current = Nobody /\ r.dirty = FALSE
             /\ r.current.kind \in {"Factory", "User"} => Finds(r, r.current)
<1> DEFINE q == [b EXCEPT !.refreshed = TRUE, !.listed = listed]
           n == [q EXCEPT !.current = Nobody, !.dirty = FALSE]
<1>1. /\ DOMAIN q = DOMAIN b /\ q.refreshed = TRUE /\ q.listed = listed
      /\ q.current = b.current /\ q.dirty = b.dirty
  OBVIOUS
<1> HIDE DEF q
<1>2. /\ DOMAIN n = DOMAIN b /\ n.refreshed = TRUE /\ n.listed = listed
      /\ n.current = Nobody /\ n.dirty = FALSE
  BY <1>1
<1>3. Nobody.kind = "None"
  BY DEF Nobody
<1> HIDE DEF n
<1>4. CASE b.current.kind \in {"Factory", "User"} /\ ~Finds(q, b.current)
  <2>1. Replaced(b, listed) = n
    BY <1>4 DEF Replaced, q, n
  <2> QED BY <1>2, <1>3, <2>1
<1>5. CASE ~(b.current.kind \in {"Factory", "User"} /\ ~Finds(q, b.current))
  <2>1. Replaced(b, listed) = q
    BY <1>5 DEF Replaced, q
  <2> QED BY <1>1, <1>5, <2>1
<1> QED BY <1>4, <1>5

LEMMA MarkedIsCurrent ==
  ASSUME NEW b, NEW entry, DOMAIN b = {"refreshed", "listed", "current", "dirty"}
  PROVE  LET r == Marked(b, entry)
         IN  /\ DOMAIN r = DOMAIN b /\ r.current = entry /\ r.dirty = FALSE
             /\ r.refreshed = b.refreshed /\ r.listed = b.listed
             /\ Finds(b, entry) => Finds(r, entry)
<1>1. LET r == Marked(b, entry)
      IN  /\ DOMAIN r = DOMAIN b /\ r.current = entry /\ r.dirty = FALSE
          /\ r.refreshed = b.refreshed /\ r.listed = b.listed
  BY DEF Marked
<1> QED BY <1>1 DEF Finds

\* Clearing the mark keeps the browser's fields and points at no entry.
LEMMA ClearedIsNobody ==
  ASSUME NEW b, DOMAIN b = {"refreshed", "listed", "current", "dirty"}
  PROVE  DOMAIN Cleared(b) = DOMAIN b /\ Cleared(b).current = Nobody
BY MarkedIsCurrent DEF Cleared

\* The state is replaced: what it is to be marked as is played, but for the edits that wait.
LEMMA CommitPlays ==
  ASSUME Shapes, NEW s, Commit(s), UNCHANGED queued
  PROVE  /\ DOMAIN audio' = DOMAIN audio /\ DOMAIN stands' = DOMAIN stands
         /\ state' = s /\ ~InFlight' /\ Waiting' = Waiting
         /\ stands'.misses = Waiting /\ stands'.late = FALSE
<1>1. audio' = [audio EXCEPT !.superseded = audio.busy] /\ state' = s
      /\ stands' = [stands EXCEPT !.misses = Waiting, !.late = FALSE] /\ queued' = queued
  BY DEF Commit
<1>2. DOMAIN audio' = DOMAIN audio /\ audio'.superseded = audio.busy /\ audio'.busy = audio.busy
  BY <1>1 DEF Shapes
<1>3. DOMAIN stands' = DOMAIN stands /\ stands'.misses = Waiting /\ stands'.late = FALSE
  BY <1>1 DEF Shapes
<1>4. ~InFlight'
  BY <1>2 DEF InFlight
<1> QED BY <1>1, <1>2, <1>3, <1>4 DEF Waiting

LEMMA BrowserKeepsCommands ==
  ASSUME BrowserIInv,
         Receive \/ Sync \/ (\E p \in Parameters, v \in Values : UiEdit(p, v)) \/ Finish
  PROVE  BrowserIInv'
<1> USE DEF BrowserIInv, Shapes
<1>1. CASE Receive \/ Sync \/ \E p \in Parameters, v \in Values : UiEdit(p, v)
  <2>1. PICK noted \in BOOLEAN : Consume(noted)
    BY <1>1 DEF Receive, Sync, UiEdit
  <2>2. /\ DOMAIN browser' = DOMAIN browser /\ browser'.refreshed = browser.refreshed
        /\ browser'.listed = browser.listed /\ browser'.current = browser.current
        /\ browser'.dirty = (browser.dirty \/ pending)
    BY <2>1 DEF Consume, Consumed
  <2>3. /\ DOMAIN stands' = DOMAIN stands /\ stands'.strayed = stands.strayed
        /\ stands'.state = stands.state /\ stands'.misses = stands.misses
    BY <2>1 DEF Consume
  <2>4. pending' = noted /\ UNCHANGED <<state, audio>> /\ main.pc = "idle"
    BY <2>1 DEF Consume
  <2>5. /\ DOMAIN main' = DOMAIN main
        /\ main'.pc \in {"idle", "snapshot", "refresh", "next", "previous", "init", "load",
                         "replace", "delete", "save"}
    BY <1>1, <2>4, CommandsReplaceNothing DEF Receive, Sync, UiEdit
  <2>6. pending' \/ (UNCHANGED queued /\ (main'.pc = "idle" \/ ~pending'))
    BY <1>1, <2>4 DEF Receive, Sync, UiEdit, Consume
  <2>7. main'.pc # "idle" => ~pending'
    BY <1>1, <2>4 DEF Receive, Sync, UiEdit, Consume
  <2>8. Shapes' /\ CurrentIsEntry'
    BY <2>2, <2>3, <2>4, <2>5 DEF CurrentIsEntry, Finds
  <2>9. ShownIsPlayed'
    BY <2>2, <2>3, <2>4, <2>6 DEF ShownIsPlayed, Shown, Plays, Waiting, InFlight
  <2>10. FinishIsPlayed' /\ MarkedIsPlayed' /\ NotedIsLate'
    BY <2>5, <2>7 DEF FinishIsPlayed, MarkedIsPlayed, NotedIsLate, Marking
  <2> QED BY <2>8, <2>9, <2>10
<1>2. CASE Finish
  <2>1. /\ main.pc = "finish" /\ ~pending' /\ main' = Idle
        /\ UNCHANGED <<browser, state, audio, queued>>
        /\ DOMAIN stands' = DOMAIN stands /\ stands'.state = stands.state
        /\ stands'.strayed = (stands.strayed \/ NotedLate)
    BY <1>2 DEF Finish, NotedLate
  <2>2. DOMAIN main' = DOMAIN main /\ main'.pc = "idle"
    BY <2>1 DEF Idle
  <2>3. ShownIsPlayed'
    BY <2>1, <2>2 DEF ShownIsPlayed, FinishIsPlayed, Shown, Plays, Waiting, InFlight
  <2> QED BY <2>1, <2>2, <2>3 DEF CurrentIsEntry, Finds, FinishIsPlayed, MarkedIsPlayed, NotedIsLate,
                                  Marking
<1> QED BY <1>1, <1>2

\* A command is answered, or the answer is not sent.
LEMMA RepliesFinish ==
  ASSUME Reply \/ Stops
  PROVE  DOMAIN main' = {"pc", "entry", "state"} /\ main'.pc \in {"finish", "idle"}
  BY DEF Reply, Stops, Idle

\* The browser may have forgotten the current preset; nothing else has changed.
LEMMA ForgettingIsSafe ==
  ASSUME BrowserIInv, main.pc \in {"snapshot", "refresh", "saving", "deleting"},
         UNCHANGED <<pending, queued, state, audio, stands>>,
         DOMAIN browser' = DOMAIN browser,
         \/ browser'.current = browser.current /\ browser'.dirty = browser.dirty
         \/ browser'.current = Nobody,
         CurrentIsEntry',
         DOMAIN main' = {"pc", "entry", "state"},
         \/ main'.pc = "idle"
         \/ main'.pc = "finish" /\ main.pc \in {"snapshot", "refresh"}
         \/ main'.pc = "finish" /\ main.pc = "deleting"
  PROVE  BrowserIInv'
<1>1. Shapes'
  BY DEF BrowserIInv, Shapes
<1>2. Nobody.kind = "None"
  BY DEF Nobody
<1>3. Shown' => Shown
  BY <1>2 DEF Shown
<1>4. \A s : Plays(s)' <=> Plays(s)
  BY DEF Plays, Waiting, InFlight
<1>5. Shown /\ ~pending => Plays(stands.state)
  BY DEF BrowserIInv, ShownIsPlayed
<1>6. ShownIsPlayed'
  BY <1>3, <1>4, <1>5 DEF ShownIsPlayed
<1>7. FinishIsPlayed'
  BY <1>3, <1>4, <1>5 DEF FinishIsPlayed, BrowserIInv, NotedIsLate, NotedLate
<1> QED BY <1>1, <1>6, <1>7 DEF BrowserIInv, MarkedIsPlayed, NotedIsLate, Marking

\* What was replaced or captured is shown as the current preset, and the page is told.
LEMMA MarkingIsSafe ==
  ASSUME BrowserIInv, main.pc \in {"mark", "mark init", "saving"},
         UNCHANGED <<pending, queued, state, audio>>,
         DOMAIN browser' = DOMAIN browser, CurrentIsEntry', StandsFor(MarkedState), Reply
  PROVE  BrowserIInv'
<1>1. /\ DOMAIN stands' = DOMAIN stands /\ stands'.state = MarkedState
      /\ stands'.strayed = stands.misses /\ stands'.late = stands.late
  BY DEF StandsFor, BrowserIInv, Shapes
<1>2. DOMAIN main' = {"pc", "entry", "state"} /\ main'.pc \in {"finish", "idle"}
  BY RepliesFinish
<1>3. Shapes'
  BY <1>1, <1>2 DEF BrowserIInv, Shapes
<1>4. Shown' /\ ~NotedLate => Plays(MarkedState)
  BY <1>1 DEF BrowserIInv, MarkedIsPlayed, Marking, Shown
<1>5. NotedLate' <=> NotedLate
  BY <1>1 DEF NotedLate
<1>6. ~pending' => ~NotedLate
  BY DEF NotedLate
<1>7. Plays(MarkedState) => Plays(stands.state)'
  BY <1>1 DEF Plays, Waiting, InFlight
<1>8. ShownIsPlayed' /\ FinishIsPlayed'
  BY <1>4, <1>5, <1>6, <1>7 DEF ShownIsPlayed, FinishIsPlayed
<1> QED BY <1>2, <1>3, <1>8 DEF BrowserIInv, MarkedIsPlayed, NotedIsLate, Marking

LEMMA BrowserKeepsAnswers ==
  ASSUME BrowserIInv,
         Snapshot \/ Refresh \/ Mark \/ MarkInit \/ Saved \/ Deleted
  PROVE  BrowserIInv'
<1>b. DOMAIN browser = {"refreshed", "listed", "current", "dirty"} /\ CurrentIsEntry
  BY DEF BrowserIInv, Shapes
<1>1. CASE Snapshot
  BY <1>1, <1>b, ForgettingIsSafe, RepliesFinish DEF Snapshot, MainOnly, CurrentIsEntry, Finds
\* The list may have been replaced.
<1>2. ASSUME Relist
      PROVE  /\ DOMAIN browser' = DOMAIN browser
             /\ \/ browser'.current = browser.current /\ browser'.dirty = browser.dirty
                \/ browser'.current = Nobody
             /\ CurrentIsEntry' /\ UNCHANGED stands
             /\ DOMAIN main' = {"pc", "entry", "state"} /\ main'.pc \in {"finish", "idle"}
  <2>1. CASE browser' = Replaced(browser, Listed) /\ Reply
    <3> DEFINE r == Replaced(browser, Listed)
    <3>2. /\ DOMAIN r = DOMAIN browser
          /\ \/ r.current = browser.current /\ r.dirty = browser.dirty
             \/ r.current = Nobody /\ r.dirty = FALSE
          /\ r.current.kind \in {"Factory", "User"} => Finds(r, r.current)
      BY <1>b, ReplacedKeepsEntry, Zenon
    <3>3. browser' = r /\ UNCHANGED stands
      BY <1>2, <2>1 DEF Relist
    <3> HIDE DEF r
    <3>4. CurrentIsEntry'
      BY <3>2, <3>3 DEF CurrentIsEntry
    <3>5. DOMAIN main' = {"pc", "entry", "state"} /\ main'.pc \in {"finish", "idle"}
      BY <2>1, RepliesFinish
    <3> QED BY <3>2, <3>3, <3>4, <3>5
  <2>2. CASE UNCHANGED browser /\ Stops
    BY <1>2, <2>2, <1>b, RepliesFinish DEF Relist, CurrentIsEntry, Finds
  <2> QED BY <1>2, <2>1, <2>2 DEF Relist
<1>3. CASE Refresh
  BY <1>2, <1>3, ForgettingIsSafe DEF Refresh, MainOnly
<1>4. CASE Mark
  <2>1. CASE Finds(browser, main.entry) /\ browser' = Marked(browser, main.entry)
             /\ StandsFor(main.state) /\ Reply
    <3>1. DOMAIN browser' = DOMAIN browser /\ CurrentIsEntry'
      BY <2>1, <1>b, MarkedIsCurrent DEF CurrentIsEntry
    <3>2. main.pc = "mark" /\ MarkedState = main.state /\ UNCHANGED <<pending, queued, state, audio>>
      BY <1>4 DEF Mark, MainOnly, MarkedState
    <3> QED BY <2>1, <3>1, <3>2, MarkingIsSafe
  <2>2. CASE stands' = [stands EXCEPT !.strayed = TRUE] /\ UNCHANGED browser /\ Stops
    <3>1. DOMAIN main' = {"pc", "entry", "state"} /\ main'.pc = "idle"
      BY <2>2 DEF Stops, Idle
    <3>2. DOMAIN stands' = DOMAIN stands /\ stands'.strayed = TRUE
      BY <2>2 DEF BrowserIInv, Shapes
    <3> QED BY <1>4, <2>2, <3>1, <3>2
            DEF Mark, BrowserIInv, Shapes, CurrentIsEntry, Finds, ShownIsPlayed, FinishIsPlayed,
                MarkedIsPlayed, NotedIsLate, Marking, Shown
  <2> QED BY <1>4, <2>1, <2>2 DEF Mark
<1>5. CASE MarkInit
  <2>1. DOMAIN browser' = DOMAIN browser /\ browser'.current.kind = "Init"
    <3> DEFINE init == [kind |-> "Init", identity |-> ""]
    <3>1. browser' = Marked(browser, init) /\ init.kind = "Init"
      BY <1>5 DEF MarkInit
    <3> HIDE DEF init
    <3>2. DOMAIN browser' = DOMAIN browser /\ browser'.current = init
      BY <3>1, <1>b, MarkedIsCurrent
    <3> QED BY <3>1, <3>2
  <2>2. main.pc = "mark init" /\ MarkedState = Default /\ UNCHANGED <<pending, queued, state, audio>>
        /\ StandsFor(Default) /\ Reply
    BY <1>5 DEF MarkInit, MainOnly, MarkedState
  <2> QED BY <2>1, <2>2, MarkingIsSafe DEF CurrentIsEntry
<1>6. CASE Saved
  <2>0. main.pc = "saving" /\ UNCHANGED <<pending, queued, state, audio>>
    BY <1>6 DEF Saved, MainOnly
  <2>1. CASE UNCHANGED <<browser, stands>> /\ Stops
    BY <2>0, <2>1, <1>b, ForgettingIsSafe DEF Stops, Idle, CurrentIsEntry, Finds
  <2>2. CASE browser' = Replaced(browser, Listed) /\ UNCHANGED stands /\ Stops
    BY <2>0, <2>2, <1>b, ReplacedKeepsEntry, ForgettingIsSafe DEF Stops, Idle, CurrentIsEntry
  <2>3. CASE /\ main.entry.identity \in Listed
             /\ browser' = Marked(Replaced(browser, Listed), main.entry)
             /\ StandsFor(main.state) /\ Reply
    <3>1. PICK r : r = Replaced(browser, Listed)
      OBVIOUS
    <3>2. DOMAIN r = DOMAIN browser /\ r.refreshed = TRUE /\ r.listed = Listed
      BY <3>1, <1>b, ReplacedKeepsEntry
    <3>3. main.entry.kind \in {"Factory", "User"} => Finds(r, main.entry)
      BY <2>3, <3>2 DEF Finds
    <3>4. DOMAIN browser' = DOMAIN browser /\ CurrentIsEntry'
      <4>1. browser' = Marked(r, main.entry)
        BY <2>3, <3>1
      <4>2. DOMAIN browser' = DOMAIN r /\ browser'.current = main.entry
            /\ (Finds(r, main.entry) => Finds(browser', main.entry))
        BY <4>1, <3>2, <1>b, MarkedIsCurrent
      <4> QED BY <4>2, <3>2, <3>3 DEF CurrentIsEntry
    <3> QED BY <2>0, <2>3, <3>4, MarkingIsSafe DEF MarkedState
  <2> QED BY <1>6, <2>1, <2>2, <2>3 DEF Saved
<1>7. CASE Deleted
  <2>0. main.pc = "deleting" /\ UNCHANGED <<pending, queued, state, audio>>
    BY <1>7 DEF Deleted, MainOnly
  <2>1. CASE UNCHANGED <<browser, stands>> /\ Stops
    BY <2>0, <2>1, <1>b, ForgettingIsSafe DEF Stops, Idle, CurrentIsEntry, Finds
  <2>2. CASE Relist
    BY <2>0, <2>2, <1>2, ForgettingIsSafe
  <2> QED BY <1>7, <2>1, <2>2 DEF Deleted
<1> QED BY <1>1, <1>3, <1>4, <1>5, <1>6, <1>7

LEMMA BrowserKeepsChoices ==
  ASSUME BrowserIInv, Select \/ Apply \/ ResetInit \/ SaveAs \/ Delete
  PROVE  BrowserIInv'
<1> USE DEF BrowserIInv, Shapes
<1>1. CASE Select
  <2>1. /\ UNCHANGED <<pending, queued, browser, state, audio, stands>>
        /\ main.pc \in {"load", "next", "previous"}
    BY <1>1 DEF Select, MainOnly
  <2>2. ASSUME NEW entry, Resolve(entry)
        PROVE  DOMAIN main' = {"pc", "entry", "state"} /\ main'.pc \in {"apply", "idle"}
    BY <2>2 DEF Resolve, Idle
  <2>3. DOMAIN main' = {"pc", "entry", "state"} /\ main'.pc \in {"apply", "idle"}
    BY <1>1, <2>2 DEF Select, Idle
  <2> QED BY <2>1, <2>3 DEF CurrentIsEntry, Finds, ShownIsPlayed, FinishIsPlayed, MarkedIsPlayed,
                            NotedIsLate, Marking, Shown, Plays, Waiting, InFlight
<1>2. CASE Apply
  <2>0. main.pc = "apply" /\ UNCHANGED <<pending, queued, browser>>
    BY <1>2 DEF Apply, MainOnly
  <2>1. ASSUME NEW s \in States, Commit(s), main' = [main EXCEPT !.pc = "mark", !.state = s]
        PROVE  BrowserIInv'
    <3>1. DOMAIN main' = DOMAIN main /\ main'.pc = "mark" /\ main'.state = s
      BY <2>1
    <3>2. MarkedIsPlayed'
      BY <2>0, <2>1, <3>1, CommitPlays DEF MarkedIsPlayed, MarkedState, Plays
    <3> QED BY <2>0, <2>1, <3>1, <3>2, CommitPlays
            DEF CurrentIsEntry, Finds, ShownIsPlayed, FinishIsPlayed, NotedIsLate
  <2>2. ASSUME main' = Idle, UNCHANGED <<state, audio, stands>>
        PROVE  BrowserIInv'
    <3>1. DOMAIN main' = DOMAIN main /\ main'.pc = "idle"
      BY <2>2 DEF Idle
    <3> QED BY <2>0, <2>2, <3>1 DEF CurrentIsEntry, Finds, ShownIsPlayed, FinishIsPlayed,
               MarkedIsPlayed, NotedIsLate, Marking, Shown, Plays, Waiting, InFlight
  <2> QED BY <1>2, <2>1, <2>2 DEF Apply
<1>3. CASE ResetInit
  <2>1. /\ Commit(Default) /\ UNCHANGED <<pending, queued, browser>>
        /\ main' = [Idle EXCEPT !.pc = "mark init"]
    BY <1>3 DEF ResetInit, MainOnly
  <2>2. DOMAIN main' = DOMAIN main /\ main'.pc = "mark init"
    BY <2>1 DEF Idle
  <2>3. MarkedIsPlayed'
    BY <2>1, <2>2, CommitPlays DEF MarkedIsPlayed, MarkedState, Plays
  <2> QED BY <2>1, <2>2, <2>3, CommitPlays
          DEF CurrentIsEntry, Finds, ShownIsPlayed, FinishIsPlayed, NotedIsLate
<1>4. CASE SaveAs
  <2>1. /\ main.pc \in {"save", "replace"} /\ UNCHANGED <<pending, queued, browser, state, audio>>
        /\ main' = [main EXCEPT !.pc = "saving", !.state = state]
        /\ stands' = [stands EXCEPT !.misses = Waiting \/ InFlight, !.late = FALSE]
    BY <1>4 DEF SaveAs, MainOnly
  <2>2. DOMAIN main' = DOMAIN main /\ main'.pc = "saving" /\ main'.state = state
    BY <2>1
  <2>3. /\ DOMAIN stands' = DOMAIN stands /\ stands'.state = stands.state
        /\ stands'.strayed = stands.strayed /\ stands'.misses = (Waiting \/ InFlight)
    BY <2>1
  <2>4. ShownIsPlayed'
    BY <2>1, <2>2, <2>3 DEF ShownIsPlayed, Shown, Plays, Waiting, InFlight
  <2>5. MarkedIsPlayed'
    BY <2>1, <2>2, <2>3 DEF MarkedIsPlayed, MarkedState, Plays, Waiting, InFlight
  <2> QED BY <2>1, <2>2, <2>3, <2>4, <2>5 DEF CurrentIsEntry, Finds, FinishIsPlayed, NotedIsLate
<1>5. CASE Delete
  <2>1. /\ main.pc = "delete" /\ UNCHANGED <<pending, queued, browser, state, audio, stands>>
        /\ main' = [Idle EXCEPT !.pc = "deleting", !.entry = main.entry]
    BY <1>5 DEF Delete, MainOnly, Awaits
  <2>2. DOMAIN main' = DOMAIN main /\ main'.pc = "deleting"
    BY <2>1 DEF Idle
  <2> QED BY <2>1, <2>2 DEF CurrentIsEntry, Finds, ShownIsPlayed, FinishIsPlayed, MarkedIsPlayed,
                            NotedIsLate, Marking, Shown, Plays, Waiting, InFlight
<1> QED BY <1>1, <1>2, <1>3, <1>4, <1>5

LEMMA BrowserKeepsLoads ==
  ASSUME BrowserIInv,
         \/ \E entry \in Locations : HostLoad(entry)
         \/ \E s \in Projects : StateLoad(s)
         \/ HostLoaded \/ Restored
  PROVE  BrowserIInv'
<1> USE DEF BrowserIInv, Shapes
<1>1. ASSUME NEW entry \in Locations, HostLoad(entry) PROVE BrowserIInv'
  <2>1. PICK s \in States : /\ Commit(s) /\ UNCHANGED <<pending, queued, browser>>
                            /\ main' = [pc |-> "host", entry |-> entry, state |-> s]
    BY <1>1 DEF HostLoad
  <2>2. DOMAIN main' = DOMAIN main /\ main'.pc = "host" /\ main'.state = s
    BY <2>1
  <2>3. MarkedIsPlayed'
    BY <2>1, <2>2, CommitPlays DEF MarkedIsPlayed, MarkedState, Plays
  <2> QED BY <2>1, <2>2, <2>3, CommitPlays
          DEF CurrentIsEntry, Finds, ShownIsPlayed, FinishIsPlayed, NotedIsLate
<1>2. ASSUME NEW s \in Projects, StateLoad(s) PROVE BrowserIInv'
  <2>1. /\ Commit(s) /\ UNCHANGED <<pending, queued, browser>>
        /\ main' = [Idle EXCEPT !.pc = "restore"]
    BY <1>2 DEF StateLoad
  <2>2. DOMAIN main' = DOMAIN main /\ main'.pc = "restore"
    BY <2>1 DEF Idle
  <2> QED BY <2>1, <2>2, CommitPlays
          DEF CurrentIsEntry, Finds, ShownIsPlayed, FinishIsPlayed, NotedIsLate, MarkedIsPlayed, Marking
<1>3. Nobody.kind = "None"
  BY DEF Nobody
<1>4. CASE HostLoaded
  <2> DEFINE r == Replaced(browser, Listed)
  <2>1. /\ main.pc = "host" /\ ~pending' /\ main' = Idle /\ UNCHANGED <<queued, state, audio>>
        /\ \/ /\ Finds(r, main.entry) /\ browser' = Marked(r, main.entry)
              /\ stands' = [stands EXCEPT !.state = main.state, !.strayed = stands.misses \/ NotedLate]
           \/ /\ browser' = Cleared(r) \/ browser' = Cleared(browser)
              /\ UNCHANGED stands
    BY <1>4 DEF HostLoaded, NotedLate
  <2>2. DOMAIN main' = DOMAIN main /\ main'.pc = "idle"
    BY <2>1 DEF Idle
  <2>3. DOMAIN r = DOMAIN browser
    BY ReplacedKeepsEntry
  <2> HIDE DEF r
  <2>4. CASE /\ Finds(r, main.entry) /\ browser' = Marked(r, main.entry)
             /\ stands' = [stands EXCEPT !.state = main.state, !.strayed = stands.misses \/ NotedLate]
    <3>1. DOMAIN browser' = DOMAIN browser /\ browser'.current = main.entry
          /\ Finds(browser', main.entry)
      BY <2>3, <2>4, MarkedIsCurrent
    <3>2. DOMAIN stands' = DOMAIN stands /\ stands'.state = main.state
          /\ stands'.strayed = (stands.misses \/ NotedLate)
      BY <2>4
    <3>3. ShownIsPlayed'
      BY <2>1, <2>2, <3>2 DEF ShownIsPlayed, MarkedIsPlayed, MarkedState, Marking, Shown, Plays,
                              Waiting, InFlight
    <3> QED BY <2>1, <2>2, <3>1, <3>2, <3>3
            DEF CurrentIsEntry, FinishIsPlayed, NotedIsLate, MarkedIsPlayed, Marking
  <2>5. CASE (browser' = Cleared(r) \/ browser' = Cleared(browser)) /\ UNCHANGED stands
    <3>1. DOMAIN browser' = DOMAIN browser /\ browser'.current = Nobody
      <4>1. PICK b \in {r, browser} : browser' = Cleared(b)
        BY <2>5
      <4>2. DOMAIN b = {"refreshed", "listed", "current", "dirty"} /\ DOMAIN b = DOMAIN browser
        BY <2>3
      <4> HIDE DEF BrowserIInv, Shapes
      <4> QED BY <4>1, <4>2, ClearedIsNobody
    <3> QED BY <2>1, <2>2, <2>5, <3>1, <1>3
            DEF CurrentIsEntry, ShownIsPlayed, FinishIsPlayed, NotedIsLate, MarkedIsPlayed, Marking, Shown
  <2> QED BY <2>1, <2>4, <2>5
<1>5. CASE Restored
  <2>1. /\ ~pending' /\ browser' = Cleared(browser) /\ main' = Idle
        /\ UNCHANGED <<queued, state, audio, stands>>
    BY <1>5 DEF Restored
  <2>2. DOMAIN main' = DOMAIN main /\ main'.pc = "idle"
    BY <2>1 DEF Idle
  <2>3. DOMAIN browser' = DOMAIN browser /\ browser'.current = Nobody
    <3>1. DOMAIN browser = {"refreshed", "listed", "current", "dirty"}
      OBVIOUS
    <3> HIDE DEF BrowserIInv, Shapes
    <3> QED BY <2>1, <3>1, ClearedIsNobody
  <2> QED BY <2>1, <2>2, <2>3, <1>3
          DEF CurrentIsEntry, ShownIsPlayed, FinishIsPlayed, NotedIsLate, MarkedIsPlayed, Marking, Shown
<1> QED BY <1>1, <1>2, <1>4, <1>5

LEMMA BrowserKeepsBlocks ==
  ASSUME BrowserIInv, BlockBegin \/ BlockEnd
  PROVE  BrowserIInv'
<1> USE DEF BrowserIInv, Shapes
<1>1. CASE BlockBegin
  <2>1. /\ UNCHANGED <<browser, main, state>> /\ ~audio.busy
        /\ DOMAIN audio' = {"busy", "state", "superseded"}
    BY <1>1 DEF BlockBegin
  <2>2. CASE pending' = TRUE /\ stands' = [stands EXCEPT !.late = TRUE]
    <3>1. pending' /\ stands'.late /\ DOMAIN stands' = DOMAIN stands
      BY <2>2
    <3> QED BY <2>1, <3>1 DEF CurrentIsEntry, Finds, ShownIsPlayed, FinishIsPlayed, MarkedIsPlayed,
                              NotedIsLate, NotedLate
  <2>3. CASE Waiting /\ UNCHANGED <<pending, stands>>
    BY <2>1, <2>3 DEF CurrentIsEntry, Finds, ShownIsPlayed, FinishIsPlayed, MarkedIsPlayed,
                      NotedIsLate, NotedLate, Shown, Plays, MarkedState
  <2> QED BY <1>1, <2>2, <2>3 DEF BlockBegin
<1>2. CASE BlockEnd
  <2>1. /\ UNCHANGED <<browser, pending, main, queued, stands>>
        /\ ~InFlight => state' = state
        /\ DOMAIN audio' = DOMAIN audio /\ ~audio'.busy
    BY <1>2 DEF BlockEnd, NoBlock, InFlight
  <2>2. \A s : Plays(s) => Plays(s)'
    BY <2>1 DEF Plays, Waiting, InFlight
  <2> QED BY <2>1, <2>2 DEF CurrentIsEntry, Finds, ShownIsPlayed, FinishIsPlayed, MarkedIsPlayed,
                            NotedIsLate, NotedLate, Shown, MarkedState
<1> QED BY <1>1, <1>2

\* The instance starts again with nothing shown.
LEMMA RestartIsSafe ==
  ASSUME Restart
  PROVE  BrowserIInv'
<1>1. /\ browser' = FreshInstance.browser /\ main' = Idle /\ audio' = NoBlock
      /\ stands' = FreshInstance.stands /\ ~pending'
  BY DEF Restart
<1>2. /\ DOMAIN browser' = {"refreshed", "listed", "current", "dirty"}
      /\ browser'.current.kind = "None" /\ DOMAIN stands' = {"state", "misses", "late", "strayed"}
  BY <1>1 DEF FreshInstance, Nobody
<1>3. DOMAIN main' = {"pc", "entry", "state"} /\ main'.pc = "idle"
      /\ DOMAIN audio' = {"busy", "state", "superseded"}
  BY <1>1 DEF Idle, NoBlock
<1> QED BY <1>1, <1>2, <1>3
        DEF BrowserIInv, Shapes, CurrentIsEntry, ShownIsPlayed, FinishIsPlayed, MarkedIsPlayed,
            NotedIsLate, Marking, Shown

LEMMA BrowserIsKept ==
  ASSUME BrowserIInv, [Next]_vars
  PROVE  BrowserIInv'
<1>1. ASSUME UNCHANGED instanceVars PROVE BrowserIInv'
  BY <1>1 DEF instanceVars, BrowserIInv, Shapes, CurrentIsEntry, Finds, ShownIsPlayed,
              FinishIsPlayed, MarkedIsPlayed, NotedIsLate, NotedLate, Shown, Plays, Waiting,
              InFlight, MarkedState
<1>2. CASE \/ StorageSteps \/ UNCHANGED vars
           \/ \E p \in Instances \ {"me"}, i \in Identities : OtherSaves(p, i) \/ OtherRemoves(p, i)
  BY <1>1, <1>2, Zenon DEF StorageSteps, OtherSaves, OtherRemoves, vars
<1>3. CASE Crashes
  BY <1>1, <1>3, RestartIsSafe, Zenon DEF Crashes
<1> QED BY <1>2, <1>3, BrowserKeepsCommands, BrowserKeepsAnswers, BrowserKeepsChoices,
           BrowserKeepsLoads, BrowserKeepsBlocks, Zenon DEF Next

-----------------------------------------------------------------------------
(* Every behaviour. *)

LEMMA InitIInv == Init => IInv
<1> SUFFICES ASSUME Init PROVE IInv
  OBVIOUS
<1>1. StorageInit /\ browser = FreshInstance.browser /\ main = Idle /\ audio = NoBlock
      /\ stands = FreshInstance.stands /\ pending = FALSE
  BY DEF Init
<1>2. FilesAreSound
  <2>1. DOMAIN files = Identities /\ disk = files
    BY <1>1 DEF StorageInit
  <2>2. ASSUME NEW i \in Identities PROVE Sound(i, files[i])
    <3>1. files[i] \in {Missing} \cup {File(b, TRUE) : b \in UNION {Imports[j] : j \in Identities}}
      BY <1>1 DEF StorageInit
    <3>2. files[i].flushed
      BY <3>1 DEF Missing, File
    <3>3. files[i].exists => files[i].bytes \in Imports[i]
      BY <1>1 DEF StorageInit, Exists
    <3> QED BY <3>2, <3>3 DEF Sound
  <2> QED BY <2>1, <2>2 DEF FilesAreSound
<1>3. CallsAreSound
  <2>1. calls = [p \in Instances |-> NoCall]
    BY <1>1 DEF StorageInit
  <2>2. DOMAIN NoCall = CallFields /\ NoCall.pc = "idle"
    BY DEF NoCall, CallFields
  <2> QED BY <2>1, <2>2 DEF CallsAreSound
<1>4. PromisesAreKept /\ losses \in Nat
  BY <1>1 DEF StorageInit, PromisesAreKept, Nothing
<1>5. /\ DOMAIN browser = {"refreshed", "listed", "current", "dirty"}
      /\ browser.current.kind = "None" /\ DOMAIN stands = {"state", "misses", "late", "strayed"}
  BY <1>1 DEF FreshInstance, Nobody
<1>6. DOMAIN main = {"pc", "entry", "state"} /\ main.pc = "idle"
      /\ DOMAIN audio = {"busy", "state", "superseded"}
  BY <1>1 DEF Idle, NoBlock
<1>7. BrowserIInv
  BY <1>5, <1>6 DEF BrowserIInv, Shapes, CurrentIsEntry, ShownIsPlayed, FinishIsPlayed,
                    MarkedIsPlayed, NotedIsLate, Marking, Shown
<1> QED BY <1>2, <1>3, <1>4, <1>7 DEF IInv, StorageIInv

LEMMA NextIInv == IInv /\ [Next]_vars => IInv'
  BY StorageMoves, StorageIsKept, BrowserIsKept DEF IInv

LEMMA Invariance == Spec => []IInv
  BY InitIInv, NextIInv, PTL DEF Spec

(***************************************************************************)
(* Whatever stops when -- this process, another, or the machine between    *)
(* any two calls of the file system -- every preset that was saved loads:  *)
(* a file under the name of a preset is one that was copied there, or      *)
(* parses as a document of this plug-in.                                   *)
(***************************************************************************)
THEOREM SavedPresetsAreWhole == Spec => []SavedIsWhole
<1>1. IInv => SavedIsWhole
  BY DEF IInv, StorageIInv, FilesAreSound, Sound, SavedIsWhole, Loads, Exists
<1> QED BY <1>1, Invariance, PTL

(***************************************************************************)
(* A save that was reported as successful after the directory was flushed  *)
(* is still there, byte for byte, after any number of losses of power,     *)
(* until somebody saves or removes the preset.                             *)
(***************************************************************************)
THEOREM SavedPresetsAreDurable == Spec => []SavedIsDurable
<1>1. IInv => SavedIsDurable
  BY DEF IInv, StorageIInv, PromisesAreKept, SavedIsDurable, Exists
<1> QED BY <1>1, Invariance, PTL

(***************************************************************************)
(* The current preset of the browser is one of its entries, whatever other *)
(* processes removed, and whichever load, save or refresh failed.          *)
(***************************************************************************)
THEOREM CurrentPresetIsListed == Spec => []CurrentIsEntry
<1>1. IInv => CurrentIsEntry
  BY DEF IInv, BrowserIInv
<1> QED BY <1>1, Invariance, PTL

(***************************************************************************)
(* A preset shown as not edited is what the plug-in plays once nothing is  *)
(* under way: an accepted edit reaches the dirty mark through the flag,    *)
(* and no load, save, answer or crash forgets one but those that are named *)
(* in Truthful.                                                            *)
(***************************************************************************)
THEOREM BrowserIsTruthful == Spec => []Truthful
<1>1. IInv => Truthful
  BY DEF IInv, BrowserIInv, ShownIsPlayed, Shown, Plays, Truthful, Quiet
<1> QED BY <1>1, Invariance, PTL

(***************************************************************************)
(* However the saves of several instances interleave, a preset that is     *)
(* there is replaced by other bytes only by a save that was asked to       *)
(* overwrite: linkat() finds the file that appeared after the check.       *)
(***************************************************************************)
THEOREM NothingIsClobbered == Spec => NoClobber
<1> DEFINE Asked(i) == \E p \in Instances :
                         calls[p].pc = "commit" /\ calls[p].overwrite /\ calls[p].identity = i
           Kept == \A i \in Identities :
                     Exists(i) /\ Exists(i)' /\ files[i] # files'[i] /\ losses' = losses => Asked(i)
<1>1. ASSUME IInv, [Next]_vars PROVE [Kept]_storageVars
  <2>0. DOMAIN files = Identities /\ losses \in Nat
    BY <1>1 DEF IInv, StorageIInv, FilesAreSound
  <2>1. CASE UNCHANGED files
    BY <2>1
  <2>2. CASE LosePower
    <3>1. losses' = losses + 1
      BY <2>2, Zenon DEF LosePower
    <3>2. losses' # losses
      BY <2>0, <3>1
    <3> QED BY <3>2
  <2>3. ASSUME NEW p \in Instances, CommitTemporary(p) PROVE Kept
    <3>1. files' = [files EXCEPT ![calls[p].identity] = calls[p].file]
          /\ calls[p].pc = "commit" /\ (calls[p].overwrite \/ ~Exists(calls[p].identity))
      BY <2>3 DEF CommitTemporary, MayCommit
    <3>2. \A i \in Identities : i # calls[p].identity => files'[i] = files[i]
      BY <2>0, <3>1
    <3> QED BY <3>1, <3>2
  <2>4. ASSUME NEW p \in Instances, NEW i, RemoveFile(p, i) PROVE Kept
    <3>1. files' = [files EXCEPT ![i] = Missing]
      BY <2>4 DEF RemoveFile
    <3>2. \A j \in Identities : j # i => files'[j] = files[j]
      BY <2>0, <3>1
    <3>3. i \in Identities => ~Exists(i)'
      BY <2>0, <3>1 DEF Exists, Missing
    <3> QED BY <3>2, <3>3
  <2>5. \/ UNCHANGED files \/ LosePower
        \/ \E p \in Instances : CommitTemporary(p) \/ \E i : RemoveFile(p, i)
    BY <1>1, StorageMoves
    DEF StorageMove, storageVars, Crash, StorageStep, SaveFails, SyncDirectory, SyncFails,
        RemoveFails, BeginSave
  <2> QED BY <2>1, <2>2, <2>3, <2>4, <2>5
<1>2. Spec => [][Kept]_storageVars
  BY <1>1, Invariance, PTL DEF Spec
<1> QED BY <1>2, Zenon DEF NoClobber

-----------------------------------------------------------------------------
(* The directory is a folder: what this needs of the instance that saves.    *)

StatesAreSound ==
  /\ state \in States /\ audio.state \in States
  /\ DOMAIN queued \subseteq Parameters /\ \A p \in DOMAIN queued : queued[p] \in Values

\* Whatever the main thread asks the storage for has the name of a file.
NamesAreSound ==
  /\ browser.listed \subseteq Identities
  /\ page.current.kind = "User" => page.current.identity \in Identities
  /\ main.pc \in {"save", "replace", "delete"} => main.entry.identity \in Identities

FilesAreShaped ==
  \A i \in Identities : /\ files[i] = Missing \/ files[i].exists = TRUE
                        /\ disk[i] = Missing \/ disk[i].exists = TRUE

\* What a save puts in place is a state that was captured.
SavesAreCaptured ==
  \A p \in Instances : calls[p].pc = "commit" =>
    /\ calls[p].identity \in Identities /\ calls[p].overwrite \in BOOLEAN
    /\ \E s \in States : calls[p].file = Written(Captured(Plugin, s))

CallsAreKnown ==
  \A p \in Instances : calls[p].pc \in {"idle", "commit", "sync saved", "sync removed"}

FolderIInv ==
  IInv /\ StatesAreSound /\ NamesAreSound /\ FilesAreShaped /\ SavesAreCaptured /\ CallsAreKnown

LEMMA DefaultIsState == Default \in States
<1>1. MaxValue \in Nat
  BY CodecAssumption
<1>2. 0 \in 0 .. MaxValue
  BY <1>1
<1> QED BY <1>2 DEF Default, States, Values

\* Edits on top of a state are a state, edits on top of edits are edits.
LEMMA EditedState ==
  ASSUME NEW s \in States, NEW q, DOMAIN q \subseteq Parameters, \A p \in DOMAIN q : q[p] \in Values
  PROVE  Edited(s, q) \in States
<1>1. DOMAIN s \cup DOMAIN q = Parameters /\ \A p \in Parameters : s[p] \in Values
  BY DEF States
<1> QED BY <1>1 DEF States, Edited

LEMMA EditedQueue ==
  ASSUME NEW q, DOMAIN q \subseteq Parameters, \A p \in DOMAIN q : q[p] \in Values,
         NEW p \in Parameters, NEW v \in Values, NEW r, r = Edited(q, Edit(p, v))
  PROVE  DOMAIN r \subseteq Parameters /\ \A o \in DOMAIN r : r[o] \in Values
<1>1. DOMAIN r = DOMAIN q \cup {p} /\ \A o \in DOMAIN r : r[o] = IF o = p THEN v ELSE q[o]
  BY DEF Edited, Edit
<1> QED BY <1>1

LEMMA EditIsEdit ==
  ASSUME NEW p \in Parameters, NEW v \in Values
  PROVE  DOMAIN Edit(p, v) \subseteq Parameters /\ \A o \in DOMAIN Edit(p, v) : Edit(p, v)[o] \in Values
BY DEF Edit

LEMMA StatesAreKept ==
  ASSUME Shapes, StatesAreSound, [Next]_vars
  PROVE  StatesAreSound'
<1>i. DOMAIN audio = {"busy", "state", "superseded"}
  BY DEF Shapes
<1>s. /\ state \in States /\ audio.state \in States
      /\ DOMAIN queued \subseteq Parameters /\ \A p \in DOMAIN queued : queued[p] \in Values
  BY DEF StatesAreSound
<1>n. DOMAIN NoEdits = {} /\ NoBlock.state = Default
  BY DEF NoEdits, NoBlock
<1>u. ASSUME UNCHANGED <<state, audio, queued>> PROVE StatesAreSound'
  BY <1>s, <1>u DEF StatesAreSound
<1>c. ASSUME NEW s \in States, Commit(s), UNCHANGED queued PROVE StatesAreSound'
  <2>1. state' = s /\ audio' = [audio EXCEPT !.superseded = audio.busy]
    BY <1>c DEF Commit
  <2>2. audio'.state = audio.state
    BY <2>1, <1>i
  <2> QED BY <1>c, <1>s, <2>1, <2>2 DEF StatesAreSound
<1>1. CASE Receive \/ Sync \/ Snapshot \/ Refresh \/ Select \/ Mark \/ MarkInit \/ SaveAs \/ Saved
           \/ Delete \/ Deleted \/ Finish \/ HostLoaded \/ Restored \/ StorageSteps
           \/ UNCHANGED vars
  <2>1. UNCHANGED <<state, audio, queued>>
    BY <1>1 DEF Receive, Sync, Consume, Snapshot, Refresh, Select, Mark, MarkInit, SaveAs, Saved,
                Delete, Deleted, Finish, HostLoaded, Restored, StorageSteps, MainOnly, vars,
                instanceVars
  <2> QED BY <2>1, <1>u
<1>2. ASSUME NEW p \in Parameters, NEW v \in Values, UiEdit(p, v) PROVE StatesAreSound'
  <2>1. UNCHANGED <<state, audio>> /\ queued' = Edited(queued, Edit(p, v))
    BY <1>2 DEF UiEdit, Consume
  <2>2. DOMAIN queued' \subseteq Parameters /\ \A o \in DOMAIN queued' : queued'[o] \in Values
    BY <2>1, <1>s, EditedQueue
  <2> QED BY <1>s, <2>1, <2>2 DEF StatesAreSound
<1>3. CASE Apply
  <2>1. UNCHANGED queued /\ ((\E s \in States : Commit(s)) \/ UNCHANGED <<state, audio>>)
    BY <1>3 DEF Apply, MainOnly
  <2> QED BY <2>1, <1>c, <1>u
<1>4. CASE ResetInit
  BY <1>4, <1>c, DefaultIsState DEF ResetInit, MainOnly
<1>5. ASSUME NEW entry, HostLoad(entry) PROVE StatesAreSound'
  BY <1>5, <1>c DEF HostLoad
<1>6. ASSUME NEW s \in Projects, StateLoad(s) PROVE StatesAreSound'
  BY <1>6, <1>c, BrowserAssumption DEF StateLoad
<1>7. CASE BlockBegin
  <2>1. PICK drained \in SUBSET DOMAIN queued :
          LET edited == Edited(state, Restrict(queued, drained))
          IN  /\ UNCHANGED state /\ queued' = Restrict(queued, DOMAIN queued \ drained)
              /\ \/ \E p \in Parameters, v \in Values : audio'.state = Edited(edited, Edit(p, v))
                 \/ audio'.state = edited
    BY <1>7 DEF BlockBegin
  <2> DEFINE edits == Restrict(queued, drained)
             kept == Restrict(queued, DOMAIN queued \ drained)
  <2>2. /\ DOMAIN edits \subseteq Parameters /\ \A p \in DOMAIN edits : edits[p] \in Values
        /\ DOMAIN kept \subseteq Parameters /\ \A p \in DOMAIN kept : kept[p] \in Values
    BY <1>s DEF Restrict
  <2> HIDE DEF edits, kept
  <2>3. Edited(state, edits) \in States
    BY <1>s, <2>2, EditedState
  <2>4. audio'.state \in States
    BY <2>1, <2>3, EditedState, EditIsEdit DEF edits
  <2> QED BY <2>1, <2>2, <2>4, <1>s DEF StatesAreSound, kept
<1>8. CASE BlockEnd
  <2>1. state' \in States /\ audio' = NoBlock /\ UNCHANGED queued
    BY <1>8, <1>s DEF BlockEnd
  <2> QED BY <2>1, <1>s, <1>n, DefaultIsState DEF StatesAreSound
<1>9. CASE \E p \in Instances \ {"me"}, i \in Identities : OtherSaves(p, i) \/ OtherRemoves(p, i)
  BY <1>9, <1>u DEF OtherSaves, OtherRemoves, instanceVars
<1>10. CASE Crashes
  <2>1. UNCHANGED instanceVars \/ Restart
    BY <1>10 DEF Crashes
  <2>2. CASE Restart
    <3>1. state' = Default /\ audio' = NoBlock /\ queued' = NoEdits
      BY <2>2 DEF Restart
    <3> QED BY <3>1, <1>n, DefaultIsState DEF StatesAreSound
  <2> QED BY <2>1, <2>2, <1>u DEF instanceVars
<1> QED BY <1>1, <1>2, <1>3, <1>4, <1>5, <1>6, <1>7, <1>8, <1>9, <1>10 DEF Next

\* The list of the browser is one that was read from the directory.
LEMMA ListIsRead ==
  ASSUME Shapes, [Next]_vars
  PROVE  browser'.listed \in {browser.listed, Listed, {}}
<1>b. DOMAIN browser = {"refreshed", "listed", "current", "dirty"}
  BY DEF Shapes
<1>r. DOMAIN Replaced(browser, Listed) = DOMAIN browser /\ Replaced(browser, Listed).listed = Listed
  BY <1>b, ReplacedKeepsEntry
<1>m. ASSUME NEW b, DOMAIN b = DOMAIN browser, NEW entry
      PROVE  Marked(b, entry).listed = b.listed /\ Cleared(b).listed = b.listed
  <2>1. DOMAIN b = {"refreshed", "listed", "current", "dirty"}
    BY <1>b, <1>m
  <2>2. Marked(b, entry).listed = b.listed /\ Marked(b, Nobody).listed = b.listed
    BY <2>1, MarkedIsCurrent
  <2> QED BY <2>2 DEF Cleared
<1>1. CASE Receive \/ Sync \/ \E p \in Parameters, v \in Values : UiEdit(p, v)
  <2>1. browser' = [browser EXCEPT !.dirty = browser.dirty \/ pending]
    BY <1>1 DEF Receive, Sync, UiEdit, Consume, Consumed
  <2> QED BY <2>1, <1>b
<1>2. CASE \/ Snapshot \/ Select \/ Apply \/ ResetInit \/ SaveAs \/ Delete \/ Finish
           \/ (\E entry \in Locations : HostLoad(entry)) \/ (\E s \in Projects : StateLoad(s))
           \/ BlockBegin \/ BlockEnd \/ StorageSteps \/ UNCHANGED vars
           \/ \E p \in Instances \ {"me"}, i \in Identities : OtherSaves(p, i) \/ OtherRemoves(p, i)
  <2>1. UNCHANGED browser
    BY <1>2 DEF Snapshot, Select, Apply, ResetInit, SaveAs, Delete, Finish, HostLoad, StateLoad,
                BlockBegin, BlockEnd, StorageSteps, vars, OtherSaves, OtherRemoves, instanceVars
  <2> QED BY <2>1
<1>3. CASE Refresh \/ Deleted
  BY <1>3, <1>r DEF Refresh, Deleted, Relist
<1>4. CASE Mark
  BY <1>4, <1>m DEF Mark
<1>5. CASE MarkInit
  BY <1>5, <1>m DEF MarkInit
<1>6. CASE Saved
  <2>1. \/ UNCHANGED browser \/ browser' = Replaced(browser, Listed)
        \/ browser' = Marked(Replaced(browser, Listed), main.entry)
    BY <1>6 DEF Saved
  <2> QED BY <2>1, <1>r, <1>m
<1>7. CASE HostLoaded
  <2>1. \/ browser' = Marked(Replaced(browser, Listed), main.entry)
        \/ browser' = Cleared(Replaced(browser, Listed)) \/ browser' = Cleared(browser)
    BY <1>7 DEF HostLoaded
  <2> QED BY <2>1, <1>r, <1>m
<1>8. CASE Restored
  BY <1>8, <1>m DEF Restored
<1>9. CASE Crashes
  <2>1. UNCHANGED browser \/ browser' = FreshInstance.browser
    BY <1>9 DEF Crashes, Restart, instanceVars
  <2>2. FreshInstance.browser.listed = {}
    BY DEF FreshInstance
  <2> QED BY <2>1, <2>2
<1> QED BY <1>1, <1>2, <1>3, <1>4, <1>5, <1>6, <1>7, <1>8, <1>9 DEF Next

\* The page is what it was, or was sent what the browser is now, or is not open.
LEMMA PageIsSent ==
  ASSUME [Next]_vars
  PROVE  \/ page' = page
         \/ page'.current = browser'.current
         \/ page' = FreshInstance.page
<1>r. ASSUME Reply \/ Stops PROVE page' = page \/ page'.current = browser'.current
  BY <1>r DEF Reply, Stops
<1>1. CASE \/ Receive \/ Sync \/ (\E p \in Parameters, v \in Values : UiEdit(p, v))
           \/ Select \/ Apply \/ ResetInit \/ SaveAs \/ Delete \/ Finish
           \/ (\E entry \in Locations : HostLoad(entry)) \/ (\E s \in Projects : StateLoad(s))
           \/ HostLoaded \/ Restored
           \/ BlockBegin \/ BlockEnd \/ StorageSteps \/ UNCHANGED vars
           \/ \E p \in Instances \ {"me"}, i \in Identities : OtherSaves(p, i) \/ OtherRemoves(p, i)
  <2>1. UNCHANGED page
    BY <1>1 DEF Receive, Sync, UiEdit, Consume, Select, Apply, ResetInit, SaveAs, Delete, Awaits,
                Finish, HostLoad, StateLoad, HostLoaded, Restored, BlockBegin, BlockEnd,
                StorageSteps, vars, OtherSaves, OtherRemoves, instanceVars
  <2> QED BY <2>1
<1>2. CASE Snapshot \/ Refresh \/ Mark \/ MarkInit \/ Saved \/ Deleted
  <2>1. Reply \/ Stops
    BY <1>2 DEF Snapshot, Refresh, Mark, MarkInit, Saved, Deleted, Relist
  <2> QED BY <2>1, <1>r
<1>3. CASE Crashes
  BY <1>3 DEF Crashes, Restart, instanceVars
<1> QED BY <1>1, <1>2, <1>3 DEF Next

\* A preset is saved or removed by a command of the page.
LEMMA SavesAreAsked ==
  ASSUME Shapes, [Next]_vars, main'.pc \in {"save", "replace", "delete"}
  PROVE  main' = main \/ main' \in Commands
<1>r. ASSUME Reply \/ Stops PROVE FALSE
  BY <1>r, RepliesFinish
<1>i. /\ Idle.pc = "idle" /\ DOMAIN Idle = {"pc", "entry", "state"}
  BY DEF Idle
<1>1. CASE \/ Receive \/ Sync \/ (\E p \in Parameters, v \in Values : UiEdit(p, v))
  BY <1>1 DEF Receive, Sync, UiEdit
<1>2. CASE Snapshot \/ Refresh \/ Mark \/ MarkInit \/ Saved \/ Deleted
  <2>1. Reply \/ Stops
    BY <1>2 DEF Snapshot, Refresh, Mark, MarkInit, Saved, Deleted, Relist
  <2> QED BY <2>1, <1>r
<1>3. CASE Select
  <2>1. main'.pc \in {"apply", "idle"}
    BY <1>3, <1>i DEF Select, Resolve
  <2> QED BY <2>1
<1>4. CASE Apply
  <2>1. main' = Idle \/ \E s : main' = [main EXCEPT !.pc = "mark", !.state = s]
    BY <1>4 DEF Apply
  <2>2. ASSUME NEW s, main' = [main EXCEPT !.pc = "mark", !.state = s]
        PROVE  main'.pc = "mark"
    BY <2>2 DEF Shapes
  <2> QED BY <2>1, <2>2, <1>i
<1>5. CASE ResetInit \/ Delete \/ \E s \in Projects : StateLoad(s)
  <2>1. \E pc \in {"mark init", "deleting", "restore"} : main'.pc = pc
    BY <1>5, <1>i DEF ResetInit, Delete, Awaits, StateLoad
  <2> QED BY <2>1
<1>6. CASE SaveAs
  <2>1. main' = [main EXCEPT !.pc = "saving", !.state = state]
    BY <1>6 DEF SaveAs
  <2>2. main'.pc = "saving"
    BY <2>1 DEF Shapes
  <2> QED BY <2>2
<1>7. CASE Finish \/ HostLoaded \/ Restored \/ \E entry \in Locations : HostLoad(entry)
  <2>1. main'.pc \in {"idle", "host"}
    BY <1>7, <1>i DEF Finish, HostLoaded, Restored, HostLoad
  <2> QED BY <2>1
<1>8. CASE \/ BlockBegin \/ BlockEnd \/ StorageSteps \/ UNCHANGED vars
           \/ \E p \in Instances \ {"me"}, i \in Identities : OtherSaves(p, i) \/ OtherRemoves(p, i)
  BY <1>8 DEF BlockBegin, BlockEnd, StorageSteps, vars, OtherSaves, OtherRemoves, instanceVars
<1>9. CASE Crashes
  BY <1>9, <1>i DEF Crashes, Restart, instanceVars
<1> QED BY <1>1, <1>2, <1>3, <1>4, <1>5, <1>6, <1>7, <1>8, <1>9 DEF Next

LEMMA NamesAreKept ==
  ASSUME Shapes, Shapes', CurrentIsEntry', NamesAreSound, [Next]_vars
  PROVE  NamesAreSound'
<1>1. browser'.listed \subseteq Identities
  BY ListIsRead DEF NamesAreSound, Listed
<1>2. browser'.current.kind = "User" => browser'.current.identity \in Identities
  BY <1>1 DEF CurrentIsEntry, Finds
<1>3. FreshInstance.page.current.kind # "User"
  BY DEF FreshInstance, Nobody
<1>4. page'.current.kind = "User" => page'.current.identity \in Identities
  BY <1>2, <1>3, PageIsSent DEF NamesAreSound
<1>5. ASSUME main' \in Commands, main'.pc \in {"save", "replace", "delete"}
      PROVE  main'.entry.identity \in Identities
  <2>1. PICK c \in Commands : c = main'
    BY <1>5
  <2>2. /\ \A pc, entry : Command(pc, entry).pc = pc /\ Command(pc, entry).entry = entry
    BY DEF Command
  <2>3. \/ page.current.kind = "User" /\ c.entry = page.current
        \/ \E i \in Identities : c.entry = User(i)
    BY <1>5, <2>1, <2>2 DEF Commands
  <2>4. \A i : User(i).identity = i
    BY DEF User
  <2> QED BY <2>1, <2>3, <2>4 DEF NamesAreSound
<1> QED BY <1>1, <1>4, <1>5, SavesAreAsked DEF NamesAreSound

-----------------------------------------------------------------------------
(* Steps of the folder. *)

\* What a process asks the storage for, in this program.
FolderMove ==
  \/ UNCHANGED storageVars
  \/ LosePower
  \/ \E p \in Instances :
       \/ Crash(p) \/ StorageStep(p) \/ RemoveFails(p)
       \/ \E i \in Identities : RemoveFile(p, i)
       \/ \E i \in Identities, s \in States, overwrite \in BOOLEAN :
            BeginSave(p, i, Captured(Plugin, s), overwrite)

LEMMA FolderMoves ==
  ASSUME FolderIInv, [Next]_vars
  PROVE  FolderMove
<1> USE BrowserAssumption DEF FolderMove
<1>i. state \in States /\ (main.pc \in {"save", "replace", "delete"} => main.entry.identity \in Identities)
  BY DEF FolderIInv, StatesAreSound, NamesAreSound
<1>e. \A i \in Identities : Exists(i) \in BOOLEAN
  <2>1. \A i \in Identities : files[i].exists = FALSE \/ files[i].exists = TRUE
    BY DEF FolderIInv, FilesAreShaped, Missing
  <2> QED BY <2>1, Zenon DEF Exists
<1>1. CASE Receive \/ Sync \/ \E p \in Parameters, v \in Values : UiEdit(p, v)
  BY <1>1 DEF Receive, Sync, UiEdit, Consume
<1>2. CASE Snapshot \/ Refresh \/ Select \/ Apply \/ Mark \/ ResetInit \/ MarkInit \/ Saved
           \/ Deleted \/ Finish
  BY <1>2 DEF Snapshot, Refresh, Select, Apply, Mark, ResetInit, MarkInit, Saved, Deleted, Finish
<1>3. CASE SaveAs
  BY <1>3, <1>i DEF SaveAs
<1>4. CASE Delete
  BY <1>4, <1>i DEF Delete
<1>5. CASE \/ \E entry \in Locations : HostLoad(entry)
           \/ \E s \in Projects : StateLoad(s)
           \/ HostLoaded \/ Restored \/ BlockBegin \/ BlockEnd
  BY <1>5 DEF HostLoad, StateLoad, HostLoaded, Restored, BlockBegin, BlockEnd
<1>6. CASE \E p \in Instances \ {"me"}, i \in Identities : OtherSaves(p, i) \/ OtherRemoves(p, i)
  BY <1>6, <1>e, DefaultIsState DEF OtherSaves, OtherRemoves
<1>7. CASE StorageSteps
  BY <1>7 DEF StorageSteps
<1>8. CASE Crashes
  BY <1>8 DEF Crashes
<1>9. CASE UNCHANGED vars
  BY <1>9 DEF vars
<1> QED BY <1>1, <1>2, <1>3, <1>4, <1>5, <1>6, <1>7, <1>8, <1>9 DEF Next

\* What a loss of power leaves of each file is what was shown or what was on disk.
LEMMA LossLeavesFiles ==
  ASSUME FilesAreSound, LosePower
  PROVE  /\ DOMAIN files' = Identities /\ disk' = files'
         /\ \A i \in Identities : files'[i] \in {files[i], disk[i]}
         /\ calls' = [p \in Instances |-> NoCall]
<1>1. ASSUME NEW i \in Identities PROVE files'[i] \in {files[i], disk[i]}
  BY DEF LosePower, Sound, FilesAreSound
<1> QED BY <1>1 DEF LosePower

LEMMA FolderIsKept ==
  ASSUME FolderIInv, [Next]_vars
  PROVE  FolderIInv'
<1>0. IInv /\ IInv'
  BY NextIInv DEF FolderIInv
<1>1. StatesAreSound'
  BY <1>0, StatesAreKept DEF FolderIInv, IInv, BrowserIInv
<1>2. NamesAreSound'
  BY <1>0, NamesAreKept DEF FolderIInv, IInv, BrowserIInv
<1>s. FilesAreShaped /\ SavesAreCaptured /\ CallsAreKnown /\ DOMAIN files = Identities
      /\ DOMAIN calls = Instances /\ FilesAreSound
  BY <1>0 DEF FolderIInv, IInv, StorageIInv, FilesAreSound, CallsAreSound
<1>c. ASSUME NEW p \in Instances, NEW c, calls' = [calls EXCEPT ![p] = c],
             c.pc \in {"idle", "sync saved", "sync removed"}
      PROVE  SavesAreCaptured' /\ CallsAreKnown'
  <2>1. calls'[p] = c /\ \A o \in Instances \ {p} : calls'[o] = calls[o]
    BY <1>c, <1>s
  <2>2. SavesAreCaptured'
    <3>1. ASSUME NEW o \in Instances, calls'[o].pc = "commit" PROVE calls'[o] = calls[o]
      BY <2>1, <1>c, <3>1
    <3> QED BY <3>1, <1>s DEF SavesAreCaptured
  <2>3. CallsAreKnown'
    BY <2>1, <1>s, <1>c DEF CallsAreKnown
  <2> QED BY <2>2, <2>3
<1>n. NoCall.pc = "idle" /\ \A result : Finished(result).pc = "idle"
  BY DEF NoCall, Finished
<1>3. FilesAreShaped' /\ SavesAreCaptured' /\ CallsAreKnown'
  <2>1. CASE UNCHANGED storageVars
    BY <2>1, <1>s DEF storageVars, FilesAreShaped, SavesAreCaptured, CallsAreKnown
  <2>2. CASE LosePower
    <3>1. FilesAreShaped'
      BY <2>2, <1>s, LossLeavesFiles DEF FilesAreShaped
    <3>2. \A p \in Instances : calls'[p].pc = "idle"
      BY <2>2, <1>s, <1>n, LossLeavesFiles
    <3> QED BY <3>1, <3>2 DEF SavesAreCaptured, CallsAreKnown
  <2>3. ASSUME NEW p \in Instances, Crash(p) \/ SaveFails(p) \/ RemoveFails(p) \/ SyncFails(p)
        PROVE  FilesAreShaped' /\ SavesAreCaptured' /\ CallsAreKnown'
    <3>1. /\ UNCHANGED <<files, disk>>
          /\ \E c \in {NoCall, Finished("failed"), Finished("ok")} : calls' = [calls EXCEPT ![p] = c]
      BY <2>3 DEF Crash, SaveFails, RemoveFails, SyncFails
    <3> QED BY <3>1, <1>s, <1>c, <1>n DEF FilesAreShaped
  <2>4. ASSUME NEW p \in Instances, CommitTemporary(p)
        PROVE  FilesAreShaped' /\ SavesAreCaptured' /\ CallsAreKnown'
    <3> DEFINE c == [calls[p] EXCEPT !.pc = "sync saved"]
    <3>1. /\ calls[p].pc = "commit" /\ files' = [files EXCEPT ![calls[p].identity] = calls[p].file]
          /\ calls' = [calls EXCEPT ![p] = c] /\ UNCHANGED disk
      BY <2>4 DEF CommitTemporary, Goes
    <3>2. c.pc = "sync saved" /\ calls[p].file.exists = TRUE
      <4>1. DOMAIN calls[p] = CallFields
        BY <1>0 DEF IInv, StorageIInv, CallsAreSound
      <4>2. PICK s \in States : calls[p].file = Written(Captured(Plugin, s))
        BY <3>1, <1>s DEF SavesAreCaptured
      <4> QED BY <4>1, <4>2 DEF CallFields, Written, File
    <3>3. FilesAreShaped'
      BY <3>1, <3>2, <1>s DEF FilesAreShaped
    <3> HIDE DEF c
    <3> QED BY <3>1, <3>2, <3>3, <1>c
  <2>5. ASSUME NEW p \in Instances, SyncDirectory(p)
        PROVE  FilesAreShaped' /\ SavesAreCaptured' /\ CallsAreKnown'
    <3>1. UNCHANGED files /\ disk' = files /\ calls' = [calls EXCEPT ![p] = Finished("ok")]
      BY <2>5 DEF SyncDirectory
    <3> QED BY <3>1, <1>s, <1>c, <1>n DEF FilesAreShaped
  <2>6. ASSUME NEW p \in Instances, NEW i \in Identities, RemoveFile(p, i)
        PROVE  FilesAreShaped' /\ SavesAreCaptured' /\ CallsAreKnown'
    <3> DEFINE c == [NoCall EXCEPT !.pc = "sync removed", !.identity = i]
    <3>1. files' = [files EXCEPT ![i] = Missing] /\ UNCHANGED disk /\ calls' = [calls EXCEPT ![p] = c]
      BY <2>6 DEF RemoveFile
    <3>2. c.pc = "sync removed"
      BY DEF NoCall
    <3>3. FilesAreShaped'
      BY <3>1, <1>s DEF FilesAreShaped
    <3> HIDE DEF c
    <3> QED BY <3>1, <3>2, <3>3, <1>c
  <2>7. ASSUME NEW p \in Instances, NEW i \in Identities, NEW s \in States,
               NEW overwrite \in BOOLEAN, BeginSave(p, i, Captured(Plugin, s), overwrite)
        PROVE  FilesAreShaped' /\ SavesAreCaptured' /\ CallsAreKnown'
    <3> DEFINE c == [pc |-> "commit", identity |-> i, file |-> Written(Captured(Plugin, s)),
                     overwrite |-> overwrite, result |-> "none"]
    <3>1. /\ UNCHANGED <<files, disk>>
          /\ calls' = [calls EXCEPT ![p] = c] \/ calls' = [calls EXCEPT ![p] = Finished("failed")]
      BY <2>7 DEF BeginSave
    <3>2. FilesAreShaped'
      BY <3>1, <1>s DEF FilesAreShaped
    <3>3. c.pc = "commit" /\ c.identity = i /\ c.overwrite = overwrite
          /\ c.file = Written(Captured(Plugin, s))
      OBVIOUS
    <3> HIDE DEF c
    <3>4. CASE calls' = [calls EXCEPT ![p] = c]
      <4>1. calls'[p] = c /\ \A o \in Instances \ {p} : calls'[o] = calls[o]
        BY <3>4, <1>s
      <4>2. SavesAreCaptured'
        BY <4>1, <3>3, <1>s DEF SavesAreCaptured
      <4>3. CallsAreKnown'
        BY <4>1, <3>3, <1>s DEF CallsAreKnown
      <4> QED BY <3>2, <4>2, <4>3
    <3> QED BY <3>1, <3>2, <3>4, <1>c, <1>n
  <2> QED BY <2>1, <2>2, <2>3, <2>4, <2>5, <2>6, <2>7, FolderMoves, Zenon DEF FolderMove, StorageStep
<1> QED BY <1>0, <1>1, <1>2, <1>3 DEF FolderIInv

LEMMA InitFolderIInv == Init => FolderIInv
<1> SUFFICES ASSUME Init PROVE FolderIInv
  OBVIOUS
<1>1. IInv
  BY InitIInv
<1>2. StatesAreSound
  <2>1. state = Default /\ audio = NoBlock /\ queued = NoEdits
    BY DEF Init
  <2> QED BY <2>1, DefaultIsState DEF StatesAreSound, NoBlock, NoEdits
<1>3. NamesAreSound
  <2>1. browser.listed = {} /\ page.current.kind = "None" /\ main.pc = "idle"
    BY DEF Init, FreshInstance, Nobody, Idle
  <2> QED BY <2>1 DEF NamesAreSound
<1>4. FilesAreShaped
  <2>1. ASSUME NEW i \in Identities PROVE files[i] = Missing \/ files[i].exists = TRUE
    <3>1. files[i] \in {Missing} \cup {File(b, TRUE) : b \in UNION {Imports[j] : j \in Identities}}
      BY DEF Init, StorageInit
    <3> QED BY <3>1 DEF File
  <2> QED BY <2>1 DEF Init, StorageInit, FilesAreShaped
<1>5. SavesAreCaptured /\ CallsAreKnown
  <2>1. \A p \in Instances : calls[p].pc = "idle"
    BY DEF Init, StorageInit, NoCall
  <2> QED BY <2>1 DEF SavesAreCaptured, CallsAreKnown
<1> QED BY <1>1, <1>2, <1>3, <1>4, <1>5 DEF FolderIInv

LEMMA FolderInvariance == Spec => []FolderIInv
  BY InitFolderIInv, FolderIsKept, PTL DEF Spec

-----------------------------------------------------------------------------
(* The steps of the storage are those of a folder. *)

\* One call changes, and so does one request.
LEMMA OneRequest ==
  ASSUME DOMAIN calls = Instances, NEW p \in Instances, NEW c, calls' = [calls EXCEPT ![p] = c]
  PROVE  Requests' = [Requests EXCEPT ![p] = Request(c)]
<1>1. calls'[p] = c /\ \A o \in Instances \ {p} : calls'[o] = calls[o]
  OBVIOUS
<1>2. \A o \in Instances : Request(calls'[o]) = IF o = p THEN Request(c) ELSE Request(calls[o])
  BY <1>1
<1>3. Requests' = [o \in Instances |-> Request(calls'[o])]
  BY DEF Requests
<1>4. Requests = [o \in Instances |-> Request(calls[o])]
  BY DEF Requests
<1> HIDE DEF Request
<1> QED BY <1>2, <1>3, <1>4

\* One file changes, and so does what is shown under one name.
LEMMA OneFile ==
  ASSUME DOMAIN files = Identities, NEW i \in Identities, NEW f, files' = [files EXCEPT ![i] = f]
  PROVE  InFolder(files)' = [InFolder(files) EXCEPT ![i] = [exists |-> f.exists, bytes |-> f.bytes]]
<1>1. files'[i] = f /\ \A o \in Identities \ {i} : files'[o] = files[o]
  OBVIOUS
<1> QED BY <1>1 DEF InFolder

LEMMA RequestOf ==
  ASSUME NEW call
  PROVE  /\ call.pc = "idle" => Request(call) = Folder!Answered(call.result)
         /\ call.pc = "commit" =>
              Request(call) = Folder!Saving(call.identity, Contents(call.file.bytes), call.overwrite)
         /\ call.pc \in {"sync saved", "sync removed"} => Request(call) = Folder!Done
  BY DEF Request, Folder!Answered, Folder!Saving, Folder!Done

LEMMA PhaseOf ==
  ASSUME NEW p \in Instances
  PROVE  /\ Requests[p] = Request(calls[p])
         /\ calls[p].pc = "idle" => Requests[p].phase = "idle"
         /\ calls[p].pc = "commit" =>
              /\ Requests[p].phase = "saving" /\ Requests[p].name = calls[p].identity
              /\ Requests[p].preset = Contents(calls[p].file.bytes)
              /\ Requests[p].replace = calls[p].overwrite
         /\ calls[p].pc \in {"sync saved", "sync removed"} => Requests[p].phase = "done"
<1>1. Requests[p] = Request(calls[p])
  BY DEF Requests
<1>2. CASE calls[p].pc = "idle"
  <2>1. Requests[p] = Folder!Answered(calls[p].result)
    BY <1>1, <1>2, RequestOf
  <2> QED BY <1>1, <1>2, <2>1 DEF Folder!Answered
<1>3. CASE calls[p].pc = "commit"
  <2>1. Requests[p] =
          Folder!Saving(calls[p].identity, Contents(calls[p].file.bytes), calls[p].overwrite)
    BY <1>1, <1>3, RequestOf
  <2> QED BY <1>1, <1>3, <2>1 DEF Folder!Saving
<1>4. CASE calls[p].pc \in {"sync saved", "sync removed"}
  <2>1. Requests[p] = Folder!Done
    BY <1>1, <1>4, RequestOf
  <2>2. Requests[p].phase = "done"
    BY <2>1 DEF Folder!Done
  <2> QED BY <1>1, <1>4, <2>2
<1> QED BY <1>1, <1>2, <1>3, <1>4

LEMMA AnswerOf ==
  /\ Request(NoCall) = Folder!Answered("none")
  /\ \A result : Request(Finished(result)) = Folder!Answered(result)
<1>1. NoCall.pc = "idle" /\ NoCall.result = "none"
  BY DEF NoCall
<1>2. ASSUME NEW result PROVE Finished(result).pc = "idle" /\ Finished(result).result = result
  BY DEF Finished, NoCall
<1> QED BY <1>1, <1>2, RequestOf

LEMMA InitIsFolder == Init => Folder!Init
<1> SUFFICES ASSUME Init PROVE Folder!Init
  OBVIOUS
<1>1. /\ disk = files /\ calls = [p \in Instances |-> NoCall]
      /\ \A i \in Identities : Exists(i) => files[i].bytes \in Imports[i]
  BY DEF Init, StorageInit
<1>2. FilesAreShaped
  BY InitFolderIInv DEF FolderIInv
<1>3. ASSUME NEW i \in Identities PROVE InFolder(files)[i] \in {NoContents} \cup Copies[i]
  <2>1. InFolder(files)[i] = [exists |-> files[i].exists, bytes |-> files[i].bytes]
    BY DEF InFolder
  <2>2. CASE files[i] = Missing
    BY <2>1, <2>2 DEF Missing, NoContents
  <2>3. CASE files[i].exists = TRUE
    <3>1. files[i].bytes \in Imports[i]
      BY <1>1, <2>3 DEF Exists
    <3>2. InFolder(files)[i] = Contents(files[i].bytes)
      BY <2>1, <2>3 DEF Contents
    <3> QED BY <3>1, <3>2 DEF Copies
  <2> QED BY <1>2, <2>2, <2>3 DEF FilesAreShaped
<1>4. InFolder(files) = [i \in Identities |-> InFolder(files)[i]]
  BY DEF InFolder
<1>5. InFolder(files) \in [Identities -> {NoContents} \cup UNION {Copies[i] : i \in Identities}]
  BY <1>3, <1>4
<1>6. Requests = [p \in Instances |-> Folder!Answered("none")]
  BY <1>1, AnswerOf DEF Requests
<1> QED BY <1>1, <1>3, <1>5, <1>6 DEF Folder!Init

LEMMA CallsOfAFolder ==
  ASSUME FolderIInv, NEW p \in Instances
  PROVE  /\ Crash(p) => Folder!Stop(p)
         /\ SaveFails(p) \/ RemoveFails(p) => Folder!Refuse(p)
         /\ SyncDirectory(p) \/ SyncFails(p) => Folder!Confirm(p)
<1>s. DOMAIN calls = Instances /\ calls[p].pc \in {"idle", "commit", "sync saved", "sync removed"}
  BY DEF FolderIInv, IInv, StorageIInv, CallsAreSound, CallsAreKnown
<1>1. ASSUME Crash(p) PROVE Folder!Stop(p)
  <2>1. calls[p].pc # "idle" /\ calls' = [calls EXCEPT ![p] = NoCall] /\ UNCHANGED <<files, disk>>
    BY <1>1 DEF Crash
  <2>2. Requests' = [Requests EXCEPT ![p] = Folder!Answered("none")]
    BY <2>1, <1>s, OneRequest, AnswerOf
  <2>3. Requests[p].phase \in {"saving", "done"}
    BY <2>1, <1>s, PhaseOf
  <2> QED BY <2>1, <2>2, <2>3 DEF Folder!Stop, Folder!Becomes, InFolder
<1>2. ASSUME SaveFails(p) \/ RemoveFails(p) PROVE Folder!Refuse(p)
  <2>1. calls[p].pc \in {"idle", "commit"} /\ calls' = [calls EXCEPT ![p] = Finished("failed")]
        /\ UNCHANGED <<files, disk>>
    BY <1>2 DEF SaveFails, RemoveFails
  <2>2. Requests' = [Requests EXCEPT ![p] = Folder!Answered("failed")]
    BY <2>1, <1>s, OneRequest, AnswerOf
  <2>3. Requests[p].phase \in {"idle", "saving"}
    BY <2>1, <1>s, PhaseOf
  <2> QED BY <2>1, <2>2, <2>3 DEF Folder!Refuse, Folder!Becomes, InFolder
<1>3. ASSUME SyncDirectory(p) \/ SyncFails(p) PROVE Folder!Confirm(p)
  <2>1. /\ calls[p].pc \in {"sync saved", "sync removed"}
        /\ calls' = [calls EXCEPT ![p] = Finished("ok")]
        /\ UNCHANGED files /\ disk' \in {files, disk}
    BY <1>3 DEF SyncDirectory, SyncFails
  <2>2. Requests' = [Requests EXCEPT ![p] = Folder!Answered("ok")]
    BY <2>1, <1>s, OneRequest, AnswerOf
  <2>3. Requests[p].phase = "done"
    BY <2>1, <1>s, PhaseOf
  <2>4. InFolder(files)' = InFolder(files) /\ InFolder(disk)' \in {InFolder(files), InFolder(disk)}
    BY <2>1 DEF InFolder
  <2> QED BY <2>2, <2>3, <2>4 DEF Folder!Confirm, Folder!Becomes
<1> QED BY <1>1, <1>2, <1>3

LEMMA CommitSaves ==
  ASSUME FolderIInv, NEW p \in Instances, CommitTemporary(p)
  PROVE  Folder!Save(p)
<1> DEFINE i == calls[p].identity
           c == [calls[p] EXCEPT !.pc = "sync saved"]
<1>1. /\ calls[p].pc = "commit" /\ (calls[p].overwrite \/ ~Exists(i))
      /\ files' = [files EXCEPT ![i] = calls[p].file]
      /\ calls' = [calls EXCEPT ![p] = c] /\ UNCHANGED disk
  BY DEF CommitTemporary, MayCommit, Goes
<1>2. /\ DOMAIN calls = Instances /\ DOMAIN files = Identities /\ DOMAIN calls[p] = CallFields
  BY DEF FolderIInv, IInv, StorageIInv, CallsAreSound, FilesAreSound
<1>3. /\ i \in Identities /\ \E s \in States : calls[p].file = Written(Captured(Plugin, s))
  BY <1>1 DEF FolderIInv, SavesAreCaptured
<1>4. calls[p].file.exists = TRUE
  BY <1>3 DEF Written, File
<1>5. c.pc = "sync saved"
  BY <1>2 DEF CallFields
<1> HIDE DEF c
<1>6. Requests' = [Requests EXCEPT ![p] = Folder!Done]
  <2>1. Request(c) = Folder!Done
    BY <1>5, RequestOf
  <2>2. Requests' = [Requests EXCEPT ![p] = Request(c)]
    BY <1>1, <1>2, OneRequest
  <2> QED BY <2>1, <2>2
<1>7. InFolder(files)' = [InFolder(files) EXCEPT ![i] = Contents(calls[p].file.bytes)]
  <2>1. InFolder(files)' = [InFolder(files) EXCEPT
          ![i] = [exists |-> calls[p].file.exists, bytes |-> calls[p].file.bytes]]
    BY <1>1, <1>2, <1>3, OneFile
  <2> QED BY <1>4, <2>1 DEF Contents
<1>8. Requests[p].replace \/ InFolder(files)[i] = NoContents
  <2>1. CASE ~Exists(i)
    <3>1. files[i] = Missing
      BY <2>1, <1>3 DEF FolderIInv, FilesAreShaped, Exists
    <3>2. InFolder(files)[i] = [exists |-> files[i].exists, bytes |-> files[i].bytes]
      BY <1>3 DEF InFolder
    <3> QED BY <3>1, <3>2 DEF Missing, NoContents
  <2>2. CASE calls[p].overwrite
    BY <1>1, <2>2, PhaseOf
  <2> QED BY <1>1, <2>1, <2>2
<1> QED BY <1>1, <1>6, <1>7, <1>8, PhaseOf DEF Folder!Save, Folder!Becomes, InFolder

LEMMA RemovalRemoves ==
  ASSUME FolderIInv, NEW p \in Instances, NEW i \in Identities, RemoveFile(p, i)
  PROVE  Folder!Remove(p, i)
<1> DEFINE c == [NoCall EXCEPT !.pc = "sync removed", !.identity = i]
<1>1. /\ calls[p].pc = "idle" /\ Exists(i)
      /\ files' = [files EXCEPT ![i] = Missing]
      /\ calls' = [calls EXCEPT ![p] = c] /\ UNCHANGED disk
  BY DEF RemoveFile
<1>2. /\ DOMAIN calls = Instances /\ DOMAIN files = Identities
  BY DEF FolderIInv, IInv, StorageIInv, CallsAreSound, FilesAreSound
<1>3. c.pc = "sync removed"
  BY DEF NoCall
<1> HIDE DEF c
<1>4. Requests' = [Requests EXCEPT ![p] = Folder!Done]
  <2>1. Request(c) = Folder!Done
    BY <1>3, RequestOf
  <2>2. Requests' = [Requests EXCEPT ![p] = Request(c)]
    BY <1>1, <1>2, OneRequest
  <2> QED BY <2>1, <2>2
<1>5. InFolder(files)' = [InFolder(files) EXCEPT ![i] = NoContents]
  <2>1. NoContents = [exists |-> Missing.exists, bytes |-> Missing.bytes]
    BY DEF Missing, NoContents
  <2>2. InFolder(files)' =
          [InFolder(files) EXCEPT ![i] = [exists |-> Missing.exists, bytes |-> Missing.bytes]]
    BY <1>1, <1>2, OneFile
  <2> QED BY <2>1, <2>2
<1>6. InFolder(files)[i] # NoContents
  <2>1. InFolder(files)[i].exists = files[i].exists /\ NoContents.exists = FALSE
    BY DEF InFolder, NoContents
  <2> QED BY <1>1, <2>1 DEF Exists
<1> QED BY <1>1, <1>4, <1>5, <1>6, PhaseOf DEF Folder!Remove, Folder!Becomes, InFolder

LEMMA SavingAsks ==
  ASSUME FolderIInv, NEW p \in Instances, NEW i \in Identities, NEW s \in States,
         NEW overwrite \in BOOLEAN, BeginSave(p, i, Captured(Plugin, s), overwrite)
  PROVE  \/ Folder!Ask(p, i, Contents(Serialize(Captured(Plugin, s))), overwrite)
         \/ Folder!Refuse(p)
<1> DEFINE c == [pc |-> "commit", identity |-> i, file |-> Written(Captured(Plugin, s)),
                 overwrite |-> overwrite, result |-> "none"]
<1>1. /\ calls[p].pc = "idle" /\ UNCHANGED <<files, disk>>
      /\ calls' = [calls EXCEPT ![p] = c] \/ calls' = [calls EXCEPT ![p] = Finished("failed")]
  BY DEF BeginSave
<1>2. DOMAIN calls = Instances
  BY DEF FolderIInv, IInv, StorageIInv, CallsAreSound
<1>3. /\ c.pc = "commit" /\ c.identity = i /\ c.overwrite = overwrite
      /\ c.file.bytes = Serialize(Captured(Plugin, s))
  BY DEF Written, File
<1> HIDE DEF c
<1>4. CASE calls' = [calls EXCEPT ![p] = c]
  <2>1. Requests' = [Requests EXCEPT
          ![p] = Folder!Saving(i, Contents(Serialize(Captured(Plugin, s))), overwrite)]
    BY <1>2, <1>3, <1>4, OneRequest, RequestOf
  <2> QED BY <1>1, <2>1, PhaseOf DEF Folder!Ask, Folder!Becomes, InFolder
<1>5. CASE calls' = [calls EXCEPT ![p] = Finished("failed")]
  <2>1. Requests' = [Requests EXCEPT ![p] = Folder!Answered("failed")]
    BY <1>2, <1>5, OneRequest, AnswerOf
  <2> QED BY <1>1, <2>1, PhaseOf DEF Folder!Refuse, Folder!Becomes, InFolder
<1> QED BY <1>1, <1>4, <1>5

LEMMA LossUndoes ==
  ASSUME FolderIInv, LosePower
  PROVE  Folder!LosePower
<1>1. /\ DOMAIN files' = Identities /\ disk' = files'
      /\ \A i \in Identities : files'[i] \in {files[i], disk[i]}
      /\ calls' = [p \in Instances |-> NoCall]
  BY LossLeavesFiles DEF FolderIInv, IInv, StorageIInv
<1>2. Requests' = [p \in Instances |-> Folder!Answered("none")]
  BY <1>1, AnswerOf DEF Requests
<1> DEFINE undone == {i \in Identities : files'[i] = disk[i]}
<1>3. InFolder(files)' =
        [i \in Identities |-> IF i \in undone THEN InFolder(disk)[i] ELSE InFolder(files)[i]]
  BY <1>1 DEF InFolder
<1>4. InFolder(disk)' = InFolder(files)'
  BY <1>1 DEF InFolder
<1> QED BY <1>2, <1>3, <1>4 DEF Folder!LosePower

LEMMA StepIsFolder ==
  ASSUME FolderIInv, [Next]_vars
  PROVE  [Folder!Next]_(Folder!vars)
<1>1. CASE UNCHANGED storageVars
  BY <1>1 DEF storageVars, Folder!vars, InFolder, Requests
<1>2. CASE LosePower
  BY <1>2, LossUndoes DEF Folder!Next
<1>3. ASSUME NEW p \in Instances, Crash(p) \/ StorageStep(p) \/ RemoveFails(p)
      PROVE  Folder!Next
  <2>1. Folder!Stop(p) \/ Folder!Refuse(p) \/ Folder!Confirm(p) \/ Folder!Save(p)
    BY <1>3, CallsOfAFolder, CommitSaves DEF StorageStep
  <2> QED BY <2>1 DEF Folder!Next
<1>4. ASSUME NEW p \in Instances, NEW i \in Identities, RemoveFile(p, i)
      PROVE  Folder!Next
  BY <1>4, RemovalRemoves DEF Folder!Next
<1>5. ASSUME NEW p \in Instances, NEW i \in Identities, NEW s \in States,
             NEW overwrite \in BOOLEAN, BeginSave(p, i, Captured(Plugin, s), overwrite)
      PROVE  Folder!Next
  <2>1. Contents(Serialize(Captured(Plugin, s))) \in Captures
    BY DEF Captures
  <2> QED BY <1>5, <2>1, SavingAsks DEF Folder!Next
<1> QED BY <1>1, <1>2, <1>3, <1>4, <1>5, FolderMoves, Zenon DEF FolderMove

(***************************************************************************)
(* Whichever processes save and remove presets at the same time, and       *)
(* wherever they or the machine stop, the directory is a folder in which   *)
(* each save and each removal happens at once, between the call and its    *)
(* answer: a preset is shown whole or not at all, a save that must not     *)
(* replace one takes a free name, and what a loss of power undoes was      *)
(* done since the directory was last flushed.                              *)
(***************************************************************************)
THEOREM DirectoryIsFolder == Spec => IsFolder
  BY InitIsFolder, FolderInvariance, StepIsFolder, PTL DEF Spec, IsFolder, Folder!Spec

=============================================================================
