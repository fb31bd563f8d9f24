--------------------------- MODULE PresetBrowser ---------------------------
(***************************************************************************)
(* The preset browser of one instance of a plug-in: the page that shows    *)
(* it, the commands the page sends to the main thread, the presets and     *)
(* states the host loads, and the edits the audio thread applies           *)
(* meanwhile.  The browser shows which preset is current and whether it    *)
(* was edited since.  An edit is noted in a flag when it is accepted, is   *)
(* applied when its block ends, and reaches the browser when the page      *)
(* sends its next message.                                                 *)
(*                                                                         *)
(* The directory of the user presets is that of PresetStorage; the         *)
(* instance is "me", the others are other processes.  Gain applies the     *)
(* document the browser resolved; PolySynth hands its path to the          *)
(* preset-load extension of the plug-in it wraps, which reads it again.    *)
(***************************************************************************)
EXTENDS PresetStorage

CONSTANTS
  Factories,     \* the keys of the factory presets, in order
  FactoryState,  \* the state each stands for
  Projects,      \* states in projects of the host
  MaxCommands, MaxLoads,  \* bounds on what the page and the host ask for
  MaxEvents  \* bound on edits, crashes, losses of power, and what other processes do

ASSUME BrowserAssumption ==
  /\ FactoryState \in [{Factories[k] : k \in DOMAIN Factories} -> States]
  /\ Projects \subseteq States
  /\ "me" \in Instances

VARIABLES
  wrapped,  \* does the browser wrap the plug-in (PolySynth), or is it a part of it (Gain)?
  browser,  \* the browser model: entries and the current preset
  pending,  \* presetDirtyPending_: an edit was noted that the browser does not show yet
  main,     \* the command or load the main thread is in
  state,    \* the parameters hosts and presets see
  audio,    \* the block the audio thread is in
  queued,   \* the edit of the page that waits for the next block
  page,     \* what the page was last sent
  stands,   \* history: the state the current preset stands for, and which edits it misses
  spent     \* history: what the bounds count

instanceVars == <<browser, pending, main, state, audio, queued, page, stands>>
vars == <<wrapped, instanceVars, spent, storageVars>>

Nobody == [kind |-> "None", identity |-> ""]
Idle == [pc |-> "idle", entry |-> Nobody, state |-> Default]
NoBlock == [busy |-> FALSE, state |-> Default, superseded |-> FALSE]
NoEdits == [p \in {} |-> 0]  \* otherwise the new values of some parameters
Edit(p, v) == [q \in {p} |-> v]
Edited(values, edits) ==
  [p \in DOMAIN values \cup DOMAIN edits |-> IF p \in DOMAIN edits THEN edits[p] ELSE values[p]]

FreshInstance ==
  [browser |-> [refreshed |-> FALSE, listed |-> {}, current |-> Nobody, dirty |-> FALSE],
   page |-> [open |-> FALSE, listed |-> {}, current |-> Nobody],
   stands |-> [state |-> Default, misses |-> FALSE, late |-> FALSE, strayed |-> FALSE]]

Init ==
  /\ StorageInit
  /\ wrapped \in BOOLEAN
  /\ browser = FreshInstance.browser
  /\ pending = FALSE
  /\ main = Idle
  /\ state = Default
  /\ audio = NoBlock
  /\ queued = NoEdits
  /\ page = FreshInstance.page
  /\ stands = FreshInstance.stands
  /\ spent = [commands |-> 0, loads |-> 0, events |-> 0]

MayMore(what, bound) ==
  /\ spent[what] < bound
  /\ spent' = [spent EXCEPT ![what] = @ + 1]

-----------------------------------------------------------------------------
(* The browser model. *)

Factory(key) == [kind |-> "Factory", identity |-> key]
User(i) == [kind |-> "User", identity |-> i]
IdentityOrder == SetToSeq(Identities)

Entries ==
  IF browser.refreshed
  THEN LET users == SelectSeq(IdentityOrder, LAMBDA i : i \in browser.listed)
       IN  [k \in DOMAIN Factories |-> Factory(Factories[k])] \o [k \in DOMAIN users |-> User(users[k])]
  ELSE <<>>

IndexOfCurrent == SelectInSeq(Entries, LAMBDA e : e = browser.current)  \* 0 when it has none

\* After the last entry comes the first one, and so it does when none is current.
NextEntry == Entries[IF IndexOfCurrent = Len(Entries) THEN 1 ELSE IndexOfCurrent + 1]
PreviousEntry == Entries[IF IndexOfCurrent <= 1 THEN Len(Entries) ELSE IndexOfCurrent - 1]

Finds(b, entry) ==
  \/ entry.kind = "Factory" /\ b.refreshed
  \/ entry.kind = "User" /\ entry.identity \in b.listed

\* Mutant of Replaced: a preset that is gone stays the current one.
ReplacedOnly(b, listed) == [b EXCEPT !.refreshed = TRUE, !.listed = listed]

Replaced(b, listed) ==
  LET r == [b EXCEPT !.refreshed = TRUE, !.listed = listed]
  IN  IF b.current.kind \in {"Factory", "User"} /\ ~Finds(r, b.current)
      THEN [r EXCEPT !.current = Nobody, !.dirty = FALSE]
      ELSE r

Marked(b, entry) == [b EXCEPT !.current = entry, !.dirty = FALSE]
Cleared(b) == Marked(b, Nobody)

\* Mutant of Consumed: the browser does not hear of the edit.
ConsumedQuietly == browser

Consumed == [browser EXCEPT !.dirty = @ \/ pending]

-----------------------------------------------------------------------------
(* What loads and commands have in common. *)

Waiting == DOMAIN queued # {}
InFlight == audio.busy /\ ~audio.superseded

\* The whole state is replaced.  What the block that runs edits is dropped, what
\* waits for the next block comes on top of the new state.
Commit(s) ==
  /\ state' = s
  /\ audio' = [audio EXCEPT !.superseded = audio.busy]
  /\ stands' = [stands EXCEPT !.misses = Waiting, !.late = FALSE]

StandsFor(s) == stands' = [stands EXCEPT !.state = s, !.strayed = stands.misses]

\* The page gets the entries and the current preset, if it can be sent to.
Reply ==
  \/ /\ page' = [open |-> TRUE, listed |-> browser'.listed, current |-> browser'.current]
     /\ main' = [Idle EXCEPT !.pc = "finish"]
  \/ main' = Idle /\ UNCHANGED page

Stops == main' = Idle /\ UNCHANGED page
Awaits(pc, entry) == main' = [Idle EXCEPT !.pc = pc, !.entry = entry] /\ UNCHANGED page

MainOnly == UNCHANGED <<wrapped, pending, queued, spent>>

\* The presets are listed again, which may fail, and the page is told.
Relist ==
  /\ UNCHANGED stands
  /\ \/ browser' = Replaced(browser, Listed) /\ Reply
     \/ UNCHANGED browser /\ Stops

-----------------------------------------------------------------------------
(* Messages of the page.  What it can ask for depends on what it was last sent. *)

Command(pc, entry) == [pc |-> pc, entry |-> entry, state |-> Default]

Commands ==
  {Command(pc, Nobody) : pc \in {"snapshot", "refresh", "next", "previous", "init"}}
    \cup IF ~page.open THEN {} ELSE
         {Command("load", Factory(Factories[k])) : k \in DOMAIN Factories}
           \cup {Command("load", User(i)) : i \in page.listed}
           \cup IF page.current.kind = "User"
                THEN {Command("replace", page.current), Command("delete", page.current)}
                ELSE {Command("save", User(i)) : i \in Identities}

Consume(noted) ==
  /\ main.pc = "idle"
  /\ browser' = Consumed
  /\ pending' = noted
  /\ stands' = [stands EXCEPT !.late = noted]
  /\ UNCHANGED <<wrapped, state, audio, page, storageVars>>

Receive ==
  /\ Consume(FALSE)
  /\ MayMore("commands", MaxCommands)
  /\ main' \in Commands
  /\ UNCHANGED queued

\* A message that is not for the browser: the page asks for the parameters.
Sync == pending /\ Consume(FALSE) /\ UNCHANGED <<main, queued, spent>>

UiEdit(p, v) ==
  /\ Consume(TRUE)
  /\ MayMore("events", MaxEvents)
  /\ queued' = Edited(queued, Edit(p, v))
  /\ UNCHANGED main

Snapshot ==
  /\ main.pc = "snapshot" /\ MainOnly
  /\ UNCHANGED <<browser, state, audio, stands, storageVars>>
  /\ Reply

Refresh ==
  /\ main.pc = "refresh" /\ MainOnly
  /\ UNCHANGED <<state, audio, storageVars>>
  /\ Relist

\* The document of a preset.  A file may be gone, or hold what this plug-in cannot take.
Resolve(entry) ==
  \/ /\ entry.kind = "Factory"
     /\ main' = [pc |-> "apply", entry |-> entry, state |-> FactoryState[entry.identity]]
  \/ /\ entry.kind = "User" /\ Loads(entry.identity)
     /\ LET document == Loaded(entry.identity)
        IN  /\ wrapped \/ HasCandidate(document, Plugin)
            /\ main' = [pc |-> "apply", entry |-> entry,
                        state |-> IF wrapped THEN Default ELSE Candidate(document)]
  \/ entry.kind = "User" /\ main' = Idle

Select ==
  /\ MainOnly
  /\ UNCHANGED <<browser, state, audio, page, stands, storageVars>>
  /\ \/ main.pc = "load" /\ Resolve(main.entry)
     \/ main.pc = "next" /\ Entries # <<>> /\ Resolve(NextEntry)
     \/ main.pc = "previous" /\ Entries # <<>> /\ Resolve(PreviousEntry)
     \/ main.pc \in {"next", "previous"} /\ Entries = <<>> /\ main' = Idle

\* What the preset-load extension makes of a location, which it reads itself.
LocationLoads(entry, s) ==
  \/ entry.kind = "Factory" /\ s = FactoryState[entry.identity]
  \/ /\ entry.kind = "User" /\ Loads(entry.identity)
     /\ CatalogLoads(Loaded(entry.identity), Plugin)
     /\ HasCandidate(Loaded(entry.identity), Plugin)
     /\ s = Candidate(Loaded(entry.identity))

Apply ==
  /\ main.pc = "apply" /\ MainOnly
  /\ \/ \E s \in States :
          /\ IF wrapped THEN LocationLoads(main.entry, s) ELSE s = main.state
          /\ Commit(s)
          /\ main' = [main EXCEPT !.pc = "mark", !.state = s]
     \/ \* the file changed since it was resolved, or is one a host cannot load
        wrapped /\ main.entry.kind = "User" /\ main' = Idle /\ UNCHANGED <<state, audio, stands>>
  /\ UNCHANGED <<browser, page, storageVars>>

\* A preset the page was shown may not be an entry any more.
Mark ==
  /\ main.pc = "mark" /\ MainOnly
  /\ \/ /\ Finds(browser, main.entry)
        /\ browser' = Marked(browser, main.entry)
        /\ StandsFor(main.state)
        /\ Reply
     \/ /\ ~Finds(browser, main.entry)
        /\ stands' = [stands EXCEPT !.strayed = TRUE]
        /\ UNCHANGED browser /\ Stops
  /\ UNCHANGED <<state, audio, storageVars>>

ResetInit ==
  /\ main.pc = "init" /\ MainOnly
  /\ Commit(Default)
  /\ main' = [Idle EXCEPT !.pc = "mark init"]
  /\ UNCHANGED <<browser, page, storageVars>>

MarkInit ==
  /\ main.pc = "mark init" /\ MainOnly
  /\ browser' = Marked(browser, [kind |-> "Init", identity |-> ""])
  /\ StandsFor(Default)
  /\ UNCHANGED <<state, audio, storageVars>>
  /\ Reply

\* The state is captured, and edits that wait or are in a block are not in it.
SaveAs ==
  /\ main.pc \in {"save", "replace"} /\ MainOnly
  /\ BeginSave("me", main.entry.identity, Captured(Plugin, state), main.pc = "replace")
  /\ main' = [main EXCEPT !.pc = "saving", !.state = state]
  /\ stands' = [stands EXCEPT !.misses = Waiting \/ InFlight, !.late = FALSE]
  /\ UNCHANGED <<browser, state, audio, page>>

\* The page waits for no answer: what failed shows in what it is sent next.
Saved ==
  /\ main.pc = "saving" /\ calls["me"].pc = "idle" /\ MainOnly
  /\ UNCHANGED <<state, audio, storageVars>>
  /\ \/ calls["me"].result = "failed" /\ UNCHANGED <<browser, stands>> /\ Stops
     \/ /\ calls["me"].result = "ok"
        /\ \/ /\ main.entry.identity \in Listed
              /\ browser' = Marked(Replaced(browser, Listed), main.entry)
              /\ StandsFor(main.state)
              /\ Reply
           \/ /\ main.entry.identity \notin Listed
              /\ browser' = Replaced(browser, Listed)
              /\ UNCHANGED stands /\ Stops
           \/ UNCHANGED <<browser, stands>> /\ Stops

Delete ==
  /\ main.pc = "delete" /\ MainOnly
  /\ RemoveFile("me", main.entry.identity) \/ RemoveFails("me")
  /\ Awaits("deleting", main.entry)
  /\ UNCHANGED <<browser, state, audio, stands>>

Deleted ==
  /\ main.pc = "deleting" /\ calls["me"].pc = "idle" /\ MainOnly
  /\ UNCHANGED <<state, audio, storageVars>>
  /\ \/ calls["me"].result = "failed" /\ UNCHANGED <<browser, stands>> /\ Stops
     \/ calls["me"].result = "ok" /\ Relist

\* A command that was answered clears the flag: an edit noted meanwhile is forgotten.
Finish ==
  /\ main.pc = "finish"
  /\ pending' = FALSE
  /\ stands' = [stands EXCEPT !.strayed = @ \/ (pending /\ stands.late)]
  /\ main' = Idle
  /\ UNCHANGED <<wrapped, browser, state, audio, queued, page, spent, storageVars>>

-----------------------------------------------------------------------------
(* The host loads a preset, or a state of a project. *)

HostLoad(entry) ==
  /\ main.pc = "idle"
  /\ MayMore("loads", MaxLoads)
  /\ \E s \in States :
       /\ LocationLoads(entry, s)
       /\ Commit(s)
       /\ main' = [pc |-> "host", entry |-> entry, state |-> s]
  /\ UNCHANGED <<wrapped, browser, pending, queued, page, storageVars>>

HostLoaded ==
  /\ main.pc = "host"
  /\ pending' = FALSE
  /\ LET r == Replaced(browser, Listed)
         missed == stands.misses \/ (pending /\ stands.late)
     IN  \/ /\ Finds(r, main.entry)
            /\ browser' = Marked(r, main.entry)
            /\ stands' = [stands EXCEPT !.state = main.state, !.strayed = missed]
         \/ ~Finds(r, main.entry) /\ browser' = Cleared(r) /\ UNCHANGED stands
         \/ \* the presets cannot be listed
            browser' = Cleared(browser) /\ UNCHANGED stands
  /\ main' = Idle
  /\ UNCHANGED <<wrapped, state, audio, queued, page, spent, storageVars>>

StateLoad(s) ==
  /\ main.pc = "idle"
  /\ MayMore("loads", MaxLoads)
  /\ Commit(s)
  /\ main' = [Idle EXCEPT !.pc = "restore"]
  /\ UNCHANGED <<wrapped, browser, pending, queued, page, storageVars>>

Restored ==
  /\ main.pc = "restore"
  /\ pending' = FALSE
  /\ browser' = Cleared(browser)
  /\ main' = Idle
  /\ UNCHANGED <<wrapped, state, audio, queued, page, stands, spent, storageVars>>

-----------------------------------------------------------------------------
(* Blocks with edits.  The audio thread notes what the host sent, applies what *)
(* the page queued, up to the first edit the host refuses the event of, and    *)
(* then what the host sent; the refused ones wait for the next block.  The     *)
(* state is published at the end, unless another was loaded meanwhile.         *)

BlockBegin ==
  /\ ~audio.busy
  /\ \E drained \in SUBSET DOMAIN queued :
       LET edited == Edited(state, Restrict(queued, drained))
       IN  /\ \/ \E p \in Parameters, v \in Values :
                   /\ MayMore("events", MaxEvents)
                   /\ pending' = TRUE
                   /\ stands' = [stands EXCEPT !.late = TRUE]
                   /\ audio' = [busy |-> TRUE, state |-> Edited(edited, Edit(p, v)), superseded |-> FALSE]
              \/ /\ Waiting
                 /\ audio' = [busy |-> TRUE, state |-> edited, superseded |-> FALSE]
                 /\ UNCHANGED <<pending, stands, spent>>
           /\ queued' = Restrict(queued, DOMAIN queued \ drained)
  /\ UNCHANGED <<wrapped, browser, main, state, page, storageVars>>

BlockEnd ==
  /\ audio.busy
  /\ state' = IF audio.superseded THEN state ELSE audio.state
  /\ audio' = NoBlock
  /\ UNCHANGED <<wrapped, browser, pending, main, queued, page, stands, spent, storageVars>>

-----------------------------------------------------------------------------
(* Other processes, the storage calls of this one, and what stops them. *)

OtherSaves(p, i) ==
  /\ MayMore("events", MaxEvents)
  /\ BeginSave(p, i, Captured(Plugin, Default), Exists(i))
  /\ UNCHANGED <<wrapped, instanceVars>>

OtherRemoves(p, i) ==
  /\ MayMore("events", MaxEvents)
  /\ RemoveFile(p, i)
  /\ UNCHANGED <<wrapped, instanceVars>>

StorageSteps ==
  /\ \E p \in Instances : StorageStep(p)
  /\ UNCHANGED <<wrapped, instanceVars, spent>>

Restart ==
  /\ browser' = FreshInstance.browser
  /\ pending' = FALSE
  /\ main' = Idle
  /\ state' = Default
  /\ audio' = NoBlock
  /\ queued' = NoEdits
  /\ page' = FreshInstance.page
  /\ stands' = FreshInstance.stands
  /\ UNCHANGED wrapped

Crashes ==
  /\ MayMore("events", MaxEvents)
  /\ \/ Crash("me") /\ Restart
     \/ \E p \in Instances \ {"me"} : Crash(p) /\ UNCHANGED <<wrapped, instanceVars>>
     \/ LosePower /\ Restart

Locations == {Factory(Factories[k]) : k \in DOMAIN Factories} \cup {User(i) : i \in Identities}

Next ==
  \/ Receive \/ Sync \/ Snapshot \/ Refresh \/ Select \/ Apply \/ Mark
  \/ ResetInit \/ MarkInit \/ SaveAs \/ Saved \/ Delete \/ Deleted \/ Finish
  \/ \E p \in Parameters, v \in Values : UiEdit(p, v)
  \/ \E entry \in Locations : HostLoad(entry)
  \/ HostLoaded
  \/ \E s \in Projects : StateLoad(s)
  \/ Restored \/ BlockBegin \/ BlockEnd
  \/ \E p \in Instances \ {"me"}, i \in Identities : OtherSaves(p, i) \/ OtherRemoves(p, i)
  \/ StorageSteps \/ Crashes

Spec == Init /\ [][Next]_vars

-----------------------------------------------------------------------------
(***************************************************************************)
(* What the browser shows as the current preset, not edited, is what the   *)
(* plug-in plays once nothing is under way, whichever loads, saves, edits  *)
(* and crashes came before.  Three kinds of edit are not seen, and are the *)
(* only ones: one that waited or was in a block when the preset was loaded *)
(* or saved, one noted while a command was answered, and a load of a       *)
(* preset that is not an entry any more, which is applied and not shown.   *)
(***************************************************************************)
Quiet == main.pc = "idle" /\ ~audio.busy /\ ~Waiting /\ ~pending

Truthful ==
  Quiet /\ browser.current.kind # "None" /\ ~browser.dirty /\ ~stands.strayed =>
    state = stands.state

(***************************************************************************)
(* The current preset is an entry of the browser, so that it can be loaded *)
(* again and has a place from which the next and the previous one count:   *)
(* also after another process removed it and the entries were refreshed.   *)
(***************************************************************************)
CurrentIsEntry ==
  browser.current.kind \in {"Factory", "User"} => Finds(browser, browser.current)

=============================================================================
