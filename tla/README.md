# Specifications of webview-gui

TLA+ models of the concurrent and stateful parts of webview-gui and of its two
example plug-ins, Gain and PolySynth, with the TLC runs that check them and the
TLAPS proofs of their safety properties. Paths are relative to the
root of the repository. `PROJECT.json` maps every definition to the lines it
translates.

## 1. The system

webview-gui is a header library that puts a web page into an audio plug-in as
its editor, and two CLAP plug-ins built with it. A plug-in has at least two
threads: the **main thread** of the host (editor, state, activation, the web
view's callbacks) and the **audio thread** (`process()`), which must never wait.
A third party, the page, runs in the web view and exchanges messages with the
main thread.

    page  <--messages-->  WebviewGui / ClapWebviewGui  <-->  plug-in (main thread)
                                                               |         ^
                                          atomics, rings       v         |
                                                            audio thread (process, flush)
                                                               ^
                                                               |  events, wake-ups
                                                              host

### Inventory

| Component | Source | State | Operations | What makes it hard | Correct when |
|---|---|---|---|---|---|
| CallbackRegistry | `include/webview-gui/_impl/callback_registry.h` | map of keys to entries; per entry: accepting, visitors by thread | `set`, `visit`, `eraseIfMatches` | callbacks run outside the lock, and may re-enter from inside themselves | after an unregistration returned, no other thread is in the callback; nothing waits for itself |
| Real-time queue | `include/webview-gui/realtime-handoff.h` | ring of slots, two atomic indices | `tryPush`, `tryPop`, `empty` | no lock; stale views of the other side's index | it is a bounded FIFO; no slot is written while read |
| WebviewGui bridge | `_impl/platform/choc.h`, `_impl/plugin_support.h` | queue of encoded messages, `bridgeReady` | `create`, `send`, ready and receive callbacks | the page starts later than the plug-in sends; callbacks may send or destroy | order is kept, nothing kept is lost, limits hold |
| ClapWebviewGui | `include/webview-gui/clap-webview-gui.h`, `helpers.h` | remembered extensions, native view or host page, size, key in the registry | `init`, `create`, `set_parent`, `set_size`, `show`, `destroy` of `clap.gui` | hosts call in any order; a size one party refuses; a helper replaced under its key | an extension is never taken for missing too early; view, host and page have one size |
| WCLAP legacy proxy | `include/webview-gui/wclap-legacy-webview-proxy.h` | the wrapped plug-in, whether its current or its legacy extension is announced | `init`, `destroy`, forwarded extension calls | identity initialised twice | the helper asks the plug-in only when it can answer |
| Standalone device bridge | `_impl/standalone_device_bridge.h` | device snapshots of the host | query and choice by the page's script | answers asked for before the page is ready, or after it reloads | a page that is answered shows the devices the host has |
| Platform runtimes | `_impl/platform/linux_plugin_runtime.h`, `windows_plugin_runtime.h`, `choc_plugin_webview.h` | event loop, reference count, attached windows | acquire, release, attach, detach | several plug-in instances in a process; an attach that fails half way | the loop lives as long as its last user |
| Resources and origins | `_impl/local_url.h`, `origin_policy.h`, `resource_security.h`, `bounded_buffer.h`, `secure_random.h` | none | parsing and lookup | boundaries | pure functions |
| Gain meter | `examples/gain/gain_meter.h` | sequence counter, accumulators, peaks | `publish`, `read` | a reader overlapped by several publications, a wrapping counter | a snapshot is one publication |
| Gain bridge | `examples/gain/gain_webview_parameter_bridge.h`, `gain_plugin.cpp` | ring of edit commands, open gestures, wake-ups | `receive`, `drain`, `closeOpenGestures`, `setActive` | full queue, refusing host, editor closed in a gesture, (de)activation | well-formed gestures; every command arrives |
| Gain state | `examples/gain/gain_plugin.cpp` | snapshots, pending values, generations | load, save, process, flush | load overlapping a block | a load is neither lost nor undone |
| PolySynth state and tail | `examples/polysynth/polysynth_plugin.cpp` | host and pending snapshots under sequence numbers, generations, tail | load, save, process, flush, tail | as above, with 13 values read at once | saved states are whole and current; the tail covers every voice |
| PolySynth notes and voices | `polysynth_note_scheduler.h`, `polysynth_voice_allocator.h`, `polysynth_voice_lifecycle.h`, `polysynth_voice_engine.h` | slots with identity, serial, generation, stage; MIDI sustain; envelopes | note on/off/choke, MIDI controllers, rendering | stealing, releases that end on a block boundary, sustain pedal | each note that began ends exactly once |
| PolySynth parameter voices | `polysynth_parameter_voice_engine.h`, `polysynth_polyphonic_parameter_state.h` | base values, per-voice modulation, pending expressions | parameter, modulation and expression events | expressions that come before their note; bounded caches | per-voice values follow their generation |
| Preset storage | `examples/common/presets/native_preset_storage_impl.inc` | a directory of files | list, load, save, replace, remove | errors, crashes and losses of power between two file operations; other processes in the directory | a saved preset is whole and lasts; nobody's preset is overwritten unasked |
| Preset documents and codec | `preset_codec.h`, `preset_document.h`, `preset_state_adapter.h`, `polysynth_preset_state.h` | none | serialise, parse, capture, candidate | torn or foreign files | what is written is read back, and nothing else becomes a state |
| Preset browser and loading | `examples/common/preset_browser_*.h`, `preset_load_controller.h` | entries of the last refresh, current preset, dirty flag | commands of the page, loads by the host, edits | entries that are out of date; edits and loads on two threads; commands that fail half way | an unmodified preset shown is what is played |
| PolySynth WCLAP proxies | `examples/polysynth/wclap/*.h` | telemetry ring, drop count, count of voices, queue of editor parameters | forwarded calls, observation of the events that go in and come out | a ring that is full; two threads; notes counted before the voices they steal end | the page shows nothing stale; the count is the voices that sound |
| DSP | `gain_processor.h`, parts of `polysynth_voice_engine.h` | filters, ramps | rendering | numerics | not a matter of states |
| Pages | `examples/*/ui` | PolySynth: notes and modulations shown | replay of telemetry | batches that follow a lost record | shows nothing stale |
| Build, CI | `CMakeLists.txt`, `.github` | | | | not modelled |

`CallbackRegistry` is under every `clap_plugin` callback that reaches a helper;
`RealtimeToUiQueue` is what the library offers plug-ins for audio-to-editor
updates; the WebviewGui bridge carries every message of both plug-ins. Gain and
PolySynth are built from the same pattern, loaded states down to the audio
thread and processed values up, with different protocols for it: plain atomics
with a repair step in Gain, sequence-numbered snapshots in PolySynth.

## 2. Plan

Order of the work, the most shared and most concurrent parts first:

1. Done: `CallbackRegistry`, `RealtimeHandoff` (implements `Handoff`),
   `GainMeter` and `GainState` (composed in `GainPlugin`), `GainBridge`,
   `PolysynthState`, `WebviewBridge`, `Voices`.
2. Done: `PresetStorage` over `PresetCodec` (implements `PresetFolder`): the steps
   of a save and their failures, crashes and losses of power, several processes in
   one directory.
3. Done: `ParameterVoices`: base values, modulation, expressions for sounding
   voices and for notes that come later at the same time, MIDI channel state.
4. Done: `PresetBrowser` over `PresetStorage`: the browser's commands, host
   loads, edits and blocks, for both ways the browser is built in.
5. Done: `ClapWebviewGui` over `WebviewBridge`, with the life of the legacy
   WCLAP proxy and the standalone device bridge.
6. Done: `PolysynthTelemetry` and the voice count of the WCLAP proxy (in
   `Voices`); the proofs of the safety properties of all modules (section 6).
7. Left: the reference-counted event loops of the platform runtimes; a weak
   memory model of PolySynth's snapshots; the queue of editor parameters of the
   WCLAP proxy, which is the algorithm of `GainBridge` with other values; names,
   tags and filters of the browser.

Modules that interact share a run: `PresetBrowser` runs with its storage and
codec, `ClapWebviewGui` with its bridge, `GainPlugin` with both of its parts.

Every safety invariant and action property that a passing run checks is stated by
a theorem, and so is that `RealtimeHandoff` and `PresetStorage` implement their
abstract specifications. A type invariant is a definition of its module, for readers and
proofs; the runs list what it does not imply.

## 3. The modules and the code

State variables keep the names of the code. Every module says in its header what
a value stands for. Operators whose comment starts with "Mutant of" are
plausible bugs in place of the definition they name: they are not part of the
specification, and each makes the run of its module fail.

**CallbackRegistry** (`_impl/callback_registry.h`). `registered` is the map,
`accepting`, `visitors` and `activeVisitors` the fields of an `Entry`, `frame`
and `depth` the stack of calls of each thread. An action is a critical section:
`Set` and `EraseIfMatches` retire an entry under `entriesMutex`, `DrainCheck` is
the predicate of `waitForDrain()`, `VisitLookup` is under `entriesMutex` and
`VisitBegin` (`Entry::begin`) after it, `VisitEnd` notifies. While it is in a
callback, a thread may make any of these calls (`MayCall`), which gives the
nested unregistrations the code has rules for. A drain that has to wait is
`asleep` until it is notified or wakes spuriously.

**Handoff, RealtimeHandoff** (`realtime-handoff.h`). `Handoff` is the promise: a
bounded FIFO whose pushes may be refused. `RealtimeHandoff` has the ring, the
two indices, and for each side the last value it loaded of the other's index
(`seenRead`, `seenWrite`): `PushLoad(i)` and `PopLoad(i)` load any index from
that value on, which is what acquire loads allow. Copying a slot is a step of
its own, so that a data race is a state. `Contents` is the refinement mapping.

**GainMeter** (`gain_meter.h`, `sendMeterSnapshotToWebview`). One action for each
atomic access of `publish()` and `tryRead()`; `Retry` counts the attempts;
`Send`, `SendFails` and `AlreadySent` are the guard on what was sent; `Reopen` is
`guiDestroy()` and `guiCreate()`. The accumulation of the peaks of a block is left
out: a pair of peaks is the number of its publication.

**GainBridge** (`gain_webview_parameter_bridge.h` and the calls of it in
`gain_plugin.cpp`). `Receive`, `PushWrite`, `PushPublish`, `CloseGesture` and
`SchedulePending` are the main thread's steps through `receive()` and
`closeOpenGestures()`; `DrainPeek`, `EmitAccepted`, `EmitRefused` and `DrainPop`
are `drain()` inside `Process` or `Flush`. `Activate`, `Deactivate` and the two
request flags are the duties between plug-in and host. Values of parameters are
left out; a gesture has a parameter and a kind.

**GainState** (`gain_plugin.cpp`). A store is made in one step and lands in
another. `Load` makes the five of `commitPersistentParameterSnapshot()`; `main`
has those that have not landed, `PendingLands`, `RevisionLands` and
`SnapshotLands` are their landing: the revision after the pending values, which
its release orders, and the snapshots, which nothing orders, at any time.
`BlockBegin`, `Apply`, `Event`, `BlockFails`, `EventsDone`, `SyncSnapshots` (the
first look at the revision and the stores after it), `SyncRecheck` (the second
look) and `Restore` are the steps of a block; `stores[p]` is its store to a
snapshot on the way, which `StoreLands` ends, also after the second look and
after the block. A value is the number of the load or event it comes from, so
"older" can be said.

**GainPlugin** (`gain_plugin.cpp`, `gain_event_processor.h`). `GainState` and
`GainMeter` on the two threads of one plug-in: a block publishes its peaks after
its events and before its snapshots, the main thread loads or serves the editor.
`Budgets` bounds what a behaviour has of each part (`Within`).

**PolysynthState** (`polysynth_plugin.cpp`). The pending and the host snapshot
are records under a sequence number; loads, `state.save()`, `tail.get()`,
`activate`, `deactivate` and the inactive flush are the main thread's, `process`
and the active flush the audio thread's, with a step for each access to an
atomic the other thread writes. Of 13 parameters two are kept: the release time,
which the tail depends on, and one for the rest. `voices` is the set of release
times of sounding voices; notes come and go by `Notes`. `current` is history: the
whole snapshots that were effective since a read began. A read that begins while
the host snapshot is being written starts with none, so that the mixture of that
moment is not taken for one.

**WebviewBridge** (`_impl/platform/choc.h`, the bootstrap script of
`_impl/plugin_support.h`). The GUI thread's `Create`, `Destroy`, `Send`,
`HandleReady`, `HandleReceive`, and the page's `Bootstrap`, `Post`, `RunScript`
and `Reload`. Scripts and calls between them are in flight, each in order. While
the receive callback runs (`receiving`), `Send` and `Destroy` stay enabled.

**ClapWebviewGui** (`clap-webview-gui.h`, `wclap-legacy-webview-proxy.h`,
`_impl/standalone_device_bridge.h`, `standalone-device-control.h`). What
surrounds the bridge: the wrapped plug-in is made, initialised once or twice and
destroyed (`ProxyInit`, `Reinitialise`, `ProxyDestroy`); the host asks for an API
and creates the GUI on a page of its own or natively (`GetPreferredApi`,
`CreateOnHost`, `CreateNative`), resizes, embeds and destroys it; the page's
script asks the standalone host for its devices or chooses some (`Request`,
`Choose`), through the messages of `WebviewBridge`. `HandleDevices` ends in
`SendSnapshot` or, on one of the bridge's error paths, in `NoSnapshot`, and
`unanswered` is history: which of them was last. `pluginWebview` is the
helper's cache of the plug-in's extension. `Alone(step)` is a step of the bridge
that changes nothing here. `Init` chooses what plug-in, host and platform offer.

**Voices** (`polysynth_voice_allocator.h`, `polysynth_note_scheduler.h`,
`polysynth_voice_lifecycle.h`, `polysynth_voice_engine.h`, and the count of
voices of `wclap/polysynth_wclap_proxy.h`). The arrays of the allocator (`slot`),
the scheduler (`sustained`), the lifecycle (`life`) and the engine (`voice`),
which the code keeps apart and updates in turn. `BlockBegin` completes the
releases that ended with the last block, an event action is a whole event through
all four layers, `Render` is one frame. A note is a `NoteOn` of CLAP or a
`MidiNoteOn`, which the scheduler translates into one (`StartVoice` is what they
share). `counted` is the proxy's: it counts the CLAP notes of a block before the
block runs (`block.notes` are those still to come), passes over the MIDI notes,
and counts down the `NOTE_END`s of both as they come out. `owed`, `lastEnd`,
`unstarted` and `uncounted` are history: the `NOTE_END`s the host is due, when it
got the last one, the notes counted in blocks that failed before them, and the
MIDI notes the proxy passed over since no voice sounded. Of an envelope only the length of its
release is kept.

**ParameterVoices** (`polysynth_parameter_voice_engine.h`, the MIDI part of
`polysynth_note_scheduler.h`, the setters of `polysynth_voice_engine.h`).
`adapter` and `global` are the sources (bases, modulations, expressions, the
coarse tuning of the `NOTE_ON`), `engine` what the voice engine was set to, with
its filter coefficients and sweep, `pending` the caches of expressions that wait
for a note at the same time, `midi` the state of one channel. An action is one
event through scheduler, adapter and engine. Combining a base with a modulation
is addition, an expression with a parameter a tuple of both: two controls differ
as soon as a source does. Which voice a note gets is free here. An expression
for a note is sent to all notes, to the channel, or to a key of it.

**PresetCodec** (`preset_codec.h`, `preset_document.h`,
`preset_state_adapter.h`, `polysynth_preset_state.h`,
`preset_production_catalog.h`). A document is a record, a file a sequence of
tokens, of which `Torn` are the beginnings. `Serialize`, `Parses` and `Parsed`
are the two directions of the codec, `MetadataParses` what listing looks at,
`Captured` and `Candidate` the two directions between documents and states, and
`CatalogLoads` what a host's preset load accepts besides.

**PresetStorage** (`native_preset_storage_impl.inc`). `files` is the directory as
processes see it, `disk` what a loss of power leaves of it, `calls` the save or
removal each process is in. `BeginSave` checks and writes the temporary file,
`CommitTemporary` links it (a new preset) or renames it (a replaced one),
`SyncDirectory` flushes the directory; `SaveFails` is an error before the commit.
`SyncFails` is a flush of the directory that fails, of which the code takes no
notice. Temporary files are never listed and left where a crash leaves
them.

**PresetFolder** is the abstract specification of that directory: a save or a
removal is one step (`Save`, `Remove`) between the call and its answer, which is
"ok" only after that step and "failed" only without it; a save that is not to
replace a preset takes a free name; a loss of power undoes, for each name, at most
what was done since the folder was last `kept`. `IsFolder` says that
`PresetStorage` implements it: what is shown and kept are `files` and `disk`
without the marks of what was flushed, a temporary file is part of the request of
its client.

**PresetBrowser** (`preset_browser_runtime.h`, `preset_browser_controller.h`,
`preset_browser_model.h`, `preset_load_controller.h`, and their callers in
`gain_plugin.cpp` and `wclap/polysynth_preset_browser_proxy.h`). A message of
the page is received (`Receive`, `Sync`, `UiEdit`) and gone through in steps: a
step for each access of the storage or the other thread, since presets and edits
may change in between. `Commit` is what every load ends in. `pending` is
`presetDirtyPending_`, the only thing the audio thread tells the browser.
`BlockBegin` applies the edits that wait but those the host refuses, which go on
waiting.
`wrapped` is chosen at `Init`: Gain has the browser inside and applies the
document the browser read, PolySynth's proxy hands its path to the wrapped
plug-in. `stands` is history: what the current preset stands for, and whether an
edit escaped the browser in one of the ways `Truthful` lists.

**PolysynthTelemetry** (`wclap/polysynth_wclap_proxy.h`,
`wclap/polysynth_modulation_telemetry.h`, `ui/src/modulation_state.js`). The
audio thread observes the input of a block, then its output; `Push` finds room
or the record is lost, and counting that is a step of its own (`CountDrop`). The
main thread's `CopyPending`, `ReadDropped`, `SendBatch` and `Consume` are those
of `sendUiSnapshot()`; `Applied` is the page's function. The plug-in in between
is external: it may end any note it was given.

`MC*` modules extend these with the sets that a `.cfg` cannot write down. No run
uses symmetry: nearly all of them check liveness or action properties.

The theorems are in eight modules, each of which extends the module it is about:
`CallbackRegistryProofs`, `LibraryProofs` (of `RealtimeHandoff`, and of
`ClapWebviewGui` with `WebviewBridge`), `GainBridgeProofs`, `GainPluginProofs`
(with `GainState` and `GainMeter`), `PolysynthStateProofs`, `VoicesProofs`,
`ParameterVoicesProofs` and `PresetBrowserProofs` (with `PresetStorage` and
`PresetCodec`).

## 4. The runs

| Run | Bounds | States | Checks |
|---|---|---|---|
| `CallbackRegistry` | 2 threads, 2 keys, 4 entries, 1 object, nesting 2; a callback calls on its own key | 150,021 | `OwnerPinned`, `AcceptingIffRegistered`, `EntersCurrentRegistration`, `DrainReturns`, no deadlock |
| `RealtimeHandoff` | 4 slots, 3 values | 36,141 | `NoDataRace`, `IsHandoff`, `HeadIsPopped` |
| `GainBridge` | 2 parameters, 4 slots | 97,144 | `GesturesReplay`, `EndNeverRefused`, `Delivered` |
| `GainBridgeActiveFlush` | 2 parameters, 3 slots | violated | `Delivered` (section 7) |
| `GainPlugin` | 3 loads or events; or 2 publications modulo 4, 2 attempts, 2 editors; or one load or event, publication and editor | 790,195 | `ReadIsLinearizable`, `LoadSurvivesBlock`, `LastIsShown`, `Settles` |
| `PolysynthState` | 2 loads or events, 2 release times | 1,658,980 | `SaveIsCurrent`, `TailCovers`, `LoadedTailIsReported`, `AppliesWholeState`, `Settles` |
| `PolysynthFailedBlock` | the same | violated | `TailNeverUnderReports` (section 7) |
| `Voices` | 2 voices, 2 channels, 1 key, 5 notes, 1 MIDI note between silences, 1 release time, 3 serials, 2 frames a block | 354,156 | `LayersAgree`, `EveryNoteEndsOnce`, `VoicesAreCounted`, `DeferredOffIsApplied`, `StealsOldestSounding`, `ReleaseEnds` |
| `ParameterVoices` | 2 voices, 2 keys, 3 parameters, 2 expressions, 3 events, 2 frames a block | 315,689 | `VoicesFollowSources`, `NotesHearTheirTime`, `MidiNotesFollowChannel`, `RefusedOnlyWhenFull` |
| `WebviewBridge` | 3 messages of 2 sizes, queue of 2 messages or 3 bytes, 2 posts, 1 reload, 2 views, 3 dimensions, 2 device configurations, 1 choice, 4 settings | 773,178 | `QueueAccounting`, `PageIsFound`, `ShownAtItsSize`, `DispatchedInOrder`, `KeptIsDispatched`, `DevicesAreShown` |
| `PresetBrowser` | 2 commands, 1 host load, 2 edits or crashes or actions of the other process, 1 loss of power; 1 factory and 2 user presets, 1 parameter of 2 values | 3,719,411 | `Truthful`, `CurrentIsEntry`, `SavedIsWhole`, `SavedIsDurable`, `NoClobber` |
| `PolysynthTelemetry` | 2 notes, one without an identity, ring of 2, 4 events, 1 reset, 1 new page | violated | `ShowsNothingStale` (section 7) |

Why the bounds reach the interesting cases:

- Registry: a replacement or an unregistration while the other thread is between
  lookup and begin, or in the callback; a callback that unregisters its own key
  needs a nesting of two; the entry being drained, the one that replaces it, one
  held by a lookup and a fourth still leave one to register. Storage of an entry
  is reused once nothing refers to it, so the run does not end when four
  registrations have been made.
- Ring: three of four slots can be used, so every index wraps, the ring is full
  and empty, and a load may be stale by a whole round.
- Gain: with three changes two loads can be in one block with an event before or
  after, and the stores of a block can land in the next one. The snapshots and
  the meter share no variable but the steps of a block, so each has its bounds in
  full while the other rests, and one change and one publication in the same
  behaviour show the steps they share. The publications are numbered 2 and, after the wrap, 0; a read of two
  attempts is made to give up by as many publications.
- Gain bridge: three usable slots hold two open gestures' ends and one more
  command, so the reservation is decisive, and the queue is met full in any
  state.
- PolySynth state: two changes are a load and an event, or two loads, around a
  block; `MaxLaps` bounds how often a read of the host snapshot is overtaken, once
  being enough to tear it.
- Voices: two voices are stolen from by five notes, the last two of which find
  the allocation serials spent, so an allocation renumbers in the middle of a
  steal; a block of one or two frames has releases that end on its last frame,
  and takes up to five notes, more than there are voices to count. One MIDI note
  among them makes the proxy's count fall short, and silence makes it right again.
- Parameter voices: three events are an expression, a note and another
  expression, at one time or two, for the same or another address; two slots of
  a cache are both used, and a third address is refused.
- Page: either limit of the queue is met first, depending on the sizes; a second
  view begins with what the first one left; one of the dimensions does not fit.
  Three messages are a reply with the devices and two of the plug-in around it.
- Browser: two commands are, for example, a save and a load of what was saved
  with another process' save between their steps; two events are an edit before
  and one in a command, or an edit and a crash. One file may at first be a
  preset whose payload is damaged, which is listed and does not load, or one with
  settings, which Gain's browser takes and hosts do not. `wrapped` is both.

Deadlock is checked except in `WebviewBridge`, which is over when the plug-in is
destroyed, and in `ParameterVoices` and `PresetBrowser`, which are over when
their bounds are used up.

`CrossKeyCalls = FALSE` leaves out callbacks that each erase the other's key:
they wait for each other for ever, which nothing in the code forbids and no
caller does. The safety properties are proved with such calls too (section 6).

## 5. Fairness

- `CallbackRegistry`: a thread that is not waiting goes on, and a callback
  returns. The second is strong fairness per level of the stack: while a
  callback makes a nested call its return is disabled, but it makes finitely
  many.
- `RealtimeHandoff`: only the GUI is fair (its timer polls). Nothing is assumed
  of the audio thread, which may stop in the middle of a push.
- `GainBridge`: both threads finish their calls. The host answers
  `request_flush` by a flush or a block, `request_process` by activating and
  processing, keeps processing a plug-in that returned `CLAP_PROCESS_CONTINUE`,
  and does not refuse the same event for ever. Strong fairness, because
  activation in between disables and enables these calls.
- `GainPlugin`, `PolysynthState`: an active plug-in is processed block after
  block (it always returns `CLAP_PROCESS_CONTINUE` or fails), and not every
  block is malformed; in `GainPlugin` a store lands some time. Loads, flushes and (de)activation are free. In
  `GainPlugin` the editor asks again and again (`sync`), and a transport that is
  tried again and again takes a message some time.
- `WebviewBridge`: the page runs the scripts and its bootstrap, the GUI thread
  serves the calls and its callback returns. Nothing is assumed of the host or
  of the page's own calls.
- `Voices`: the host keeps processing, a block gets the notes it was given, and
  blocks end; rendering is strongly fair, so that infinitely many blocks get as
  far as a frame.
- `ParameterVoices`, `PresetBrowser` and `PolysynthTelemetry` have no fairness
  and no liveness property: a page may never ask, a storage call never return.

## 6. What is proved

TLAPS checks these for every value of the constants.

`CallbackRegistryProofs`, under `RegistryAssumption` (which asks only that `Null`
is none of the others, and a nesting bound): `TypeCorrect`, `OwnersPinned`,
`RegistrationsSound`, `EntersCurrent`. None of them is inductive alone. The
invariant `IInv` adds:

- `StackShape`: a thread's calls fill its stack from below, and all but the
  innermost are in a callback. Without it a return could be taken for that of
  another call.
- `VisitorsInCallback` and `VisitorsCounted`: an entry's visitors are exactly the
  frames in its callback, finitely many, and `activeVisitors` counts them. This
  is what makes the predicate of `waitForDrain()`, a comparison of two numbers,
  say something about who is inside. It needs cardinality lemmas of the library.
- `RetiredForGood`: what is drained, or was, accepts no visit.
- `LookupStillValid`: an entry found by a lookup is still its key's, or accepts
  no visit. This carries `EntersCurrent` across the gap between the two locks.
- `OneDrainer`: an entry is drained by one call.

`NextIInv` has a lemma for each action (`SetStep`, `EraseStep`, `LookupStep`,
`BeginStep`, `EndStep`, `DrainStep`, `WakeStep`), which rest on what pushing and
popping a call does to the stacks.

`LibraryProofs`, first part, `RealtimeHandoff` under `HandoffAssumption` (at least two slots, a default
item): `TypeCorrect`, `RaceFree`, `Implements`. The invariant is an order on the
ring: going round from the producer's view of `readIndex` one meets `readIndex`,
the consumer's view of `writeIndex`, and `writeIndex`, within one round
(`RingOrder`); with it go `ProducerHasRoom` and `ConsumerHasItem`, what each side
has seen before it touches a slot. Distances on the ring are handled by the
lemmas `DistType`, `DistStep` and `DistSplit`. `Implements` maps a publication to
a `Push`, the end of a pop to a `Pop`, and every other step to a stutter.

`GainBridgeProofs`, under `BridgeAssumption` (more slots than parameters that
have a gesture): `TypeCorrect`, `EndsAreNeverRefused`, `GesturesAreReplayed`.
`MainHasRoom` says that there is a free slot for the end of each open gesture, and
that a command between its check and its publication would still pass the check:
`drain()` only makes room. `WellReplayed` says of every position of the queue
that the command there fits what is open once the ones before it are replayed,
beginning with what the host has (`Opens`, over the positions `Gestures`). A
push lengthens that interval and a pop shortens it at the other end, which is
what the lemmas about `Opens` are for; the property itself only speaks of the
whole queue.

`GainPluginProofs`, under `StateAssumption` and `MeterAssumption` (any even
modulus that at most half as many publications reach, since a reader that sleeps
through a whole round of the sequence number cannot tell): `PluginRunsItsParts`,
`TypeCorrect`, `MeterReadsAreLinearizable`, `LoadsSurviveBlocks`. The first is
the composition: a step of the plug-in is a step of its state, of its meter, of
both or of neither, so that the other theorems are proved about the parts. For the
meter, `WriterIsInOrder` ties the peaks and the number to the step the writer is
at, and `ReaderHoldsOne` says that what the reader has is of one publication *as
long as the number it began with is still there*. For the state, `Revisions`
and `PendingIsWhole` say that a revision that has landed brings the values it
announces, `AppliedIsLoaded` that the mark of the processor is true,
`OneRevision` which revision a block has seen that overlaps one load or none, and
`SnapshotsAreNew`, once the block has stored them, that a snapshot and every store
on its way to it are new, unless a `Restore` or a store of the load is still to
come.

`PolysynthStateProofs`, under `StateAssumption` (at least one release time; a read
of the host snapshot is overtaken `MaxLaps` times at most, and its sequence number
tells one more apart, as 2^32 values do in the code): `TypeCorrect`,
`SavesAreCurrent`, `WholeStatesAreApplied`, `TailCoversSound`,
`LoadedTailsAreReported`. The release times may be infinitely many: that a
maximum exists (`LongestIsBound`) comes from `Inactive`, which bounds those of
the voices. The invariant follows the two snapshots around:

- `PendingIsWhole`: the sequence number of the pending snapshot and the step of
  the load tell exactly what is in it; `ReplayIsWhole`: what the audio thread read
  of it is still in it if the number is. The case that needs both is a load whose
  snapshot is written and whose revision is not announced: the audio thread may
  replay it under the revision before, which is why `AppliesWholeState` excepts
  that step, and why `EngineIsNew` is an inequality.
- `HostIsWritten`, `ReadIsWhole`: the same for the host snapshot and
  `state.save()`, where `Distance` counts how far its number has come since the
  read began, modulo `HostModulus`.
- `Revisions`: published, applied and loaded revision follow each other.
  `EngineIsNew` and `HostIsNew` say what an equal revision is worth; without them
  `SaveIsCurrent` does not know that a save after a load sees the load.
- `HostIsEngine`, `EngineIsCovered`: at which steps the host snapshot is the
  engine's and the tail covers it; in a flush they hold between events, in a block
  only at its end, and not after one that failed.
- `LoadIsCovered`: who keeps the tail of a load until the engine has it.

`VoicesProofs`, under `VoicesAssumption` (more serials than voices, and a key that
stands for any): `TypeCorrect`, `TheLayersAgree`, `NotesEndOnce`,
`ProxyCountsVoices`, `DeferredOffsAreApplied`, `TheOldestIsStolen`. `Layers` is
`LayersAgree` with what the layers keep besides: a voice that is free is blank
everywhere, and one that sounds has time left or waits for the next block
(`DeferredWait`). `Ordered` says that serials and generations order the voices in
use alike, also after a renumbering. `OwedAreSounding` and
`CountedAreActive` relate the history and the proxy to cardinalities of sets of
voices; the second needs `NotesAreBounded` and the notes a block still has, since
the proxy counts before the voices do. It is two inequalities: the proxy counts
no more than there is to count, and falls short by `uncounted` at most, so that
without MIDI notes the count is exact.

`LibraryProofs`, second part, `ClapWebviewGui` under the `BridgeAssumption` of the bridge (messages have
a size, the bounds are numbers) and `ClapAssumption` (the default size fits, a
message of the page's script is not the call that says it is ready):
`QueueIsAccounted`, `DispatchIsInOrder`, `PageIsAlwaysFound`, `ShownAtReportedSize`,
of the composition. `OutgoingInOrder` takes the scripts in flight and the queue
as one sequence: its numbers increase, and the page has dispatched smaller ones
only. `BytesAppend` says that a message appended to a sequence adds its size to
`FoldLeft`; it is proved by induction over positions (`InductiveSet`, from the
well-foundedness of the natural numbers), because the library's induction
theorems take an operator that the installed provers cannot instantiate.

`ParameterVoicesProofs`, under `ParameterVoicesAssumption` (at least one voice, a
slot of a cache for each, keys that are none of the special addresses):
`TypeCorrect`, `VoicesAlwaysFollow`, `NotesHearWhatIsSent`, `MidiNotesFollow`,
`RefusedOnlyForRoom`. The invariant says more than the properties in three ways:

- `Follows` is said of what the adapter works on, at any point *within* an event,
  and of all that a voice has: every control, the brightness, and the coefficients
  and the sweep, which must be those of the controls. `VoicesFollowSources` speaks
  of what sounds between events only; it would not survive a `NOTE_ON` that sets
  six parameters one after the other (`SetAll`).
- `Remembers` ties the caches to what was sent: at the time of the block each
  cache has one slot for each address it was sent to, the slot has the value sent
  last, and the slots are in the order of the *first* messages (`Recalls`). The
  order matters because the last slot that matches a note wins, and it is not the
  order of the last messages. `NotesHearTheirTime` is what `PendingFor` makes of
  it, and `RefusedOnlyWhenFull` follows because a full cache then has as many
  addresses as slots.
- `ChannelIsTold`: as long as only MIDI sends, the last message of a kind to the
  channel is what its controllers say. `emitMidiChannelStateForNoteOn()` sends
  them to the key again, but a slot for that key may be older than one for the
  channel, which then wins: both have to hold the same.

An event of MIDI is a list of expressions, so that `ExpressAll` is a recursive
function; what it keeps is proved by induction over the beginnings of the list
(`InductiveSet`, as below). A refused expression ends the list, which is why each
lemma about an event has an outcome (`Outcome`): all of the list is recorded, or a
cache is full and the block has failed.

`PresetBrowserProofs`, under the assumptions of its three modules (this browser is
one of the processes, this plug-in one of those that write, the factory presets
are states): `SavedPresetsAreWhole`, `SavedPresetsAreDurable`,
`CurrentPresetIsListed`, `BrowserIsTruthful`, `NothingIsClobbered`. For the
directory: every file of it and of the disk is flushed, and whole or copied there
(`FilesAreSound`), the temporary file of a save is flushed and whole before it is
linked (`CallsAreSound`), and what was promised is on disk as well as in the
directory (`PromisesAreKept`); that what is serialised can be parsed is a lemma
about the codec. For the browser `Truthful` is split by where a command is:
outside of a command `ShownIsPlayed`, while one marks what it has loaded or saved
`MarkedIsPlayed`, while one is answered `FinishIsPlayed`, with `NotedIsLate` for
the edits in between.

`DirectoryIsFolder` states the refinement, `Spec => IsFolder`, step by step
(`CommitSaves`, `RemovalRemoves`, `SavingAsks`, `CallsOfAFolder`, `LossUndoes`;
everything else stutters). It needs to know what the browser asks its storage for:
`FolderIInv` adds to the invariant that the states which are captured are states
of the plug-in, through edits, blocks and loads (`StatesAreSound`), that the names
the page sends back are names of files, because they were listed or are those of
the current preset, which is an entry (`NamesAreSound`), and that a temporary file
holds a captured state (`SavesAreCaptured`). No listed run has `IsFolder` as a
property: TLC found it to hold in all 3,719,411 states of the `PresetBrowser`
instance, where checking it triples the time of that run.

Only model-checked: all liveness (`DrainReturns`, `HeadIsPopped`, `LastIsShown`,
`Delivered`, both `Settles`, `KeptIsDispatched`, `DevicesAreShown`,
`ReleaseEnds`), which is out of the prover's reach because it needs fairness and
`ENABLED`. `PolysynthTelemetry` has only the property it violates.

## 7. Findings

- `GainBridgeActiveFlush`: `reschedulePendingIfInactive()` asks for nothing while
  the plug-in is active, because, its comment says, the next process block is
  the retry point. A host may flush a plug-in that is active and not
  processing; if it refuses the event then, the command stays in the queue with
  no call on its way. `GainBridge` checks `Delivered` for hosts that do not do
  this (`ActiveFlush = FALSE`).
- `PolysynthFailedBlock`: `process()` returns `CLAP_PROCESS_ERROR` before
  `syncTailFromEngine()` when the host refuses a `NOTE_END`, after the engine has
  run. Until the next good block `tail.get()` may report less than the release
  of a voice that sounds, which `examples/README.md` says it never does.
  `PolysynthState` checks the same (`TailCovers`) as long as no block failed.
- `PolysynthTelemetry`: `sendUiSnapshot()` copies the records of the ring and
  reads the drop count after that. If the audio thread pushes a record and loses
  another one in between, the batch goes out with the new count: the page starts
  over, and takes the record of that gap from the next batch for news, although
  the lost one may have ended what it shows. Reading the count before copying
  repairs it: with `ReadDropped` before `CopyPending` the same instance satisfies
  `ShowsNothingStale` in all of its 37,583,646 states.

Behaviour that is by design, or that no doc promises otherwise, and worth knowing:

- `OwnerPinned` lets a callback that unregisters itself go on: its own thread is
  not waited for.
- Two Gain loads in one block may leave the snapshots at the earlier one until
  the next good block, which is why `LoadSurvivesBlock` speaks of one. A
  `state.save()` while a block ends may return the values from before a load.
- One load may be undone in the same way, on a machine whose stores land late:
  the block stores the snapshots relaxed (`gain_plugin.cpp:846-848`) and looks at
  the revision a second time (`:867`) with nothing in between that orders them,
  and the load's own stores to the snapshots may land before its revision
  (`:629-631`). What `state.save()` returns is then of before the load until the
  next good block ends, and the processor has the load all the time.
  `LoadSurvivesBlock` excepts these two orders, which `overlapping` marks;
  `Settles`, the repair by the next good block, has no exception.
- The count of voices in the WCLAP proxy of PolySynth is short by the MIDI notes:
  `observeInput()` counts `CLAP_EVENT_NOTE_ON` only
  (`polysynth_wclap_proxy.h:513-520`), the scheduler makes voices of MIDI notes
  too, and their `NOTE_END`s are counted down (`:562-570`). `VoicesAreCounted`
  says that it is never too high, and short by no more than the MIDI notes since
  no voice sounded. `WCLAP.md:103` speaks of an active voice count and does not
  say of which notes.
- The standalone device bridge sends nothing when a function of the extension is
  missing or the configuration cannot be read
  (`standalone_device_bridge.h:65-77`, `:89-90`, `:171-174`, `:268-270`), and
  hands the call to the plug-in when `send()` refuses the snapshot (`:275`,
  `clap-webview-gui.h:195-202`). The page keeps what it shows, which may not be
  what the host has after a choice: `DevicesAreShown` is for calls that are
  answered.
- `Reset` of the voices sends no `NOTE_END`s. Notes counted in a block that fails
  before it reaches them stay counted by the proxy until a reset.
- An expression that is refused because its cache is full fails the block, and
  leaves the source changed and the voices not, until their next `NOTE_ON`
  (`spoiled`). Of two expressions for one address at one time the second keeps
  the place of the first, so that one for another address in between wins.
- A size a native view refuses while it is embedded leaves it embedded, and the
  host is told that embedding failed.
- `Truthful` lists the edits the browser does not see: what waits or is in a
  block when a preset is loaded or saved, and what is noted while a command is
  answered, whose end clears the flag. A load of a preset that is no longer an
  entry is applied and not shown.
- Gain's browser applies documents with settings, which a host's preset load
  refuses. A damaged preset that is listed stops "next": it fails to load each
  time, and the current preset stays the one before it.
- Flushing the directory may fail without the save being reported as failed;
  `SavedIsDurable` excepts such a save.

## 8. Not modelled

- Memory order, in part. `RealtimeHandoff` has stale acquire loads, `GainState`
  stores that land late and in any order the code leaves open; its loads are
  taken in program order, but for the two pending values, and the stores of a
  load have landed before the next load. All other atomics interleave as if they
  were sequentially consistent, which those of `GainMeter` are. In PolySynth some
  are not: a relaxed load of data before the acquire load that validates it may
  be satisfied late on a weakly ordered machine.
- Two callbacks that erase each other's keys, a callback that never returns; two
  helpers with one plug-in pointer.
- What a page loses that reloads: `bridgeReady` is never reset, and
  `KeptIsDispatched` speaks of a page that stays.
- Encodings of messages and states (CBOR, base64, CLAP streams), token and origin
  checks, resource lookup: sequential functions on strings and buffers. Of JSON
  `PresetCodec` keeps what the parsers look at.
- Signal processing, and of an envelope everything but the time it is released.
- `ClapWebviewGui`: show, hide, scale, resize hints, floating windows, calls on a
  wrong thread, a wrapped plug-in whose `init` fails, `helpers.h`.
- `ParameterVoices`: the master gain, the envelope parameters, and events the
  engine ignores; other channels than one.
- Presets: names, tags and filters; symbolic links and the names of temporaries;
  the steps on Windows; the discovery factory and the WASI catalogue; the size
  limits of a message to the page (more than 256 entries or 32 tags make every
  snapshot fail); the closing and reopening of the page; a full queue of edits,
  and of the edits of one parameter that wait, all but the last.
- The queue of editor parameters in the WCLAP proxy, and the forwarding of
  extensions by both proxies.
- Platform runtimes: the reference-counted event loops and the windows belong to
  the operating system's libraries; item 7 of the plan.
- Editor pages but for PolySynth's telemetry, build and continuous integration.
