------------------------- MODULE PolysynthTelemetry -------------------------
(***************************************************************************)
(* The notes and modulations that PolySynth's editor shows.  The WCLAP     *)
(* proxy around the plug-in pushes a record of each note and modulation    *)
(* that goes into a block and of each NOTE_END that comes out of it, and   *)
(* of each reset, into a ring of one producer and one consumer; a record   *)
(* that finds the ring full is dropped and counted.  The main thread       *)
(* copies the records, sends them with the count, and takes them off the   *)
(* ring once they are sent.  The page (modulation_state.js) replays them,  *)
(* and starts over when the count has changed.                             *)
(*                                                                         *)
(* All the input of a block is observed before its first NOTE_END.  The    *)
(* engine is external: it ends any note it was given, when it likes.  One  *)
(* parameter is modulated; a note has an identity of its own or is         *)
(* "anonymous", by channel and key only, as every other note of that key.  *)
(***************************************************************************)
EXTENDS Naturals, SequencesExt

CONSTANTS
  Notes,       \* the identities of notes
  Anonymous,   \* those without a note id
  MaxPending,  \* kMaximumPending
  MaxAmount,   \* the amounts of modulation are 0 .. MaxAmount
  MaxEvents,   \* bound on the notes and modulations of the host
  MaxResets,   \* bound on activations, deactivations and resets
  MaxReopens   \* bound on pages after the first

VARIABLES
  producer, \* where the producer is; whether it has found the ring full and is to
            \*   count a drop; hasPublishedState_
  sounding, \* external: how many notes of each identity the engine is to end
  queue,    \* the ring: records, each with the true view after it (history)
  dropped,  \* droppedCount_
  truth,    \* history: the view of a page that misses no record
  sender,   \* sendUiSnapshot(): where it is, the records copied, the count read
  page,     \* the view of the page, the count it knows, and the true view after
            \*   the last record it was sent (history)
  spent     \* history: events, resets and reopens so far

vars == <<producer, sounding, queue, dropped, truth, sender, page, spent>>

-----------------------------------------------------------------------------
(* modulation_state.js: what the page makes of the records. *)

Addresses == {"global", "channel"} \cup Notes

Matches(note, address) == address = "channel" \/ address = note

NothingShown == [active |-> [n \in Notes |-> 0], current |-> [a \in Addresses |-> 0]]

Addressed(active, a) == a = "global" \/ \E n \in Notes : active[n] > 0 /\ Matches(n, a)

ShowNote(view, n) ==
  [view EXCEPT !.active[n] = IF n \in Anonymous THEN @ + 1 ELSE 1]

\* The modulations of notes that are all gone go with them.
EndNote(view, n) ==
  LET active == [view.active EXCEPT ![n] = IF @ > 1 THEN @ - 1 ELSE 0]
  IN [active |-> active,
      current |-> [a \in Addresses |-> IF Addressed(active, a) THEN view.current[a] ELSE 0]]

ShowModulation(view, a, amount) ==
  IF amount = 0 \/ Addressed(view.active, a)
    THEN [view EXCEPT !.current[a] = amount]
    ELSE view

NoteOn(n) == [kind |-> "on", note |-> n]
NoteEnd(n) == [kind |-> "end", note |-> n]
Modulation(a, amount) == [kind |-> "modulation", address |-> a, amount |-> amount]
ResetRecord == [kind |-> "reset"]

Replay(view, event) ==
  CASE event.kind = "on" -> ShowNote(view, event.note)
    [] event.kind = "end" -> EndNote(view, event.note)
    [] event.kind = "modulation" -> ShowModulation(view, event.address, event.amount)
    [] event.kind = "reset" -> NothingShown

Replayed(view, batch) == FoldLeft(LAMBDA v, record : Replay(v, record.event), view, batch)

\* Records that come with a changed count are not replayed: the lost one may have ended them.
Applied(batch, count) ==
  IF count # page.dropped THEN NothingShown ELSE Replayed(page.view, batch)

-----------------------------------------------------------------------------
NotSending == [pc |-> "idle", batch |-> <<>>, count |-> 0]

NewPage == [view |-> NothingShown, dropped |-> 0, asOf |-> NothingShown]

Init ==
  /\ producer = [pc |-> "idle", dropping |-> FALSE, published |-> FALSE]
  /\ sounding = [n \in Notes |-> 0]
  /\ queue = <<>> /\ dropped = 0
  /\ truth = NothingShown
  /\ sender = NotSending
  /\ page = NewPage
  /\ spent = [events |-> 0, resets |-> 0, reopens |-> 0]

At(pc) == producer.pc = pc /\ ~producer.dropping

Spend(what, bound) == spent[what] < bound /\ spent' = [spent EXCEPT ![what] = @ + 1]

UnchangedConsumer == UNCHANGED <<sender, page>>

(***************************************************************************)
(* push().  A full ring is counted in a step of its own, when the consumer *)
(* may have made room.                                                     *)
(***************************************************************************)
Push(event) ==
  LET view == Replay(truth, event)
      full == Len(queue) = MaxPending
  IN /\ truth' = view
     /\ queue' = IF full THEN queue ELSE Append(queue, [event |-> event, truth |-> view])
     /\ producer' = [producer EXCEPT !.dropping = full, !.published = @ \/ ~full]

CountDrop ==
  /\ producer.dropping
  /\ dropped' = dropped + 1
  /\ producer' = [producer EXCEPT !.dropping = FALSE]
  /\ UnchangedConsumer
  /\ UNCHANGED <<sounding, queue, truth, spent>>

-----------------------------------------------------------------------------
(* proxyProcess() and paramsFlush(). *)

\* observeInput(), the plug-in's process(), its return.
Goes(from, to) ==
  /\ At(from)
  /\ producer' = [producer EXCEPT !.pc = to]
  /\ UnchangedConsumer
  /\ UNCHANGED <<sounding, queue, dropped, truth, spent>>

ObserveNoteOn(n) ==
  /\ At("observe")
  /\ Spend("events", MaxEvents)
  /\ sounding' = [sounding EXCEPT ![n] = @ + 1]
  /\ Push(NoteOn(n))
  /\ UnchangedConsumer
  /\ UNCHANGED dropped

ObserveModulation(a, amount) ==
  /\ At("observe")
  /\ Spend("events", MaxEvents)
  /\ Push(Modulation(a, amount))
  /\ UnchangedConsumer
  /\ UNCHANGED <<sounding, dropped>>

ObserveNoteEnd(n) ==
  /\ At("run")
  /\ sounding[n] > 0
  /\ sounding' = [sounding EXCEPT ![n] = @ - 1]
  /\ Push(NoteEnd(n))
  /\ UnchangedConsumer
  /\ UNCHANGED <<dropped, spent>>

\* Of proxyActivate(), proxyDeactivate() and proxyReset(), which have silenced the voices.
ResetTelemetry ==
  /\ At("idle")
  /\ Spend("resets", MaxResets)
  /\ sounding' = [n \in Notes |-> 0]
  /\ IF producer.published THEN Push(ResetRecord) ELSE UNCHANGED <<producer, queue, truth>>
  /\ UnchangedConsumer
  /\ UNCHANGED dropped

-----------------------------------------------------------------------------
(* sendUiSnapshot(), which the page asks for every 50 ms. *)

UnchangedProducer == UNCHANGED <<producer, sounding, dropped, truth>>

CopyPending ==
  /\ sender.pc = "idle"
  /\ sender' = [sender EXCEPT !.pc = "count", !.batch = queue]
  /\ UnchangedProducer
  /\ UNCHANGED <<queue, page, spent>>

ReadDropped ==
  /\ sender.pc = "count"
  /\ sender' = [sender EXCEPT !.pc = "send", !.count = dropped]
  /\ UnchangedProducer
  /\ UNCHANGED <<queue, page, spent>>

SendBatch ==
  /\ sender.pc = "send"
  /\ page' = [view |-> Applied(sender.batch, sender.count), dropped |-> sender.count,
              asOf |-> IF sender.batch = <<>> THEN page.asOf ELSE Last(sender.batch).truth]
  /\ sender' = [sender EXCEPT !.pc = "consume"]
  /\ UnchangedProducer
  /\ UNCHANGED <<queue, spent>>

SendFails ==
  /\ sender.pc = "send"
  /\ sender' = NotSending
  /\ UnchangedProducer
  /\ UNCHANGED <<queue, page, spent>>

Consume ==
  /\ sender.pc = "consume"
  /\ queue' = SubSeq(queue, Len(sender.batch) + 1, Len(queue))
  /\ sender' = NotSending
  /\ UnchangedProducer
  /\ UNCHANGED <<page, spent>>

\* The editor is closed and opened again, or its page reloads.
ReopenPage ==
  /\ sender.pc = "idle"
  /\ Spend("reopens", MaxReopens)
  /\ page' = NewPage
  /\ UnchangedProducer
  /\ UNCHANGED <<queue, sender>>

-----------------------------------------------------------------------------
Next ==
  \/ Goes("idle", "observe") \/ Goes("observe", "run") \/ Goes("run", "idle")
  \/ \E n \in Notes : ObserveNoteOn(n) \/ ObserveNoteEnd(n)
  \/ \E a \in Addresses, amount \in 0 .. MaxAmount : ObserveModulation(a, amount)
  \/ ResetTelemetry \/ CountDrop
  \/ CopyPending \/ ReadDropped \/ SendBatch \/ SendFails \/ Consume \/ ReopenPage

Spec == Init /\ [][Next]_vars

-----------------------------------------------------------------------------
(***************************************************************************)
(* A page that knows of every drop shows no note that had ended and no     *)
(* amount that had been replaced when its last record was made, whatever   *)
(* was dropped, sent late or missed by a new page; it may show less.  So   *)
(* say the comments of push() (the drop counter "tells the UI to           *)
(* invalidate any coalesced current-state view instead of displaying stale *)
(* data") and of modulation_state.js.  But the records pushed after        *)
(* copyPending() and before a drop that droppedCount() already counts come *)
(* with the next batch, whose count has not changed, and are replayed.     *)
(***************************************************************************)
ShowsNothingStale ==
  page.dropped = dropped /\ ~producer.dropping =>
    /\ \A n \in Notes : page.view.active[n] <= page.asOf.active[n]
    /\ \A a \in Addresses : page.view.current[a] \in {0, page.asOf.current[a]}

=============================================================================
