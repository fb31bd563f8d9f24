---------------------------- MODULE GainBridge -----------------------------
(***************************************************************************)
(* GainWebviewParameterBridge: the queue that carries the parameter edits  *)
(* of the Gain editor to the host, and its part in GainPlugin.             *)
(*                                                                         *)
(* The main thread runs receive(), guiDestroy() (with closeOpenGestures()) *)
(* and setActive().  drain() runs inside process() or paramsFlush(): on    *)
(* the audio thread while the plug-in is active, else on the main thread.  *)
(* The host takes an output event or refuses it, and is woken by           *)
(* request_process() and request_flush().  The value of a parameter is     *)
(* left out: what a command carries is its kind and its parameter.         *)
(***************************************************************************)
EXTENDS Naturals, FiniteSets

CONSTANTS
  Params,      \* the parameters that have a gesture: gain and bypass
  Capacity,    \* kQueueCapacity, 32 in the code
  ActiveFlush, \* TRUE: the host also flushes a plug-in that is active but not processing
  NoCommand    \* what a slot holds before its first and after its last use

ASSUME BridgeAssumption ==
  /\ Capacity \in Nat /\ Capacity > Cardinality(Params)
  /\ IsFiniteSet(Params)
  /\ ActiveFlush \in BOOLEAN

VARIABLES
  commands, writeIndex, readIndex, \* the ring; readIndex is the consumer's
  gestureOpen,      \* gainGestureOpen_, bypassGestureOpen_: the open ones
  guiCreated, active,
  main,             \* what the main thread is doing
  drain,            \* what drain() is doing
  hostHasFlush,     \* resolveHostParams(): the host implements request_flush()
  processRequested, \* request_process() was called since the last process() began
  flushRequested,   \* request_flush() was called since the last flush or process() began
  processing,       \* the host has started processing
  hostGesture       \* history: the gestures the host has seen begin and not end

ring == <<commands, writeIndex, readIndex>>
host == <<processRequested, flushRequested>>
vars == <<commands, writeIndex, readIndex, gestureOpen, guiCreated, active, main, drain,
          hostHasFlush, processRequested, flushRequested, processing, hostGesture>>

Indices == 0 .. Capacity - 1
Command == [kind : {"begin", "value", "end"}, param : Params]
Slot == Command \cup {NoCommand}

(***************************************************************************)
(* "write": the command passed the checks; "publish": it is in its slot;   *)
(* "schedule": schedulePending() is due.  A call of closeOpenGestures() is *)
(* closing, with the gestures left to close and whether one was queued.    *)
(***************************************************************************)
MainState == [pc : {"idle", "write", "publish", "close", "schedule"}, command : Slot,
              closing : BOOLEAN, todo : SUBSET Params, queued : BOOLEAN]

Resting == [pc |-> "idle", command |-> NoCommand, closing |-> FALSE,
            todo |-> {}, queued |-> FALSE]

DrainState == [pc : {"idle", "peek", "emit", "pop"}, command : Slot]

NotDraining == [pc |-> "idle", command |-> NoCommand]

TypeOK ==
  /\ commands \in [Indices -> Slot]
  /\ writeIndex \in Indices /\ readIndex \in Indices
  /\ gestureOpen \subseteq Params
  /\ guiCreated \in BOOLEAN /\ active \in BOOLEAN
  /\ main \in MainState
  /\ drain \in DrainState
  /\ hostHasFlush \in BOOLEAN
  /\ processRequested \in BOOLEAN /\ flushRequested \in BOOLEAN
  /\ processing \in BOOLEAN
  /\ hostGesture \subseteq Params

Init ==
  /\ commands = [i \in Indices |-> NoCommand]
  /\ writeIndex = 0 /\ readIndex = 0
  /\ gestureOpen = {}
  /\ guiCreated = FALSE /\ active = FALSE
  /\ main = Resting /\ drain = NotDraining
  /\ hostHasFlush \in BOOLEAN
  /\ processRequested = FALSE /\ flushRequested = FALSE
  /\ processing = FALSE
  /\ hostGesture = {}

-----------------------------------------------------------------------------
(* The ring. *)

Increment(i) == (i + 1) % Capacity

Used == IF writeIndex >= readIndex THEN writeIndex - readIndex
        ELSE Capacity - (readIndex - writeIndex)

FreeSlots == (Capacity - 1) - Used

HasPending == readIndex # writeIndex

\* The order of the slots, from the oldest command on.
Position(k) == (readIndex + k) % Capacity

\* Mutant of ReservedAfter: no slot is kept for the ends of open gestures.
ReservesNothing(c) == 0

(***************************************************************************)
(* Whether pushPreservingGestureClosure() lets a command pass: each        *)
(* gesture left open keeps a slot for its end.                             *)
(***************************************************************************)
ReservedAfter(c) ==
  CASE c.kind = "begin" -> Cardinality(gestureOpen) + 1
    [] c.kind = "end"   -> Cardinality(gestureOpen) - 1
    [] c.kind = "value" -> Cardinality(gestureOpen)

\* Mutant of Accepts: whether the gesture is open is not asked.
AcceptsAnyGesture(c) == FreeSlots >= ReservedAfter(c) + 1

Accepts(c) ==
  /\ c.kind = "begin" => c.param \notin gestureOpen
  /\ c.kind = "end" => c.param \in gestureOpen
  /\ FreeSlots >= ReservedAfter(c) + 1

\* schedulePending(): whom it wakes.
Schedule ==
  IF ~active /\ hostHasFlush
    THEN flushRequested' = TRUE /\ UNCHANGED processRequested
    ELSE processRequested' = TRUE /\ UNCHANGED flushRequested

-----------------------------------------------------------------------------
(* The main thread.  While the plug-in is inactive, drain() is on it too. *)

MainFree == main.pc = "idle" /\ (active \/ drain.pc = "idle")

UnchangedDrain == UNCHANGED <<readIndex, drain, hostGesture, processing, hostHasFlush>>

CreateGui ==
  /\ MainFree
  /\ ~guiCreated
  /\ guiCreated' = TRUE
  /\ UNCHANGED <<commands, writeIndex, gestureOpen, active, main, host>>
  /\ UnchangedDrain

\* receive() of a valid message; one that is refused changes nothing.
Receive(c) ==
  /\ MainFree
  /\ guiCreated
  /\ Accepts(c)
  /\ main' = [main EXCEPT !.pc = "write", !.command = c]
  /\ UNCHANGED <<commands, writeIndex, gestureOpen, guiCreated, active, host>>
  /\ UnchangedDrain

\* What follows a command: another end to queue, or the wake-up.
AfterPush(m) == [m EXCEPT !.pc = IF m.closing THEN "close" ELSE "schedule",
                          !.command = NoCommand, !.queued = TRUE]

\* push() looks at the reader's index once more before it writes the slot.
PushWrite ==
  /\ main.pc = "write"
  /\ IF Increment(writeIndex) # readIndex
       THEN /\ commands' = [commands EXCEPT ![writeIndex] = main.command]
            /\ main' = [main EXCEPT !.pc = "publish"]
       ELSE /\ main' = IF main.closing THEN [main EXCEPT !.pc = "close"] ELSE Resting
            /\ UNCHANGED commands
  /\ UNCHANGED <<writeIndex, gestureOpen, guiCreated, active, host>>
  /\ UnchangedDrain

PushPublish ==
  /\ main.pc = "publish"
  /\ writeIndex' = Increment(writeIndex)
  /\ gestureOpen' = CASE main.command.kind = "begin" -> gestureOpen \cup {main.command.param}
                      [] main.command.kind = "end"   -> gestureOpen \ {main.command.param}
                      [] OTHER                       -> gestureOpen
  /\ main' = AfterPush(main)
  /\ UNCHANGED <<commands, guiCreated, active, host>>
  /\ UnchangedDrain

\* The end of receive(), or of closeOpenGestures() and with it of guiDestroy().
SchedulePending ==
  /\ main.pc = "schedule" \/ (main.pc = "close" /\ main.todo = {})
  /\ IF main.queued THEN Schedule ELSE UNCHANGED host
  /\ guiCreated' = (guiCreated /\ ~main.closing)
  /\ main' = Resting
  /\ UNCHANGED <<commands, writeIndex, gestureOpen, active>>
  /\ UnchangedDrain

DestroyGui ==
  /\ MainFree
  /\ guiCreated
  /\ main' = [Resting EXCEPT !.pc = "close", !.closing = TRUE, !.todo = gestureOpen]
  /\ UNCHANGED <<commands, writeIndex, gestureOpen, guiCreated, active, host>>
  /\ UnchangedDrain

EndOf(p) == [kind |-> "end", param |-> p]

\* closeOpenGestures(): queueGestureEnd() for each open gesture, in any order.
CloseGesture ==
  /\ main.pc = "close"
  /\ \E p \in main.todo :
       LET rest == [main EXCEPT !.todo = @ \ {p}]
       IN main' = IF Accepts(EndOf(p))
                    THEN [rest EXCEPT !.pc = "write", !.command = EndOf(p)]
                    ELSE rest
  /\ UNCHANGED <<commands, writeIndex, gestureOpen, guiCreated, active, host>>
  /\ UnchangedDrain

Activate ==
  /\ MainFree
  /\ ~active
  /\ active' = TRUE
  /\ UNCHANGED <<commands, writeIndex, gestureOpen, guiCreated, main, host>>
  /\ UnchangedDrain

\* Mutant of Deactivate: setActive(FALSE) asks for nothing.
DeactivateSilently ==
  /\ MainFree
  /\ active /\ drain.pc = "idle"
  /\ active' = FALSE
  /\ processing' = FALSE
  /\ UNCHANGED <<commands, writeIndex, readIndex, gestureOpen, guiCreated, main, drain,
                 host, hostHasFlush, hostGesture>>

\* The host has stopped processing first.  setActive(FALSE) asks for a flush.
Deactivate ==
  /\ MainFree
  /\ active /\ drain.pc = "idle"
  /\ active' = FALSE
  /\ processing' = FALSE
  /\ IF ~HasPending THEN UNCHANGED host
     ELSE IF hostHasFlush THEN flushRequested' = TRUE /\ UNCHANGED processRequested
     ELSE processRequested' = TRUE /\ UNCHANGED flushRequested
  /\ UNCHANGED <<commands, writeIndex, readIndex, gestureOpen, guiCreated, main, drain,
                 hostHasFlush, hostGesture>>

-----------------------------------------------------------------------------
(* process() and paramsFlush(), and drain() inside them. *)

UnchangedMain == UNCHANGED <<writeIndex, gestureOpen, guiCreated, active, main, hostHasFlush>>

StartProcessing ==
  /\ active /\ ~processing
  /\ drain.pc = "idle"
  /\ processing' = TRUE
  /\ UNCHANGED <<commands, readIndex, host, drain, hostGesture>>
  /\ UnchangedMain

Process ==
  /\ active /\ processing
  /\ drain.pc = "idle"
  /\ drain' = [drain EXCEPT !.pc = "peek"]
  /\ processRequested' = FALSE /\ flushRequested' = FALSE
  /\ UNCHANGED <<commands, readIndex, processing, hostGesture>>
  /\ UnchangedMain

Flush ==
  /\ drain.pc = "idle"
  /\ IF active THEN ActiveFlush /\ ~processing ELSE main.pc = "idle"
  /\ drain' = [drain EXCEPT !.pc = "peek"]
  /\ flushRequested' = FALSE
  /\ UNCHANGED <<commands, readIndex, processRequested, processing, hostGesture>>
  /\ UnchangedMain

DrainPeek ==
  /\ drain.pc = "peek"
  /\ drain' = IF HasPending THEN [pc |-> "emit", command |-> commands[readIndex]]
              ELSE NotDraining
  /\ UNCHANGED <<commands, readIndex, host, processing, hostGesture>>
  /\ UnchangedMain

EmitAccepted ==
  /\ drain.pc = "emit"
  /\ drain' = [drain EXCEPT !.pc = "pop"]
  /\ hostGesture' = CASE drain.command.kind = "begin" -> hostGesture \cup {drain.command.param}
                      [] drain.command.kind = "end"   -> hostGesture \ {drain.command.param}
                      [] OTHER                        -> hostGesture
  /\ UNCHANGED <<commands, readIndex, host, processing>>
  /\ UnchangedMain

\* try_push() refuses the event: reschedulePendingIfInactive().
EmitRefused ==
  /\ drain.pc = "emit"
  /\ drain' = NotDraining
  /\ IF ~active /\ HasPending THEN Schedule ELSE UNCHANGED host
  /\ UNCHANGED <<commands, readIndex, processing, hostGesture>>
  /\ UnchangedMain

\* pop() frees the slot; NoCommand there would show a read of a freed slot.
DrainPop ==
  /\ drain.pc = "pop"
  /\ drain' = [pc |-> "peek", command |-> NoCommand]
  /\ commands' = [commands EXCEPT ![readIndex] = NoCommand]
  /\ readIndex' = Increment(readIndex)
  /\ UNCHANGED <<host, processing, hostGesture>>
  /\ UnchangedMain

-----------------------------------------------------------------------------
MainStep == PushWrite \/ PushPublish \/ CloseGesture \/ SchedulePending
DrainStep == DrainPeek \/ EmitAccepted \/ EmitRefused \/ DrainPop

Next ==
  \/ CreateGui \/ DestroyGui \/ Activate \/ Deactivate
  \/ \E c \in Command : Receive(c)
  \/ PushWrite \/ PushPublish \/ CloseGesture \/ SchedulePending
  \/ StartProcessing \/ Process \/ Flush
  \/ DrainPeek \/ EmitAccepted \/ EmitRefused \/ DrainPop

Spec == Init /\ [][Next]_vars

(***************************************************************************)
(* Each thread finishes the call it is in.  The host answers its requests: *)
(* it calls process() or a flush after request_flush(), it activates and   *)
(* processes after request_process(), and goes on processing after         *)
(* CLAP_PROCESS_CONTINUE; and it takes an event it is offered often enough.*)
(***************************************************************************)
Fairness ==
  /\ WF_vars(MainStep)
  /\ WF_vars(DrainStep)
  /\ SF_vars(EmitAccepted)
  /\ SF_vars(flushRequested /\ (Flush \/ Process))
  /\ SF_vars(processRequested /\ Activate)
  /\ SF_vars((processRequested \/ flushRequested) /\ StartProcessing)
  /\ SF_vars(Process)

FairSpec == Spec /\ Fairness

-----------------------------------------------------------------------------
Pending == 0 .. Used - 1
Queued(k) == commands[Position(k)]

\* Whether the host will have p's gesture open once it has taken k pending commands.
OpenAfter(p, k) ==
  LET gestures == {j \in 0 .. k - 1 : Queued(j).param = p /\ Queued(j).kind # "value"}
  IN IF gestures = {} THEN p \in hostGesture
     ELSE \E j \in gestures : /\ \A i \in gestures : i <= j
                              /\ Queued(j).kind = "begin"

(***************************************************************************)
(* The host sees well-formed gestures: taking the pending commands in      *)
(* order, it never sees a gesture begin twice or one end that is not open, *)
(* and it ends up with the gestures the editor holds open.  The command    *)
(* drain() has just given the host is already part of hostGesture.         *)
(***************************************************************************)
GesturesReplay ==
  drain.pc # "pop" =>
    /\ \A k \in Pending :
         /\ Queued(k) \in Command
         /\ Queued(k).kind = "begin" => ~OpenAfter(Queued(k).param, k)
         /\ Queued(k).kind = "end" => OpenAfter(Queued(k).param, k)
    /\ \A p \in Params : OpenAfter(p, Used) <=> p \in gestureOpen

(***************************************************************************)
(* A gesture that is open can always be ended, however full the queue is:  *)
(* receive() and closeOpenGestures() never refuse its end.                 *)
(***************************************************************************)
EndNeverRefused ==
  main.pc \in {"idle", "close"} => \A p \in gestureOpen : Accepts(EndOf(p))

(***************************************************************************)
(* Every queued command reaches the host, through refusals by the host,    *)
(* activation and deactivation: the oldest one is always taken eventually. *)
(***************************************************************************)
Delivered ==
  \A i \in Indices : HasPending /\ readIndex = i ~> readIndex # i

=============================================================================
