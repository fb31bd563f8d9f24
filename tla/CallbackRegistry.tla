-------------------------- MODULE CallbackRegistry --------------------------
(***************************************************************************)
(* webview_gui::detail::CallbackRegistry: the map through which a host     *)
(* callback finds the object registered for a plug-in pointer.             *)
(*                                                                         *)
(* visit() looks a registration up under entriesMutex, leaves that lock,   *)
(* and only then joins the registration as a visitor; set() and            *)
(* eraseIfMatches() retire a registration under entriesMutex and then wait *)
(* for its visitors.  A callback may itself call the registry, so each     *)
(* thread has a stack of calls.  Every critical section of the code is one *)
(* action: entriesMutex encloses Entry::mutex and never the other way, and *)
(* no callback runs under a lock.                                          *)
(***************************************************************************)
EXTENDS Naturals, FiniteSets

CONSTANTS
  Threads,       \* the threads that call the registry
  Keys,          \* plug-in pointers
  Values,        \* the objects registered (T*)
  Entries,       \* storage for Entry objects, reused once unreferenced
  MaxDepth,      \* bound on nested calls of one thread
  CrossKeyCalls, \* TRUE: a callback may also call set/erase/visit on other keys
  Null           \* no entry, no key, no value, no thread

ASSUME RegistryAssumption ==
  /\ MaxDepth \in Nat \ {0}
  /\ CrossKeyCalls \in BOOLEAN
  /\ Null \notin Threads \cup Keys \cup Values \cup Entries

VARIABLES
  registered,     \* entries: key -> Entry, or Null
  value,          \* Entry::value
  accepting,      \* Entry::accepting
  visitors,       \* Entry::visitors, a visitor being a thread and its stack level
  activeVisitors, \* Entry::activeVisitors
  depth,          \* number of calls on each thread's stack
  frame,          \* the calls on each thread's stack
  drainedBy       \* history: the thread whose set/erase returned after draining the entry

vars == <<registered, value, accepting, visitors, activeVisitors, depth, frame, drainedBy>>

Levels == 1 .. MaxDepth

(***************************************************************************)
(* A call in progress: visit() between its two locks ("begin"), visit()    *)
(* running the callback ("callback"), or set()/eraseIfMatches() in         *)
(* waitForDrain(), about to test its predicate ("drain") or blocked on the *)
(* condition variable ("asleep").                                          *)
(***************************************************************************)
Frame == [pc : {"idle", "begin", "callback", "drain", "asleep"},
          key : Keys \cup {Null}, entry : Entries \cup {Null}]

NoCall == [pc |-> "idle", key |-> Null, entry |-> Null]

TypeOK ==
  /\ registered \in [Keys -> Entries \cup {Null}]
  /\ value \in [Entries -> Values \cup {Null}]
  /\ accepting \in [Entries -> BOOLEAN]
  /\ visitors \in [Entries -> SUBSET (Threads \X Levels)]
  /\ activeVisitors \in [Entries -> Nat]
  /\ depth \in [Threads -> 0 .. MaxDepth]
  /\ frame \in [Threads -> [Levels -> Frame]]
  /\ drainedBy \in [Entries -> Threads \cup {Null}]

Init ==
  /\ registered = [k \in Keys |-> Null]
  /\ value = [e \in Entries |-> Null]
  /\ accepting = [e \in Entries |-> FALSE]
  /\ visitors = [e \in Entries |-> {}]
  /\ activeVisitors = [e \in Entries |-> 0]
  /\ depth = [t \in Threads |-> 0]
  /\ frame = [t \in Threads |-> [d \in Levels |-> NoCall]]
  /\ drainedBy = [e \in Entries |-> Null]

-----------------------------------------------------------------------------
(* The thread's innermost call, and what it may call next. *)

At(t, pc) == depth[t] > 0 /\ frame[t][depth[t]].pc = pc

MayCall(t, k) ==
  /\ depth[t] < MaxDepth
  /\ depth[t] > 0 => /\ At(t, "callback")
                     /\ CrossKeyCalls \/ frame[t][depth[t]].key = k

\* An Entry whose last shared_ptr is gone: its storage may be allocated again.
Unreferenced(e) ==
  /\ \A k \in Keys : registered[k] # e
  /\ \A t \in Threads, d \in Levels : frame[t][d].entry # e

Push(t, call) ==
  /\ depth' = [depth EXCEPT ![t] = @ + 1]
  /\ frame' = [frame EXCEPT ![t][depth[t] + 1] = call]

Pop(t) ==
  /\ depth' = [depth EXCEPT ![t] = @ - 1]
  /\ frame' = [frame EXCEPT ![t][depth[t]] = NoCall]

Visitor(t) == <<t, depth[t]>>

-----------------------------------------------------------------------------
(* set(key, value): retire the previous registration, insert the new one. *)

\* Mutant of NewEntry: set() forgets to retire the previous registration.
NewEntryKeepsPrevious(e, v, previous) ==
  /\ value' = [value EXCEPT ![e] = v]
  /\ accepting' = [accepting EXCEPT ![e] = TRUE]
  /\ visitors' = [visitors EXCEPT ![e] = {}]
  /\ activeVisitors' = [activeVisitors EXCEPT ![e] = 0]
  /\ drainedBy' = [drainedBy EXCEPT ![e] = Null]

NewEntry(e, v, previous) ==
  /\ value' = [value EXCEPT ![e] = v]
  /\ accepting' = [x \in Entries |-> IF x = e THEN TRUE
                                     ELSE accepting[x] /\ x # previous]
  /\ visitors' = [visitors EXCEPT ![e] = {}]
  /\ activeVisitors' = [activeVisitors EXCEPT ![e] = 0]
  /\ drainedBy' = [drainedBy EXCEPT ![e] = Null]

Set(t, k, v) ==
  /\ MayCall(t, k)
  /\ \E e \in Entries :
       /\ Unreferenced(e)
       /\ NewEntry(e, v, registered[k])
       /\ registered' = [registered EXCEPT ![k] = e]
  /\ IF registered[k] = Null
       THEN UNCHANGED <<depth, frame>>
       ELSE Push(t, [pc |-> "drain", key |-> k, entry |-> registered[k]])

(* visit(key, callback): the lookup, Entry::begin, Entry::end. *)

VisitLookup(t, k) ==
  /\ MayCall(t, k)
  /\ registered[k] # Null
  /\ Push(t, [pc |-> "begin", key |-> k, entry |-> registered[k]])
  /\ UNCHANGED <<registered, value, accepting, visitors, activeVisitors, drainedBy>>

\* Mutant of VisitBegin: Entry::begin() joins whatever the lookup found.
VisitBeginUnchecked(t) ==
  LET e == frame[t][depth[t]].entry IN
  /\ At(t, "begin")
  /\ visitors' = [visitors EXCEPT ![e] = @ \cup {Visitor(t)}]
  /\ activeVisitors' = [activeVisitors EXCEPT ![e] = @ + 1]
  /\ frame' = [frame EXCEPT ![t][depth[t]].pc = "callback"]
  /\ UNCHANGED <<registered, value, accepting, depth, drainedBy>>

VisitBegin(t) ==
  LET e == frame[t][depth[t]].entry IN
  /\ At(t, "begin")
  /\ IF accepting[e]
       THEN /\ visitors' = [visitors EXCEPT ![e] = @ \cup {Visitor(t)}]
            /\ activeVisitors' = [activeVisitors EXCEPT ![e] = @ + 1]
            /\ frame' = [frame EXCEPT ![t][depth[t]].pc = "callback"]
            /\ UNCHANGED depth
       ELSE Pop(t) /\ UNCHANGED <<visitors, activeVisitors>>
  /\ UNCHANGED <<registered, value, accepting, drainedBy>>

\* The drainers that drained.notify_all() wakes, once visit()'s own frame is gone.
Notified(t, e) ==
  [u \in Threads |-> [d \in Levels |->
     IF u = t /\ d = depth[t] THEN NoCall
     ELSE IF ~accepting[e] /\ frame[u][d].entry = e /\ frame[u][d].pc = "asleep"
       THEN [frame[u][d] EXCEPT !.pc = "drain"]
       ELSE frame[u][d]]]

VisitEnd(t) ==
  LET e == frame[t][depth[t]].entry IN
  /\ At(t, "callback")
  /\ visitors' = [visitors EXCEPT ![e] = @ \ {Visitor(t)}]
  /\ activeVisitors' = [activeVisitors EXCEPT ![e] = @ - 1]
  /\ depth' = [depth EXCEPT ![t] = @ - 1]
  /\ frame' = Notified(t, e)
  /\ UNCHANGED <<registered, value, accepting, drainedBy>>

(* eraseIfMatches(key, expected): a mismatch returns false and changes nothing. *)

EraseIfMatches(t, k, expected) ==
  LET removed == registered[k] IN
  /\ MayCall(t, k)
  /\ removed # Null
  /\ value[removed] = expected
  /\ accepting' = [accepting EXCEPT ![removed] = FALSE]
  /\ registered' = [registered EXCEPT ![k] = Null]
  /\ Push(t, [pc |-> "drain", key |-> k, entry |-> removed])
  /\ UNCHANGED <<value, visitors, activeVisitors, drainedBy>>

-----------------------------------------------------------------------------
(* waitForDrain(): the visits of the calling thread itself are not waited for. *)

OwnVisitors(t, e) == {w \in visitors[e] : w[1] = t}

\* Mutants of MayReturn: one visitor too many is let through; own visits are waited for.
MayReturnEarly(t, e) == activeVisitors[e] <= Cardinality(OwnVisitors(t, e)) + 1
MayReturnUnvisited(t, e) == activeVisitors[e] = 0

MayReturn(t, e) == activeVisitors[e] <= Cardinality(OwnVisitors(t, e))

DrainCheck(t) ==
  LET e == frame[t][depth[t]].entry IN
  /\ At(t, "drain")
  /\ IF MayReturn(t, e)
       THEN Pop(t) /\ drainedBy' = [drainedBy EXCEPT ![e] = t]
       ELSE /\ frame' = [frame EXCEPT ![t][depth[t]].pc = "asleep"]
            /\ UNCHANGED <<depth, drainedBy>>
  /\ UNCHANGED <<registered, value, accepting, visitors, activeVisitors>>

\* A condition variable may wake without a notification.
SpuriousWakeup(t) ==
  /\ At(t, "asleep")
  /\ frame' = [frame EXCEPT ![t][depth[t]].pc = "drain"]
  /\ UNCHANGED <<registered, value, accepting, visitors, activeVisitors, depth, drainedBy>>

-----------------------------------------------------------------------------
Step(t) ==
  \/ \E k \in Keys, v \in Values : Set(t, k, v) \/ EraseIfMatches(t, k, v)
  \/ \E k \in Keys : VisitLookup(t, k)
  \/ VisitBegin(t)
  \/ VisitEnd(t)
  \/ DrainCheck(t)
  \/ SpuriousWakeup(t)

Next == \E t \in Threads : Step(t)

Spec == Init /\ [][Next]_vars

(***************************************************************************)
(* A thread that is not blocked goes on, and a callback returns: it makes  *)
(* finitely many calls of its own (the clap.gui callbacks are straight-    *)
(* line code), so a callback that is again and again about to return does, *)
(* at every level of the stack.                                            *)
(***************************************************************************)
Fairness ==
  \A t \in Threads : /\ WF_vars(VisitBegin(t))
                     /\ WF_vars(DrainCheck(t))
                     /\ \A d \in Levels : SF_vars(VisitEnd(t) /\ depth[t] = d)

FairSpec == Spec /\ Fairness

-----------------------------------------------------------------------------
InCallback(t, d, e) == frame[t][d].pc = "callback" /\ frame[t][d].entry = e

Draining(t, d, e) == frame[t][d].pc \in {"drain", "asleep"} /\ frame[t][d].entry = e

(***************************************************************************)
(* Once set() has returned over a registration it replaced, or             *)
(* eraseIfMatches() has returned true, no other thread is inside a         *)
(* callback on that registration: the owner may destroy the object         *)
(* (core_tests.cpp, "keeps an owner pinned until an in-flight callback     *)
(* returns").                                                              *)
(***************************************************************************)
OwnerPinned ==
  \A e \in Entries, t \in Threads, d \in Levels :
    drainedBy[e] # Null /\ InCallback(t, d, e) => t = drainedBy[e]

(***************************************************************************)
(* The registrations that accept visits are exactly those in the map, and  *)
(* each stands for one key: nothing can join a registration on its way     *)
(* out, and nothing in the map turns visits away.                          *)
(***************************************************************************)
AcceptingIffRegistered ==
  /\ \A e \in Entries : accepting[e] <=> \E k \in Keys : registered[k] = e
  /\ \A k1, k2 \in Keys : registered[k1] = registered[k2] /\ registered[k1] # Null => k1 = k2

(***************************************************************************)
(* One thread drains a registration, and never one that can be joined: two *)
(* owners cannot both believe they retired it.                             *)
(***************************************************************************)
OneDrainer ==
  \A e \in Entries, t1, t2 \in Threads, d1, d2 \in Levels :
    Draining(t1, d1, e) /\ Draining(t2, d2, e) => t1 = t2 /\ d1 = d2

(***************************************************************************)
(* visit() enters the callback only on the registration its key has at     *)
(* that moment, although the lookup's lock was released before: a          *)
(* registration replaced or erased in between is refused by Entry::begin.  *)
(***************************************************************************)
EntersCurrentRegistration ==
  [][\A t \in Threads, d \in Levels :
       frame[t][d].pc = "begin" /\ frame'[t][d].pc = "callback"
         => registered[frame[t][d].key] = frame[t][d].entry]_vars

(***************************************************************************)
(* set() and eraseIfMatches() return, even when several callbacks on one   *)
(* key unregister or replace it at the same time: nobody waits for his own *)
(* visit and no wakeup is lost.                                            *)
(***************************************************************************)
DrainReturns ==
  \A t \in Threads, d \in Levels :
    frame[t][d].pc \in {"drain", "asleep"} ~> frame[t][d].pc = "idle"

=============================================================================
