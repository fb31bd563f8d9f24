--------------------------- MODULE WebviewBridge ---------------------------
(***************************************************************************)
(* The message bridge of WebviewGui on the desktop (choc.h): what the      *)
(* plug-in sends to its page waits in a bounded queue until the page has   *)
(* called _WebviewGui_ready, and what the page posts reaches the plug-in's *)
(* receive callback, which may send, or destroy the view, meanwhile.       *)
(*                                                                         *)
(* Native code runs on one GUI thread.  The page runs by itself: scripts   *)
(* for it and calls from it are in flight, each in order.  A message is    *)
(* its number, in the order of the calls of send(), and its encoded size.  *)
(* ClapWebviewGui composes these steps with those of the host.             *)
(***************************************************************************)
EXTENDS Naturals, SequencesExt

CONSTANTS
  Sizes,        \* the encoded sizes of messages
  MaxQueued,    \* maxPendingBridgeMessages, 64 in the code
  MaxBytes,     \* maxPendingBridgeEncodedBytes
  MaxMessages,  \* bound on the calls of send()
  MaxPosts,     \* bound on the posts of the page in flight
  MaxReloads,   \* bound on how often the page reloads itself
  MaxSessions,  \* bound on how often a view is created
  Posts         \* what the page posts with _WebviewGui_receive64

ASSUME BridgeAssumption ==
  /\ Sizes \subseteq Nat \ {0}
  /\ {MaxQueued, MaxBytes, MaxMessages, MaxPosts, MaxReloads, MaxSessions} \subseteq Nat
  /\ "ready" \notin Posts

VARIABLES
  alive,         \* the Impl exists
  bridgeReady,
  pendingBridgeMessages, pendingBridgeEncodedBytes,
  receiving,     \* the receive callback is running
  scripts,       \* messages on their way to the page in evaluateJavascript()
  calls,         \* on their way from the page: "ready" and Posts
  page,          \* the document: "none", "loading", or "live" once bootstrapped
  sent,          \* history: the number of messages given to send()
  accepted,      \* history: those of this view that send() kept
  dispatched,    \* history: those of this view that the page dispatched
  reloads, sessions

native == <<alive, bridgeReady, pendingBridgeMessages, pendingBridgeEncodedBytes, receiving>>
bridgeVars == <<alive, bridgeReady, pendingBridgeMessages, pendingBridgeEncodedBytes, receiving,
                scripts, calls, page, sent, accepted, dispatched, reloads, sessions>>

BridgeInit ==
  /\ alive = FALSE /\ bridgeReady = FALSE /\ receiving = FALSE
  /\ pendingBridgeMessages = <<>> /\ pendingBridgeEncodedBytes = 0
  /\ scripts = <<>> /\ calls = <<>> /\ page = "none"
  /\ sent = 0 /\ accepted = {} /\ dispatched = {}
  /\ reloads = 0 /\ sessions = 0

-----------------------------------------------------------------------------
(* The GUI thread. *)

\* WebviewGui::create(), which starts the navigation to the plug-in's page.
Create ==
  /\ ~alive
  /\ sessions < MaxSessions
  /\ sessions' = sessions + 1
  /\ alive' = TRUE
  /\ page' = "loading"
  /\ UNCHANGED <<bridgeReady, pendingBridgeMessages, pendingBridgeEncodedBytes, receiving,
                 scripts, calls, sent, accepted, dispatched, reloads>>

\* The web view goes, and with it the page and all that is in flight.
Destroy ==
  /\ alive
  /\ alive' = FALSE /\ bridgeReady' = FALSE
  /\ pendingBridgeMessages' = <<>> /\ pendingBridgeEncodedBytes' = 0
  /\ scripts' = <<>> /\ calls' = <<>> /\ page' = "none"
  /\ accepted' = {} /\ dispatched' = {} /\ reloads' = 0
  /\ UNCHANGED <<receiving, sent, sessions>>

CanQueue(bytes) ==
  /\ Len(pendingBridgeMessages) < MaxQueued
  /\ pendingBridgeEncodedBytes <= MaxBytes
  /\ bytes <= MaxBytes - pendingBridgeEncodedBytes

\* What send() does with a message: evaluate it, keep it for later, or drop it.
Queue(message) ==
  \/ /\ bridgeReady
     /\ scripts' = Append(scripts, message)
     /\ accepted' = accepted \cup {message.number}
     /\ UNCHANGED <<pendingBridgeMessages, pendingBridgeEncodedBytes>>
  \/ /\ ~bridgeReady /\ CanQueue(message.size)
     /\ pendingBridgeMessages' = Append(pendingBridgeMessages, message)
     /\ pendingBridgeEncodedBytes' = pendingBridgeEncodedBytes + message.size
     /\ accepted' = accepted \cup {message.number}
     /\ UNCHANGED scripts
  \/ /\ ~bridgeReady /\ ~CanQueue(message.size)
     /\ UNCHANGED <<scripts, accepted, pendingBridgeMessages, pendingBridgeEncodedBytes>>

Send(size) ==
  /\ alive
  /\ sent < MaxMessages
  /\ sent' = sent + 1
  /\ Queue([number |-> sent + 1, size |-> size])
  /\ UNCHANGED <<alive, bridgeReady, receiving, calls, page, dispatched, reloads, sessions>>

\* Mutant of HandleReady: the byte count is not reset.
HandleReadyKeepsBytes ==
  /\ alive /\ ~receiving
  /\ calls # <<>> /\ Head(calls) = "ready"
  /\ calls' = Tail(calls)
  /\ bridgeReady' = TRUE
  /\ scripts' = scripts \o pendingBridgeMessages
  /\ pendingBridgeMessages' = <<>>
  /\ UNCHANGED <<alive, receiving, pendingBridgeEncodedBytes, page, sent, accepted, dispatched,
                 reloads, sessions>>

\* Mutant of HandleReady: the queue is emptied from its end.
HandleReadyReversed ==
  /\ alive /\ ~receiving
  /\ calls # <<>> /\ Head(calls) = "ready"
  /\ calls' = Tail(calls)
  /\ bridgeReady' = TRUE
  /\ scripts' = scripts \o Reverse(pendingBridgeMessages)
  /\ pendingBridgeMessages' = <<>> /\ pendingBridgeEncodedBytes' = 0
  /\ UNCHANGED <<alive, receiving, page, sent, accepted, dispatched, reloads, sessions>>

\* _WebviewGui_ready: what was queued goes out, in order.
HandleReady ==
  /\ alive /\ ~receiving
  /\ calls # <<>> /\ Head(calls) = "ready"
  /\ calls' = Tail(calls)
  /\ bridgeReady' = TRUE
  /\ scripts' = scripts \o pendingBridgeMessages
  /\ pendingBridgeMessages' = <<>> /\ pendingBridgeEncodedBytes' = 0
  /\ UNCHANGED <<alive, receiving, page, sent, accepted, dispatched, reloads, sessions>>

\* _WebviewGui_receive64 of a message for the plug-in, and the return from it.
HandleReceive ==
  /\ alive /\ ~receiving
  /\ calls # <<>> /\ Head(calls) = "receive"
  /\ calls' = Tail(calls)
  /\ receiving' = TRUE
  /\ UNCHANGED <<alive, bridgeReady, pendingBridgeMessages, pendingBridgeEncodedBytes,
                 scripts, page, sent, accepted, dispatched, reloads, sessions>>

ReceiveReturns ==
  /\ receiving
  /\ receiving' = FALSE
  /\ UNCHANGED <<alive, bridgeReady, pendingBridgeMessages, pendingBridgeEncodedBytes,
                 scripts, calls, page, sent, accepted, dispatched, reloads, sessions>>

-----------------------------------------------------------------------------
(* The page: the bootstrap script, and the scripts it is sent. *)

UnchangedNative == UNCHANGED <<native, sent, accepted, sessions>>

\* Mutant of Bootstrap: the page does not say that it is ready.
BootstrapSilent ==
  /\ page = "loading"
  /\ page' = "live"
  /\ UNCHANGED <<calls, scripts, dispatched, reloads>>
  /\ UnchangedNative

\* The bootstrap script installs the send function before it calls ready.
Bootstrap ==
  /\ page = "loading"
  /\ page' = "live"
  /\ calls' = Append(calls, "ready")
  /\ UNCHANGED <<scripts, dispatched, reloads>>
  /\ UnchangedNative

Post(call) ==
  /\ page = "live"
  /\ Len(calls) < MaxPosts
  /\ calls' = Append(calls, call)
  /\ UNCHANGED <<scripts, page, dispatched, reloads>>
  /\ UnchangedNative

\* A script does nothing in a document that has no send function.
RunScript ==
  /\ scripts # <<>>
  /\ scripts' = Tail(scripts)
  /\ dispatched' = IF page = "live" THEN dispatched \cup {Head(scripts).number} ELSE dispatched
  /\ UNCHANGED <<calls, page, reloads>>
  /\ UnchangedNative

Reload ==
  /\ page = "live"
  /\ reloads < MaxReloads
  /\ reloads' = reloads + 1
  /\ page' = "loading"
  /\ UNCHANGED <<scripts, calls, dispatched>>
  /\ UnchangedNative

-----------------------------------------------------------------------------
(***************************************************************************)
(* The queue keeps its two limits, its count of bytes is that of what is   *)
(* in it, and nothing waits in it once the page has been ready.            *)
(***************************************************************************)
QueueAccounting ==
  /\ Len(pendingBridgeMessages) <= MaxQueued
  /\ pendingBridgeEncodedBytes =
       FoldLeft(LAMBDA bytes, message : bytes + message.size, 0, pendingBridgeMessages)
  /\ bridgeReady => pendingBridgeMessages = <<>>

(***************************************************************************)
(* The page dispatches messages in the order they were sent in, each once: *)
(* none sent after the page was ready overtakes one that was queued.       *)
(***************************************************************************)
DispatchedInOrder ==
  [][alive' => \A n \in dispatched' \ dispatched : \A m \in dispatched : m < n]_bridgeVars

(***************************************************************************)
(* Every message that was kept is dispatched in the end, unless the view   *)
(* is destroyed or its page reloads.                                       *)
(***************************************************************************)
KeptIsDispatched ==
  \A n \in 1 .. MaxMessages : n \in accepted ~> n \in dispatched \/ ~alive \/ reloads > 0

=============================================================================
