--------------------------- MODULE ClapWebviewGui ---------------------------
(***************************************************************************)
(* The CLAP side of a plug-in's page (clap-webview-gui.h): a plug-in made  *)
(* by its factory, wrapped for historical WCLAP bridges, whose init() sets *)
(* up the helper; the host's clap.gui calls, which the helper answers with *)
(* a page of the host (clap.webview/3) or with a WebviewGui of its own;    *)
(* and the devices of a standalone host, which a script of the page asks   *)
(* for and chooses through the same bridge as the plug-in's messages.      *)
(*                                                                         *)
(* The bridge of WebviewGui is that of WebviewBridge; its view exists      *)
(* exactly while the helper has a native one.  All calls of the host are   *)
(* on the thread init() bound: a helper does nothing on another.           *)
(***************************************************************************)
EXTENDS WebviewBridge

CONSTANTS
  Settings,        \* what plug-in, host and platform offer, see Setting
  Dimensions,      \* sizes of the window
  Fits,            \* those the native window system accepts
  DefaultSize,     \* 400 by 250 in the code
  Configurations,  \* configurations of the standalone host's devices
  MaxChoices       \* bound on the choices of devices in a session

Setting == [pages : BOOLEAN,       \* the plug-in has a complete clap.webview/3
            hosts : BOOLEAN,       \* the host has one, with send()
            native : BOOLEAN,      \* there is a native backend, as not in WCLAP
            standalone : BOOLEAN]  \* the host has the device-control extension

ASSUME ClapAssumption ==
  /\ Settings \subseteq Setting
  /\ Fits \subseteq Dimensions /\ DefaultSize \in Fits
  /\ MaxChoices \in Nat
  /\ Posts = {"receive", "query"} \cup Configurations
  /\ Configurations \cap {"ready", "receive", "query", "none"} = {}

VARIABLES
  setting,
  life,           \* the plug-in: "made", "live" once initialised, or "gone"
  pluginWebview,  \* the helper's cache: "unasked", "missing" or "found"
  guiCreated, usingHostWebview,
  size,           \* the helper's width and height
  frame,          \* the size of the native view
  shownInParent,  \* history: set_parent() has succeeded for this view
  devices,        \* the configuration of the host's devices
  snapshots,      \* the configuration in each message sent, or "none"
  state,          \* of the page's script: the configuration it shows, or "none"
  unanswered,     \* history: the last call for the devices got no snapshot
  choices

helper == <<pluginWebview, guiCreated, usingHostWebview, size>>
standalone == <<devices, snapshots, state, unanswered, choices>>
clapVars == <<bridgeVars, setting, life, helper, frame, shownInParent, standalone>>

ClapInit ==
  /\ BridgeInit
  /\ setting \in Settings
  /\ life = "made"
  /\ pluginWebview = "unasked"
  /\ guiCreated = FALSE /\ usingHostWebview = FALSE
  /\ size = DefaultSize /\ frame = DefaultSize /\ shownInParent = FALSE
  /\ devices \in Configurations /\ state = "none" /\ unanswered = FALSE /\ choices = 0
  /\ snapshots = [n \in 1 .. MaxMessages |-> "none"]

-----------------------------------------------------------------------------
(* Extensions.  A plug-in answers get_extension() once its init() is over. *)

GetExtension == IF setting.pages /\ life = "live" THEN "found" ELSE "missing"

ResolvePluginWebviewExtension ==
  pluginWebview' = IF pluginWebview = "unasked" THEN GetExtension ELSE pluginWebview

\* The host is asked in init() already, the plug-in only here.
HasHostWebviewPath ==
  /\ setting.hosts
  /\ ResolvePluginWebviewExtension
  /\ pluginWebview' = "found"

NoHostWebviewPath ==
  \/ ~setting.hosts /\ UNCHANGED pluginWebview
  \/ /\ setting.hosts
     /\ ResolvePluginWebviewExtension
     /\ pluginWebview' = "missing"

\* The helper the static callbacks of clap.gui find.
Registered == life = "live"

\* ClapWebviewGui::destroy(), of whichever kind the GUI is.
DestroyGui ==
  /\ guiCreated' = FALSE /\ usingHostWebview' = FALSE
  /\ shownInParent' = FALSE
  /\ IF alive THEN Destroy ELSE UNCHANGED bridgeVars
  /\ state' = "none" /\ unanswered' = FALSE /\ choices' = 0
  /\ UNCHANGED <<frame, devices, snapshots>>

\* Mutant of InitialiseCurrentIdentity: both halves of clap.webview/3 are looked up.
InitialiseAsksBoth == pluginWebview' = GetExtension

InitialiseCurrentIdentity == pluginWebview' = "unasked"

-----------------------------------------------------------------------------
(* The life of the plug-in. *)

\* init() of the wrapped plug-in, whose own init() is that of the helper.
ProxyInit ==
  /\ life = "made"
  /\ life' = "live"
  /\ InitialiseCurrentIdentity
  /\ DestroyGui
  /\ UNCHANGED <<setting, size>>

\* A later init() of the helper tears down what there is first.
Reinitialise ==
  /\ Registered
  /\ InitialiseCurrentIdentity
  /\ DestroyGui
  /\ UNCHANGED <<setting, life, size>>

ProxyDestroy ==
  /\ life # "gone" /\ ~receiving
  /\ life' = "gone"
  /\ DestroyGui
  /\ UNCHANGED <<setting, pluginWebview, size>>

-----------------------------------------------------------------------------
(* clap.gui: the registered helper answers, from init() to its end. *)

UnchangedView == UNCHANGED <<bridgeVars, setting, life, frame, shownInParent, standalone>>

GetPreferredApi ==
  /\ Registered
  /\ HasHostWebviewPath \/ NoHostWebviewPath
  /\ UNCHANGED <<guiCreated, usingHostWebview, size>>
  /\ UnchangedView

CreateOnHost ==
  /\ Registered /\ ~guiCreated
  /\ \/ HasHostWebviewPath /\ guiCreated' = TRUE /\ usingHostWebview' = TRUE
     \/ NoHostWebviewPath /\ UNCHANGED <<guiCreated, usingHostWebview>>
  /\ UNCHANGED size
  /\ UnchangedView

\* Nothing comes of it without a start URL, a backend, or a view that loads.
CreateNative ==
  /\ Registered /\ ~guiCreated
  /\ ResolvePluginWebviewExtension
  /\ \/ /\ pluginWebview' = "found" /\ setting.native
        /\ Create
        /\ guiCreated' = TRUE /\ usingHostWebview' = FALSE
        /\ \E newFrame \in Fits : frame' = newFrame
     \/ UNCHANGED <<bridgeVars, guiCreated, usingHostWebview, frame>>
  /\ UNCHANGED <<setting, life, size, shownInParent, standalone>>

GuiDestroy ==
  /\ Registered /\ guiCreated
  /\ DestroyGui
  /\ UNCHANGED <<setting, life, pluginWebview, size>>

\* Mutant of SetSize: a size the view refuses is remembered as well.
SetSizeRegardless(newSize) ==
  /\ Registered /\ guiCreated
  /\ size' = newSize
  /\ frame' = IF alive /\ newSize \in Fits THEN newSize ELSE frame
  /\ UNCHANGED <<bridgeVars, setting, life, pluginWebview, guiCreated, usingHostWebview,
                 shownInParent, standalone>>

\* The native view takes a size that fits.
TrySetSize(newSize) == newSize \in Fits /\ frame' = newSize

\* A page of the host's takes any.
SetSize(newSize) ==
  /\ Registered /\ guiCreated
  /\ IF alive THEN TrySetSize(newSize) ELSE UNCHANGED frame
  /\ size' = newSize
  /\ UNCHANGED <<bridgeVars, setting, life, pluginWebview, guiCreated, usingHostWebview,
                 shownInParent, standalone>>

\* The remembered size is applied at once.  One that does not fit was set for
\* another GUI; then the view is in its parent, and the host is told FALSE.
SetParent ==
  /\ Registered /\ alive
  /\ TrySetSize(size)
  /\ shownInParent' = TRUE
  /\ UNCHANGED <<bridgeVars, setting, life, helper, standalone>>

-----------------------------------------------------------------------------
(* Messages. *)

\* The helper's receive callback gives these to StandaloneDeviceBridge, not to the plug-in.
ForDevices(call) == call \in {"query"} \cup Configurations

\* Messages are numbered up to MaxMessages, and each device call takes one.
Budget == sent + Len(SelectSeq(calls, ForDevices)) < MaxMessages

UnchangedClap == UNCHANGED <<setting, life, helper, frame, shownInParent>>

\* A step of the bridge that concerns nothing else.
Alone(step) == step /\ UnchangedClap /\ UNCHANGED standalone

PluginSend(bytes) == Budget /\ Alone(Send(bytes))

\* The page of the host's has posted a message.
HostReceive ==
  /\ Registered /\ setting.pages
  /\ guiCreated /\ usingHostWebview /\ ~receiving
  /\ receiving' = TRUE
  /\ UNCHANGED <<alive, bridgeReady, pendingBridgeMessages, pendingBridgeEncodedBytes, scripts,
                 calls, page, sent, accepted, dispatched, reloads, sessions>>
  /\ UnchangedClap /\ UNCHANGED standalone

\* Mutant of SendSnapshot: the snapshot is taken before the choice is applied.
SendSnapshotOfOld ==
  /\ sent' = sent + 1
  /\ \E bytes \in Sizes : Queue([number |-> sent + 1, size |-> bytes])
  /\ snapshots' = [snapshots EXCEPT ![sent + 1] = devices]
  /\ unanswered' = FALSE
  /\ UNCHANGED receiving

\* The configuration is read and sent.
SendSnapshot ==
  /\ sent' = sent + 1
  /\ \E bytes \in Sizes : Queue([number |-> sent + 1, size |-> bytes])
  /\ snapshots' = [snapshots EXCEPT ![sent + 1] = devices']
  /\ unanswered' = FALSE
  /\ UNCHANGED receiving

\* The configuration cannot be read, before or after the command, or the command is not
\* there; or send() refuses a snapshot that is too large, then the plug-in gets the call.
NoSnapshot ==
  /\ unanswered' = TRUE
  /\ receiving' \in BOOLEAN
  /\ UNCHANGED <<sent, accepted, scripts, pendingBridgeMessages, pendingBridgeEncodedBytes, snapshots>>

\* StandaloneDeviceBridge::receive().  The host may refuse a configuration.
HandleDevices ==
  /\ alive /\ ~receiving
  /\ calls # <<>> /\ ForDevices(Head(calls))
  /\ calls' = Tail(calls)
  /\ devices' \in {devices, IF Head(calls) = "query" THEN devices ELSE Head(calls)}
  /\ SendSnapshot \/ NoSnapshot
  /\ UNCHANGED <<alive, bridgeReady, page, dispatched, reloads, sessions>>
  /\ UnchangedClap /\ UNCHANGED <<state, choices>>

-----------------------------------------------------------------------------
(* The page, and in a standalone host the script that is added to it. *)

\* The timer of the script until there is a state, and the button that opens its panel.
Request ==
  /\ setting.standalone
  /\ Budget
  /\ Alone(Post("query"))

Choose(configuration) ==
  /\ state \notin {"none", configuration}
  /\ choices < MaxChoices
  /\ choices' = choices + 1
  /\ Budget
  /\ Post(configuration)
  /\ UnchangedClap /\ UNCHANGED <<devices, snapshots, state, unanswered>>

\* acceptSnapshot() keeps a snapshot from the plug-in's part of the page.
AcceptScript ==
  /\ RunScript
  /\ LET snapshot == snapshots[Head(scripts).number]
     IN state' = IF page = "live" /\ snapshot # "none" THEN snapshot ELSE state
  /\ UnchangedClap /\ UNCHANGED <<devices, snapshots, unanswered, choices>>

ReloadPage ==
  /\ Reload
  /\ state' = "none"
  /\ UnchangedClap /\ UNCHANGED <<devices, snapshots, unanswered, choices>>

ClapNext ==
  \/ ProxyInit \/ Reinitialise \/ ProxyDestroy
  \/ GetPreferredApi \/ CreateOnHost \/ CreateNative \/ GuiDestroy
  \/ \E newSize \in Dimensions : SetSize(newSize)
  \/ SetParent
  \/ \E bytes \in Sizes : PluginSend(bytes)
  \/ HostReceive \/ HandleDevices
  \/ Request \/ \E configuration \in Configurations : Choose(configuration)
  \/ AcceptScript \/ ReloadPage
  \/ Alone(HandleReady) \/ Alone(HandleReceive) \/ Alone(ReceiveReturns)
  \/ Alone(Bootstrap) \/ Alone(Post("receive"))

\* The fairness of WebviewBridge: the page loads and runs, and is served.
ClapFairness ==
  /\ WF_clapVars(Alone(Bootstrap)) /\ WF_clapVars(AcceptScript)
  /\ WF_clapVars(HandleDevices \/ Alone(HandleReady) \/ Alone(HandleReceive))
  /\ WF_clapVars(Alone(ReceiveReturns))

ClapSpec == ClapInit /\ [][ClapNext]_clapVars /\ ClapFairness

-----------------------------------------------------------------------------
(***************************************************************************)
(* A plug-in that has a page is never taken for one without: its extension *)
(* is not looked up, and the miss kept, before it can answer.              *)
(***************************************************************************)
PageIsFound == pluginWebview = "missing" => ~setting.pages

(***************************************************************************)
(* A native view the host has put into its window has the size get_size()  *)
(* reports, whatever was set for it, or for a GUI before it.               *)
(***************************************************************************)
ShownAtItsSize == shownInParent => alive /\ frame = size

(***************************************************************************)
(* A page that asks for the devices, or chooses them, shows in the end the *)
(* configuration the host has, chosen or not, also when it is told of      *)
(* another one first; unless it goes away, or its last call got no         *)
(* snapshot, as then nothing tells it what the host has.                   *)
(***************************************************************************)
DevicesAreShown ==
  (\/ \E i \in DOMAIN calls : ForDevices(calls[i])
   \/ \E i \in DOMAIN scripts : snapshots[scripts[i].number] # "none")
    ~> (state = devices \/ page # "live" \/ unanswered)

=============================================================================
