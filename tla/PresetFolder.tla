---------------------------- MODULE PresetFolder ----------------------------
(***************************************************************************)
(* What the preset storage promises those who share its folder: a save or  *)
(* a removal happens at one moment between the call and its answer, is     *)
(* answered "ok" only if it happened and "failed" only if it did not, and  *)
(* a save that was not asked to replace a preset takes a free name.  What  *)
(* is shown under a name is a whole preset.  A loss of power may undo what *)
(* happened since the folder was last kept, for each name apart.           *)
(*                                                                         *)
(* native_preset_storage.h promises nothing of that in words; this is what *)
(* the callers of saveAs() and remove() rely on.                           *)
(***************************************************************************)
CONSTANTS
  Names,
  Clients,
  Presets,   \* what clients save
  Foreign,   \* for each name, what may be there that no client saved
  Absent

VARIABLES
  shown,     \* what is found under each name
  kept,      \* what a loss of power leaves of it, at least
  requests   \* the call each client is in, or the answer to its last

vars == <<shown, kept, requests>>

Answered(answer) == [phase |-> "idle", answer |-> answer]
Saving(name, preset, replace) ==
  [phase |-> "saving", name |-> name, preset |-> preset, replace |-> replace]
Done == [phase |-> "done"]

Init ==
  /\ shown \in [Names -> {Absent} \cup UNION {Foreign[i] : i \in Names}]
  /\ \A i \in Names : shown[i] \in {Absent} \cup Foreign[i]
  /\ kept = shown
  /\ requests = [c \in Clients |-> Answered("none")]

Becomes(c, request) == requests' = [requests EXCEPT ![c] = request]

Ask(c, name, preset, replace) ==
  /\ requests[c].phase = "idle"
  /\ Becomes(c, Saving(name, preset, replace))
  /\ UNCHANGED <<shown, kept>>

Save(c) ==
  /\ requests[c].phase = "saving"
  /\ Becomes(c, Done)
  /\ requests[c].replace \/ shown[requests[c].name] = Absent
  /\ shown' = [shown EXCEPT ![requests[c].name] = requests[c].preset]
  /\ UNCHANGED kept

Remove(c, name) ==
  /\ requests[c].phase = "idle"
  /\ Becomes(c, Done)
  /\ shown[name] # Absent
  /\ shown' = [shown EXCEPT ![name] = Absent]
  /\ UNCHANGED kept

Refuse(c) ==
  /\ requests[c].phase \in {"idle", "saving"}
  /\ Becomes(c, Answered("failed"))
  /\ UNCHANGED <<shown, kept>>

\* The folder is kept before the answer, if it can be.
Confirm(c) ==
  /\ requests[c].phase = "done"
  /\ Becomes(c, Answered("ok"))
  /\ kept' \in {shown, kept}
  /\ UNCHANGED shown

\* The client stops and never hears of its call.
Stop(c) ==
  /\ requests[c].phase \in {"saving", "done"}
  /\ Becomes(c, Answered("none"))
  /\ UNCHANGED <<shown, kept>>

LosePower ==
  /\ requests' = [c \in Clients |-> Answered("none")]
  /\ kept' = shown'
  /\ \E undone \in SUBSET Names :
       shown' = [i \in Names |-> IF i \in undone THEN kept[i] ELSE shown[i]]

Next ==
  \/ \E c \in Clients :
       \/ \E name \in Names, preset \in Presets, replace \in BOOLEAN : Ask(c, name, preset, replace)
       \/ \E name \in Names : Remove(c, name)
       \/ Save(c) \/ Refuse(c) \/ Confirm(c) \/ Stop(c)
  \/ LosePower

Spec == Init /\ [][Next]_vars

=============================================================================
