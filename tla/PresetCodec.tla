---------------------------- MODULE PresetCodec ----------------------------
(***************************************************************************)
(* Preset documents, the .wvpreset files they are written to, and the      *)
(* parameters they stand for.  A file is three lines: a magic line, the    *)
(* metadata as JSON and the payload as JSON.  It is a sequence of tokens   *)
(* here, so that it can end anywhere; a JSON value is a record of what the *)
(* parser looks at.                                                        *)
(***************************************************************************)
EXTENDS Integers, Sequences, SequencesExt

CONSTANTS
  Plugins,     \* stable plug-in identifiers
  Parameters,  \* the parameters a plug-in knows
  MaxValue     \* their values are 0 .. MaxValue, and 0 is the default

ASSUME CodecAssumption == MaxValue \in Nat /\ Parameters # {} /\ "" \notin Plugins

NotFinite == -1
NoKey == "no load key"
SchemaVersion == 1

Values == 0 .. MaxValue
States == [Parameters -> Values]
Default == [p \in Parameters |-> 0]

\* An array the parser refuses as a whole, or its entries.
Array(list) == [wellFormed |-> TRUE, list |-> list]
NotAnArray == [wellFormed |-> FALSE, list |-> <<>>]

Distinct(list) == \A j, k \in DOMAIN list : j # k => list[j].key # list[k].key
Finite(list) == \A k \in DOMAIN list : list[k].value # NotFinite
Named(list) == \A k \in DOMAIN list : list[k].key # ""

ValidDocument(d) ==
  /\ d.schema = SchemaVersion
  /\ d.target # "" /\ d.name # "" /\ d.loadKey # ""
  /\ Named(d.extensions) /\ Distinct(d.extensions) /\ Finite(d.extensions)
  /\ Distinct(d.parameters) /\ Finite(d.parameters)
  /\ Named(d.settings) /\ Distinct(d.settings) /\ Finite(d.settings)

-----------------------------------------------------------------------------
(* Writing. *)

Magic == [token |-> "magic"]  \* the line with its end
EndOfLine == [token |-> "end of line"]
Cut == [token |-> "part of a line"]
Json(value) == [token |-> "json", value |-> value]

Metadata(d) ==
  Json([schema |-> d.schema, target |-> d.target, name |-> d.name, loadKey |-> d.loadKey,
        texts |-> TRUE, extensions |-> Array(d.extensions)])

Payload(d) ==
  Json([object |-> TRUE, parameters |-> Array(d.parameters), settings |-> Array(d.settings)])

Serializable(d) == ValidDocument(d)

Serialize(d) == <<Magic, Metadata(d), EndOfLine, Payload(d), EndOfLine>>

\* What is left of a file whose writing stopped somewhere.
Torn(bytes) ==
  LET kept == {SubSeq(bytes, 1, k) : k \in 0 .. Len(bytes) - 1}
  IN  kept \cup {Append(b, Cut) : b \in kept}

-----------------------------------------------------------------------------
(* Reading. *)

LineEnds(bytes) == {k \in 2 .. Len(bytes) : bytes[k] = EndOfLine}

Framed(bytes) ==
  /\ Len(bytes) > 0 /\ bytes[1] = Magic
  /\ \E first, second \in LineEnds(bytes) :
       /\ first < second
       /\ LineEnds(bytes) = {first, second}
       /\ second = Len(bytes)

\* The JSON value of a line, when it is one: nothing else is on the line.
Line(bytes, first) ==
  IF first <= Len(bytes) /\ bytes[first].token = "json" THEN bytes[first].value ELSE [broken |-> TRUE]

MetadataOf(bytes) == Line(bytes, 2)
PayloadOf(bytes) == Line(bytes, 4)
IsObject(json) == "broken" \notin DOMAIN json

MetadataFieldsParse(json) ==
  /\ json.target # "" /\ json.name # "" /\ json.texts /\ json.loadKey # ""

\* A file of version 0 has no extensions; one of version 1 has them, each key once.
MetadataParses(bytes, plugin) ==
  /\ Framed(bytes)
  /\ IsObject(MetadataOf(bytes))
  /\ LET json == MetadataOf(bytes)
     IN  /\ json.schema \in 0 .. SchemaVersion
         /\ MetadataFieldsParse(json)
         /\ json.schema = SchemaVersion =>
              /\ json.extensions.wellFormed
              /\ Named(json.extensions.list)
              /\ Distinct(json.extensions.list)
              /\ Finite(json.extensions.list)
         /\ json.target = plugin

ParametersParse(json) ==
  json.parameters.wellFormed /\ Distinct(json.parameters.list) /\ Finite(json.parameters.list)

SettingsParse(json) ==
  /\ json.settings.wellFormed
  /\ Named(json.settings.list) /\ Distinct(json.settings.list) /\ Finite(json.settings.list)

Parses(bytes, plugin) ==
  /\ MetadataParses(bytes, plugin)
  /\ IsObject(PayloadOf(bytes)) /\ PayloadOf(bytes).object
  /\ ParametersParse(PayloadOf(bytes)) /\ SettingsParse(PayloadOf(bytes))

\* The document in a file that parses; a migrated one is of the current version.
Parsed(bytes) ==
  LET meta == MetadataOf(bytes)
      payload == PayloadOf(bytes)
  IN  [schema |-> SchemaVersion, target |-> meta.target, name |-> meta.name,
       loadKey |-> meta.loadKey,
       extensions |-> IF meta.schema = 0 THEN <<>> ELSE meta.extensions.list,
       parameters |-> payload.parameters.list, settings |-> payload.settings.list]

-----------------------------------------------------------------------------
(* The parameters of a plug-in as a document, and back. *)

\* Parameters are written in the order of their identifiers.
ParameterOrder == SetToSeq(Parameters)

Captured(plugin, state) ==
  [schema |-> SchemaVersion, target |-> plugin, name |-> "a name", loadKey |-> NoKey,
   extensions |-> <<>>,
   parameters |-> [k \in DOMAIN ParameterOrder |->
                     [key |-> ParameterOrder[k], value |-> state[ParameterOrder[k]]]],
   settings |-> <<>>]

Known(d) == {k \in DOMAIN d.parameters : d.parameters[k].key \in Parameters}

\* A parameter the plug-in does not know is ignored, one out of its range is not.
HasCandidate(d, plugin) ==
  /\ d.target = plugin
  /\ ValidDocument(d)
  /\ \A k \in Known(d) : d.parameters[k].value \in Values

\* A parameter the document does not have takes its default.
Candidate(d) ==
  [p \in Parameters |->
     IF \E k \in Known(d) : d.parameters[k].key = p
     THEN d.parameters[CHOOSE k \in Known(d) : d.parameters[k].key = p].value
     ELSE 0]

\* The catalogue that serves hosts refuses a document with settings: no plug-in has any.
CatalogLoads(d, plugin) ==
  ValidDocument(d) /\ d.target = plugin /\ d.settings = <<>>

=============================================================================
