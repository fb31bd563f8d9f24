-------------------------- MODULE MCPresetBrowser --------------------------
(***************************************************************************)
(* An instance of PresetBrowser for TLC: two files, one factory preset,    *)
(* another process, and files that were copied into the directory.         *)
(***************************************************************************)
EXTENDS PresetBrowser

MCFactories == <<"boost">>
MCProjects == {[p \in Parameters |-> 1]}
MCFactoryState == "boost" :> [p \in Parameters |-> 1]

Good == [Captured(Plugin, [p \in Parameters |-> 1]) EXCEPT !.name = "good"]
WithSettings == [Good EXCEPT !.settings = <<[key |-> "a setting", value |-> 0]>>]

\* A preset whose payload is damaged, and one with settings, which hosts cannot load.
MCImports ==
  [i \in Identities |->
     IF i = "b" THEN {} ELSE
     {<<Magic, Metadata(Good), EndOfLine, Cut, EndOfLine>>,
      Serialize(WithSettings)}]

=============================================================================
