-------------------------- MODULE MCClapWebviewGui --------------------------
(* A small instance of ClapWebviewGui. *)
EXTENDS ClapWebviewGui

\* A plug-in and a host without pages or devices, a plug-in in a DAW and in the
\* standalone host, one as WCLAP, and a host with both kinds of page.
MCSettings ==
  {[pages |-> FALSE, hosts |-> TRUE,  native |-> TRUE,  standalone |-> FALSE],
   [pages |-> TRUE,  hosts |-> FALSE, native |-> TRUE,  standalone |-> TRUE],
   [pages |-> TRUE,  hosts |-> TRUE,  native |-> FALSE, standalone |-> FALSE],
   [pages |-> TRUE,  hosts |-> TRUE,  native |-> TRUE,  standalone |-> FALSE]}

MCConfigurations == {"44100", "48000"}
MCPosts == {"receive", "query"} \cup MCConfigurations
=============================================================================
