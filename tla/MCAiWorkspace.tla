---------------------------- MODULE MCAiWorkspace ----------------------------
(* AiWorkspace for TLC: one cloud provider and Ollama on a private network. *)
EXTENDS AiWorkspace, TLC

Spelled(host, port, path) ==
    [scheme |-> "http", host |-> host, port |-> port, path |-> path,
     query |-> FALSE, odd |-> FALSE]

\* The listed base in another spelling, and one that is not listed.
MCUrls == {Spelled("lan", NoPort, <<"llm">>), Spelled("lan", 81, <<"llm">>)}

MCAllowedUrls == {Spelled("lan", 80, <<"llm", "">>)}

Public == [class |-> "global", scoped |-> FALSE, allowed |-> FALSE]

Private == [class |-> "private", scoped |-> FALSE, allowed |-> TRUE]

MCAddresses == {Public, Private}

Symmetry == Permutations(Requests)
=============================================================================
