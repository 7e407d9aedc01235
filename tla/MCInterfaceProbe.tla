-------------------------- MODULE MCInterfaceProbe --------------------------
(* Two blocks of age, a source that is edited back and forth, and conversations good and bad. *)
EXTENDS InterfaceProbe

CONSTANTS a, b

MCPinned  == <<a, b>>
MCSources == {<<a, b>>, <<a, a, b>>}
Stanza(k, f) == [kind |-> k, fits |-> f]
Good == <<Stanza("add-identity", TRUE), Stanza("grease", FALSE), Stanza("wrap-file-key", TRUE),
          Stanza("extension-labels", TRUE), Stanza("done", TRUE)>>
MCConversations ==
    {[argv |-> TRUE, stanzas |-> Good], [argv |-> FALSE, stanzas |-> Good],
     [argv |-> TRUE, stanzas |-> <<Good[1], Good[1]>> \o Tail(Good)],
     [argv |-> TRUE, stanzas |-> <<Good[5]>>]}
=============================================================================
