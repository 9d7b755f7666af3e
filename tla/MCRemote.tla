------------------------------ MODULE MCRemote ------------------------------
EXTENDS Remote

\* hop 3 is too large for the wire, hop 4 cannot be encoded, hop 5 has no
\* peer; hops 1 and 2 have different ones
MCCost == <<2, 1, 1, 1, 1>>
MCNode == <<1, 2, 1, 1, 3>>
MCPeers == <<1, 2>>

Scene(sends, cs, ds, listen, shutdown) ==
    [sends |-> sends, conns |-> cs, datagrams |-> ds, listen |-> listen, shutdown |-> shutdown]

MCScenes ==
    {Scene(<<<<1>>, <<2>>>>, 2, 0, FALSE, TRUE),      \* flows race for the bridge; shutdown
     Scene(<<<<3, 1>>>>, 1, 0, FALSE, TRUE),          \* a frame that is never written
     Scene(<<<<4, 1>>>>, 1, 0, FALSE, TRUE),          \* the pump fails closed
     Scene(<<<<5>>>>, 1, 0, FALSE, TRUE),
     Scene(<<<<1, 2>>>>, 2, 0, TRUE, FALSE),          \* two connections, one session at a time
     Scene(<<<<1, 2>>>>, 1, 2, TRUE, FALSE)}          \* frames that arrive again
=============================================================================
