----------------------- MODULE MCWebSocketConnections -----------------------
(* Three WebSockets, two of them to the same host, and limits of one and   *)
(* two slots: the list is full while another socket opens.                 *)
EXTENDS WebSocketConnections, TLC

CONSTANTS h1, h2, h3, hostA, hostB

MCHandles == {h1, h2, h3}
MCHosts   == {hostA, hostB}
MCHostOf  == h1 :> hostA @@ h2 :> hostA @@ h3 :> hostB
MCLimits  == {1, 2}
=============================================================================
