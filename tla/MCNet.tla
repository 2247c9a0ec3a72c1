-------------------------------- MODULE MCNet --------------------------------
(***************************************************************************)
(* Two instances of the node's networking, one per behaviour: "contexts",  *)
(* two connections whose commands process blocks and yield, and two ways   *)
(* of keeping peers, "peers" (this node's own address is among those it    *)
(* hears of) and "clock" (blocks end, entries age).                        *)
(***************************************************************************)
EXTENDS Naturals

VARIABLES scenario,
          k, pc, m_stop, m_connections, ctx, net,
          white, gray, m_blocked_hosts, m_host_fails_score, maker, now, reached

contextVars == <<k, pc, m_stop, ctx, net>>
peerVars == <<white, gray, m_blocked_hosts, m_host_fails_score, maker, now, reached>>
vars == <<scenario, contextVars, peerVars, m_connections>>

Unused(x) == x = "unused"
UnusedContexts == Unused(k) /\ Unused(pc) /\ Unused(m_stop) /\ Unused(ctx) /\ Unused(net)
UnusedPeers == /\ Unused(white) /\ Unused(gray) /\ Unused(m_blocked_hosts)
               /\ Unused(m_host_fails_score) /\ Unused(maker) /\ Unused(now) /\ Unused(reached)

Contexts == INSTANCE NodeServerContexts
    WITH Connections <- {1, 2}, MaxCommands <- 2, MaxMessages <- 1, Loops <- {"acceptLoop"},
         MaxBlocks <- 5

\* Addresses 2 and 3 are of one host, so that a block concerns both.
HostOf == <<1, 2, 2>>
PeerOf == <<1, 2, 3>>
Peers == INSTANCE NodeServerPeers
    WITH Addresses <- {1, 2, 3}, Ip <- HostOf, Peer <- PeerOf, Self <- 1, Seeds <- {2},
         Priority <- {}, Exclusive <- {}, WhiteLimit <- 1, GrayLimit <- 1,
         ConnectionsCount <- 1, ExpectedWhite <- 1, FailsBeforeBlock <- 1, BlockTime <- 1,
         MaxTime <- 0, MaxConnections <- 2
Clock == INSTANCE NodeServerPeers
    WITH Addresses <- {2, 3}, Ip <- HostOf, Peer <- PeerOf, Self <- 1, Seeds <- {},
         Priority <- {2}, Exclusive <- {}, WhiteLimit <- 1, GrayLimit <- 1,
         ConnectionsCount <- 1, ExpectedWhite <- 0, FailsBeforeBlock <- 2, BlockTime <- 1,
         MaxTime <- 1, MaxConnections <- 2

Init ==
    \/ scenario = "contexts" /\ Contexts!Init /\ UnusedPeers
    \/ scenario = "peers" /\ Peers!Init /\ UnusedContexts
    \/ scenario = "clock" /\ Clock!Init /\ UnusedContexts

Next ==
    /\ UNCHANGED scenario
    /\ \/ scenario = "contexts" /\ Contexts!Next /\ UNCHANGED peerVars
       \/ scenario = "peers" /\ Peers!Next /\ UNCHANGED contextVars
       \/ scenario = "clock" /\ Clock!Next /\ UNCHANGED contextVars

Spec == Init /\ [][Next]_vars


\* The white and the gray list are disjoint and within their limits, and the
\* white list holds reached addresses only (PeerlistManager, handle_handshake);
\* connections_maker opens one connection per address, none to this node, and
\* not more than it should, while peers come in and hosts are banned.
PeersSound ==
    /\ scenario = "peers" => Peers!ListsSound /\ Peers!OutgoingSound
    /\ scenario = "clock" => Clock!ListsSound /\ Clock!OutgoingSound
===============================================================================
