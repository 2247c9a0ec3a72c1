------------------------------ MODULE MCProtocol ------------------------------
(***************************************************************************)
(* Small networks for CryptoNoteProtocolHandler, and the end of a node's   *)
(* networking.  A behaviour is one of five scenarios: two nodes on         *)
(* branches that both still grow (fork), one node that is behind (behind), *)
(* the same with a ban (ban), a node that is behind two others (three),    *)
(* and the contexts of one node that is stopped (shutdown).                *)
(***************************************************************************)
EXTENDS Naturals

VARIABLES scenario, ctx,
          known, tip, pool, busy, chan, switched, failed, bans,
          k, pc, m_stop, m_connections, net
protocolVars == <<known, tip, pool, busy, chan, switched, failed, bans>>
contextVars == <<k, pc, m_stop, m_connections, net>>
vars == <<scenario, ctx, protocolVars, contextVars>>

Unused(x) == x = "unused"
UnusedContexts == Unused(k) /\ Unused(pc) /\ Unused(m_stop) /\ Unused(m_connections) /\ Unused(net)
UnusedProtocol == /\ Unused(known) /\ Unused(tip) /\ Unused(pool) /\ Unused(busy) /\ Unused(chan)
                  /\ Unused(switched) /\ Unused(failed) /\ Unused(bans)

Two == {"A", "B"}
All == {"A", "B", "C"}
Star == {<<"B", "A">>, <<"B", "C">>}
Line == {<<"B", "A">>}
Tree == {"g", "a1", "a2", "a3", "b1", "b2"}
TreePath == [g |-> <<"g">>, a1 |-> <<"g", "a1">>, a2 |-> <<"g", "a1", "a2">>,
             a3 |-> <<"g", "a1", "a2", "a3">>, b1 |-> <<"g", "b1">>, b2 |-> <<"g", "b1", "b2">>]
TreeWork == [g |-> 1, a1 |-> 2, a2 |-> 3, a3 |-> 4, b1 |-> 3, b2 |-> 5]

Fork == INSTANCE CryptoNoteProtocolHandler
        WITH Nodes <- Two, Links <- Line, Blocks <- Tree, Genesis <- "g", Path <- TreePath,
             Work <- TreeWork, Start <- [A |-> "a2", B |-> "b1"],
             Found <- [A |-> {"a3"}, B |-> {"b2"}], Txs <- {"t"}, Up <- FALSE,
             MaxIds <- 5, MaxBlocks <- 1, MaxBans <- 0

\* Chain entries of two ids, so that the chain is asked for more than once.
Behind == INSTANCE CryptoNoteProtocolHandler
          WITH Nodes <- Two, Links <- Line, Blocks <- Tree, Genesis <- "g", Path <- TreePath,
               Work <- TreeWork, Start <- [A |-> "a2", B |-> "g"],
               Found <- [A |-> {"a3"}, B |-> {}], Txs <- {"t"}, Up <- FALSE,
               MaxIds <- 2, MaxBlocks <- 1, MaxBans <- 0

Ban == INSTANCE CryptoNoteProtocolHandler
       WITH Nodes <- Two, Links <- Line, Blocks <- Tree, Genesis <- "g", Path <- TreePath,
            Work <- TreeWork, Start <- [A |-> "a2", B |-> "g"],
            Found <- [A |-> {"a3"}, B |-> {}], Txs <- {}, Up <- TRUE,
            MaxIds <- 5, MaxBlocks <- 2, MaxBans <- 1

Three == INSTANCE CryptoNoteProtocolHandler
         WITH Nodes <- All, Links <- Star,
              Blocks <- Tree, Genesis <- "g", Path <- TreePath, Work <- TreeWork,
              Start <- [A |-> "a2", B |-> "g", C |-> "a2"],
              Found <- [A |-> {}, B |-> {}, C |-> {}], Txs <- {}, Up <- FALSE,
              MaxIds <- 5, MaxBlocks <- 1, MaxBans <- 0

\* As three, but A may switch to a shorter and heavier chain meanwhile.
Late == INSTANCE CryptoNoteProtocolHandler
        WITH Nodes <- All, Links <- Star, Blocks <- Tree, Genesis <- "g", Path <- TreePath,
             Work <- [TreeWork EXCEPT !["b1"] = 5], Start <- [A |-> "a2", B |-> "g", C |-> "a2"],
             Found <- [A |-> {"b1"}, B |-> {}, C |-> {}], Txs <- {}, Up <- FALSE,
             MaxIds <- 5, MaxBlocks <- 1, MaxBans <- 0

\* One connection, the accept loop and the timeout loop.
Shutdown == INSTANCE NodeServerContexts
            WITH Connections <- {1}, MaxCommands <- 3, MaxMessages <- 2, MaxBlocks <- 2,
                 Loops <- {"acceptLoop", "timeoutLoop"}

Init == \/ scenario = "fork" /\ Fork!Init /\ UnusedContexts
        \/ scenario = "behind" /\ Behind!Init /\ UnusedContexts
        \/ scenario = "ban" /\ Ban!Init /\ UnusedContexts
        \/ scenario = "three" /\ Three!Init /\ UnusedContexts
        \/ scenario = "shutdown" /\ Shutdown!Init /\ UnusedProtocol

\* The node has stopped.
Stopped == scenario = "shutdown" /\ Shutdown!Returned /\ UNCHANGED vars

Next == \/ /\ \/ scenario = "fork" /\ Fork!Next
              \/ scenario = "behind" /\ Behind!Next
              \/ scenario = "ban" /\ Ban!Next
              \/ scenario = "three" /\ Three!Next
           /\ UNCHANGED <<scenario, contextVars>>
        \/ scenario = "shutdown" /\ Shutdown!Next /\ UNCHANGED <<scenario, protocolVars>>
        \/ Stopped

-------------------------------------------------------------------------------
(* The fair actions, in the scenario at hand. *)

Connect(l) == /\ scenario # "shutdown" /\ l \in DOMAIN ctx /\ UNCHANGED <<scenario, contextVars>>
              /\ \/ scenario = "fork" /\ Fork!Connect(l)
                 \/ scenario = "behind" /\ Behind!Connect(l)
                 \/ scenario = "ban" /\ Ban!Connect(l)
                 \/ scenario = "three" /\ Three!Connect(l)

timedSync(n) == /\ scenario # "shutdown" /\ n \in DOMAIN tip /\ UNCHANGED <<scenario, contextVars>>
                /\ \/ scenario = "fork" /\ Fork!timedSync(n)
                   \/ scenario = "behind" /\ Behind!timedSync(n)
                   \/ scenario = "ban" /\ Ban!timedSync(n)
                   \/ scenario = "three" /\ Three!timedSync(n)

Handle(e) == /\ scenario # "shutdown" /\ e \in DOMAIN ctx /\ UNCHANGED <<scenario, contextVars>>
             /\ \/ scenario = "fork" /\ Fork!Handle(e[1], e[2])
                \/ scenario = "behind" /\ Behind!Handle(e[1], e[2])
                \/ scenario = "ban" /\ Ban!Handle(e[1], e[2])
                \/ scenario = "three" /\ Three!Handle(e[1], e[2])

Down == scenario = "shutdown" /\ UNCHANGED <<scenario, protocolVars>>

Spec == /\ Init /\ [][Next]_vars
        /\ \A l \in Star : WF_vars(Connect(l))
        /\ \A n \in All : WF_vars(timedSync(n))
        /\ \A e \in Three!Ends : WF_vars(Handle(e))
        /\ WF_vars(Down /\ Shutdown!Step)
        /\ SF_vars(Down /\ Shutdown!epollSpawns)
        /\ \A s \in Shutdown!Descriptors : SF_vars(Down /\ Shutdown!epollWakes(s))
        /\ \A s \in Shutdown!Timers : WF_vars(Down /\ Shutdown!timerExpires(s))
-------------------------------------------------------------------------------
LateSpec == /\ Late!Init /\ UnusedContexts /\ scenario = "late"
            /\ [][Late!Next /\ UNCHANGED <<scenario, contextVars>>]_vars
-------------------------------------------------------------------------------
(* The properties of CryptoNoteProtocolHandler and NodeServerContexts, in  *)
(* every scenario they are meant for.                                      *)


\* The last check of request_missing_objects never fails.
FinalCondition == scenario # "shutdown" => Fork!FinalCondition

\* Two correct nodes part only after a switch to another chain.
PartOnlyAfterSwitch ==
    [][/\ scenario = "fork" /\ Fork!Parts => switched # {}
       /\ scenario = "behind" /\ Behind!Parts => switched # {}
       /\ scenario = "three" /\ Three!Parts => switched # {}]_vars

\* Connected nodes end up with chains of the same work, and a transaction
\* that reaches one pool reaches all of them.
EventuallySynchronised ==
    <>[](/\ scenario = "fork" => Fork!Synchronised
         /\ scenario = "behind" => Behind!Synchronised
         /\ scenario = "ban" => Ban!Synchronised
         /\ scenario = "three" => Three!Synchronised
         /\ scenario # "shutdown" => (Fork!InOnePool("t") => Fork!InEveryPool("t")))

\* NodeServer::run() returns after sendStopSignal, and a connection that was
\* interrupted is erased (P2pConnectionContext::interrupt, connectionHandler),
\* whatever its peer does.
StopReturns ==
    /\ <>[](scenario = "shutdown" => (m_stop => Shutdown!Returned))
    /\ <>[](scenario = "shutdown" => (ctx[1].stopped => 1 \notin m_connections))

===============================================================================
