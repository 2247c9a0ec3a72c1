---------------------------- MODULE NodeServerPeers ----------------------------
(***************************************************************************)
(* Which peers NodeServer knows, connects to and refuses: the white and    *)
(* gray lists of PeerlistManager, the blocked hosts, and the connections   *)
(* that connections_maker opens and handle_handshake admits.  The maker    *)
(* and the handshakes give way to one another at each await: while a peer  *)
(* is connected to, while its handshake is awaited, and during a back      *)
(* ping.                                                                   *)
(***************************************************************************)
EXTENDS Naturals, Sequences, FiniteSets, FiniteSetsExt

CONSTANTS Addresses,     \* network addresses, of this node too
          Ip,            \* Ip[a]: the host of an address
          Peer,          \* Peer[a]: the peer id of the node that listens there
          Self,          \* m_config.m_peer_id
          Seeds,         \* m_seed_nodes
          Priority,      \* m_priority_peers
          Exclusive,     \* m_exclusive_peers
          WhiteLimit,    \* P2P_LOCAL_WHITE_PEERLIST_LIMIT
          GrayLimit,     \* P2P_LOCAL_GRAY_PEERLIST_LIMIT
          ConnectionsCount,  \* connections_count
          ExpectedWhite,     \* the whitelist percentage of it
          FailsBeforeBlock,  \* P2P_IP_FAILS_BEFORE_BLOCK
          BlockTime,     \* P2P_IP_BLOCKTIME
          MaxTime,       \* bound on the clock
          MaxConnections \* bound on the connections open at a time

VARIABLES
    white, gray,       \* m_peers_white, m_peers_gray: address -> [id, last_seen]
    m_connections,     \* connection id -> context
    m_blocked_hosts,   \* host -> end of the block
    m_host_fails_score,
    maker,             \* where connections_maker is
    now,               \* time(nullptr)
    reached            \* addresses this node has connected to (history)

vars == <<white, gray, m_connections, m_blocked_hosts, m_host_fails_score, maker, now, reached>>
lists == <<white, gray>>
hosts == <<m_blocked_hosts, m_host_fails_score>>

Hosts == {Ip[a] : a \in Addresses}
NoPeer == 0
Idle == [at |-> "idle", plan |-> <<>>, tried |-> {}, count |-> 0, to |-> NoPeer]
NoEntries == [a \in {} |-> NoPeer]

Init ==
    /\ white = NoEntries /\ gray = NoEntries
    /\ m_connections = NoEntries
    /\ m_blocked_hosts = NoEntries
    /\ m_host_fails_score = [h \in Hosts |-> 0]
    /\ maker = Idle
    /\ now = 0
    /\ reached = {}
-------------------------------------------------------------------------------
(* PeerlistManager *)

Without(f, x) == [y \in DOMAIN f \ {x} |-> f[y]]
With(f, x, v) == [y \in DOMAIN f \cup {x} |-> IF y = x THEN v ELSE f[y]]
Oldest(list) == {a \in DOMAIN list : \A b \in DOMAIN list : list[a].last_seen <= list[b].last_seen}

\* Peerlist::trim after one insertion; the oldest may be the entry just put in.
trim(list, limit) ==
    IF Cardinality(DOMAIN list) > limit THEN {Without(list, a) : a \in Oldest(list)} ELSE {list}

inserted(list, a, entry, limit) ==
    IF a \in DOMAIN list THEN {[list EXCEPT ![a] = entry]} ELSE trim(With(list, a, entry), limit)

\* Variant: the gray list keeps the address.
append_white_only(w, g, a, entry) ==
    {<<l, g>> : l \in inserted(w, a, entry, WhiteLimit)}

append_with_peer_white(w, g, a, entry) ==
    {<<l, Without(g, a)>> : l \in inserted(w, a, entry, WhiteLimit)}

append_with_peer_gray(w, g, a, entry) ==
    IF a \in DOMAIN w THEN {<<w, g>>} ELSE {<<w, l>> : l \in inserted(g, a, entry, GrayLimit)}

\* The i-th entry of a list, the last seen first.
ByTime(list, i) ==
    {a \in DOMAIN list :
        /\ Cardinality({b \in DOMAIN list : list[b].last_seen > list[a].last_seen}) <= i
        /\ i < Cardinality({b \in DOMAIN list : list[b].last_seen >= list[a].last_seen})}
-------------------------------------------------------------------------------
(* Blocked hosts *)

Blocked(h) == h \in DOMAIN m_blocked_hosts /\ now < m_blocked_hosts[h]

\* is_remote_host_allowed forgets a block that has ended.
Allowed(h) == ~Blocked(h)
unblocked(h) == IF Blocked(h) THEN m_blocked_hosts ELSE Without(m_blocked_hosts, h)

\* block_host: the connections of the host that are open are marked.
blockedNow(h) == With(m_blocked_hosts, h, now + BlockTime)
Marked(conns, h) ==
    [c \in DOMAIN conns |-> IF Ip[conns[c].address] = h THEN [conns[c] EXCEPT !.m_state = "shutdown"]
                            ELSE conns[c]]

\* add_host_fail on a host, given the connections and the blocks after what the
\* caller did.
add_host_fail(h, conns, blocked) ==
    IF m_host_fails_score[h] + 1 < FailsBeforeBlock
    THEN /\ m_host_fails_score' = [m_host_fails_score EXCEPT ![h] = @ + 1]
         /\ m_connections' = conns
         /\ m_blocked_hosts' = blocked
    ELSE /\ m_host_fails_score' = [m_host_fails_score EXCEPT ![h] = FailsBeforeBlock \div 2]
         /\ m_connections' = Marked(conns, h)
         /\ m_blocked_hosts' = blockedNow(h)

ban_host(h) ==
    /\ m_blocked_hosts' = blockedNow(h)
    /\ m_connections' = Marked(m_connections, h)
    /\ UNCHANGED m_host_fails_score
-------------------------------------------------------------------------------
(* The maker.  maker.plan holds what connections_maker still has to do: an *)
(* address to connect to unless it is connected, the seeds, the count of   *)
(* connections, or a list to draw from up to a number of connections.      *)

Outgoing == {c \in DOMAIN m_connections : ~m_connections[c].m_is_income}
is_addr_connected(a) == \E c \in Outgoing : m_connections[c].address = a
is_peer_used(a, id) ==
    id = Self \/ \E c \in DOMAIN m_connections :
                    m_connections[c].peerId = id \/ (c \in Outgoing /\ m_connections[c].address = a)

Task(do, addresses, list, n) == [do |-> do, left |-> addresses, list |-> list, expected |-> n]

connections_maker ==
    /\ maker.at = "idle"
    /\ maker' = [Idle EXCEPT
         !.at = "next",
         !.plan = IF Exclusive # {} THEN <<Task("addresses", Exclusive, "", 0)>>
                  ELSE (IF DOMAIN white = {} /\ Seeds # {} THEN <<Task("seeds", Seeds, "", 0)>> ELSE <<>>)
                         \o <<Task("addresses", Priority, "", 0), Task("count", {}, "", 0)>>]
    /\ UNCHANGED <<lists, m_connections, hosts, now, reached>>

Doing(do) == maker.at = "next" /\ Head(maker.plan).do = do
Current == Head(maker.plan)
ListOf(task) == IF task.list = "white" THEN white ELSE gray
AfterTask == [Idle EXCEPT !.at = IF Len(maker.plan) = 1 THEN "idle" ELSE "next",
                          !.plan = Tail(maker.plan)]
ConnectTo(a, m) == [m EXCEPT !.at = "connecting", !.to = a]
Trying(a) == [maker EXCEPT !.plan[1].left = @ \ {a}]

\* connect_to_peerlist
connectToAddresses ==
    /\ Doing("addresses")
    /\ IF Current.left = {} THEN maker' = AfterTask
       ELSE \E a \in Current.left :
              maker' = IF is_addr_connected(a) THEN Trying(a) ELSE ConnectTo(a, Trying(a))
    /\ UNCHANGED <<lists, m_connections, hosts, now, reached>>

\* The seeds, in turn, until one answers; one more try than there are seeds.
connectToSeeds ==
    /\ Doing("seeds")
    /\ IF maker.count > Cardinality(Seeds) THEN maker' = AfterTask
       ELSE \E a \in Seeds : maker' = ConnectTo(a, [maker EXCEPT !.count = @ + 1])
    /\ UNCHANGED <<lists, m_connections, hosts, now, reached>>

\* How many connections to draw from which list, the white one first while
\* there are too few of them.
countConnections ==
    LET n == Cardinality(Outgoing) IN
    /\ Doing("count")
    /\ maker' = IF n >= ConnectionsCount THEN AfterTask
                ELSE [maker EXCEPT !.plan =
                        IF n < ExpectedWhite
                        THEN <<Task("list", {}, "white", ExpectedWhite),
                               Task("list", {}, "gray", ConnectionsCount)>>
                        ELSE <<Task("list", {}, "gray", ConnectionsCount),
                               Task("list", {}, "white", ConnectionsCount)>>]
    /\ UNCHANGED <<lists, m_connections, hosts, now, reached>>

\* Variant: one connection too many.
drawOneTooMany ==
    LET size == Cardinality(DOMAIN ListOf(Current)) IN
    /\ Doing("list")
    /\ maker' = IF Cardinality(Outgoing) > Current.expected \/ size = 0 THEN AfterTask
                ELSE [maker EXCEPT !.at = "drawing", !.tried = {}, !.count = size]
    /\ UNCHANGED <<lists, m_connections, hosts, now, reached>>

\* make_expected_connections_count; the size of the list is read once.
drawFromList ==
    LET size == Cardinality(DOMAIN ListOf(Current)) IN
    /\ Doing("list")
    /\ maker' = IF Cardinality(Outgoing) >= Current.expected \/ size = 0 THEN AfterTask
                ELSE [maker EXCEPT !.at = "drawing", !.tried = {}, !.count = size]
    /\ UNCHANGED <<lists, m_connections, hosts, now, reached>>

\* make_new_connection_from_peerlist draws an index not tried yet.  The list
\* may have become shorter since its size was read.
draw ==
    /\ maker.at = "drawing"
    /\ \E i \in 0 .. maker.count - 1 :
         /\ i \notin maker.tried
         /\ IF ByTime(ListOf(Current), i) = {} THEN maker' = AfterTask /\ UNCHANGED m_blocked_hosts
            ELSE \E a \in ByTime(ListOf(Current), i) :
                   LET tried == [maker EXCEPT !.tried = @ \cup {i}] IN
                   IF is_peer_used(a, ListOf(Current)[a].id)
                   THEN maker' = tried /\ UNCHANGED m_blocked_hosts
                   ELSE /\ m_blocked_hosts' = unblocked(Ip[a])
                        /\ maker' = IF Allowed(Ip[a]) THEN ConnectTo(a, tried) ELSE tried
    /\ UNCHANGED <<lists, m_connections, m_host_fails_score, now, reached>>

\* The random indices may repeat until the attempts are used up.
giveUpDrawing ==
    /\ maker.at = "drawing" /\ maker.tried # {}
    /\ maker' = AfterTask
    /\ UNCHANGED <<lists, m_connections, hosts, now, reached>>

Failed == [maker EXCEPT !.at = IF Current.do = "list" THEN "drawing" ELSE "next", !.to = NoPeer]
Succeeded == IF Current.do = "seeds" THEN AfterTask
             ELSE [maker EXCEPT !.at = "next", !.to = NoPeer, !.count = 0, !.tried = {}]

\* The connection is made, or refused, or times out.
connectReturns ==
    /\ maker.at = "connecting"
    /\ maker' \in {Failed, [maker EXCEPT !.at = "handshaking"]}
    /\ UNCHANGED <<lists, m_connections, hosts, now, reached>>

SetLists(p) == white' = p[1] /\ gray' = p[2]

\* handle_remote_peerlist: nothing, or an entry the peer was told of.
Merged(w, g) ==
    {<<w, g>>} \cup UNION {append_with_peer_gray(w, g, a, [id |-> Peer[a], last_seen |-> t]) :
                             a \in Addresses, t \in 0 .. now}

handshakeFails ==
    LET h == Ip[maker.to] IN
    /\ maker.at = "handshaking"
    /\ maker' = Failed
    /\ \/ UNCHANGED <<m_connections, hosts>>    \* no answer, or another network
       \/ ban_host(h)                           \* an old version
       \/ add_host_fail(h, m_connections, m_blocked_hosts)  \* a peer list from the future
    /\ UNCHANGED <<lists, now, reached>>

\* The sync data of the peer is refused after its peer list was merged.
payloadRefused ==
    /\ maker.at = "handshaking" /\ Current.do # "seeds"
    /\ maker' = Failed
    /\ \E p \in Merged(white, gray) : SetLists(p)
    /\ UNCHANGED <<m_connections, hosts, now, reached>>

NewId == CHOOSE c \in 1 .. MaxConnections : c \notin DOMAIN m_connections
Free == Cardinality(DOMAIN m_connections) < MaxConnections
Context(income, a, peer, state) ==
    [m_is_income |-> income, address |-> a, peerId |-> peer, m_state |-> state, pinging |-> FALSE]

\* The peer is put on the white list; when it is another node and more than
\* its peer list is wanted, the connection is opened.
handshakeReturns ==
    LET a == maker.to IN
    /\ maker.at = "handshaking" /\ Free
    /\ reached' = reached \cup {a}
    /\ \E merged \in Merged(white, gray) :
         IF Current.do = "seeds"
         THEN SetLists(merged) /\ maker' = Succeeded /\ UNCHANGED m_connections
         ELSE /\ \E p \in append_with_peer_white(merged[1], merged[2], a,
                                                 [id |-> Peer[a], last_seen |-> now]) : SetLists(p)
              /\ IF Peer[a] = Self THEN maker' = Failed /\ UNCHANGED m_connections
                 ELSE /\ maker' = Succeeded
                      /\ m_connections' = With(m_connections, NewId,
                                               Context(FALSE, a, Peer[a], "active"))
    /\ UNCHANGED <<hosts, now>>
-------------------------------------------------------------------------------
(* The handlers of a connection.  The handler returns after a command that *)
(* leaves the connection in the state of a shutdown.                       *)

Handled(conns, c) == IF conns[c].m_state = "shutdown" THEN Without(conns, c) ELSE conns
With1(c, ctx) == [m_connections EXCEPT ![c] = ctx]

acceptConnection ==
    /\ Free
    /\ \E a \in Addresses :
         m_connections' = With(m_connections, NewId, Context(TRUE, a, NoPeer, "befor_handshake"))
    /\ UNCHANGED <<lists, hosts, maker, now, reached>>

\* handle_handshake refuses a blocked host, another network, an old version, a
\* connection this node has made, and a second handshake.
handle_handshake(c) ==
    LET it == m_connections[c]
        h == Ip[it.address]
    IN
    /\ ~it.pinging
    /\ \/ Blocked(h) /\ m_connections' = Without(m_connections, c) /\ UNCHANGED hosts
       \/ ~Blocked(h) /\ ban_host(h)
       \/ Allowed(h) /\ add_host_fail(h, Without(m_connections, c), unblocked(h))
       \/ /\ Allowed(h) /\ it.peerId # NoPeer
          /\ m_connections' = Without(m_connections, c)
          /\ m_blocked_hosts' = unblocked(h) /\ UNCHANGED m_host_fails_score
       \/ /\ Allowed(h) /\ it.m_is_income /\ it.peerId = NoPeer
          /\ m_blocked_hosts' = unblocked(h) /\ UNCHANGED m_host_fails_score
          /\ m_connections' = With1(c, [it EXCEPT !.peerId = Peer[it.address], !.m_state = "active",
                                                  !.pinging = Peer[it.address] # Self])
    /\ UNCHANGED <<lists, maker, now, reached>>

\* The back ping fails, or the peer is reached and goes to the white list.
pingReturns(c) ==
    LET it == m_connections[c] IN
    /\ it.pinging
    /\ m_connections' = Handled(With1(c, [it EXCEPT !.pinging = FALSE]), c)
    /\ \/ UNCHANGED <<lists, reached>>
       \/ /\ \E p \in append_with_peer_white(white, gray, it.address,
                                             [id |-> it.peerId, last_seen |-> now]) : SetLists(p)
          /\ reached' = reached \cup {it.address}
    /\ UNCHANGED <<hosts, maker, now>>

\* A timed sync request, or the response to one.  process_payload_sync_data
\* sets the state whatever it was.
timedSync(c) ==
    LET it == m_connections[c] IN
    /\ ~it.pinging /\ it.peerId # NoPeer
    /\ m_connections' = With1(c, [it EXCEPT !.m_state = "active"])
    /\ \/ UNCHANGED lists
       \/ \E merged \in Merged(white, gray) :
            IF it.m_is_income THEN SetLists(merged)
            ELSE \E p \in append_with_peer_white(merged[1], merged[2], it.address,
                                                 [id |-> it.peerId, last_seen |-> now]) : SetLists(p)
    /\ UNCHANGED <<hosts, maker, now, reached>>

\* The protocol handler drops a peer that sent something invalid.
drop_connection(c) ==
    /\ ~m_connections[c].pinging
    /\ add_host_fail(Ip[m_connections[c].address], Without(m_connections, c), m_blocked_hosts)
    /\ UNCHANGED <<lists, maker, now, reached>>

\* Any other command, or the peer hangs up.
otherCommand(c) ==
    /\ ~m_connections[c].pinging
    /\ m_connections' \in {Handled(m_connections, c), Without(m_connections, c)}
    /\ UNCHANGED <<lists, hosts, maker, now, reached>>

tick ==
    /\ now < MaxTime /\ now' = now + 1
    /\ UNCHANGED <<lists, m_connections, hosts, maker, reached>>

Next ==
    \/ connections_maker \/ connectToAddresses \/ connectToSeeds \/ countConnections
    \/ drawFromList \/ draw \/ giveUpDrawing \/ connectReturns \/ handshakeFails
    \/ payloadRefused \/ handshakeReturns
    \/ acceptConnection
    \/ \E c \in DOMAIN m_connections : handle_handshake(c) \/ pingReturns(c) \/ timedSync(c)
                                         \/ drop_connection(c) \/ otherCommand(c)
    \/ tick

Spec == Init /\ [][Next]_vars
-------------------------------------------------------------------------------
\* The peer lists stay apart and within their limits, and the white list holds
\* only addresses this node has itself connected to: what peers tell goes to the
\* gray list ("called only(!) if success pinged, update local peerlist",
\* handle_handshake), and an address leaves the gray list when it is promoted.
ListsSound ==
    /\ DOMAIN white \cap DOMAIN gray = {}
    /\ Cardinality(DOMAIN white) <= WhiteLimit /\ Cardinality(DOMAIN gray) <= GrayLimit
    /\ DOMAIN white \subseteq reached

\* The maker keeps at most one outgoing connection to an address, none to this
\* node, and no more than connections_count beside the priority peers, although
\* is_peer_used and the counts are read before two awaits.
OutgoingSound ==
    /\ \A c, d \in Outgoing : m_connections[c].address = m_connections[d].address => c = d
    /\ \A c \in Outgoing : m_connections[c].peerId # Self
    /\ Cardinality(Outgoing) <= ConnectionsCount + Cardinality(Priority)
===============================================================================
