---------------------- MODULE CryptoNoteProtocolHandler ----------------------
(***************************************************************************)
(* How nodes synchronise their chains: the handlers of                     *)
(* src/lib/CryptoNoteProtocol/CryptoNoteProtocolHandler.cpp on every node, *)
(* run by the connection handlers of src/lib/P2p/NetNode.cpp over one TCP  *)
(* connection per link, which keeps the order of messages.                 *)
(*                                                                         *)
(* A handler runs in one step, because a coroutine only gives way where it *)
(* waits; processObjects yields after every block, so that handlers of     *)
(* other connections run in between.  The block store is what Blockchain   *)
(* promises: the blocks a node has, and the tip of its main chain.  The    *)
(* observed height and the number of peers are read by observers only and  *)
(* are left out.                                                           *)
(***************************************************************************)
EXTENDS Naturals, Sequences, SequencesExt, FiniteSets

CONSTANTS Nodes,       \* the nodes
          Links,       \* the connections: <<who connects, to whom>>
          Blocks, Genesis,
          Path,        \* the chain from the genesis block to each block
          Work,        \* the cumulative difficulty of each block
          Start,       \* the tip each node starts with
          Found,       \* the blocks each node may get from elsewhere
          Txs,         \* transactions that wallets may send
          Up,          \* whether the links are up and idle at the start
          MaxIds,      \* BLOCKS_IDS_SYNCHRONIZING_DEFAULT_COUNT
          MaxBlocks,   \* BLOCKS_SYNCHRONIZING_DEFAULT_COUNT
          MaxBans      \* how often a host may be banned

VARIABLES known,       \* m_blockIndex and m_alternative_chains
          tip,         \* the last block of the main chain
          pool,        \* the memory pool
          ctx,         \* the connection contexts
          busy,        \* processObjects: the blocks not processed yet
          chan,        \* what was sent and not yet read
          switched,    \* the nodes that have switched to an alternative chain
          failed,      \* the assertions and checks that have failed
          bans
vars == <<known, tip, pool, ctx, busy, chan, switched, failed, bans>>

Peers(n) == {p \in Nodes : <<n, p>> \in Links \/ <<p, n>> \in Links}
Ends == {<<n, p>> \in Nodes \X Nodes : p \in Peers(n)}

Height(b) == Len(Path[b])
Parent(b) == Path[b][Height(b) - 1]

Msg(type) == [type |-> type, ids |-> <<>>, start |-> 0, height |-> 0,
              block |-> Genesis, txs |-> {}]
CoreSyncData(type, n) ==
    [Msg(type) EXCEPT !.height = Height(tip[n]), !.block = tip[n]]

Context(state, remote) == [state |-> state, needed |-> <<>>, requested |-> {},
                           remote |-> remote, last |-> 0]
Closed == Context("closed", 0)
NotBusy == [on |-> FALSE, blocks |-> <<>>]
Open(e) == ctx[e].state # "closed"

Init == /\ known = [n \in Nodes |-> Range(Path[Start[n]])]
        /\ tip = Start
        /\ pool = [n \in Nodes |-> {}]
        /\ ctx = [e \in Ends |-> IF Up THEN Context("normal", Height(Start[e[2]]))
                                       ELSE Closed]
        /\ busy = [e \in Ends |-> NotBusy]
        /\ chan = [e \in Ends |-> <<>>]
        /\ switched = {} /\ failed = {} /\ bans = 0
------------------------------------------------------------------------------
(* The core, as far as the handlers use it. *)

\* What addNewBlock answers.
Outcome(n, b) == IF b \in known[n] THEN "exists"
                 ELSE IF Parent(b) \notin known[n] THEN "orphaned"
                 ELSE IF Parent(b) = tip[n] THEN "main"
                 ELSE IF Work[b] > Work[tip[n]] THEN "switched"
                 ELSE "alternative"

addNewBlock(n, b) ==
    LET o == Outcome(n, b)
    IN  /\ known' = IF o \in {"main", "switched", "alternative"}
                    THEN [known EXCEPT ![n] = @ \union {b}] ELSE known
        /\ tip' = IF o \in {"main", "switched"} THEN [tip EXCEPT ![n] = b] ELSE tip
        /\ switched' = IF o = "switched" THEN switched \union {n} ELSE switched

\* The last block, then every 2^i-th before it, then the genesis block.
buildSparseChain(n) ==
    LET chain == Path[tip[n]]
        steps == SelectSeq(<<1, 2, 4, 8, 16>>, LAMBDA i : i <= Len(chain))
        some  == [i \in 1..Len(steps) |-> chain[Len(chain) - steps[i] + 1]]
    IN  IF Last(some) = Genesis THEN some ELSE Append(some, Genesis)

\* From the first of the ids that is on the main chain.
findBlockchainSupplementAfter(n, ids) ==
    LET chain  == Path[tip[n]]
        common == SelectSeq(ids, LAMBDA b : b \in Range(chain))[1]
        start  == IF common = tip[n] THEN Len(chain) ELSE Height(common) + 1
        end    == IF start + MaxIds - 1 < Len(chain) THEN start + MaxIds - 1 ELSE Len(chain)
    IN  [Msg("CHAIN_ENTRY") EXCEPT !.ids = SubSeq(chain, start, end),
                                   !.start = start - 1, !.height = Len(chain)]

findBlockchainSupplement(n, ids) ==
    LET chain  == Path[tip[n]]
        common == SelectSeq(ids, LAMBDA b : b \in Range(chain))[1]
        start  == Height(common)
        end    == IF start + MaxIds - 1 < Len(chain) THEN start + MaxIds - 1 ELSE Len(chain)
    IN  [Msg("CHAIN_ENTRY") EXCEPT !.ids = SubSeq(chain, start, end),
                                   !.start = start - 1, !.height = Len(chain)]

RequestChain(n) == [Msg("REQUEST_CHAIN") EXCEPT !.ids = buildSparseChain(n)]
RequestTxPool(n) == [Msg("REQUEST_TX_POOL") EXCEPT !.txs = pool[n]]
------------------------------------------------------------------------------
(* The connection handler. *)

\* What the loop does before it reads the next command.
LoopTop(n, c) ==
    CASE c.state = "sync_required" ->
             [c |-> [c EXCEPT !.state = "synchronizing"], out |-> <<RequestChain(n)>>,
              failed |-> IF c.needed = <<>> /\ c.requested = {} THEN {} ELSE {"start_sync"}]
      [] c.state = "pool_sync_required" ->
             [c |-> [c EXCEPT !.state = "normal"], out |-> <<RequestTxPool(n)>>,
              failed |-> {}]
      [] OTHER -> [c |-> c, out |-> <<>>, failed |-> {}]

Relayed(n, p) == {q \in Peers(n) \ {p} : ctx[<<n, q>>].state \in {"normal", "synchronizing"}}

\* What a handler of connection <<n, p>> leaves behind: its context c, the
\* messages to p, and the message to everybody else, if any.  A connection in
\* state_shutdown is closed, and what it has not sent is lost.
Return(n, p, c, out, relay) ==
    LET top    == LoopTop(n, c)
        down   == c.state = "shutdown"
        to(q)  == IF q \in Relayed(n, p) THEN relay ELSE <<>>
        mine   == <<n, p>>
        theirs == <<p, n>>
        read   == IF chan[theirs] # <<>> /\ ~busy[mine].on THEN Tail(chan[theirs]) ELSE chan[theirs]
    IN  /\ ctx' = [ctx EXCEPT ![mine] = IF down THEN Closed ELSE top.c]
        /\ chan' = [e \in Ends |->
                      CASE e = mine -> IF down \/ ~Open(theirs) THEN <<>>
                                       ELSE chan[e] \o out \o top.out
                        [] e = theirs -> IF down THEN <<>> ELSE read
                        [] e[1] = n /\ e # mine -> chan[e] \o to(e[2])
                        [] OTHER -> chan[e]]
        /\ failed' = failed \union (IF down THEN {} ELSE top.failed)

Received(n, p, type) == /\ Open(<<n, p>>) /\ ~busy[<<n, p>>].on
                        /\ chan[<<p, n>>] # <<>> /\ chan[<<p, n>>][1].type = type

NoBlocks == UNCHANGED <<known, tip, switched>>
Quiet == NoBlocks /\ UNCHANGED <<pool, busy, bans>>

\* connections_maker: connect and send the handshake.
Connect(l) ==
    LET back == <<l[2], l[1]>>
    IN  /\ ~Open(l) /\ ~Open(back)
        /\ ctx' = [ctx EXCEPT ![l] = Context("handshaking", 0), ![back] = Context("before", 0)]
        /\ chan' = [chan EXCEPT ![l] = <<CoreSyncData("HANDSHAKE", l[1])>>, ![back] = <<>>]
        /\ Quiet /\ UNCHANGED failed

\* The other side has closed the connection.
ReadFails(n, p) ==
    /\ Open(<<n, p>>) /\ ~Open(<<p, n>>) /\ ~busy[<<n, p>>].on
    /\ ctx' = [ctx EXCEPT ![<<n, p>>] = Closed]
    /\ chan' = [chan EXCEPT ![<<n, p>>] = <<>>, ![<<p, n>>] = <<>>]
    /\ Quiet /\ UNCHANGED failed



process_payload_sync_data(n, c, m, initial) ==
    IF c.state = "before" /\ ~initial THEN c
    ELSE [c EXCEPT !.state = CASE @ = "synchronizing" -> @
                               [] m.block \in known[n] -> IF initial THEN "pool_sync_required"
                                                                     ELSE "normal"
                               [] OTHER -> "sync_required",
                   !.remote = m.height]

handle_handshake(n, p) ==
    /\ Received(n, p, "HANDSHAKE")
    /\ Return(n, p, process_payload_sync_data(n, ctx[<<n, p>>], chan[<<p, n>>][1], TRUE),
              <<CoreSyncData("HANDSHAKE_RSP", n)>>, <<>>)
    /\ Quiet

handshake(n, p) ==
    /\ Received(n, p, "HANDSHAKE_RSP")
    /\ Return(n, p, process_payload_sync_data(n, ctx[<<n, p>>], chan[<<p, n>>][1], TRUE), <<>>, <<>>)
    /\ Quiet

\* One round of the timer; the next comes when this one has been answered.
timedSync(n) ==
    LET to == {p \in Peers(n) : ctx[<<n, p>>].state \in {"normal", "idle"} /\ Open(<<p, n>>)}
        pending(p) == \/ \E i \in DOMAIN chan[<<n, p>>] : chan[<<n, p>>][i].type = "TIMED_SYNC"
                      \/ \E i \in DOMAIN chan[<<p, n>>] : chan[<<p, n>>][i].type = "TIMED_SYNC_RSP"
    IN  /\ to # {} /\ \A p \in to : ~pending(p)
        /\ chan' = [e \in Ends |-> IF e[1] = n /\ e[2] \in to
                                   THEN Append(chan[e], CoreSyncData("TIMED_SYNC", n)) ELSE chan[e]]
        /\ Quiet /\ UNCHANGED <<ctx, failed>>

handle_timed_sync(n, p) ==
    /\ Received(n, p, "TIMED_SYNC")
    /\ Return(n, p, process_payload_sync_data(n, ctx[<<n, p>>], chan[<<p, n>>][1], FALSE),
              <<CoreSyncData("TIMED_SYNC_RSP", n)>>, <<>>)
    /\ Quiet

handleTimedSyncResponse(n, p) ==
    /\ Received(n, p, "TIMED_SYNC_RSP")
    /\ Return(n, p, process_payload_sync_data(n, ctx[<<n, p>>], chan[<<p, n>>][1], FALSE), <<>>, <<>>)
    /\ Quiet
------------------------------------------------------------------------------
(* The handlers. *)

\* A block that the miner found, or that a peer outside the model announced.
BlockFound(n, b) ==
    /\ b \in Found[n] \ known[n] /\ Parent(b) \in known[n]
    /\ addNewBlock(n, b)
    /\ chan' = [e \in Ends |->
                  IF /\ e[1] = n /\ ctx[e].state \in {"normal", "synchronizing"}
                     /\ Outcome(n, b) \in {"main", "switched"}
                  THEN Append(chan[e], [Msg("NEW_BLOCK") EXCEPT !.block = b, !.height = Height(b)])
                  ELSE chan[e]]
    /\ UNCHANGED <<pool, ctx, busy, failed, bans>>

TxSent(n, t) ==
    /\ t \in Txs /\ \A q \in Nodes : t \notin pool[q]
    /\ pool' = [pool EXCEPT ![n] = @ \union {t}]
    /\ chan' = [e \in Ends |->
                  IF e[1] = n /\ ctx[e].state \in {"normal", "synchronizing"}
                  THEN Append(chan[e], [Msg("NEW_TXS") EXCEPT !.txs = {t}]) ELSE chan[e]]
    /\ NoBlocks /\ UNCHANGED <<ctx, busy, failed, bans>>

handle_notify_new_block(n, p) ==
    /\ Received(n, p, "NEW_BLOCK")
    /\ LET m == chan[<<p, n>>][1]
           c == [ctx[<<n, p>>] EXCEPT !.remote = m.height]
           o == Outcome(n, m.block)
       IN  IF c.state # "normal" THEN NoBlocks /\ Return(n, p, c, <<>>, <<>>)
           ELSE /\ addNewBlock(n, m.block)
                /\ CASE o = "main" -> Return(n, p, c, <<>>, <<m>>)
                     [] o = "switched" -> Return(n, p, c, <<RequestTxPool(n)>>, <<m>>)
                     [] o = "orphaned" ->
                            Return(n, p, [c EXCEPT !.state = "synchronizing"],
                                   <<RequestChain(n)>>, <<>>)
                     [] OTHER -> Return(n, p, c, <<>>, <<>>)
    /\ UNCHANGED <<pool, busy, bans>>

\* Only what is new to the pool goes on.
handle_notify_new_transactions(n, p) ==
    /\ Received(n, p, "NEW_TXS")
    /\ LET c   == ctx[<<n, p>>]
           new == IF c.state = "normal" THEN chan[<<p, n>>][1].txs \ pool[n] ELSE {}
       IN  /\ pool' = [pool EXCEPT ![n] = @ \union new]
           /\ Return(n, p, c, <<>>,
                     IF new = {} THEN <<>> ELSE <<[Msg("NEW_TXS") EXCEPT !.txs = new]>>)
    /\ NoBlocks /\ UNCHANGED <<busy, bans>>

handleRequestTxPool(n, p) ==
    /\ Received(n, p, "REQUEST_TX_POOL")
    /\ LET added == pool[n] \ chan[<<p, n>>][1].txs
       IN  Return(n, p, ctx[<<n, p>>],
                  IF added = {} THEN <<>> ELSE <<[Msg("NEW_TXS") EXCEPT !.txs = added]>>, <<>>)
    /\ Quiet

handle_request_chain(n, p) ==
    /\ Received(n, p, "REQUEST_CHAIN")
    /\ Return(n, p, ctx[<<n, p>>], <<findBlockchainSupplement(n, chan[<<p, n>>][1].ids)>>, <<>>)
    /\ Quiet

\* Only blocks of the main chain are sent; the others are missed.
handle_request_get_objects(n, p) ==
    /\ Received(n, p, "GET_OBJECTS")
    /\ LET have == SelectSeq(chan[<<p, n>>][1].ids, LAMBDA b : b \in Range(Path[tip[n]]))
       IN  Return(n, p, ctx[<<n, p>>],
                  <<[Msg("OBJECTS") EXCEPT !.ids = have, !.height = Height(tip[n])]>>, <<>>)
    /\ Quiet

\* How many of the needed objects the next request takes from the list.
Taken(needed, wanted) ==
    LET full == {i \in 1..Len(needed) : Cardinality({j \in 1..i : needed[j] \in wanted}) = MaxBlocks}
    IN  IF full = {} THEN Len(needed) ELSE CHOOSE i \in full : \A j \in full : i <= j

request_missing_objects(n, c, check_having_blocks) ==
    LET wanted == IF check_having_blocks THEN Range(c.needed) \ known[n] ELSE Range(c.needed)
        taken  == Taken(c.needed, wanted)
        ids    == SelectSeq(SubSeq(c.needed, 1, taken), LAMBDA b : b \in wanted)
    IN  IF c.needed # <<>> THEN
             [c |-> [c EXCEPT !.needed = SubSeq(@, taken + 1, Len(@)),
                              !.requested = @ \union Range(ids)],
              out |-> <<[Msg("GET_OBJECTS") EXCEPT !.ids = ids]>>, ok |-> TRUE]
        ELSE IF c.last + 1 < c.remote THEN [c |-> c, out |-> <<RequestChain(n)>>, ok |-> TRUE]
        ELSE IF c.last + 1 # c.remote \/ c.requested # {} THEN
             [c |-> c, out |-> <<>>, ok |-> FALSE]
        ELSE [c |-> [c EXCEPT !.state = "normal"], out |-> <<RequestTxPool(n)>>, ok |-> TRUE]

\* request_missing_objects, and the end of the handler.
RequestMissing(n, p, c, check_having_blocks) ==
    LET r == request_missing_objects(n, c, check_having_blocks)
        b == [busy EXCEPT ![<<n, p>>] = NotBusy]
    IN  /\ busy' = b
        /\ IF r.ok THEN Return(n, p, r.c, r.out, <<>>)
           ELSE /\ ctx' = [ctx EXCEPT ![<<n, p>>] = r.c]
                /\ chan' = [chan EXCEPT ![<<p, n>>] = IF busy[<<n, p>>].on \/ @ = <<>> THEN @ ELSE Tail(@)]
                /\ failed' = failed \union {"final_condition"}

handle_response_chain_entryLast(n, p) ==
    /\ Received(n, p, "CHAIN_ENTRY")
    /\ LET m == chan[<<p, n>>][1]
           c == [ctx[<<n, p>>] EXCEPT
                   !.remote = m.height, !.last = m.start + Len(m.ids),
                   !.needed = @ \o SelectSeq(m.ids, LAMBDA b : b \notin known[n])]
       IN  RequestMissing(n, p, c, FALSE)
    /\ NoBlocks /\ UNCHANGED <<pool, bans>>

handle_response_chain_entry(n, p) ==
    /\ Received(n, p, "CHAIN_ENTRY")
    /\ LET m == chan[<<p, n>>][1]
           c == [ctx[<<n, p>>] EXCEPT
                   !.remote = m.height, !.last = m.start + Len(m.ids) - 1,
                   !.needed = @ \o SelectSeq(m.ids, LAMBDA b : b \notin known[n])]
       IN  IF m.ids[1] \notin known[n]
           THEN Return(n, p, Context("shutdown", 0), <<>>, <<>>) /\ UNCHANGED busy
           ELSE RequestMissing(n, p, c, FALSE)
    /\ NoBlocks /\ UNCHANGED <<pool, bans>>

\* The checks before the first block is processed.
Delivery(n, c, m) ==
    IF c.last > m.height THEN "wrong"
    ELSE IF m.ids # <<>> /\ m.ids[1] \notin c.requested THEN "wrong"
    ELSE IF Len(m.ids) >= 2 /\ m.ids[2] \in known[n] THEN "idle"
    ELSE IF Range(m.ids) # c.requested THEN "wrong"
    ELSE "complete"

handle_response_get_objects(n, p) ==
    /\ Received(n, p, "OBJECTS")
    /\ LET m == chan[<<p, n>>][1]
           c == [ctx[<<n, p>>] EXCEPT !.remote = m.height]
       IN  CASE Delivery(n, c, m) = "wrong" ->
                    Return(n, p, Context("shutdown", 0), <<>>, <<>>) /\ UNCHANGED busy
             [] Delivery(n, c, m) = "idle" ->
                    /\ Return(n, p, [c EXCEPT !.state = "idle", !.needed = <<>>, !.requested = {}],
                              <<>>, <<>>)
                    /\ UNCHANGED busy
             [] OTHER ->
                    /\ ctx' = [ctx EXCEPT ![<<n, p>>] = [c EXCEPT !.requested = {}]]
                    /\ busy' = [busy EXCEPT ![<<n, p>>] = [on |-> TRUE, blocks |-> m.ids]]
                    /\ chan' = [chan EXCEPT ![<<p, n>>] = Tail(@)]
                    /\ UNCHANGED failed
    /\ NoBlocks /\ UNCHANGED <<pool, bans>>

\* One block; then the dispatcher may run other handlers.
processObjects(n, p) ==
    LET e == <<n, p>>
        b == Head(busy[e].blocks)
        o == Outcome(n, b)
    IN  /\ busy[e].on /\ busy[e].blocks # <<>>
        /\ addNewBlock(n, b)
        /\ CASE o = "orphaned" -> /\ Return(n, p, Context("shutdown", 0), <<>>, <<>>)
                                  /\ busy' = [busy EXCEPT ![e] = NotBusy]
             [] o = "exists" -> /\ Return(n, p, [ctx[e] EXCEPT !.state = "idle", !.needed = <<>>,
                                                               !.requested = {}], <<>>, <<>>)
                                /\ busy' = [busy EXCEPT ![e] = NotBusy]
             [] OTHER -> /\ busy' = [busy EXCEPT ![e].blocks = Tail(@)]
                         /\ UNCHANGED <<ctx, chan, failed>>
        /\ UNCHANGED <<pool, bans>>

\* All blocks are processed.
ObjectsProcessed(n, p) ==
    LET e == <<n, p>>
    IN  /\ busy[e].on /\ busy[e].blocks = <<>>
        /\ IF ctx[e].state = "synchronizing" THEN RequestMissing(n, p, ctx[e], TRUE)
           ELSE Return(n, p, ctx[e], <<>>, <<>>) /\ busy' = [busy EXCEPT ![e] = NotBusy]
        /\ NoBlocks /\ UNCHANGED <<pool, bans>>

\* block_host: another connection's handler or the operator bans p.
block_host(n, p) ==
    /\ bans < MaxBans /\ Open(<<n, p>>) /\ ctx[<<n, p>>].state # "handshaking"
    /\ ctx' = [ctx EXCEPT ![<<n, p>>].state = "shutdown"]
    /\ bans' = bans + 1
    /\ NoBlocks /\ UNCHANGED <<pool, busy, chan, failed>>

Handle(n, p) ==
    \/ ReadFails(n, p)
    \/ handle_handshake(n, p)
    \/ handshake(n, p)
    \/ handle_timed_sync(n, p)
    \/ handleTimedSyncResponse(n, p)
    \/ handle_notify_new_block(n, p)
    \/ handle_notify_new_transactions(n, p)
    \/ handleRequestTxPool(n, p)
    \/ handle_request_chain(n, p)
    \/ handle_response_chain_entry(n, p)
    \/ handle_request_get_objects(n, p)
    \/ handle_response_get_objects(n, p)
    \/ processObjects(n, p)
    \/ ObjectsProcessed(n, p)

Next == \/ \E l \in Links : Connect(l)
        \/ \E n \in Nodes : timedSync(n)
        \/ \E n \in Nodes, b \in Blocks : BlockFound(n, b)
        \/ \E n \in Nodes, t \in Txs : TxSent(n, t)
        \/ \E e \in Ends : Handle(e[1], e[2])
        \/ \E e \in Ends : block_host(e[1], e[2])

\* Messages arrive, the dispatcher runs every handler, the timer of the
\* synchronisation fires and connections_maker reconnects.
Fairness == /\ \A l \in Links : WF_vars(Connect(l))
            /\ \A n \in Nodes : WF_vars(timedSync(n))
            /\ \A e \in Ends : WF_vars(Handle(e[1], e[2]))

Spec == Init /\ [][Next]_vars /\ Fairness
------------------------------------------------------------------------------
Count(s, types) == Len(SelectSeq(s, LAMBDA m : m.type \in types))

\* Requests of n to p that are not yet answered and processed.
Outstanding(n, p) == Count(chan[<<n, p>>], {"REQUEST_CHAIN", "GET_OBJECTS"})
                   + Count(chan[<<p, n>>], {"CHAIN_ENTRY", "OBJECTS"})
                   + (IF busy[<<n, p>>].on THEN 1 ELSE 0)


\* The assertions of start_sync: nothing is needed or requested when a
\* synchronisation starts.
StartsEmpty == "start_sync" \notin failed

\* The last check of request_missing_objects never fails.
FinalCondition == "final_condition" \notin failed

\* Two correct nodes part only when a switch to another chain came between a
\* request and its answer: while nobody switches no connection is closed.
Parts == \E e \in Ends : Open(e) /\ ctx'[e].state = "closed"
PartOnlyAfterSwitch == [][Parts => switched # {}]_vars

\* Connected nodes have chains of the same work.
Synchronised == \A l \in Links : Work[tip[l[1]]] = Work[tip[l[2]]]

\* However messages, timers and found blocks interleave, connected nodes end
\* up with chains of the same work.
EventuallySynchronised == <>[]Synchronised

\* A transaction that reaches one pool reaches all of them.
InOnePool(t) == \E n \in Nodes : t \in pool[n]
InEveryPool(t) == \A n \in Nodes : t \in pool[n]
EventuallyPooled == \A t \in Txs : InOnePool(t) ~> InEveryPool(t)
==============================================================================
