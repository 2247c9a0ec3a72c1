-------------------------------- MODULE Miner --------------------------------
(***************************************************************************)
(* lib/CryptoNoteCore/Miner.cpp: worker threads that look for a nonce for  *)
(* the current block template, and the threads that start and stop them    *)
(* and renew the template: the dispatcher (RPC, blocks of peers, on_idle)  *)
(* and the console.  Each statement that another thread can see between is *)
(* a step.                                                                 *)
(*                                                                         *)
(* A block is its height.  m_template_no is here by what the workers       *)
(* compare: whether it changed since a worker read it last.                *)
(***************************************************************************)
EXTENDS Naturals, FiniteSets

CONSTANTS
    Workers,    \* one thread each when mining
    MaxTail, MaxCalls, MaxErrors

VARIABLES
    m_stop, m_threads,
    threadsLock,     \* who holds m_threads_lock
    m_template,      \* [b, diffic], the height it is for and its difficulty; 0 when there is none
    changed,         \* worker -> m_template_no is not the worker's local_template_ver
    m_pausers_count,
    top,             \* the height of the main chain
    at,              \* where each thread is
    draft,           \* what get_block_template gave a thread
    work,            \* worker -> its b and local_diff
    overtaken,       \* callers of stop behind whose signal a start went on
    callCount, failures

minerVars == <<m_stop, m_threads, threadsLock, m_template, changed, m_pausers_count, top, at,
               draft, work, overtaken, callCount, failures>>

Callers == {"dispatcher", "console"}
Actors == Callers \cup Workers
NoTemplate == [b |-> 0, diffic |-> 0]
For(height) == [b |-> height, diffic |-> height]

MinerInit ==
    /\ m_stop = TRUE /\ m_threads = {} /\ threadsLock = "none" /\ m_template = NoTemplate
    /\ changed = [w \in Workers |-> FALSE] /\ m_pausers_count = 0 /\ top = 1
    /\ at = [a \in Actors |-> IF a \in Callers THEN "idle" ELSE "out"]
    /\ draft = [a \in Actors |-> 0] /\ work = [w \in Workers |-> NoTemplate]
    /\ overtaken = {} /\ callCount = 0 /\ failures = 0

is_mining == ~m_stop
Moves(a, from, to) == at[a] = from /\ at' = [at EXCEPT ![a] = to]
Calls == callCount < MaxCalls /\ callCount' = callCount + 1

-----------------------------------------------------------------------------
(***************************************************************************)
(* request_block_template, from a thread that goes on at "next": the       *)
(* template of the chain as it is now, set in a later step.                *)
(***************************************************************************)
get_block_template(a, from, next) ==
    \/ /\ Moves(a, from, next[1]) /\ draft' = [draft EXCEPT ![a] = top + 1]
       /\ UNCHANGED failures
    \/ /\ failures < MaxErrors /\ failures' = failures + 1
       /\ Moves(a, from, next[2]) /\ UNCHANGED draft

set_block_template(a, from, next) ==
    /\ Moves(a, from, next)
    /\ m_template' = For(draft[a]) /\ draft' = [draft EXCEPT ![a] = 0]
    /\ changed' = [w \in Workers |-> w \in m_threads]

\* Where a thread that asks for a template goes on.
GetSteps == [idleGet |-> <<"idleSet", "idle">>, startGet |-> <<"startSet", "startRun">>,
             get |-> <<"set", "resume">>]
SetSteps == [idleSet |-> "idle", startSet |-> "startRun", set |-> "resume"]

request_block_template(a) ==
    \/ /\ at[a] \in DOMAIN GetSteps /\ (at[a] = "get" => is_mining)
       /\ get_block_template(a, at[a], GetSteps[at[a]])
       /\ UNCHANGED <<m_stop, m_threads, threadsLock, m_template, changed, m_pausers_count, top,
                      work, overtaken, callCount>>
    \/ /\ at[a] \in DOMAIN SetSteps
       /\ set_block_template(a, at[a], SetSteps[at[a]])
       /\ UNCHANGED <<m_stop, m_threads, threadsLock, m_pausers_count, top, work, overtaken,
                      callCount, failures>>

\* on_block_chain_update has nothing to do when nobody mines.
on_block_chain_update(a) ==
    /\ ~is_mining /\ Moves(a, "get", "resume")
    /\ UNCHANGED <<m_stop, m_threads, threadsLock, m_template, changed, m_pausers_count, top,
                   draft, work, overtaken, callCount, failures>>

\* Mutant: the template is renewed only when the chain changes.
on_idleWaits == FALSE /\ UNCHANGED minerVars

\* The dispatcher's timer.
on_idle ==
    /\ is_mining /\ Moves("dispatcher", "idle", "idleGet")
    /\ UNCHANGED <<m_stop, m_threads, threadsLock, m_template, changed, m_pausers_count, top,
                   draft, work, overtaken, callCount, failures>>

-----------------------------------------------------------------------------
(***************************************************************************)
(* Core::handle_incoming_block with control_miner: of a block of a peer    *)
(* (the dispatcher) or of the one that a worker found.                     *)
(***************************************************************************)
blockArrives ==
    /\ top < MaxTail /\ Moves("dispatcher", "idle", "pause")
    /\ UNCHANGED <<m_stop, m_threads, threadsLock, m_template, changed, m_pausers_count, top,
                   draft, work, overtaken, callCount, failures>>

pause(a) ==
    /\ Moves(a, "pause", "add") /\ m_pausers_count' = m_pausers_count + 1
    /\ UNCHANGED <<m_stop, m_threads, threadsLock, m_template, changed, top, draft, work,
                   overtaken, callCount, failures>>

\* A block that a worker found may be for a chain that has grown since.
addNewBlock(a) ==
    /\ Moves(a, "add", "get")
    /\ top' = IF top < MaxTail /\ (a \in Workers => work[a].b = top + 1) THEN top + 1 ELSE top
    /\ UNCHANGED <<m_stop, m_threads, threadsLock, m_template, changed, m_pausers_count, draft,
                   work, overtaken, callCount, failures>>

\* handle_block_found stops the miner when it has found enough.
resume(a) ==
    /\ at[a] = "resume" /\ at' = [at EXCEPT ![a] = IF a \in Workers THEN "loop" ELSE "idle"]
    /\ m_pausers_count' = m_pausers_count - 1
    /\ m_stop' \in IF a \in Workers THEN {m_stop, TRUE} ELSE {m_stop}
    /\ UNCHANGED <<m_threads, threadsLock, m_template, changed, top, draft, work, overtaken,
                   callCount, failures>>

-----------------------------------------------------------------------------
(***************************************************************************)
(* start and stop, on any thread that is not a worker.                     *)
(***************************************************************************)
start(a) ==
    /\ ~is_mining /\ Calls /\ Moves(a, "idle", "startLock")
    /\ UNCHANGED <<m_stop, m_threads, threadsLock, m_template, changed, m_pausers_count, top,
                   draft, work, overtaken, failures>>

startLocked(a) ==
    /\ threadsLock = "none" /\ threadsLock' = a /\ Moves(a, "startLock", "startJoin")
    /\ m_stop' = (m_stop \/ m_threads # {})
    /\ UNCHANGED <<m_threads, m_template, changed, m_pausers_count, top, draft, work, overtaken,
                   callCount, failures>>

AllExited == \A w \in m_threads : at[w] = "exited"
Joined(a, next) == [x \in Actors |-> IF x = a THEN next ELSE IF x \in m_threads THEN "out" ELSE at[x]]

\* Mutant: the old threads are forgotten.
startJoinedLater(a) ==
    /\ at[a] = "startJoin"
    /\ at' = [at EXCEPT ![a] = IF m_template = NoTemplate THEN "startGet" ELSE "startRun"]
    /\ m_threads' = {}
    /\ UNCHANGED <<m_stop, threadsLock, m_template, changed, m_pausers_count, top, draft, work,
                   overtaken, callCount, failures>>

startJoined(a) ==
    /\ at[a] = "startJoin" /\ AllExited
    /\ at' = Joined(a, IF m_template = NoTemplate THEN "startGet" ELSE "startRun")
    /\ m_threads' = {}
    /\ UNCHANGED <<m_stop, threadsLock, m_template, changed, m_pausers_count, top, draft, work,
                   overtaken, callCount, failures>>

startRuns(a) ==
    /\ Moves(a, "startRun", "startSpawn") /\ m_stop' = FALSE
    /\ overtaken' = overtaken \cup {x \in Callers : at[x] = "stopLock"}
    /\ UNCHANGED <<m_threads, threadsLock, m_template, changed, m_pausers_count, top, draft,
                   work, callCount, failures>>

startSpawns(a) ==
    /\ at[a] = "startSpawn" /\ threadsLock' = "none" /\ m_threads' = Workers
    /\ at' = [x \in Actors |-> IF x = a THEN "idle" ELSE IF x \in Workers THEN "loop" ELSE at[x]]
    /\ changed' = [w \in Workers |-> m_template # NoTemplate]
    /\ work' = [w \in Workers |-> NoTemplate]
    /\ UNCHANGED <<m_stop, m_template, m_pausers_count, top, draft, overtaken, callCount, failures>>

\* Mutant: stop only waits.
stopSilently(a) ==
    /\ Calls /\ Moves(a, "idle", "stopLock")
    /\ UNCHANGED <<m_stop, m_threads, threadsLock, m_template, changed, m_pausers_count, top,
                   draft, work, overtaken, failures>>

stop(a) ==
    /\ Calls /\ Moves(a, "idle", "stopLock") /\ m_stop' = TRUE
    /\ UNCHANGED <<m_threads, threadsLock, m_template, changed, m_pausers_count, top, draft, work,
                   overtaken, failures>>

stopLocked(a) ==
    /\ threadsLock = "none" /\ threadsLock' = a /\ Moves(a, "stopLock", "stopJoin")
    /\ UNCHANGED <<m_stop, m_threads, m_template, changed, m_pausers_count, top, draft, work,
                   overtaken, callCount, failures>>

stopReturns(a) ==
    /\ at[a] = "stopJoin" /\ AllExited /\ at' = Joined(a, "idle")
    /\ m_threads' = {} /\ threadsLock' = "none" /\ overtaken' = overtaken \ {a}
    /\ UNCHANGED <<m_stop, m_template, changed, m_pausers_count, top, draft, work, callCount,
                   failures>>

-----------------------------------------------------------------------------
(***************************************************************************)
(* worker_thread.                                                          *)
(***************************************************************************)
\* The loop's condition, and the copy of a new template under m_template_lock.
workerLoop(w) ==
    /\ at[w] = "loop"
    /\ \/ /\ m_stop /\ at' = [at EXCEPT ![w] = "exited"]
          /\ work' = [work EXCEPT ![w] = NoTemplate]
       \/ /\ ~m_stop /\ m_pausers_count = 0 /\ changed[w]
          /\ work' = [work EXCEPT ![w] = m_template] /\ at' = [at EXCEPT ![w] = "copied"]
       \/ /\ ~m_stop /\ m_pausers_count = 0 /\ ~changed[w] /\ m_template # NoTemplate
          /\ at' = [at EXCEPT ![w] = "hash"] /\ UNCHANGED work
    /\ UNCHANGED <<m_stop, m_threads, threadsLock, m_template, changed, m_pausers_count, top,
                   draft, overtaken, callCount, failures>>

\* Mutant: the difficulty is read when the lock is gone.
workerVersionAndDifficulty(w) ==
    /\ Moves(w, "copied", "hash") /\ changed' = [changed EXCEPT ![w] = FALSE]
    /\ work' = [work EXCEPT ![w].diffic = m_template.diffic]
    /\ UNCHANGED <<m_stop, m_threads, threadsLock, m_template, m_pausers_count, top, draft,
                   overtaken, callCount, failures>>

\* The lock is gone when the version is read.
workerVersion(w) ==
    /\ Moves(w, "copied", "hash") /\ changed' = [changed EXCEPT ![w] = FALSE]
    /\ UNCHANGED <<m_stop, m_threads, threadsLock, m_template, m_pausers_count, top, draft, work,
                   overtaken, callCount, failures>>

\* A nonce that is none, one that is, or no hash at all.
workerHash(w) ==
    /\ at[w] = "hash"
    /\ \/ at' = [at EXCEPT ![w] = "loop"] /\ UNCHANGED <<m_stop, failures>>
       \/ ~m_stop /\ top < MaxTail /\ at' = [at EXCEPT ![w] = "pause"] /\ UNCHANGED <<m_stop, failures>>
       \/ /\ ~m_stop /\ failures < MaxErrors /\ failures' = failures + 1
          /\ m_stop' = TRUE /\ at' = [at EXCEPT ![w] = "loop"]
    /\ UNCHANGED <<m_threads, threadsLock, m_template, changed, m_pausers_count, top, draft, work,
                   overtaken, callCount>>

Handles(a) ==
    \/ request_block_template(a) \/ on_block_chain_update(a) \/ pause(a) \/ addNewBlock(a)
    \/ resume(a)
worker_thread(w) == workerLoop(w) \/ workerVersion(w) \/ workerHash(w) \/ Handles(w)
Continues(a) ==
    \/ Handles(a) \/ startLocked(a) \/ startJoined(a) \/ startRuns(a) \/ startSpawns(a)
    \/ stopLocked(a) \/ stopReturns(a)

MinerNext ==
    \/ on_idle \/ blockArrives
    \/ \E a \in Callers : start(a) \/ stop(a) \/ Continues(a)
    \/ \E w \in Workers : worker_thread(w)

-----------------------------------------------------------------------------
\* Every thread that runs is in m_threads, so that stop and start join it, and
\* a worker compares its hashes with the difficulty of the block it hashes.
WorkersSound ==
    /\ \A w \in Workers : at[w] # "out" => w \in m_threads
    /\ \A w \in Workers : at[w] # "copied" => work[w].diffic = work[w].b
    /\ m_pausers_count = Cardinality({a \in Actors : at[a] \in {"add", "get", "set", "resume"}})

\* Whoever calls stop while a start is between its check and m_stop = false
\* waits for threads that were never told to stop.
Overtaken == \E a \in overtaken : at[a] = "stopJoin"
Returned == \A a \in Callers : at[a] \in {"idle", "idleGet", "idleSet", "pause", "add", "get", "set", "resume"}

\* Nobody mines for a block that the chain has.
MinesForTop == \A w \in m_threads : work[w].b = top + 1
==============================================================================
