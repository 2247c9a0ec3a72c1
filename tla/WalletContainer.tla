---------------------------- MODULE WalletContainer ----------------------------
(***************************************************************************)
(* lib/Wallet/WalletGreen.cpp, m_containerStorage: the addresses of a      *)
(* wallet are elements of a FileMappedVector, its password is the prefix's *)
(* and its cache (transactions and the synchronizer's state) the suffix.   *)
(* Addresses are written when they are created or deleted, the cache only  *)
(* by save; so after a crash the cache may belong to other addresses.      *)
(*                                                                         *)
(* Of the cache only the addresses it was made for are kept here.          *)
(***************************************************************************)
EXTENDS FileMappedVector, FiniteSets

CONSTANT Passwords

VARIABLES
    wallets,        \* m_walletsContainer in the order of its RandomAccessIndex
    m_password,
    covered,        \* the addresses whose transactions the wallet has or scans for
    task            \* the call of the wallet that runs, and what is left of it

containerVars == <<wallets, m_password, covered, task>>

NoTask == [at |-> "none"]
Closed == mapped = "none"
Free == task = NoTask /\ ~Closed

ContainerInit ==
    /\ \E p \in Passwords : create(p, None) /\ m_password = p
    /\ wallets = <<>> /\ covered = {} /\ task = NoTask

-----------------------------------------------------------------------------
\* doCreateAddressList: addWallet for one after the other.
doCreateAddressList(list) ==
    /\ Free /\ task' = [at |-> "create", todo |-> list]
    /\ UNCHANGED <<vectorVars, wallets, m_password, covered>>

\* addWallet stores the keys first.
addWallet ==
    /\ task.at = "create" /\ push_back(Head(task.todo))
    /\ task' = [task EXCEPT !.at = "pushed"]
    /\ UNCHANGED <<wallets, m_password, covered>>

Ended == task' = NoTask

\* Mutant: the keys stay in the file when the subscription fails.
addWalletKeepsKeys(subscribed) ==
    /\ task.at = "pushed" /\ Ready
    /\ IF op.at = "thrown" \/ ~subscribed THEN Ended /\ UNCHANGED <<wallets, covered>>
       ELSE /\ wallets' = Append(wallets, Head(task.todo))
            /\ covered' = covered \cup {Head(task.todo)}
            /\ task' = IF Len(task.todo) = 1 THEN NoTask
                       ELSE [at |-> "create", todo |-> Tail(task.todo)]
    /\ UNCHANGED <<vectorVars, m_password>>

\* Then it subscribes the address, or takes the keys back.
addWalletEnds(subscribed) ==
    /\ task.at = "pushed" /\ Ready
    /\ IF op.at = "thrown" THEN Ended /\ UNCHANGED <<vectorVars, wallets, covered>>
       ELSE IF subscribed
       THEN /\ wallets' = Append(wallets, Head(task.todo))
            /\ covered' = covered \cup {Head(task.todo)}
            /\ task' = IF Len(task.todo) = 1 THEN NoTask
                       ELSE [at |-> "create", todo |-> Tail(task.todo)]
            /\ UNCHANGED vectorVars
       ELSE /\ pop_back /\ task' = [at |-> "wait"]
            /\ UNCHANGED <<wallets, covered>>
    /\ UNCHANGED m_password

deleteAddress(k) ==
    /\ Free /\ k \in Range(wallets)
    /\ erase(CHOOSE i \in DOMAIN wallets : wallets[i] = k)
    /\ task' = [at |-> "delete", key |-> k]
    /\ UNCHANGED <<wallets, m_password, covered>>

deleteAddressEnds ==
    /\ task.at = "delete" /\ Ready /\ Ended
    /\ IF op.at = "thrown" THEN UNCHANGED <<wallets, covered>>
       ELSE /\ wallets' = SelectSeq(wallets, LAMBDA k : k # task.key)
            /\ covered' = covered \ {task.key}
    /\ UNCHANGED <<vectorVars, m_password>>

\* saveWalletCache, encryptAndSaveContainerData: the size of the new cache is
\* the old one's or another.
Cache == [keys |-> Range(wallets)]
saveWalletCache == \E other \in BOOLEAN :
    /\ Vector.suffix = None => other
    /\ resizeSuffix(other, Cache)

save ==
    /\ Free /\ saveWalletCache /\ task' = [at |-> "wait"]
    /\ UNCHANGED <<wallets, m_password, covered>>

\* changePassword copies prefix, keys and cache, all encrypted anew; a cache that
\* cannot be read makes it throw.
changePassword(p) ==
    /\ Free /\ p # m_password /\ Vector.suffix # Torn
    /\ replaceAll(p, Vector.suffix) /\ task' = [at |-> "password", password |-> p]
    /\ UNCHANGED <<wallets, m_password, covered>>

changePasswordEnds ==
    /\ task.at = "password" /\ Ready /\ Ended
    /\ m_password' = IF op.at = "thrown" THEN m_password ELSE task.password
    /\ UNCHANGED <<vectorVars, wallets, covered>>

callEnds ==
    /\ task.at = "wait" /\ Ready /\ Ended
    /\ UNCHANGED <<vectorVars, wallets, m_password, covered>>

-----------------------------------------------------------------------------
MemoryLost == wallets' = <<>> /\ covered' = {} /\ task' = NoTask /\ UNCHANGED m_password

doShutdown == Free /\ Ready /\ VectorLost /\ MemoryLost /\ UNCHANGED <<errors, crashes>>
processDies == Crash /\ MemoryLost

\* Mutant: addresses the cache does not know of are not scanned for.
loadWalletCacheTrusts(keys, cache) ==
    IF cache \in {None, Torn} THEN [covered |-> keys, resave |-> FALSE]
    ELSE [covered |-> cache.keys \cap keys, resave |-> cache.keys # keys]

\* The cache is dropped when it cannot be read and when it lacks an address
\* (clearCaches: everything is scanned again); addresses it has too many are
\* removed from it.
loadWalletCache(keys, cache) ==
    IF cache \in {None, Torn} THEN [covered |-> keys, resave |-> FALSE]
    ELSE [covered |-> IF keys \subseteq cache.keys THEN cache.keys \cap keys ELSE keys,
          resave |-> cache.keys # keys]

\* load looks at the version in the file before FileMappedVector::open could
\* rename the .bak file, so a file must be there.
load ==
    /\ Closed /\ files["path"] # None /\ open
    /\ LET c == Recovered
           r == loadWalletCache(Range(Elements(c)), c.suffix)
       IN  /\ wallets' = Elements(c) /\ m_password' = c.prefix /\ covered' = r.covered
           /\ task' = IF r.resave THEN [at |-> "resave"] ELSE NoTask
    /\ UNCHANGED <<op, errors, crashes>>

\* In load, a failed save drops the cache once more.
resave ==
    /\ task.at = "resave" /\ saveWalletCache /\ task' = [at |-> "resaved"]
    /\ UNCHANGED <<wallets, m_password, covered>>

resaveEnds ==
    /\ task.at = "resaved" /\ Ready /\ Ended
    /\ covered' = IF op.at = "thrown" THEN Range(wallets) ELSE covered
    /\ UNCHANGED <<vectorVars, wallets, m_password>>

\* A new wallet with this path: the .bak file gets its name back, and then there
\* is a file, so that no new one is created (initWithKeys).
initWithKeys ==
    /\ Closed /\ files["path"] = None
    /\ files' = [files EXCEPT !["path"] = Recovered, !["bak"] = None]
    /\ UNCHANGED <<mapped, op, errors, crashes, containerVars>>

Lists == {<<k>> : k \in Keys} \cup {l \in Keys \X Keys : l[1] # l[2]}

ContainerNext ==
    \/ Step /\ UNCHANGED containerVars
    \/ \E list \in Lists : Range(list) \cap Range(wallets) = {} /\ doCreateAddressList(list)
    \/ addWallet \/ \E subscribed \in BOOLEAN : addWalletEnds(subscribed)
    \/ \E k \in Keys : deleteAddress(k)
    \/ \E p \in Passwords : changePassword(p)
    \/ deleteAddressEnds \/ save \/ changePasswordEnds \/ callEnds \/ doShutdown \/ processDies
    \/ load \/ resave \/ resaveEnds \/ initWithKeys

\* Between two calls the wallet has the addresses of its file in the file's order
\* (deleteAddress asserts it) and the file's password, and knows or scans for the
\* transactions of every one of them.
ContainerMatchesFile ==
    Free =>
        /\ wallets = Elements(Vector) /\ m_password = Vector.prefix
        /\ Range(wallets) \subseteq covered
===============================================================================
