---------------------------- MODULE ServiceWorker ----------------------------
(***************************************************************************)
(* The service worker that keeps the page's files, against a server that   *)
(* is upgraded while browsers have older versions installed.  Every binary *)
(* serves its own /sw.js, in which swjsHandler has put the version into    *)
(* CACHE_NAME; a script that differs from the active worker's makes the    *)
(* browser install it.  A worker and its cache are named by the version.   *)
(*                                                                         *)
(* What the browser does between the handlers of sw.js (update check,      *)
(* promotion, which cache a match looks into first) is external.           *)
(***************************************************************************)
EXTENDS Naturals, Sequences

CONSTANTS
    Document,   \* the page itself
    Precached,  \* the files of STATIC_ASSETS the page is made of
    Late,       \* files the page imports that are not in STATIC_ASSETS
    MaxVersion, \* bound on upgrades
    MaxOutages  \* bound on the network going down

ASSUME AssetAssumption ==
    /\ Document \in Precached /\ Precached \cap Late = {}
    /\ MaxVersion \in Nat \ {0} /\ MaxOutages \in Nat

VARIABLES
    server,     \* version of the running binary; every file it serves is of it
    online, outages,
    caches,     \* caches.keys() in order of creation: name and contents
    active,     \* version of the active worker, 0 for none
    incoming,   \* the worker that is being installed
    page,       \* the files the page has loaded
    puts        \* responses a worker has yet to put into its cache

workerVars == <<server, online, outages, caches, active, incoming, page, puts>>

Assets == Precached \cup Late
Empty == [a \in {} |-> 0]
With(f, a, v) == [b \in DOMAIN f \cup {a} |-> IF b = a THEN v ELSE f[b]]

NoWorker == [v |-> 0, at |-> "none", got |-> Empty]
NoPage == [at |-> "closed", controlled |-> FALSE, got |-> Empty]

WorkerInit ==
    /\ server = 1 /\ online = TRUE /\ outages = 0
    /\ caches = <<>> /\ active = 0 /\ incoming = NoWorker
    /\ page = NoPage /\ puts = {}

Upgrade ==
    /\ server < MaxVersion /\ server' = server + 1
    /\ UNCHANGED <<online, outages, caches, active, incoming, page, puts>>

NetworkDown ==
    /\ online /\ outages < MaxOutages /\ online' = FALSE /\ outages' = outages + 1
    /\ UNCHANGED <<server, caches, active, incoming, page, puts>>

NetworkUp ==
    /\ ~online /\ online' = TRUE
    /\ UNCHANGED <<server, outages, caches, active, incoming, page, puts>>

-----------------------------------------------------------------------------
(* Caches                                                                  *)

open(name) ==
    IF \E i \in DOMAIN caches : caches[i].name = name THEN caches
    ELSE Append(caches, [name |-> name, has |-> Empty])

\* open, then write what f maps.
put(name, f) ==
    [i \in DOMAIN open(name) |->
        IF open(name)[i].name # name THEN open(name)[i]
        ELSE [name |-> name,
              has |-> [a \in DOMAIN open(name)[i].has \cup DOMAIN f |->
                         IF a \in DOMAIN f THEN f[a] ELSE open(name)[i].has[a]]]]

\* caches.match looks into every cache, the oldest first.
Holding(a) == {i \in DOMAIN caches : a \in DOMAIN caches[i].has}
match(a) == caches[CHOOSE i \in Holding(a) : \A j \in Holding(a) : i <= j].has[a]

-----------------------------------------------------------------------------
(* The page                                                                *)

\* The user opens or reloads the page; an active worker controls it.
Navigate ==
    /\ page.at # "loading"
    /\ page' = [at |-> "loading", controlled |-> active # 0, got |-> Empty]
    /\ UNCHANGED <<server, online, outages, caches, active, incoming, puts>>

Wanted(a) == page.at = "loading" /\ a \notin DOMAIN page.got
                /\ (a # Document => Document \in DOMAIN page.got)

Got(a, v) ==
    page' = [page EXCEPT !.got = With(page.got, a, v),
                         !.at = IF Assets \subseteq DOMAIN page.got \cup {a}
                                  THEN "loaded" ELSE "loading"]

\* The fetch handler: from a cache; from the network, with a copy for the
\* worker's own cache; or not at all.
FromCache(a) ==
    /\ Wanted(a) /\ page.controlled /\ Holding(a) # {}
    /\ Got(a, match(a))
    /\ UNCHANGED <<server, online, outages, caches, active, incoming, puts>>

FromNetwork(a) ==
    /\ Wanted(a) /\ (page.controlled => Holding(a) = {}) /\ online
    /\ Got(a, server)
    /\ puts' = IF page.controlled THEN puts \cup {[name |-> active, a |-> a, v |-> server]}
               ELSE puts
    /\ UNCHANGED <<server, online, outages, caches, active, incoming>>

NotAtAll(a) ==
    /\ Wanted(a) /\ (page.controlled => Holding(a) = {}) /\ ~online
    /\ page' = [page EXCEPT !.at = IF a \in Precached THEN "broken" ELSE "partial"]
    /\ UNCHANGED <<server, online, outages, caches, active, incoming, puts>>

\* cache.put at its own pace, also after the worker was replaced; or it fails.
Put ==
    /\ \E p \in puts :
         /\ puts' = puts \ {p}
         /\ \/ caches' = put(p.name, With(Empty, p.a, p.v))
            \/ UNCHANGED caches
    /\ UNCHANGED <<server, online, outages, active, incoming, page>>

-----------------------------------------------------------------------------
(* A new worker                                                            *)

\* Mutant: every binary serves the same script, so that nothing is ever new.
RegisterConstantName ==
    /\ page.at # "closed" /\ online /\ incoming = NoWorker /\ active = 0
    /\ incoming' = [v |-> server, at |-> "installing", got |-> Empty]
    /\ caches' = open(server)
    /\ UNCHANGED <<server, online, outages, active, page, puts>>

\* register('/sw.js') and the browser's own check: another script than the
\* active worker's is installed.
Register ==
    /\ page.at # "closed" /\ online /\ incoming = NoWorker /\ server # active
    /\ incoming' = [v |-> server, at |-> "installing", got |-> Empty]
    /\ caches' = open(server)
    /\ UNCHANGED <<server, online, outages, active, page, puts>>

\* addAll fetches from whatever binary is running by now.
InstallFetch(a) ==
    /\ incoming.at = "installing" /\ a \notin DOMAIN incoming.got /\ online
    /\ incoming' = [incoming EXCEPT !.got = With(incoming.got, a, server)]
    /\ UNCHANGED <<server, online, outages, caches, active, page, puts>>

\* One file fails: nothing is written, the worker is dropped.
InstallFails ==
    /\ incoming.at = "installing" /\ ~online
    /\ incoming' = NoWorker
    /\ UNCHANGED <<server, online, outages, caches, active, page, puts>>

\* Mutant: the files are added one by one and a failure is ignored.
InstalledAnyway ==
    /\ incoming.at = "installing" /\ (DOMAIN incoming.got = Precached \/ ~online)
    /\ caches' = put(incoming.v, incoming.got)
    /\ incoming' = [incoming EXCEPT !.at = "installed"]
    /\ UNCHANGED <<server, online, outages, active, page, puts>>

Installed ==
    /\ incoming.at = "installing" /\ DOMAIN incoming.got = Precached
    /\ caches' = put(incoming.v, incoming.got)
    /\ incoming' = [incoming EXCEPT !.at = "installed"]
    /\ UNCHANGED <<server, online, outages, active, page, puts>>

\* The caches of one name, of which there is one at most.
Named(name) == {i \in DOMAIN caches : caches[i].name = name}

\* skipWaiting: at once, whatever pages are open.  The other caches are swept,
\* then the open page is claimed; fetches wait for both.
Activate ==
    /\ incoming.at = "installed"
    /\ active' = incoming.v /\ incoming' = NoWorker
    /\ caches' = IF Named(incoming.v) = {} THEN <<>>
                 ELSE <<caches[CHOOSE i \in Named(incoming.v) : TRUE]>>
    /\ page' = [page EXCEPT !.controlled = page.at # "closed"]
    /\ UNCHANGED <<server, online, outages, puts>>

-----------------------------------------------------------------------------
Load == \E a \in Assets : FromCache(a) \/ FromNetwork(a) \/ NotAtAll(a)
Install == Register \/ (\E a \in Precached : InstallFetch(a)) \/ Installed \/ Activate

WorkerNext == Upgrade \/ NetworkDown \/ NetworkUp \/ Navigate \/ Load \/ Put \/ Install \/ InstallFails

WorkerSpec == WorkerInit /\ [][WorkerNext]_workerVars

(* A user who comes back, a page that goes on loading, and the browser's   *)
(* promise to run an update it has begun.  Upgrades, outages and the late  *)
(* puts of a worker need not happen, but the network comes back.           *)
WorkerFairSpec ==
    /\ WorkerSpec /\ WF_workerVars(Navigate) /\ WF_workerVars(Load) /\ WF_workerVars(NetworkUp)
    /\ WF_workerVars(Register) /\ WF_workerVars(\E a \in Precached : InstallFetch(a))
    /\ WF_workerVars(InstallFails) /\ WF_workerVars(Installed) /\ WF_workerVars(Activate)

-----------------------------------------------------------------------------
Versions == 1 .. MaxVersion
Contents == UNION {[D -> Versions] : D \in SUBSET Assets}
Cache == [name : Versions, has : Contents]

\* The types of the browser's state; the responses that are still to be put are
\* never of precached files, which a controlled page finds in a cache.
WorkerTypeOK ==
    /\ server \in Versions /\ online \in BOOLEAN /\ outages \in 0 .. MaxOutages
    /\ caches \in Seq(Cache)
    /\ active \in 0 .. MaxVersion
    /\ incoming \in [v : 0 .. MaxVersion, at : {"none", "installing", "installed"}, got : Contents]
    /\ incoming.at = "none" <=> incoming.v = 0
    /\ page \in [at : {"closed", "loading", "loaded", "partial", "broken"},
                 controlled : BOOLEAN, got : Contents]
    /\ puts \subseteq [name : Versions, a : Late, v : Versions]

\* The cache of that name holds every precached file.
Shelved(name) ==
    \A a \in Precached : \E i \in DOMAIN caches :
        caches[i].name = name /\ a \in DOMAIN caches[i].has

\* The active worker's cache holds the whole precached shell, so that a page it
\* controls never breaks for want of one of those files, online or offline;
\* and no other cache than its own and the next worker's holds any of them:
\* an upgrade leaves no old shell behind, although a worker that was replaced
\* may still recreate its cache with a late put (sw.js 45-72, 108-127).  A
\* worker that is still being installed has written nothing.
ShellInv ==
    /\ WorkerTypeOK
    /\ active # 0 => Shelved(active)
    /\ incoming.at = "installed" => Shelved(incoming.v)
    /\ \A i \in DOMAIN caches : DOMAIN caches[i].has \cap Precached # {} =>
         caches[i].name = active \/ (incoming.at = "installed" /\ caches[i].name = incoming.v)
    /\ page.controlled => active # 0
    /\ page.at = "loading" /\ page.controlled => \A a \in Precached : Holding(a) # {}
    /\ \A i, j \in DOMAIN caches : caches[i].name = caches[j].name => i = j

\* Users who return are not left on an old shell (sw.js 23-27): from some time
\* on, every page that has loaded has all its precached files from the binary
\* that is running, whatever upgrades, outages and failed installs came before.
ShellCatchesUp ==
    <>[](page.at = "loaded" => \A a \in Precached : page.got[a] = server)
=============================================================================
