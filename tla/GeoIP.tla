-------------------------------- MODULE GeoIP --------------------------------
(***************************************************************************)
(* The hot-swappable geolocation handle of handler.Handler: the geoipMu    *)
(* read-write lock, the current geoip.Lookup and the geoipClosed flag, and *)
(* the three kinds of goroutine that use them: request handlers (LocateIP, *)
(* geoipEnabled), the updater (SetGeoIP, through OnSwap) and the shutdown  *)
(* goroutine (CloseGeoIP).                                                 *)
(*                                                                         *)
(* A Lookup is an mmap'd file: Close unmaps it, and a Locate running on an *)
(* unmapped file kills the process with SIGBUS.  `handle` records what the *)
(* operating system knows of each Lookup.                                  *)
(***************************************************************************)
CONSTANTS
    Readers,    \* request goroutines
    Lookups,    \* database handles, each opened at most once
    NoLookup    \* the nil geoip.Lookup

ASSUME NoLookupAssumption == NoLookup \notin Lookups

VARIABLES
    geoip,       \* Handler.geoip
    geoipClosed, \* Handler.geoipClosed
    muWriter,    \* the goroutine in or waiting for the write lock, or "none"
    muReaders,   \* the readers that hold the read lock
    muWaiting,   \* the readers queued behind an announced writer
    rpc,         \* where each reader is
    using,       \* the handle a reader's Locate is decoding from
    upc,         \* where the updater is
    arg,         \* the updater's freshly opened Lookup, the argument l
    old,         \* SetGeoIP's local variable old
    cpc,         \* where the shutdown goroutine is
    handle       \* the state of each Lookup: "unopened", "open", "closed"

mutex == <<muWriter, muReaders, muWaiting>>
vars == <<geoip, geoipClosed, muWriter, muReaders, muWaiting, rpc, using,
          upc, arg, old, cpc, handle>>

MaybeLookup == Lookups \cup {NoLookup}

Init ==
    /\ geoip \in MaybeLookup
    /\ handle = [l \in Lookups |-> IF l = geoip THEN "open" ELSE "unopened"]
    /\ geoipClosed = FALSE
    /\ muWriter = "none" /\ muReaders = {} /\ muWaiting = {}
    /\ rpc = [r \in Readers |-> "idle"]
    /\ using = [r \in Readers |-> NoLookup]
    /\ upc = "idle" /\ arg = NoLookup /\ old = NoLookup
    /\ cpc = "idle"

-----------------------------------------------------------------------------
(* sync.RWMutex.  A writer that asks for the lock is announced: readers    *)
(* that arrive later queue behind it, and are all admitted when it leaves. *)

RLock(r) ==
    /\ rpc[r] = "idle"
    /\ \/ /\ muWriter = "none"
          /\ muReaders' = muReaders \cup {r}
          /\ rpc' = [rpc EXCEPT ![r] = "locked"]
          /\ UNCHANGED <<muWriter, muWaiting>>
       \/ /\ muWriter # "none"
          /\ muWaiting' = muWaiting \cup {r}
          /\ rpc' = [rpc EXCEPT ![r] = "queued"]
          /\ UNCHANGED <<muWriter, muReaders>>
    /\ UNCHANGED <<geoip, geoipClosed, using, upc, arg, old, cpc, handle>>

Drained(w) == muWriter = w /\ muReaders = {}

Announce(w) ==
    /\ muWriter = "none"
    /\ muWriter' = w
    /\ UNCHANGED <<muReaders, muWaiting>>

Unlock ==
    /\ muWriter' = "none"
    /\ muReaders' = muReaders \cup muWaiting
    /\ muWaiting' = {}
    /\ rpc' = [r \in Readers |-> IF r \in muWaiting THEN "locked" ELSE rpc[r]]

-----------------------------------------------------------------------------
(* Request goroutines                                                      *)

\* Mutant: the early return on a nil geoip skips the unlock.
LocateIPNoUnlock(r) ==
    /\ rpc[r] = "locked"
    /\ IF geoip = NoLookup
         THEN /\ rpc' = [rpc EXCEPT ![r] = "idle"]
              /\ UNCHANGED using
         ELSE /\ rpc' = [rpc EXCEPT ![r] = "locating"]
              /\ using' = [using EXCEPT ![r] = geoip]
    /\ UNCHANGED <<geoip, geoipClosed, mutex, upc, arg, old, cpc, handle>>

\* Mutant: the read lock is given up before Locate runs.
LocateIPEarlyUnlock(r) ==
    /\ rpc[r] = "locked"
    /\ muReaders' = muReaders \ {r}
    /\ IF geoip = NoLookup
         THEN /\ rpc' = [rpc EXCEPT ![r] = "unlock"]
              /\ UNCHANGED using
         ELSE /\ rpc' = [rpc EXCEPT ![r] = "locating"]
              /\ using' = [using EXCEPT ![r] = geoip]
    /\ UNCHANGED <<geoip, geoipClosed, muWriter, muWaiting, upc, arg, old, cpc,
                   handle>>

\* LocateIP with the read lock held: return "" or enter Locate.
LocateIP(r) ==
    /\ rpc[r] = "locked"
    /\ IF geoip = NoLookup
         THEN /\ rpc' = [rpc EXCEPT ![r] = "unlock"]
              /\ UNCHANGED using
         ELSE /\ rpc' = [rpc EXCEPT ![r] = "locating"]
              /\ using' = [using EXCEPT ![r] = geoip]
    /\ UNCHANGED <<geoip, geoipClosed, mutex, upc, arg, old, cpc, handle>>

\* The decoder returns (City, Country or ""): Locate is done with the map.
LocateReturns(r) ==
    /\ rpc[r] = "locating"
    /\ rpc' = [rpc EXCEPT ![r] = "unlock"]
    /\ using' = [using EXCEPT ![r] = NoLookup]
    /\ UNCHANGED <<geoip, geoipClosed, mutex, upc, arg, old, cpc, handle>>

\* geoipEnabled only compares the handle with nil.
geoipEnabled(r) ==
    /\ rpc[r] = "locked"
    /\ rpc' = [rpc EXCEPT ![r] = "unlock"]
    /\ UNCHANGED <<geoip, geoipClosed, mutex, using, upc, arg, old, cpc, handle>>

RUnlock(r) ==
    /\ rpc[r] = "unlock"
    /\ rpc' = [rpc EXCEPT ![r] = "idle"]
    /\ muReaders' = muReaders \ {r}
    /\ UNCHANGED <<geoip, geoipClosed, muWriter, muWaiting, using, upc, arg, old,
                   cpc, handle>>

-----------------------------------------------------------------------------
(* The updater goroutine: Opener, then SetGeoIP                            *)

OpenVerified(l) ==
    /\ upc = "idle"
    /\ handle[l] = "unopened"
    /\ handle' = [handle EXCEPT ![l] = "open"]
    /\ arg' = l
    /\ upc' = "lock"
    /\ UNCHANGED <<geoip, geoipClosed, mutex, rpc, using, old, cpc>>

SetLock ==
    /\ upc = "lock"
    /\ Announce("updater")
    /\ upc' = "drain"
    /\ UNCHANGED <<geoip, geoipClosed, rpc, using, arg, old, cpc, handle>>

\* Mutant: a late OnSwap does not look at geoipClosed.
SetStoreAfterClose ==
    /\ upc = "drain"
    /\ Drained("updater")
    /\ old' = geoip
    /\ geoip' = arg
    /\ upc' = "closeOld"
    /\ UNCHANGED <<geoipClosed, mutex, rpc, using, arg, cpc, handle>>

\* The write lock is held: refuse the handle, or store it and remember old.
SetStore ==
    /\ upc = "drain"
    /\ Drained("updater")
    /\ IF geoipClosed
         THEN /\ upc' = "closeArg"
              /\ UNCHANGED <<geoip, old>>
         ELSE /\ old' = geoip
              /\ geoip' = arg
              /\ upc' = "closeOld"
    /\ UNCHANGED <<geoipClosed, mutex, rpc, using, arg, cpc, handle>>

\* Mutant: the refused Lookup is dropped without a Close.
SetDropArg ==
    /\ upc = "closeArg"
    /\ upc' = "unlock"
    /\ UNCHANGED <<geoip, geoipClosed, mutex, rpc, using, arg, old, cpc, handle>>

SetCloseArg ==
    /\ upc = "closeArg"
    /\ handle' = [handle EXCEPT ![arg] = "closed"]
    /\ upc' = "unlock"
    /\ UNCHANGED <<geoip, geoipClosed, mutex, rpc, using, arg, old, cpc>>

SetCloseOld ==
    /\ upc = "closeOld"
    /\ handle' = IF old # NoLookup /\ old # arg
                   THEN [handle EXCEPT ![old] = "closed"] ELSE handle
    /\ upc' = "unlock"
    /\ UNCHANGED <<geoip, geoipClosed, mutex, rpc, using, arg, old, cpc>>

SetUnlock ==
    /\ upc = "unlock"
    /\ Unlock
    /\ upc' = "idle"
    /\ arg' = NoLookup
    /\ old' = NoLookup
    /\ UNCHANGED <<geoip, geoipClosed, using, cpc, handle>>

-----------------------------------------------------------------------------
(* The shutdown goroutine: CloseGeoIP, called once                         *)

CloseCall ==
    /\ cpc = "idle"
    /\ cpc' = "lock"
    /\ UNCHANGED <<geoip, geoipClosed, mutex, rpc, using, upc, arg, old, handle>>

CloseLock ==
    /\ cpc = "lock"
    /\ Announce("closer")
    /\ cpc' = "drain"
    /\ UNCHANGED <<geoip, geoipClosed, rpc, using, upc, arg, old, handle>>

\* Mutant: CloseGeoIP does not leave the closed flag behind.
CloseNoFlag ==
    /\ cpc = "drain"
    /\ Drained("closer")
    /\ cpc' = IF geoip = NoLookup THEN "unlock" ELSE "close"
    /\ UNCHANGED <<geoip, geoipClosed, mutex, rpc, using, upc, arg, old, handle>>

CloseFlag ==
    /\ cpc = "drain"
    /\ Drained("closer")
    /\ geoipClosed' = TRUE
    /\ cpc' = IF geoip = NoLookup THEN "unlock" ELSE "close"
    /\ UNCHANGED <<geoip, mutex, rpc, using, upc, arg, old, handle>>

CloseHandle ==
    /\ cpc = "close"
    /\ handle' = [handle EXCEPT ![geoip] = "closed"]
    /\ cpc' = "clear"
    /\ UNCHANGED <<geoip, geoipClosed, mutex, rpc, using, upc, arg, old>>

CloseClear ==
    /\ cpc = "clear"
    /\ geoip' = NoLookup
    /\ cpc' = "unlock"
    /\ UNCHANGED <<geoipClosed, mutex, rpc, using, upc, arg, old, handle>>

CloseUnlock ==
    /\ cpc = "unlock"
    /\ Unlock
    /\ cpc' = "done"
    /\ UNCHANGED <<geoip, geoipClosed, using, upc, arg, old, handle>>

-----------------------------------------------------------------------------
Request(r) ==
    \/ RLock(r) \/ LocateIP(r) \/ LocateReturns(r) \/ geoipEnabled(r) \/ RUnlock(r)
SetGeoIP ==
    SetLock \/ SetStore \/ SetCloseArg \/ SetCloseOld \/ SetUnlock
CloseGeoIP ==
    CloseCall \/ CloseLock \/ CloseFlag \/ CloseHandle \/ CloseClear \/ CloseUnlock

Next ==
    \/ \E r \in Readers : Request(r)
    \/ \E l \in Lookups : OpenVerified(l)
    \/ SetGeoIP
    \/ CloseGeoIP

Spec == Init /\ [][Next]_vars

(* A goroutine that runs keeps running: the decoder returns, a granted     *)
(* lock is used and given back.  Nothing says that a request arrives, that *)
(* a database is published or that the server is shut down.  Strong        *)
(* fairness of the two Lock calls is sync.Mutex's starvation mode: a       *)
(* goroutine that has waited 1 ms is handed the lock next.                 *)
SetInside == SetStore \/ SetCloseArg \/ SetCloseOld \/ SetUnlock
CloseInside == CloseFlag \/ CloseHandle \/ CloseClear \/ CloseUnlock
Fairness ==
    /\ \A r \in Readers :
         WF_vars(LocateIP(r) \/ LocateReturns(r) \/ geoipEnabled(r) \/ RUnlock(r))
    /\ SF_vars(SetLock) /\ WF_vars(SetInside)
    /\ SF_vars(CloseLock) /\ WF_vars(CloseInside)

FairSpec == Spec /\ Fairness

-----------------------------------------------------------------------------
(* Properties                                                              *)

TypeOK ==
    /\ geoip \in MaybeLookup
    /\ geoipClosed \in BOOLEAN
    /\ muWriter \in {"none", "updater", "closer"}
    /\ muReaders \subseteq Readers
    /\ muWaiting \subseteq Readers
    /\ rpc \in [Readers -> {"idle", "queued", "locked", "locating", "unlock"}]
    /\ using \in [Readers -> MaybeLookup]
    /\ upc \in {"idle", "lock", "drain", "closeArg", "closeOld", "unlock"}
    /\ arg \in MaybeLookup
    /\ old \in MaybeLookup
    /\ cpc \in {"idle", "lock", "drain", "close", "clear", "unlock", "done"}
    /\ handle \in [Lookups -> {"unopened", "open", "closed"}]

\* Inside the write lock's critical section, past the wait for the readers.
UpdaterInside == upc \in {"closeArg", "closeOld", "unlock"}
CloserInside == cpc \in {"close", "clear", "unlock"}

\* The lock's bookkeeping agrees with where the goroutines are, and a writer
\* inside excludes every reader and the other writer.
LockInv ==
    /\ muReaders = {r \in Readers : rpc[r] \in {"locked", "locating", "unlock"}}
    /\ muWaiting = {r \in Readers : rpc[r] = "queued"}
    /\ muWriter = "updater" <=> upc \in {"drain", "closeArg", "closeOld", "unlock"}
    /\ muWriter = "closer" <=> cpc \in {"drain", "close", "clear", "unlock"}
    /\ muWriter = "none" => muWaiting = {}
    /\ UpdaterInside \/ CloserInside => muReaders = {}

\* A running Locate decodes from the published Lookup.
UsingInv ==
    \A r \in Readers :
        IF rpc[r] = "locating" THEN using[r] = geoip /\ geoip # NoLookup
                               ELSE using[r] = NoLookup

\* Who is responsible for each open Lookup: the handler, the updater that has
\* opened but not yet handed it over, or SetGeoIP that is about to close it.
Owned(l) ==
    \/ geoip = l /\ cpc # "clear"
    \/ arg = l /\ upc \in {"lock", "drain", "closeArg"}
    \/ old = l /\ upc = "closeOld"

CustodyInv ==
    /\ \A l \in Lookups : handle[l] = "open" <=> Owned(l)
    /\ upc = "idle" <=> arg = NoLookup
    /\ upc \in {"idle", "lock", "drain", "closeArg"} => old = NoLookup
    /\ upc \in {"lock", "drain", "closeArg"} => geoip # arg
    /\ upc = "closeOld" => geoip = arg /\ old # arg
    /\ upc = "closeArg" => geoipClosed
    /\ upc = "closeOld" => ~geoipClosed
    /\ cpc \in {"idle", "lock", "drain"} <=> ~geoipClosed
    /\ cpc \in {"close", "clear"} => geoip # NoLookup
    /\ cpc = "clear" => handle[geoip] = "closed"
    /\ cpc \in {"unlock", "done"} => geoip = NoLookup

\* The inductive invariant: lock bookkeeping, what readers hold and who owns
\* each mapped database all agree (geoipMu's contract, handler.go 82-93).
IInv == TypeOK /\ LockInv /\ UsingInv /\ CustodyInv

\* No LocateIP call ever decodes from a database that SetGeoIP or CloseGeoIP
\* has unmapped (the SIGBUS of handler.go 82-86).
NoUseAfterUnmap ==
    \A r \in Readers : rpc[r] = "locating" => handle[using[r]] = "open"

\* Once CloseGeoIP has returned and no OnSwap is in flight, no mapped database
\* is left behind, however the two were interleaved (handler.go 87-90).
NoHandleLeak ==
    cpc = "done" /\ upc = "idle" => \A l \in Lookups : handle[l] # "open"

\* SetGeoIP and CloseGeoIP always finish, however many lookups keep arriving: a
\* writer is not starved by readers, no return path of a reader keeps the lock,
\* and shutdown does not hang behind a swap.
\* And a lookup queued behind one of them is answered in the end.
EveryoneProceeds ==
    /\ upc = "lock" ~> upc = "idle"
    /\ cpc = "lock" ~> cpc = "done"
    /\ \A r \in Readers : rpc[r] = "queued" ~> rpc[r] = "idle"

(* Refinement: swap and close look atomic.  An old handle that SetGeoIP is *)
(* about to close counts as unmapped from the moment it was replaced, and  *)
(* CloseGeoIP takes effect when it raises the flag; both happen under the  *)
(* write lock, where no reader can tell.                                   *)
Abs == INSTANCE GeoIPAbs WITH
    current <- IF cpc \in {"close", "clear"} THEN NoLookup ELSE geoip,
    down <- geoipClosed,
    mapped <- {l \in Lookups : /\ handle[l] = "open"
                               /\ ~(upc = "closeOld" /\ l = old)
                               /\ ~(cpc = "close" /\ l = geoip)}

\* The lock-based handle implements the atomic one of GeoIPAbs.
ImplementsAtomicHandle == Abs!Spec
=============================================================================
