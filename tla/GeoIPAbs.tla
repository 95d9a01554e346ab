------------------------------ MODULE GeoIPAbs ------------------------------
(***************************************************************************)
(* What the handler's geolocation handle promises its callers, with every  *)
(* operation atomic: a lookup runs on a mapped database only, a swap or a  *)
(* shutdown unmaps the database it retires in the same step and never      *)
(* under a running lookup, and nothing is published after the shutdown.    *)
(***************************************************************************)
CONSTANTS
    Readers,    \* request goroutines that may call LocateIP
    Lookups,    \* database handles, each opened at most once
    NoLookup    \* the nil geoip.Lookup

VARIABLES
    current,    \* the published database, or NoLookup
    down,       \* the handler has been shut down
    mapped,     \* the handles whose file is mapped into memory
    using       \* the handle each reader is decoding from, or NoLookup

vars == <<current, down, mapped, using>>

Idle == \A r \in Readers : using[r] = NoLookup

Init ==
    /\ current \in Lookups \cup {NoLookup}
    /\ down = FALSE
    /\ mapped = {current} \cap Lookups
    /\ using = [r \in Readers |-> NoLookup]

\* The updater maps a database that was never mapped before.
Open(l) ==
    /\ l \notin mapped
    /\ mapped' = mapped \cup {l}
    /\ UNCHANGED <<current, down, using>>

Begin(r) ==
    /\ using[r] = NoLookup
    /\ current \in mapped
    /\ using' = [using EXCEPT ![r] = current]
    /\ UNCHANGED <<current, down, mapped>>

End(r) ==
    /\ using[r] \in mapped
    /\ using' = [using EXCEPT ![r] = NoLookup]
    /\ UNCHANGED <<current, down, mapped>>

Swap(l) ==
    /\ ~down
    /\ Idle
    /\ l \in mapped \ {current}
    /\ current' = l
    /\ mapped' = mapped \ {current}
    /\ UNCHANGED <<down, using>>

Refuse(l) ==
    /\ down
    /\ l \in mapped
    /\ mapped' = mapped \ {l}
    /\ UNCHANGED <<current, down, using>>

Shutdown ==
    /\ ~down
    /\ Idle
    /\ down' = TRUE
    /\ current' = NoLookup
    /\ mapped' = mapped \ {current}
    /\ UNCHANGED using

Next ==
    \/ \E l \in Lookups : Open(l) \/ Swap(l) \/ Refuse(l)
    \/ \E r \in Readers : Begin(r) \/ End(r)
    \/ Shutdown

Spec == Init /\ [][Next]_vars
=============================================================================
