SPECIFICATION FairSpec
CONSTANTS
    Readers = {r1, r2, r3}
    Lookups = {l1, l2, l3}
    NoLookup = NoLookup
INVARIANTS
    IInv
    NoUseAfterUnmap
    NoHandleLeak
PROPERTIES
    ImplementsAtomicHandle
    EveryoneProceeds
