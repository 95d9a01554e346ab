---------------------------- MODULE GeoIP_proofs ----------------------------
(***************************************************************************)
(* Proofs about GeoIP for any number of requests and databases: the lock   *)
(* protocol is invariant, no lookup runs on an unmapped database, no       *)
(* database leaks at shutdown, and the handle implements GeoIPAbs.         *)
(***************************************************************************)
EXTENDS GeoIP, TLAPS

\* Init establishes the inductive invariant.
LEMMA InitIInv == Init => IInv
<1> SUFFICES ASSUME Init PROVE IInv OBVIOUS
<1>1. TypeOK BY DEF Init, TypeOK, MaybeLookup
<1>2. LockInv BY DEF Init, LockInv, UpdaterInside, CloserInside
<1>3. UsingInv BY DEF Init, UsingInv
<1>4. CustodyInv BY NoLookupAssumption DEF Init, CustodyInv, Owned
<1> QED BY <1>1, <1>2, <1>3, <1>4 DEF IInv

\* Every step of a request goroutine preserves it.
LEMMA RequestIInv ==
    ASSUME IInv, NEW r \in Readers, Request(r) PROVE IInv'
<1> USE NoLookupAssumption DEF IInv, MaybeLookup, mutex
<1>1. CASE RLock(r)
  <2>1. TypeOK' BY <1>1 DEF RLock, TypeOK
  <2>2. LockInv' BY <1>1 DEF RLock, TypeOK, LockInv, UpdaterInside, CloserInside
  <2>3. UsingInv' BY <1>1 DEF RLock, TypeOK, UsingInv
  <2>4. CustodyInv' BY <1>1 DEF RLock, TypeOK, CustodyInv, Owned
  <2> QED BY <2>1, <2>2, <2>3, <2>4
<1>2. CASE LocateIP(r)
  <2>1. TypeOK' BY <1>2 DEF LocateIP, TypeOK
  <2>2. LockInv' BY <1>2 DEF LocateIP, TypeOK, LockInv, UpdaterInside, CloserInside
  <2>3. UsingInv' BY <1>2 DEF LocateIP, TypeOK, UsingInv
  <2>4. CustodyInv' BY <1>2 DEF LocateIP, TypeOK, CustodyInv, Owned
  <2> QED BY <2>1, <2>2, <2>3, <2>4
<1>3. CASE LocateReturns(r)
  <2>1. TypeOK' BY <1>3 DEF LocateReturns, TypeOK
  <2>2. LockInv' BY <1>3 DEF LocateReturns, TypeOK, LockInv, UpdaterInside, CloserInside
  <2>3. UsingInv' BY <1>3 DEF LocateReturns, TypeOK, UsingInv
  <2>4. CustodyInv' BY <1>3 DEF LocateReturns, TypeOK, CustodyInv, Owned
  <2> QED BY <2>1, <2>2, <2>3, <2>4
<1>4. CASE geoipEnabled(r)
  <2>1. TypeOK' BY <1>4 DEF geoipEnabled, TypeOK
  <2>2. LockInv' BY <1>4 DEF geoipEnabled, TypeOK, LockInv, UpdaterInside, CloserInside
  <2>3. UsingInv' BY <1>4 DEF geoipEnabled, TypeOK, UsingInv
  <2>4. CustodyInv' BY <1>4 DEF geoipEnabled, TypeOK, CustodyInv, Owned
  <2> QED BY <2>1, <2>2, <2>3, <2>4
<1>5. CASE RUnlock(r)
  <2>1. TypeOK' BY <1>5 DEF RUnlock, TypeOK
  <2>2. LockInv' BY <1>5 DEF RUnlock, TypeOK, LockInv, UpdaterInside, CloserInside
  <2>3. UsingInv' BY <1>5 DEF RUnlock, TypeOK, UsingInv
  <2>4. CustodyInv' BY <1>5 DEF RUnlock, TypeOK, CustodyInv, Owned
  <2> QED BY <2>1, <2>2, <2>3, <2>4
<1> QED BY <1>1, <1>2, <1>3, <1>4, <1>5 DEF Request

\* Every step of the updater preserves it: opening a database and SetGeoIP.
LEMMA UpdaterIInv ==
    ASSUME IInv, SetGeoIP \/ \E l \in Lookups : OpenVerified(l) PROVE IInv'
<1> USE NoLookupAssumption DEF IInv, MaybeLookup, mutex
<1>1. CASE SetLock
  <2>1. TypeOK' BY <1>1 DEF SetLock, Announce, TypeOK
  <2>2. LockInv' BY <1>1 DEF SetLock, Announce, TypeOK, LockInv, UpdaterInside, CloserInside
  <2>3. UsingInv' BY <1>1 DEF SetLock, Announce, TypeOK, LockInv, UsingInv, UpdaterInside, CloserInside
  <2>4. CustodyInv' BY <1>1 DEF SetLock, Announce, TypeOK, LockInv, CustodyInv, Owned
  <2> QED BY <2>1, <2>2, <2>3, <2>4
<1>2. CASE SetStore
  <2>1. TypeOK' BY <1>2 DEF SetStore, Drained, TypeOK
  <2>2. LockInv' BY <1>2 DEF SetStore, Drained, TypeOK, LockInv, UpdaterInside, CloserInside
  <2>3. UsingInv' BY <1>2 DEF SetStore, Drained, TypeOK, LockInv, UsingInv, UpdaterInside, CloserInside
  <2>4. CustodyInv' BY <1>2 DEF SetStore, Drained, TypeOK, LockInv, CustodyInv, Owned
  <2> QED BY <2>1, <2>2, <2>3, <2>4
<1>3. CASE SetCloseArg
  <2>1. TypeOK' BY <1>3 DEF SetCloseArg, TypeOK
  <2>2. LockInv' BY <1>3 DEF SetCloseArg, TypeOK, LockInv, UpdaterInside, CloserInside
  <2>3. UsingInv' BY <1>3 DEF SetCloseArg, TypeOK, LockInv, UsingInv, UpdaterInside, CloserInside
  <2>4. CustodyInv' BY <1>3 DEF SetCloseArg, TypeOK, LockInv, CustodyInv, Owned
  <2> QED BY <2>1, <2>2, <2>3, <2>4
<1>4. CASE SetCloseOld
  <2>1. TypeOK' BY <1>4 DEF SetCloseOld, TypeOK
  <2>2. LockInv' BY <1>4 DEF SetCloseOld, TypeOK, LockInv, UpdaterInside, CloserInside
  <2>3. UsingInv' BY <1>4 DEF SetCloseOld, TypeOK, LockInv, UsingInv, UpdaterInside, CloserInside
  <2>4. CustodyInv' BY <1>4 DEF SetCloseOld, TypeOK, LockInv, CustodyInv, Owned
  <2> QED BY <2>1, <2>2, <2>3, <2>4
<1>5. CASE SetUnlock
  <2>1. TypeOK' BY <1>5 DEF SetUnlock, Unlock, TypeOK
  <2>2. LockInv' BY <1>5 DEF SetUnlock, Unlock, TypeOK, LockInv, UpdaterInside, CloserInside
  <2>3. UsingInv' BY <1>5 DEF SetUnlock, Unlock, TypeOK, LockInv, UsingInv, UpdaterInside, CloserInside
  <2>4. CustodyInv' BY <1>5 DEF SetUnlock, Unlock, TypeOK, LockInv, CustodyInv, Owned
  <2> QED BY <2>1, <2>2, <2>3, <2>4
<1>6. ASSUME NEW l \in Lookups, OpenVerified(l) PROVE IInv'
  <2>1. TypeOK' BY <1>6 DEF OpenVerified, TypeOK
  <2>2. LockInv' BY <1>6 DEF OpenVerified, TypeOK, LockInv, UpdaterInside, CloserInside
  <2>3. UsingInv' BY <1>6 DEF OpenVerified, TypeOK, UsingInv
  <2>4. CustodyInv' BY <1>6 DEF OpenVerified, TypeOK, LockInv, CustodyInv, Owned
  <2> QED BY <2>1, <2>2, <2>3, <2>4
<1> QED BY <1>1, <1>2, <1>3, <1>4, <1>5, <1>6 DEF SetGeoIP

\* Every step of the shutdown goroutine preserves it.
LEMMA CloserIInv == ASSUME IInv, CloseGeoIP PROVE IInv'
<1> USE NoLookupAssumption DEF IInv, MaybeLookup, mutex
<1>1. CASE CloseCall
  <2>1. TypeOK' BY <1>1 DEF CloseCall, TypeOK
  <2>2. LockInv' BY <1>1 DEF CloseCall, TypeOK, LockInv, UpdaterInside, CloserInside
  <2>3. UsingInv' BY <1>1 DEF CloseCall, TypeOK, LockInv, UsingInv, UpdaterInside, CloserInside
  <2>4. CustodyInv' BY <1>1 DEF CloseCall, TypeOK, LockInv, CustodyInv, Owned
  <2> QED BY <2>1, <2>2, <2>3, <2>4
<1>2. CASE CloseLock
  <2>1. TypeOK' BY <1>2 DEF CloseLock, Announce, TypeOK
  <2>2. LockInv' BY <1>2 DEF CloseLock, Announce, TypeOK, LockInv, UpdaterInside, CloserInside
  <2>3. UsingInv' BY <1>2 DEF CloseLock, Announce, TypeOK, LockInv, UsingInv, UpdaterInside, CloserInside
  <2>4. CustodyInv' BY <1>2 DEF CloseLock, Announce, TypeOK, LockInv, CustodyInv, Owned
  <2> QED BY <2>1, <2>2, <2>3, <2>4
<1>3. CASE CloseFlag
  <2>1. TypeOK' BY <1>3 DEF CloseFlag, Drained, TypeOK
  <2>2. LockInv' BY <1>3 DEF CloseFlag, Drained, TypeOK, LockInv, UpdaterInside, CloserInside
  <2>3. UsingInv' BY <1>3 DEF CloseFlag, Drained, TypeOK, LockInv, UsingInv, UpdaterInside, CloserInside
  <2>4. CustodyInv' BY <1>3 DEF CloseFlag, Drained, TypeOK, LockInv, CustodyInv, Owned
  <2> QED BY <2>1, <2>2, <2>3, <2>4
<1>4. CASE CloseHandle
  <2>1. TypeOK' BY <1>4 DEF CloseHandle, TypeOK
  <2>2. LockInv' BY <1>4 DEF CloseHandle, TypeOK, LockInv, UpdaterInside, CloserInside
  <2>3. UsingInv' BY <1>4 DEF CloseHandle, TypeOK, LockInv, UsingInv, UpdaterInside, CloserInside
  <2>4. CustodyInv' BY <1>4 DEF CloseHandle, TypeOK, LockInv, CustodyInv, Owned
  <2> QED BY <2>1, <2>2, <2>3, <2>4
<1>5. CASE CloseClear
  <2>1. TypeOK' BY <1>5 DEF CloseClear, TypeOK
  <2>2. LockInv' BY <1>5 DEF CloseClear, TypeOK, LockInv, UpdaterInside, CloserInside
  <2>3. UsingInv' BY <1>5 DEF CloseClear, TypeOK, LockInv, UsingInv, UpdaterInside, CloserInside
  <2>4. CustodyInv' BY <1>5 DEF CloseClear, TypeOK, LockInv, CustodyInv, Owned
  <2> QED BY <2>1, <2>2, <2>3, <2>4
<1>6. CASE CloseUnlock
  <2>1. TypeOK' BY <1>6 DEF CloseUnlock, Unlock, TypeOK
  <2>2. LockInv' BY <1>6 DEF CloseUnlock, Unlock, TypeOK, LockInv, UpdaterInside, CloserInside
  <2>3. UsingInv' BY <1>6 DEF CloseUnlock, Unlock, TypeOK, LockInv, UsingInv, UpdaterInside, CloserInside
  <2>4. CustodyInv' BY <1>6 DEF CloseUnlock, Unlock, TypeOK, LockInv, CustodyInv, Owned
  <2> QED BY <2>1, <2>2, <2>3, <2>4
<1> QED BY <1>1, <1>2, <1>3, <1>4, <1>5, <1>6 DEF CloseGeoIP

\* The lock bookkeeping, what readers decode from and the ownership of every
\* mapped database agree in every reachable state of the handle (handler.go
\* 82-93), for any number of requests and databases.
THEOREM InductiveInvariant == Spec => []IInv
<1>1. IInv /\ [Next]_vars => IInv'
  <2> SUFFICES ASSUME IInv, [Next]_vars PROVE IInv' OBVIOUS
  <2>1. CASE Next BY <2>1, RequestIInv, UpdaterIInv, CloserIInv DEF Next
  <2>2. CASE UNCHANGED vars
    BY <2>2 DEF vars, IInv, TypeOK, LockInv, UsingInv, CustodyInv, Owned,
         UpdaterInside, CloserInside
  <2> QED BY <2>1, <2>2
<1> QED BY <1>1, InitIInv, PTL DEF Spec

\* LocateIP never decodes from a database that has been unmapped: the SIGBUS
\* that geoipMu is there to prevent.
THEOREM LocateIsSafe == Spec => []NoUseAfterUnmap
<1>1. IInv => NoUseAfterUnmap
  BY NoLookupAssumption DEF IInv, TypeOK, LockInv, UsingInv, CustodyInv, Owned,
       NoUseAfterUnmap, MaybeLookup, UpdaterInside, CloserInside
<1> QED BY <1>1, InductiveInvariant, PTL

\* However OnSwap and CloseGeoIP interleave, no mapped database is left open
\* once both are done.
THEOREM ShutdownLeaksNothing == Spec => []NoHandleLeak
<1>1. IInv => NoHandleLeak
  BY NoLookupAssumption DEF IInv, TypeOK, LockInv, CustodyInv, Owned,
       NoHandleLeak, MaybeLookup
<1> QED BY <1>1, InductiveInvariant, PTL

\* SetGeoIP and CloseGeoIP are atomic as far as anyone can observe: the
\* lock-based handle implements GeoIPAbs.
THEOREM HandleIsAtomic == Spec => ImplementsAtomicHandle
<1> USE NoLookupAssumption DEF MaybeLookup, mutex
<1>1. Init => Abs!Init
  BY DEF Init, Abs!Init
<1>2. ASSUME IInv, [Next]_vars PROVE [Abs!Next]_Abs!vars
  <2> USE <1>2 DEF IInv, TypeOK, Abs!vars
  <2>1. ASSUME NEW r \in Readers, Request(r) PROVE [Abs!Next]_Abs!vars
    <3>1. CASE RLock(r) BY <3>1 DEF RLock
    <3>2. CASE LocateIP(r)
      <4>1. CASE geoip = NoLookup BY <3>2, <4>1 DEF LocateIP
      <4>2. CASE geoip # NoLookup
        <5>1. Abs!Begin(r)
          BY <3>2, <4>2 DEF LocateIP, Abs!Begin, LockInv, UsingInv, CustodyInv,
               Owned, UpdaterInside, CloserInside
        <5> QED BY <5>1 DEF Abs!Next
      <4> QED BY <4>1, <4>2
    <3>3. CASE LocateReturns(r)
      <4>1. Abs!End(r)
        BY <3>3 DEF LocateReturns, Abs!End, LockInv, UsingInv, CustodyInv, Owned,
             UpdaterInside, CloserInside
      <4> QED BY <4>1 DEF Abs!Next
    <3>4. CASE geoipEnabled(r) BY <3>4 DEF geoipEnabled
    <3>5. CASE RUnlock(r) BY <3>5 DEF RUnlock
    <3> QED BY <2>1, <3>1, <3>2, <3>3, <3>4, <3>5 DEF Request
  <2>2. ASSUME NEW l \in Lookups, OpenVerified(l) PROVE [Abs!Next]_Abs!vars
    <3>1. Abs!Open(l)
      BY <2>2 DEF OpenVerified, Abs!Open, LockInv, CustodyInv, Owned
    <3> QED BY <3>1 DEF Abs!Next
  <2>3. CASE SetGeoIP
    <3>1. CASE SetLock BY <3>1 DEF SetLock, Announce
    <3>2. CASE SetStore
      <4>1. CASE geoipClosed BY <3>2, <4>1 DEF SetStore, CustodyInv
      <4>2. CASE ~geoipClosed
        <5>1. PICK l \in Lookups : l = arg BY <3>2 DEF SetStore, CustodyInv
        <5>2. Abs!Swap(l)
          BY <3>2, <4>2, <5>1 DEF SetStore, Drained, Abs!Swap, Abs!Idle, LockInv,
               UsingInv, CustodyInv, Owned
        <5> QED BY <5>2 DEF Abs!Next
      <4> QED BY <4>1, <4>2
    <3>3. CASE SetCloseArg
      <4>1. PICK l \in Lookups : l = arg BY <3>3 DEF SetCloseArg, CustodyInv
      <4>2. Abs!Refuse(l)
        BY <3>3, <4>1 DEF SetCloseArg, Abs!Refuse, LockInv, CustodyInv, Owned
      <4> QED BY <4>2 DEF Abs!Next
    <3>4. CASE SetCloseOld BY <3>4 DEF SetCloseOld, LockInv, CustodyInv, Owned
    <3>5. CASE SetUnlock BY <3>5 DEF SetUnlock, Unlock
    <3> QED BY <2>3, <3>1, <3>2, <3>3, <3>4, <3>5 DEF SetGeoIP
  <2>4. CASE CloseGeoIP
    <3>1. CASE CloseCall BY <3>1 DEF CloseCall
    <3>2. CASE CloseLock BY <3>2 DEF CloseLock, Announce
    <3>3. CASE CloseFlag
      <4>1. Abs!Shutdown
        BY <3>3 DEF CloseFlag, Drained, Abs!Shutdown, Abs!Idle, LockInv, UsingInv,
             CustodyInv, Owned
      <4> QED BY <4>1 DEF Abs!Next
    <3>4. CASE CloseHandle BY <3>4 DEF CloseHandle, LockInv, CustodyInv, Owned
    <3>5. CASE CloseClear BY <3>5 DEF CloseClear, LockInv, CustodyInv, Owned
    <3>6. CASE CloseUnlock BY <3>6 DEF CloseUnlock, Unlock
    <3> QED BY <2>4, <3>1, <3>2, <3>3, <3>4, <3>5, <3>6 DEF CloseGeoIP
  <2>5. CASE UNCHANGED vars BY <2>5 DEF vars
  <2> QED BY <1>2, <2>1, <2>2, <2>3, <2>4, <2>5 DEF Next
<1> QED BY <1>1, <1>2, InductiveInvariant, PTL DEF Spec, ImplementsAtomicHandle, Abs!Spec
=============================================================================
