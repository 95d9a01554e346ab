------------------------- MODULE ResultStore_proofs -------------------------
(***************************************************************************)
(* Proofs about ResultStore for any number of posters and any bounds.      *)
(***************************************************************************)
EXTENDS ResultStore, Sums

-----------------------------------------------------------------------------
(* Tables and the order in which their rows are listed                     *)

\* A table whose ids tell its rows apart.
Table(S) == S \subseteq Row /\ \A r, s \in S : r.id = s.id => r = s

Before(s, r) == s.at > r.at \/ (s.at = r.at /\ s.id > r.id)
Above(S, r) == {s \in S : Before(s, r)}
RankIn(S, r) == Cardinality(Above(S, r))
PageOf(S, o) == {r \in S : o <= RankIn(S, r) /\ RankIn(S, r) < o + Limit}

\* The bounds: there is a number of ids, and the sequence stays within it.
LEMMA IdBound ==
    /\ MaxRows \in Nat
    /\ \A f \in {0, Found} : f + MaxSaves \in Nat /\ f + MaxSaves <= MaxRows
BY StoreAssumption DEF MaxRows

\* What the server does with an offset: it never skips ahead of the client, and
\* the page it serves ends where the client's own would, or at the last one.
LEMMA ClampFacts ==
    ASSUME NEW o \in Nat
    PROVE  /\ Clamped(o) \in Nat /\ Clamped(o) <= o
           /\ Clamped(o) <= Least(o, MaxOffset + Limit)
           /\ Clamped(o) + Limit = Least(o + Limit, MaxOffset + Limit)
BY StoreAssumption DEF Clamped, Least

\* There are at most as many rows as ids.
LEMMA TableFinite ==
    ASSUME NEW S, Table(S)
    PROVE  IsFiniteSet(S) /\ Cardinality(S) \in 0 .. MaxRows
<1> DEFINE f == [r \in S |-> r.id]
<1>1. f \in Injection(S, 1 .. MaxRows)
  <2>1. f \in [S -> 1 .. MaxRows] BY DEF Table, Row
  <2>2. \A r, s \in S : f[r] = f[s] => r = s BY DEF Table
  <2> QED BY <2>1, <2>2 DEF Injection, IsInjective
<1>2. IsFiniteSet(1 .. MaxRows) /\ Cardinality(1 .. MaxRows) = MaxRows
  BY IdBound, FS_Interval
<1>3. IsFiniteSet(S) /\ Cardinality(S) <= MaxRows
  BY <1>1, <1>2, FS_Injection
<1> QED BY <1>3, FS_CardinalityType, IdBound

\* The rank of a row is a natural number below the number of rows, and smaller
\* for a row that is listed before it.
LEMMA RankOrder ==
    ASSUME NEW S, Table(S), NEW r \in S
    PROVE  /\ Above(S, r) \subseteq S /\ IsFiniteSet(Above(S, r))
           /\ RankIn(S, r) \in Nat /\ RankIn(S, r) < Cardinality(S)
           /\ \A s \in Above(S, r) : RankIn(S, s) \in Nat /\ RankIn(S, s) < RankIn(S, r)
<1>0. \A s \in S : s.id \in Nat /\ s.at \in Nat BY DEF Table, Row
<1>1. IsFiniteSet(S) /\ Cardinality(S) \in Nat BY TableFinite
<1>2. ASSUME NEW t \in S
      PROVE  /\ Above(S, t) \subseteq S \ {t} /\ IsFiniteSet(Above(S, t))
             /\ RankIn(S, t) \in Nat
  <2>1. Above(S, t) \subseteq S \ {t} BY <1>0 DEF Above, Before
  <2>2. IsFiniteSet(Above(S, t)) BY <1>1, <2>1, FS_Subset
  <2> QED BY <2>1, <2>2, FS_CardinalityType DEF RankIn
<1>3. RankIn(S, r) < Cardinality(S)
  <2>1. IsFiniteSet(S \ {r}) /\ Cardinality(S \ {r}) = Cardinality(S) - 1
    BY <1>1, FS_RemoveElement
  <2>2. Cardinality(Above(S, r)) <= Cardinality(S \ {r}) BY <1>2, <2>1, FS_Subset
  <2> QED BY <1>1, <1>2, <2>1, <2>2 DEF RankIn
<1>4. ASSUME NEW s \in Above(S, r) PROVE RankIn(S, s) \in Nat /\ RankIn(S, s) < RankIn(S, r)
  <2>1. s \in S BY DEF Above
  <2>2. Above(S, s) \subseteq Above(S, r) \ {s}
    BY <1>0, <2>1 DEF Above, Before
  <2>3. IsFiniteSet(Above(S, r) \ {s}) /\ Cardinality(Above(S, r) \ {s}) = RankIn(S, r) - 1
    BY <1>2, FS_RemoveElement DEF RankIn
  <2>4. Cardinality(Above(S, s)) <= RankIn(S, r) - 1 BY <2>2, <2>3, FS_Subset
  <2> QED BY <1>2, <2>1, <2>4 DEF RankIn
<1> QED BY <1>2, <1>3, <1>4

\* A page that is not empty lies within the table: the rows before its first one
\* are as many as its offset at least, and none of them is on the page.
LEMMA PageFits ==
    ASSUME NEW S, Table(S), NEW o \in Nat, PageOf(S, o) # {}
    PROVE  o + Cardinality(PageOf(S, o)) <= Cardinality(S)
<1> DEFINE P == PageOf(S, o)
<1>1. IsFiniteSet(S) /\ Cardinality(S) \in Nat BY TableFinite
<1>2. P \subseteq S /\ \A s \in P : o <= RankIn(S, s) BY DEF PageOf
<1>3. P # {} OBVIOUS
<1> HIDE DEF P
<1>4. IsFiniteSet(P) /\ Cardinality(P) \in Nat BY <1>1, <1>2, FS_Subset, FS_CardinalityType
<1>5. \A s \in P : RankIn(S, s) \in Nat BY <1>2, RankOrder
<1>6. PICK r \in P : \A s \in P : RankIn(S, r) <= RankIn(S, s)
  <2> DEFINE T == {RankIn(S, s) : s \in P}
  <2>1. T \in SUBSET Nat /\ T # {} BY <1>3, <1>5
  <2>2. PICK n \in T : \A m \in T : n <= m BY <2>1, LeastNatural
  <2> QED BY <2>2
<1>7. Above(S, r) \cap P = {}
  <2> SUFFICES ASSUME NEW s \in Above(S, r), s \in P PROVE FALSE OBVIOUS
  <2>1. RankIn(S, s) < RankIn(S, r) BY <1>2, RankOrder
  <2> QED BY <1>5, <1>6, <2>1
<1>8. IsFiniteSet(Above(S, r)) /\ Above(S, r) \subseteq S BY <1>2, RankOrder
<1>9. Cardinality(Above(S, r) \cup P) = RankIn(S, r) + Cardinality(P)
  BY <1>4, <1>5, <1>7, <1>8, FS_Union, FS_EmptySet DEF RankIn
<1>10. Cardinality(Above(S, r) \cup P) <= Cardinality(S) BY <1>1, <1>2, <1>8, FS_Subset
<1> QED BY <1>1, <1>2, <1>4, <1>5, <1>9, <1>10 DEF P

\* Rows that are added never move a row to an earlier page.
LEMMA RankGrows ==
    ASSUME NEW S, NEW T, Table(T), S \subseteq T, NEW r \in S
    PROVE  RankIn(S, r) \in Nat /\ RankIn(T, r) \in Nat /\ RankIn(S, r) <= RankIn(T, r)
<1>1. Table(S) BY DEF Table
<1>2. IsFiniteSet(Above(T, r)) BY RankOrder
<1>3. Above(S, r) \subseteq Above(T, r) BY DEF Above
<1>4. RankIn(S, r) <= RankIn(T, r) BY <1>2, <1>3, FS_Subset DEF RankIn
<1> QED BY <1>1, <1>4, RankOrder

\* Rows that are pruned are the last ones, so those that stay keep their places.
LEMMA RankPruned ==
    ASSUME NEW S, Table(S), NEW cutoff \in Int, NEW r \in S, r.at >= cutoff
    PROVE  RankIn({s \in S : s.at >= cutoff}, r) = RankIn(S, r)
<1>1. \A s \in S : s.id \in Nat /\ s.at \in Nat BY DEF Table, Row
<1>2. Above({s \in S : s.at >= cutoff}, r) = Above(S, r) BY <1>1 DEF Above, Before
<1> QED BY <1>2 DEF RankIn





-----------------------------------------------------------------------------
(* Steps                                                                   *)

\* The table of a state in order is one whose ids tell its rows apart.
LEMMA RowsTable == ASSUME TypeOK, IdsAreForever PROVE Table(rows)
BY DEF TypeOK, IdsAreForever, Table

\* The ranks and pages of the model are those of its table.
LEMMA RanksAre == (\A r : Rank(r) = RankIn(rows, r)) /\ (\A o : Page(o) = PageOf(rows, o))
BY DEF Rank, Page, RankIn, PageOf, Above, Before


\* A client without a page in hand is one whatever its offset.
LEMMA IdleReader ==
    ASSUME TypeOK, NEW o \in Nat
    PROVE  [reader EXCEPT !.pc = "idle", !.page = {}, !.total = 0, !.offset = o] \in
             [pc : {"idle", "count", "answer"}, offset : Nat, page : SUBSET Row,
              total : 0 .. MaxRows, start : SUBSET Row, seen : SUBSET Row]
<1>1. reader \in [pc : {"idle", "count", "answer"}, offset : Nat, page : SUBSET Row,
                  total : 0 .. MaxRows, start : SUBSET Row, seen : SUBSET Row]
  BY DEF TypeOK
<1>2. {} \in SUBSET Row /\ 0 \in 0 .. MaxRows BY IdBound
<1>3. \A e \in SUBSET Row, n \in 0 .. MaxRows :
        [reader EXCEPT !.pc = "idle", !.page = e, !.total = n, !.offset = o] \in
          [pc : {"idle", "count", "answer"}, offset : Nat, page : SUBSET Row,
           total : 0 .. MaxRows, start : SUBSET Row, seen : SUBSET Row]
  BY <1>1
<1> QED BY <1>2, <1>3

\* Every step keeps the types.
LEMMA NextType == ASSUME StoreInv, Next PROVE TypeOK'
<1> USE StoreAssumption, IdBound DEF StoreInv, TypeOK, table, process, NoPost, NoReader, Row
<1>1. CASE ClockTick BY <1>1 DEF ClockTick
<1>2. CASE Open
  <2>1. forced' \in BOOLEAN BY <1>2, Zenon DEF Open
  <2> QED BY <1>2, <2>1 DEF Open
<1>3. CASE ensureColumn BY <1>3 DEF ensureColumn
<1>4. CASE PruneOlderThan BY <1>4 DEF PruneOlderThan
<1>5. CASE Signal BY <1>5 DEF Signal
<1>6. CASE Drained BY <1>6 DEF Drained
<1>7. CASE ShutdownTimeout BY <1>7 DEF ShutdownTimeout
<1>8. CASE Close BY <1>8 DEF Close
<1>o. TypeOK /\ reader.offset \in Nat OBVIOUS
<1>9. CASE Exit
  <2>1. reader' = [reader EXCEPT !.pc = "idle", !.page = {}, !.total = 0, !.offset = reader.offset]
    BY <1>9 DEF Exit, Gone
  <2>2. reader' \in [pc : {"idle", "count", "answer"}, offset : Nat, page : SUBSET Row,
                   total : 0 .. MaxRows, start : SUBSET Row, seen : SUBSET Row]
    <3> HIDE DEF Row, TypeOK
    <3> QED BY <2>1, <1>o, IdleReader
  <2> QED BY <1>9, <2>2 DEF Exit, Gone
<1>10. CASE Crash
  <2>1. reader' = [reader EXCEPT !.pc = "idle", !.page = {}, !.total = 0, !.offset = reader.offset]
    BY <1>10 DEF Crash, Gone
  <2>2. reader' \in [pc : {"idle", "count", "answer"}, offset : Nat, page : SUBSET Row,
                   total : 0 .. MaxRows, start : SUBSET Row, seen : SUBSET Row]
    <3> HIDE DEF Row, TypeOK
    <3> QED BY <2>1, <1>o, IdleReader
  <2> QED BY <1>10, <2>2 DEF Crash, Gone
<1>11. CASE List
  <2>1. Page(Clamped(reader.offset)) \subseteq rows BY DEF Page
  <2>2. Page(Clamped(reader.offset)) \in SUBSET Row /\ rows \in SUBSET Row BY <2>1
  <2> DEFINE first == reader.offset = 0
  <2>3. PICK st \in SUBSET Row, se \in SUBSET Row :
          reader' = [reader EXCEPT !.pc = "count", !.page = Page(Clamped(reader.offset)),
                       !.start = st, !.seen = se]
    <3>1. (IF first THEN rows ELSE reader.start) \in SUBSET Row BY <2>2
    <3>2. ((IF first THEN {} ELSE reader.seen) \cup Page(Clamped(reader.offset))) \in SUBSET Row BY <2>2
    <3> QED BY <1>11, <3>1, <3>2 DEF List
  <2>4. reader'  \in [pc : {"idle", "count", "answer"}, offset : Nat, page : SUBSET Row,
                   total : 0 .. MaxRows, start : SUBSET Row, seen : SUBSET Row]
    <3> HIDE DEF Row
    <3> QED BY <2>2, <2>3
  <2> QED BY <1>11, <2>4 DEF List
<1>12. CASE Count
  <2>1. Cardinality(rows) \in 0 .. MaxRows BY RowsTable, TableFinite
  <2>2. reader'  \in [pc : {"idle", "count", "answer"}, offset : Nat, page : SUBSET Row,
                   total : 0 .. MaxRows, start : SUBSET Row, seen : SUBSET Row]
    <3> HIDE DEF Row
    <3> QED BY <1>12, <2>1 DEF Count
  <2> QED BY <1>12, <2>2 DEF Count
<1>13. CASE ListFails
  <2>1. reader' = [reader EXCEPT !.pc = "idle", !.page = {}, !.total = 0, !.offset = reader.offset]
    BY <1>13 DEF ListFails
  <2>2. reader' \in [pc : {"idle", "count", "answer"}, offset : Nat, page : SUBSET Row,
                   total : 0 .. MaxRows, start : SUBSET Row, seen : SUBSET Row]
    <3> HIDE DEF Row, TypeOK
    <3> QED BY <2>1, <1>o, IdleReader
  <2> QED BY <1>13, <2>2 DEF ListFails
<1>14. CASE Answer
  <2>1. reader'  \in [pc : {"idle", "count", "answer"}, offset : Nat, page : SUBSET Row,
                   total : 0 .. MaxRows, start : SUBSET Row, seen : SUBSET Row]
    <3> HIDE DEF Row
    <3>1. reader.offset + Limit \in Nat OBVIOUS
    <3>2. CASE reader' = NoReader BY <3>2
    <3>3. CASE reader' = [reader EXCEPT !.pc = "idle", !.page = {}, !.total = 0,
                                        !.offset = reader.offset + Limit]
      <4> HIDE DEF TypeOK
      <4> QED BY <1>o, <3>1, <3>3, IdleReader
    <3> QED BY <1>14, <3>2, <3>3 DEF Answer
  <2> QED BY <1>14, <2>1 DEF Answer
<1>15. ASSUME NEW q \in Posters, createResult(q) PROVE TypeOK' BY <1>15 DEF createResult
<1>16. ASSUME NEW q \in Posters, Reject(q) PROVE TypeOK' BY <1>16 DEF Reject
<1>17. ASSUME NEW q \in Posters, Stamp(q) PROVE TypeOK'
  <2>1. post' \in [Posters -> [pc : {"idle", "body", "save", "reply"}, at : 0 .. MaxClock,
                             id : 0 .. MaxRows]]
    <3> DEFINE P == [pc : {"idle", "body", "save", "reply"}, at : 0 .. MaxClock, id : 0 .. MaxRows]
               p == [post[q] EXCEPT !.pc = "save", !.at = clock]
    <3>1. post \in [Posters -> P] /\ clock \in 0 .. MaxClock OBVIOUS
    <3>2. p \in P BY <3>1
    <3>3. post' = [post EXCEPT ![q] = p] BY <1>17 DEF Stamp
    <3> HIDE DEF P, p
    <3>4. post' \in [Posters -> P] BY <3>1, <3>2, <3>3
    <3> QED BY <3>4 DEF P
  <2> QED BY <1>17, <2>1 DEF Stamp
<1>18. ASSUME NEW q \in Posters, Save(q) PROVE TypeOK'
  <2>1. seq + 1 \in 1 .. MaxRows /\ post[q].at \in 0 .. MaxClock BY <1>18 DEF Save
  <2>2. rows' \subseteq Row /\ seq' \in 0 .. MaxRows BY <1>18, <2>1 DEF Save
  <2>3. post' \in [Posters -> [pc : {"idle", "body", "save", "reply"}, at : 0 .. MaxClock,
                             id : 0 .. MaxRows]]
    <3>1. post' = [post EXCEPT ![q] = [post[q] EXCEPT !.pc = "reply", !.id = seq + 1]]
      BY <1>18 DEF Save
    <3>2. seq + 1 \in 0 .. MaxRows BY <2>1
    <3>3. [post[q] EXCEPT !.pc = "reply", !.id = seq + 1] \in
            [pc : {"idle", "body", "save", "reply"}, at : 0 .. MaxClock, id : 0 .. MaxRows]
      BY <3>2
    <3> QED BY <3>1, <3>3
  <2> QED BY <1>18, <2>2, <2>3 DEF Save
<1>19. ASSUME NEW q \in Posters, SaveFails(q) PROVE TypeOK' BY <1>19 DEF SaveFails
<1>20. ASSUME NEW q \in Posters, Created(q) PROVE TypeOK'
  <2>1. acked' \subseteq Row BY <1>20 DEF Created, IssuedInv
  <2>2. post' \in [Posters -> [pc : {"idle", "body", "save", "reply"}, at : 0 .. MaxClock,
                             id : 0 .. MaxRows]]
    BY <1>20 DEF Created
  <2> QED BY <1>20, <2>1, <2>2 DEF Created
<1> QED BY <1>1, <1>2, <1>3, <1>4, <1>5, <1>6, <1>7, <1>8, <1>9, <1>10, <1>11, <1>12,
       <1>13, <1>14, <1>15, <1>16, <1>17, <1>18, <1>19, <1>20 DEF Next, Main, Handler

\* Every step keeps the ids unique: a new row's id is beyond every id there is.
LEMMA NextIds == ASSUME StoreInv, Next PROVE IdsAreForever'
<1> USE StoreAssumption DEF StoreInv, IdsAreForever, IssuedInv, TypeOK, table, process, NoPost, NoReader, Row
<1>1. CASE ClockTick BY <1>1 DEF ClockTick
<1>2. CASE Open BY <1>2 DEF Open
<1>3. CASE ensureColumn BY <1>3 DEF ensureColumn
<1>4. CASE PruneOlderThan BY <1>4 DEF PruneOlderThan
<1>5. CASE Signal BY <1>5 DEF Signal
<1>6. CASE Drained BY <1>6 DEF Drained
<1>7. CASE ShutdownTimeout BY <1>7 DEF ShutdownTimeout
<1>8. CASE Close BY <1>8 DEF Close
<1>9. CASE Exit BY <1>9 DEF Exit, Gone
<1>10. CASE Crash BY <1>10 DEF Crash, Gone
<1>11. CASE List BY <1>11 DEF List
<1>12. CASE Count BY <1>12 DEF Count
<1>13. CASE ListFails BY <1>13 DEF ListFails
<1>14. CASE Answer BY <1>14 DEF Answer
<1>15. ASSUME NEW q \in Posters, createResult(q) PROVE IdsAreForever' BY <1>15 DEF createResult
<1>16. ASSUME NEW q \in Posters, Reject(q) PROVE IdsAreForever' BY <1>16 DEF Reject
<1>17. ASSUME NEW q \in Posters, Stamp(q) PROVE IdsAreForever' BY <1>17 DEF Stamp
<1>18. ASSUME NEW q \in Posters, Save(q) PROVE IdsAreForever' BY <1>18 DEF Save
<1>19. ASSUME NEW q \in Posters, SaveFails(q) PROVE IdsAreForever' BY <1>19 DEF SaveFails
<1>20. ASSUME NEW q \in Posters, Created(q) PROVE IdsAreForever' BY <1>20 DEF Created
<1> QED BY <1>1, <1>2, <1>3, <1>4, <1>5, <1>6, <1>7, <1>8, <1>9, <1>10, <1>11, <1>12,
       <1>13, <1>14, <1>15, <1>16, <1>17, <1>18, <1>19, <1>20 DEF Next, Main, Handler

\* Requests start only while the process serves and are over, or forced, when the
\* store closes.
LEMMA NextLife == ASSUME StoreInv, Next PROVE LifeInv' /\ CloseAfterDrain'
<1> USE StoreAssumption DEF StoreInv, LifeInv, InFlight, CloseAfterDrain, TypeOK, table, process, NoPost, NoReader
<1>1. CASE ClockTick BY <1>1 DEF ClockTick
<1>2. CASE Open BY <1>2 DEF Open
<1>3. CASE ensureColumn BY <1>3 DEF ensureColumn
<1>4. CASE PruneOlderThan BY <1>4 DEF PruneOlderThan
<1>5. CASE Signal BY <1>5 DEF Signal
<1>6. CASE Drained BY <1>6 DEF Drained
<1>7. CASE ShutdownTimeout BY <1>7 DEF ShutdownTimeout
<1>8. CASE Close BY <1>8 DEF Close
<1>9. CASE Exit BY <1>9 DEF Exit, Gone
<1>10. CASE Crash BY <1>10 DEF Crash, Gone
<1>11. CASE List BY <1>11 DEF List
<1>12. CASE Count BY <1>12 DEF Count
<1>13. CASE ListFails BY <1>13 DEF ListFails
<1>14. CASE Answer BY <1>14 DEF Answer
<1>15. ASSUME NEW q \in Posters, createResult(q) PROVE LifeInv' /\ CloseAfterDrain' BY <1>15 DEF createResult
<1>16. ASSUME NEW q \in Posters, Reject(q) PROVE LifeInv' /\ CloseAfterDrain' BY <1>16 DEF Reject
<1>17. ASSUME NEW q \in Posters, Stamp(q) PROVE LifeInv' /\ CloseAfterDrain' BY <1>17 DEF Stamp
<1>18. ASSUME NEW q \in Posters, Save(q) PROVE LifeInv' /\ CloseAfterDrain' BY <1>18 DEF Save
<1>19. ASSUME NEW q \in Posters, SaveFails(q) PROVE LifeInv' /\ CloseAfterDrain' BY <1>19 DEF SaveFails
<1>20. ASSUME NEW q \in Posters, Created(q) PROVE LifeInv' /\ CloseAfterDrain' BY <1>20 DEF Created
<1> QED BY <1>1, <1>2, <1>3, <1>4, <1>5, <1>6, <1>7, <1>8, <1>9, <1>10, <1>11, <1>12,
       <1>13, <1>14, <1>15, <1>16, <1>17, <1>18, <1>19, <1>20 DEF Next, Main, Handler

\* Ids only grow, and what is to be acknowledged was saved and not yet pruned.
LEMMA NextIssued == ASSUME StoreInv, Next PROVE IssuedInv'
<1> USE StoreAssumption DEF StoreInv, IssuedInv, LifeInv, InFlight, TypeOK, table, process, NoPost, NoReader, Row
<1>1. CASE ClockTick BY <1>1 DEF ClockTick
<1>2. CASE Open BY <1>2 DEF Open
<1>3. CASE ensureColumn BY <1>3 DEF ensureColumn
<1>4. CASE PruneOlderThan BY <1>4 DEF PruneOlderThan
<1>5. CASE Signal BY <1>5 DEF Signal
<1>6. CASE Drained BY <1>6 DEF Drained
<1>7. CASE ShutdownTimeout BY <1>7 DEF ShutdownTimeout
<1>8. CASE Close BY <1>8 DEF Close
<1>9. CASE Exit BY <1>9 DEF Exit, Gone
<1>10. CASE Crash BY <1>10 DEF Crash, Gone
<1>11. CASE List BY <1>11 DEF List
<1>12. CASE Count BY <1>12 DEF Count
<1>13. CASE ListFails BY <1>13 DEF ListFails
<1>14. CASE Answer BY <1>14 DEF Answer
<1>15. ASSUME NEW q \in Posters, createResult(q) PROVE IssuedInv' BY <1>15 DEF createResult
<1>16. ASSUME NEW q \in Posters, Reject(q) PROVE IssuedInv' BY <1>16 DEF Reject
<1>17. ASSUME NEW q \in Posters, Stamp(q) PROVE IssuedInv' BY <1>17 DEF Stamp
<1>18. ASSUME NEW q \in Posters, Save(q) PROVE IssuedInv' BY <1>18 DEF Save
<1>19. ASSUME NEW q \in Posters, SaveFails(q) PROVE IssuedInv' BY <1>19 DEF SaveFails
<1>20. ASSUME NEW q \in Posters, Created(q) PROVE IssuedInv' BY <1>20 DEF Created
<1> QED BY <1>1, <1>2, <1>3, <1>4, <1>5, <1>6, <1>7, <1>8, <1>9, <1>10, <1>11, <1>12,
       <1>13, <1>14, <1>15, <1>16, <1>17, <1>18, <1>19, <1>20 DEF Next, Main, Handler

\* A client that gives a page up has asked for less, so it has nothing to answer for.
LEMMA Weaker ==
    ASSUME StoreInv, rows' = rows,
           reader' = [reader EXCEPT !.pc = "idle", !.page = {}, !.total = 0]
    PROVE  ReaderInv'
<1> USE StoreAssumption
<1>1. reader'.pc = "idle" /\ reader'.offset = reader.offset
        /\ reader'.start = reader.start /\ reader'.seen = reader.seen
  BY DEF StoreInv, TypeOK
<1>2. ASSUME NEW r \in reader.start \cap rows
      PROVE  r \in reader.seen \/ Rank(r) >= Least(reader.offset, MaxOffset + Limit)
  <2>1. Rank(r) \in Nat BY RowsTable, RanksAre, RankOrder DEF StoreInv
  <2> QED BY <2>1 DEF StoreInv, ReaderInv, TypeOK, Least
<1>3. \A r : Rank(r)' = Rank(r) BY DEF Rank
<1> QED BY <1>1, <1>2, <1>3 DEF ReaderInv

\* The number of rows of a page in hand is a number.
LEMMA PageCard == ASSUME StoreInv PROVE Cardinality(reader.page) \in Nat
<1>1. reader.page \subseteq [id : 1 .. MaxRows, at : 0 .. MaxClock]
  BY DEF StoreInv, TypeOK, Row
<1>2. IsFiniteSet([id : 1 .. MaxRows, at : 0 .. MaxClock])
  <2>1. IsFiniteSet(1 .. MaxRows) /\ IsFiniteSet(0 .. MaxClock) BY StoreAssumption, IdBound, FS_Interval
  <2>2. IsFiniteSet((1 .. MaxRows) \X (0 .. MaxClock)) BY <2>1, FS_Product
  <2> DEFINE f == [p \in (1 .. MaxRows) \X (0 .. MaxClock) |-> [id |-> p[1], at |-> p[2]]]
  <2>3. f \in Surjection((1 .. MaxRows) \X (0 .. MaxClock), [id : 1 .. MaxRows, at : 0 .. MaxClock])
    <3>1. ASSUME NEW r \in [id : 1 .. MaxRows, at : 0 .. MaxClock]
          PROVE  \E p \in (1 .. MaxRows) \X (0 .. MaxClock) : f[p] = r
      <4> WITNESS <<r.id, r.at>> \in (1 .. MaxRows) \X (0 .. MaxClock)
      <4> QED OBVIOUS
    <3> QED BY <3>1 DEF Surjection
  <2> HIDE DEF f
  <2> QED BY <2>2, <2>3, FS_Surjection
<1> QED BY <1>1, <1>2, FS_Subset, FS_CardinalityType

\* Every step keeps what the client knows: rows are added while it reads, which
\* moves what it has not seen away from it; rows are pruned only between its
\* requests, and only the last ones.
LEMMA NextReader == ASSUME StoreInv, Next PROVE ReaderInv'
<1> USE StoreAssumption DEF StoreInv
<1>t. Table(rows) BY RowsTable
<1>r. \A r : Rank(r) = RankIn(rows, r) /\ Rank(r)' = RankIn(rows', r)
  BY DEF Rank, RankIn, Above, Before
<1>1. CASE ClockTick
  <2>1. rows' = rows /\ reader' = reader BY <1>1 DEF ClockTick, table
  <2> QED BY <2>1 DEF ReaderInv, Rank
<1>2. CASE Open
  <2>1. rows' = rows /\ reader' = reader BY <1>2 DEF Open, table
  <2> QED BY <2>1 DEF ReaderInv, Rank
<1>3. CASE ensureColumn
  <2>1. rows' = rows /\ reader' = reader BY <1>3 DEF ensureColumn, table
  <2> QED BY <2>1 DEF ReaderInv, Rank
<1>4. CASE PruneOlderThan
  <2>1. reader' = reader /\ reader.pc = "idle"
    BY <1>4 DEF PruneOlderThan, LifeInv, InFlight
  <2>2. CASE rows' = rows BY <2>1, <2>2 DEF ReaderInv, Rank
  <2>3. CASE clock > Retention /\ rows' = {r \in rows : r.at >= clock - Retention}
    <3>1. clock - Retention \in Int BY DEF TypeOK
    <3>2. ASSUME NEW r \in rows' PROVE r \in rows /\ Rank(r)' = Rank(r)
      <4>1. r \in rows /\ r.at >= clock - Retention BY <2>3
      <4>2. RankIn(rows', r) = RankIn(rows, r) BY <2>3, <3>1, <4>1, <1>t, RankPruned
      <4> QED BY <4>1, <4>2, <1>r
    <3> QED BY <2>1, <3>2 DEF ReaderInv
  <2> QED BY <1>4, <2>2, <2>3 DEF PruneOlderThan
<1>5. CASE Signal
  <2>1. rows' = rows /\ reader' = reader BY <1>5 DEF Signal, table
  <2> QED BY <2>1 DEF ReaderInv, Rank
<1>6. CASE Drained
  <2>1. rows' = rows /\ reader' = reader BY <1>6 DEF Drained, table
  <2> QED BY <2>1 DEF ReaderInv, Rank
<1>7. CASE ShutdownTimeout
  <2>1. rows' = rows /\ reader' = reader BY <1>7 DEF ShutdownTimeout, table
  <2> QED BY <2>1 DEF ReaderInv, Rank
<1>8. CASE Close
  <2>1. rows' = rows /\ reader' = reader BY <1>8 DEF Close, table
  <2> QED BY <2>1 DEF ReaderInv, Rank
<1>9. CASE Exit
  <2>1. rows' = rows /\ reader' = [reader EXCEPT !.pc = "idle", !.page = {}, !.total = 0]
    BY <1>9 DEF Exit, Gone, table
  <2> QED BY <2>1, Weaker
<1>10. CASE Crash
  <2>1. rows' = rows /\ reader' = [reader EXCEPT !.pc = "idle", !.page = {}, !.total = 0]
    BY <1>10 DEF Crash, Gone, table
  <2> QED BY <2>1, Weaker
<1>11. CASE List
  <2> DEFINE o == reader.offset
             c == Clamped(o)
  <2>0. o \in Nat /\ Limit \in Nat /\ MaxOffset \in Nat BY DEF TypeOK
  <2>c. /\ c \in Nat /\ c <= o /\ c <= Least(o, MaxOffset + Limit)
        /\ c + Limit = Least(o + Limit, MaxOffset + Limit)
    BY <2>0, ClampFacts
  <2>1. rows' = rows BY <1>11 DEF List, table
  <2>2. reader' = [reader EXCEPT !.pc = "count", !.page = Page(c),
           !.start = IF o = 0 THEN rows ELSE reader.start,
           !.seen = (IF o = 0 THEN {} ELSE reader.seen) \cup Page(c)] /\ reader.pc = "idle"
    BY <1>11 DEF List
  <2> HIDE DEF c
  <2>3. reader'.pc = "count" /\ reader'.offset = o /\ reader'.page = Page(c)
          /\ (o = 0 \/ reader'.start = reader.start)
          /\ (o = 0 \/ reader'.seen = reader.seen \cup Page(c))
          /\ Page(c) \subseteq reader'.seen
    BY <2>2 DEF TypeOK
  <2>4. ASSUME NEW r \in reader'.start \cap rows PROVE r \in reader'.seen \/ Rank(r) >= c + Limit
    <3>1. Rank(r) \in Nat BY <1>t, <1>r, RankOrder
    <3>3. r \in Page(c) \/ ~(c <= Rank(r)) \/ ~(Rank(r) < c + Limit) BY DEF Page
    <3>4. CASE r \in Page(c) BY <2>3, <3>4
    <3>5. CASE ~(Rank(r) < c + Limit) BY <2>0, <2>c, <3>1, <3>5
    <3>6. CASE ~(c <= Rank(r))
      <4>1. o # 0 BY <2>0, <2>c, <3>1, <3>6
      <4>2. r \in reader.start \cap rows BY <2>3, <4>1
      <4>3. Least(o, MaxOffset + Limit) \in Nat BY <2>0 DEF Least
      <4>4. r \in reader.seen BY <2>2, <2>c, <3>1, <3>6, <4>2, <4>3 DEF ReaderInv
      <4> QED BY <2>3, <4>1, <4>4
    <3> QED BY <3>3, <3>4, <3>5, <3>6
  <2>5. Page(c) # {} => c + Cardinality(Page(c)) <= Cardinality(rows)
    BY <1>t, <2>c, RanksAre, PageFits
  <2>6. reader'.page # {} =>
          Clamped(reader'.offset) + Cardinality(reader'.page) <= Cardinality(rows)
    BY <2>3, <2>5 DEF c
  <2> QED BY <2>1, <2>3, <2>4, <2>6, <2>c DEF ReaderInv, Rank
<1>12. CASE Count
  <2>1. rows' = rows /\ reader.pc = "count" BY <1>12 DEF Count, table
  <2>2. reader' = [reader EXCEPT !.pc = "answer", !.total = Cardinality(rows)] BY <1>12 DEF Count
  <2>3. reader'.pc = "answer" /\ reader'.offset = reader.offset /\ reader'.start = reader.start
          /\ reader'.seen = reader.seen
    BY <2>2 DEF TypeOK
  <2> QED BY <2>1, <2>3 DEF ReaderInv, Rank
<1>13. CASE ListFails
  <2>1. rows' = rows /\ reader' = [reader EXCEPT !.pc = "idle", !.page = {}, !.total = 0]
    BY <1>13 DEF ListFails, table
  <2> QED BY <2>1, Weaker
<1>14. CASE Answer
  <2>1. rows' = rows /\ reader.pc = "answer" BY <1>14 DEF Answer, table
  <2>2. CASE reader' = NoReader
    <3>1. reader'.start = {} /\ reader'.pc = "idle" BY <2>2 DEF NoReader
    <3> QED BY <3>1 DEF ReaderInv
  <2>3. CASE reader' = [reader EXCEPT !.pc = "idle", !.page = {}, !.total = 0,
                                      !.offset = reader.offset + Limit]
    <3>1. reader'.pc = "idle" /\ reader'.offset = reader.offset + Limit
            /\ reader'.start = reader.start /\ reader'.seen = reader.seen
      BY <2>3 DEF TypeOK
    <3> QED BY <2>1, <3>1 DEF ReaderInv, Rank
  <2> QED BY <1>14, <2>2, <2>3 DEF Answer
<1>15. ASSUME NEW q \in Posters, createResult(q) PROVE ReaderInv'
  <2>1. rows' = rows /\ reader' = reader BY <1>15 DEF createResult, table
  <2> QED BY <2>1 DEF ReaderInv, Rank
<1>16. ASSUME NEW q \in Posters, Reject(q) PROVE ReaderInv'
  <2>1. rows' = rows /\ reader' = reader BY <1>16 DEF Reject, table
  <2> QED BY <2>1 DEF ReaderInv, Rank
<1>17. ASSUME NEW q \in Posters, Stamp(q) PROVE ReaderInv'
  <2>1. rows' = rows /\ reader' = reader BY <1>17 DEF Stamp, table
  <2> QED BY <2>1 DEF ReaderInv, Rank
<1>18. ASSUME NEW q \in Posters, Save(q) PROVE ReaderInv'
  <2>1. reader' = reader BY <1>18 DEF Save
  <2>2. rows' = rows \cup {[id |-> seq + 1, at |-> post[q].at]} BY <1>18 DEF Save
  <2>3. Table(rows') BY NextType, NextIds DEF TypeOK, IdsAreForever, Table
  <2>4. reader.start \cap rows' = reader.start \cap rows
    BY <2>2 DEF IssuedInv, TypeOK, Row
  <2>5. ASSUME NEW r \in rows PROVE Rank(r) \in Nat /\ Rank(r)' \in Nat /\ Rank(r) <= Rank(r)'
    BY <2>2, <2>3, <1>r, RankGrows
  <2> DEFINE asked == IF reader.pc = "idle" THEN reader.offset ELSE reader.offset + Limit
  <2>6. \A r \in reader.start \cap rows' :
          r \in reader.seen \/ Rank(r)' >= Least(asked, MaxOffset + Limit)
    <3>1. Least(asked, MaxOffset + Limit) \in Nat BY DEF Least, TypeOK
    <3>2. \A r \in reader.start \cap rows :
            r \in reader.seen \/ Rank(r) >= Least(asked, MaxOffset + Limit)
      BY DEF ReaderInv
    <3> HIDE DEF asked
    <3> QED BY <2>4, <2>5, <3>1, <3>2
  <2>7. Cardinality(rows) \in Nat /\ Cardinality(rows') \in Nat
          /\ Cardinality(rows) <= Cardinality(rows')
    BY <2>2, <2>3, <1>t, TableFinite, FS_Subset
  <2>8. reader.pc = "count" /\ reader.page # {} =>
          Clamped(reader.offset) + Cardinality(reader.page) <= Cardinality(rows')
    <3>1. Clamped(reader.offset) \in Nat BY ClampFacts DEF TypeOK
    <3> QED BY <2>7, <3>1, PageCard DEF ReaderInv
  <2> QED BY <2>1, <2>6, <2>8 DEF ReaderInv
<1>19. ASSUME NEW q \in Posters, SaveFails(q) PROVE ReaderInv'
  <2>1. rows' = rows /\ reader' = reader BY <1>19 DEF SaveFails, table
  <2> QED BY <2>1 DEF ReaderInv, Rank
<1>20. ASSUME NEW q \in Posters, Created(q) PROVE ReaderInv'
  <2>1. rows' = rows /\ reader' = reader BY <1>20 DEF Created, table
  <2> QED BY <2>1 DEF ReaderInv, Rank
<1> QED BY <1>1, <1>2, <1>3, <1>4, <1>5, <1>6, <1>7, <1>8, <1>9, <1>10, <1>11, <1>12,
       <1>13, <1>14, <1>15, <1>16, <1>17, <1>18, <1>19, <1>20 DEF Next, Main, Handler

\* The store starts in order.
LEMMA InitStore == ASSUME Init PROVE StoreInv
<1> USE StoreAssumption, IdBound DEF Init, NoPost, NoReader
<1>1. TypeOK
  <2>1. forced \in BOOLEAN BY Zenon
  <2>2. found \in {0, Found} /\ found \in Nat /\ found <= MaxRows BY DEF MaxRows
  <2>3. rows \subseteq Row
    <3> SUFFICES ASSUME NEW i \in 1 .. found PROVE [id |-> i, at |-> 0] \in Row OBVIOUS
    <3> QED BY <2>2 DEF Row
  <2>4. seq \in 0 .. found + MaxSaves BY <2>2
  <2> QED BY <2>1, <2>2, <2>3, <2>4 DEF TypeOK
<1>2. IdsAreForever /\ CloseAfterDrain /\ LifeInv
  BY DEF IdsAreForever, CloseAfterDrain, LifeInv, InFlight
<1>3. IssuedInv BY DEF IssuedInv
<1>4. ReaderInv BY DEF ReaderInv
<1> QED BY <1>1, <1>2, <1>3, <1>4 DEF StoreInv

\* Every step keeps the store in order.
LEMMA NextStore == ASSUME StoreInv, [Next]_vars PROVE StoreInv'
<1>1. CASE Next
  BY <1>1, NextType, NextIds, NextLife, NextIssued, NextReader DEF StoreInv
<1>2. CASE UNCHANGED vars
  <2> USE <1>2 DEF vars, StoreInv
  <2>1. TypeOK' BY DEF TypeOK
  <2>2. IdsAreForever' /\ CloseAfterDrain' /\ LifeInv'
    BY DEF IdsAreForever, CloseAfterDrain, LifeInv, InFlight
  <2>3. IssuedInv' BY DEF IssuedInv
  <2>4. ReaderInv' BY DEF ReaderInv, Rank
  <2> QED BY <2>1, <2>2, <2>3, <2>4
<1> QED BY <1>1, <1>2


\* Every step keeps the acknowledged results: a prune takes only rows older than
\* the retention time, and a result is saved before it is acknowledged.
LEMMA NextKept == ASSUME StoreInv, AcknowledgedIsKept, Next PROVE AcknowledgedIsKept'
<1> USE StoreAssumption DEF StoreInv, AcknowledgedIsKept
<1>1. CASE ClockTick BY <1>1 DEF ClockTick, table, TypeOK, Row
<1>2. CASE Open BY <1>2 DEF Open, table
<1>3. CASE ensureColumn BY <1>3 DEF ensureColumn, table
<1>4. CASE PruneOlderThan BY <1>4 DEF PruneOlderThan, TypeOK, Row
<1>5. CASE Signal BY <1>5 DEF Signal, table
<1>6. CASE Drained BY <1>6 DEF Drained, table
<1>7. CASE ShutdownTimeout BY <1>7 DEF ShutdownTimeout, table
<1>8. CASE Close BY <1>8 DEF Close, table
<1>9. CASE Exit BY <1>9 DEF Exit, Gone, table
<1>10. CASE Crash BY <1>10 DEF Crash, Gone, table
<1>11. CASE List BY <1>11 DEF List, table
<1>12. CASE Count BY <1>12 DEF Count, table
<1>13. CASE ListFails BY <1>13 DEF ListFails, table
<1>14. CASE Answer BY <1>14 DEF Answer, table
<1>15. ASSUME NEW q \in Posters, createResult(q) PROVE AcknowledgedIsKept' BY <1>15 DEF createResult, table
<1>16. ASSUME NEW q \in Posters, Reject(q) PROVE AcknowledgedIsKept' BY <1>16 DEF Reject, table
<1>17. ASSUME NEW q \in Posters, Stamp(q) PROVE AcknowledgedIsKept' BY <1>17 DEF Stamp, table
<1>18. ASSUME NEW q \in Posters, Save(q) PROVE AcknowledgedIsKept' BY <1>18 DEF Save, table
<1>19. ASSUME NEW q \in Posters, SaveFails(q) PROVE AcknowledgedIsKept' BY <1>19 DEF SaveFails, table
<1>20. ASSUME NEW q \in Posters, Created(q) PROVE AcknowledgedIsKept' BY <1>20 DEF Created, table, IssuedInv
<1> QED BY <1>1, <1>2, <1>3, <1>4, <1>5, <1>6, <1>7, <1>8, <1>9, <1>10, <1>11, <1>12,
       <1>13, <1>14, <1>15, <1>16, <1>17, <1>18, <1>19, <1>20 DEF Next, Main, Handler

\* What a step can do to a client that holds an answer or is about to.
ReaderStep ==
    \/ rows' = rows /\ reader' = reader
    \/ reader'.pc # "answer"
    \/ Count
    \/ \E q \in Posters : Save(q)

\* Every step is one of these: no prune runs while the client waits.
LEMMA ReaderSteps == ASSUME StoreInv, Next PROVE ReaderStep
<1> USE DEF ReaderStep, StoreInv, TypeOK
<1>1. CASE ClockTick BY <1>1 DEF ClockTick, table
<1>2. CASE Open BY <1>2 DEF Open, table
<1>3. CASE ensureColumn BY <1>3 DEF ensureColumn, table
<1>4. CASE PruneOlderThan BY <1>4 DEF PruneOlderThan, LifeInv, InFlight
<1>5. CASE Signal BY <1>5 DEF Signal, table
<1>6. CASE Drained BY <1>6 DEF Drained, table
<1>7. CASE ShutdownTimeout BY <1>7 DEF ShutdownTimeout, table
<1>8. CASE Close BY <1>8 DEF Close, table
<1>9. CASE Exit BY <1>9 DEF Exit, Gone
<1>10. CASE Crash BY <1>10 DEF Crash, Gone
<1>11. CASE List BY <1>11 DEF List
<1>12. CASE Count BY <1>12
<1>13. CASE ListFails BY <1>13 DEF ListFails
<1>14. CASE Answer BY <1>14 DEF Answer, NoReader
<1>15. ASSUME NEW q \in Posters, createResult(q) PROVE ReaderStep BY <1>15 DEF createResult, table
<1>16. ASSUME NEW q \in Posters, Reject(q) PROVE ReaderStep BY <1>16 DEF Reject, table
<1>17. ASSUME NEW q \in Posters, Stamp(q) PROVE ReaderStep BY <1>17 DEF Stamp, table
<1>18. ASSUME NEW q \in Posters, Save(q) PROVE ReaderStep BY <1>18
<1>19. ASSUME NEW q \in Posters, SaveFails(q) PROVE ReaderStep BY <1>19 DEF SaveFails, table
<1>20. ASSUME NEW q \in Posters, Created(q) PROVE ReaderStep BY <1>20 DEF Created, table
<1> QED BY <1>1, <1>2, <1>3, <1>4, <1>5, <1>6, <1>7, <1>8, <1>9, <1>10, <1>11, <1>12,
       <1>13, <1>14, <1>15, <1>16, <1>17, <1>18, <1>19, <1>20 DEF Next, Main, Handler

-----------------------------------------------------------------------------
(* Theorems                                                                *)

\* For any posters, clients, prunes, crashes and restarts (PruneOlderThan, Save,
\* listResults and the life of main): the types hold, an id is never given to
\* two results, a store that is closed after a drain in time has no handler
\* left, no request meets a prune, and what a paging client has not seen lies
\* beyond the pages it has asked for.
THEOREM StoreStaysInOrder == Spec => []StoreInv
BY InitStore, NextStore, PTL DEF Spec

\* An acknowledged result (201 of createResult) is in the table as long as the
\* retention time of its created_at has not passed, whatever the process did
\* in between.
THEOREM AcknowledgedResultsStay == Spec => []AcknowledgedIsKept
<1>1. Init => AcknowledgedIsKept BY DEF Init, AcknowledgedIsKept
<1>2. ASSUME StoreInv, AcknowledgedIsKept, [Next]_vars PROVE AcknowledgedIsKept'
  <2>1. CASE Next BY <1>2, <2>1, NextKept
  <2>2. CASE UNCHANGED vars BY <1>2, <2>2 DEF AcknowledgedIsKept, vars
  <2> QED BY <1>2, <2>1, <2>2
<1> QED BY <1>1, <1>2, InitStore, NextStore, PTL DEF Spec

\* The total of a list answer covers its page, although List and Count are two
\* statements and results are saved between them.
THEOREM TotalsCoverPages == Spec => []TotalCoversPage
<1>1. Init => TotalCoversPage BY DEF Init, NoReader, TotalCoversPage
<1>2. ASSUME StoreInv, TotalCoversPage, [Next]_vars PROVE TotalCoversPage'
  <2>1. CASE rows' = rows /\ reader' = reader BY <1>2, <2>1 DEF TotalCoversPage
  <2>2. CASE reader'.pc # "answer" BY <2>2 DEF TotalCoversPage
  <2>3. CASE Count
    <3>1. reader.pc = "count" /\ reader' = [reader EXCEPT !.pc = "answer", !.total = Cardinality(rows)]
      BY <2>3 DEF Count
    <3>2. reader'.total = Cardinality(rows) /\ reader'.page = reader.page
            /\ reader'.offset = reader.offset
      BY <1>2, <3>1 DEF StoreInv, TypeOK
    <3> QED BY <1>2, <3>1, <3>2 DEF StoreInv, ReaderInv, TotalCoversPage
  <2>4. CASE \E q \in Posters : Save(q)
    <3>1. reader' = reader BY <2>4 DEF Save
    <3> QED BY <1>2, <3>1 DEF TotalCoversPage
  <2>5. CASE UNCHANGED vars BY <1>2, <2>5 DEF TotalCoversPage, vars
  <2> QED BY <1>2, <2>1, <2>2, <2>3, <2>4, <2>5, ReaderSteps DEF ReaderStep
<1> QED BY <1>1, <1>2, InitStore, NextStore, PTL DEF Spec

\* A client that has read its last page has seen every result that was there
\* when it began and still is: the offsets of GET /api/results skip none, with
\* any saves between the pages, restarts and prunes, up to the last page that
\* maxListOffset lets it have.
THEOREM PagingIsComplete == Spec => []PagesMissNothing
<1> USE StoreAssumption
<1>1. Init => PagesMissNothing BY DEF Init, NoReader, PagesMissNothing
<1>2. ASSUME StoreInv, PagesMissNothing, [Next]_vars PROVE PagesMissNothing'
  <2>1. CASE rows' = rows /\ reader' = reader BY <1>2, <2>1 DEF PagesMissNothing, Rank
  <2>2. CASE reader'.pc # "answer" BY <2>2 DEF PagesMissNothing
  <2>3. CASE Count
    <3>1. reader.pc = "count" /\ reader' = [reader EXCEPT !.pc = "answer", !.total = Cardinality(rows)]
            /\ rows' = rows
      BY <2>3 DEF Count, table
    <3>2. reader'.total = Cardinality(rows) /\ reader'.start = reader.start
            /\ reader'.offset = reader.offset /\ reader'.seen = reader.seen
      BY <1>2, <3>1 DEF StoreInv, TypeOK
    <3>3. SUFFICES ASSUME reader.offset + Limit >= Cardinality(rows),
                          NEW r \in reader.start \cap rows
                   PROVE  r \in reader.seen \/ Rank(r) >= MaxOffset + Limit
      BY <3>1, <3>2 DEF PagesMissNothing, Rank
    <3>4. Rank(r) \in Nat /\ Rank(r) < Cardinality(rows)
      BY <1>2, RowsTable, RanksAre, RankOrder DEF StoreInv
    <3>5. Cardinality(rows) \in Nat BY <1>2, RowsTable, TableFinite DEF StoreInv
    <3>6. r \in reader.seen \/ Rank(r) >= Least(reader.offset + Limit, MaxOffset + Limit)
      BY <1>2, <3>1 DEF StoreInv, ReaderInv
    <3> QED BY <1>2, <3>3, <3>4, <3>5, <3>6 DEF StoreInv, TypeOK, Least
  <2>4. ASSUME NEW q \in Posters, Save(q) PROVE PagesMissNothing'
    <3>1. reader' = reader /\ rows' = rows \cup {[id |-> seq + 1, at |-> post[q].at]}
      BY <2>4 DEF Save
    <3>2. reader.start \cap rows' = reader.start \cap rows
      BY <1>2, <3>1 DEF StoreInv, IssuedInv, TypeOK, Row
    <3>3. Table(rows) /\ Table(rows')
      <4>1. Next BY <2>4 DEF Next, Handler
      <4> QED BY <1>2, <4>1, RowsTable, NextType, NextIds DEF StoreInv, TypeOK, IdsAreForever, Table
    <3>4. ASSUME NEW r \in rows PROVE Rank(r) \in Nat /\ Rank(r)' \in Nat /\ Rank(r) <= Rank(r)'
      <4>1. Rank(r) = RankIn(rows, r) /\ Rank(r)' = RankIn(rows', r)
        BY DEF Rank, RankIn, Above, Before
      <4> QED BY <3>1, <3>3, <4>1, RankGrows
    <3> QED BY <1>2, <3>1, <3>2, <3>4 DEF PagesMissNothing
  <2>5. CASE UNCHANGED vars BY <1>2, <2>5 DEF PagesMissNothing, Rank, vars
  <2> QED BY <1>2, <2>1, <2>2, <2>3, <2>4, <2>5, ReaderSteps DEF ReaderStep
<1> QED BY <1>1, <1>2, InitStore, NextStore, PTL DEF Spec

=============================================================================
