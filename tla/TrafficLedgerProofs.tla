------------------------ MODULE TrafficLedgerProofs ------------------------
(***************************************************************************)
(* For every poller, every set of rows and every bound: the totals never   *)
(* exceed the bytes that were moved, whatever restarts or fails and        *)
(* whatever the operators edit; a tick credits what moved between its      *)
(* readings; the rows of an email and the total shown stay together.       *)
(***************************************************************************)
EXTENDS TrafficLedger, TLAPS

IInv == TypeOK /\ Covered

\* The bounds are natural numbers.
LEMMA BoundsNat ==
    MaxBytes \in Nat /\ MaxBrought \in Nat /\ MaxEdits \in Nat
BY LedgerAssumption

USE BoundsNat DEF Counters, Zero

\* What a row stands for is a pair of bounded counters.
LEMMA ValType ==
    ASSUME TypeOK
    PROVE  \A r \in Rows : Val(r) \in [Dirs -> 0 .. MaxBytes + MaxBrought]
BY DEF TypeOK, Val

\* A tick's delta is a pair of counters, at most the reading; and above a
\* baseline no direction of which dropped it is the difference.
LEMMA DeltaType ==
    ASSUME TypeOK
    PROVE  /\ Delta \in Counters
           /\ \A d \in Dirs : Delta[d] <= cur[d]
           /\ seeded /\ (\A d \in Dirs : prev[d] <= cur[d]) =>
                 \A d \in Dirs : Delta[d] = cur[d] - prev[d]
           /\ ~seeded => Delta = Zero
<1> USE DEF TypeOK
<1>1. CASE ~seeded
  BY <1>1 DEF Delta
<1>2. CASE seeded /\ Poller = "user" /\ \E d \in Dirs : cur[d] < prev[d]
  <2>1. Delta = cur
    BY <1>2 DEF Delta
  <2>2. ~ \A d \in Dirs : prev[d] <= cur[d]
    BY <1>2
  <2>. QED
    BY <1>2, <2>1, <2>2
<1>3. CASE seeded /\ ~(Poller = "user" /\ \E d \in Dirs : cur[d] < prev[d])
  <2>1. Delta = [d \in Dirs |-> IF cur[d] < prev[d] THEN cur[d] ELSE cur[d] - prev[d]]
    BY <1>3 DEF Delta
  <2>. QED
    BY <1>3, <2>1
<1>. QED
  BY <1>1, <1>2, <1>3

\* Crediting less, or rows that every direction finds a larger one for, or that
\* only have what they came with, keeps a baseline ahead; so does traffic.
LEMMA AheadMonotone ==
    ASSUME TypeOK, TypeOK',
           NEW b \in Counters, NEW x \in Counters, NEW y \in Counters,
           Ahead(b, x),
           \A d \in Dirs : /\ n'[d] - n[d] = moved'[d] - moved[d]
                           /\ n[d] <= n'[d]
                           /\ brought[d] <= brought'[d]
                           /\ y[d] <= x[d],
           \A d \in Dirs, r \in Rows :
               \/ Val(r)'[d] <= brought'[d]
               \/ \E q \in Rows : Val(r)'[d] + y[d] <= Val(q)[d] + x[d]
    PROVE  Ahead(b, y)'
<1>1. \A r \in Rows : /\ Val(r) \in [Dirs -> 0 .. MaxBytes + MaxBrought]
                      /\ Val(r)' \in [Dirs -> 0 .. MaxBytes + MaxBrought]
  BY DEF TypeOK, Val
<1>0. \A d \in Dirs :
         /\ n[d] \in Nat /\ n'[d] \in Nat /\ moved[d] \in Nat /\ moved'[d] \in Nat
         /\ brought[d] \in Nat /\ brought'[d] \in Nat
         /\ b[d] \in Nat /\ x[d] \in Nat /\ y[d] \in Nat
  BY DEF TypeOK
\* Either way, at most c more than was moved stands to the credit of a row.
<1>2. ASSUME NEW c \in Counters, NEW d \in Dirs, x[d] + n[d] <= moved[d] + c[d],
             \A r \in Rows : Val(r)[d] + x[d] + n[d] <= moved[d] + brought[d] + c[d]
      PROVE  /\ y[d] + n'[d] <= moved'[d] + c[d]
             /\ \A r \in Rows :
                   Val(r)'[d] + y[d] + n'[d] <= moved'[d] + brought'[d] + c[d]
  <2>0. c[d] \in Nat
    OBVIOUS
  <2>1. n'[d] - n[d] = moved'[d] - moved[d] /\ brought[d] <= brought'[d] /\ y[d] <= x[d]
    OBVIOUS
  <2>2. y[d] + n'[d] <= moved'[d] + c[d]
    BY <1>0, <1>2, <2>0, <2>1
  <2>3. ASSUME NEW r \in Rows
        PROVE  Val(r)'[d] + y[d] + n'[d] <= moved'[d] + brought'[d] + c[d]
    <3>0. Val(r)'[d] \in Nat
      BY <1>1
    <3>1. CASE Val(r)'[d] <= brought'[d]
      BY <1>0, <2>0, <2>2, <3>0, <3>1
    <3>2. CASE \E q \in Rows : Val(r)'[d] + y[d] <= Val(q)[d] + x[d]
      <4>1. PICK q \in Rows : Val(r)'[d] + y[d] <= Val(q)[d] + x[d]
        BY <3>2
      <4>2. Val(q)[d] \in Nat /\ Val(q)[d] + x[d] + n[d] <= moved[d] + brought[d] + c[d]
        BY <1>1, <1>2
      <4>. QED
        BY <1>0, <2>0, <2>1, <3>0, <4>1, <4>2
    <3>. QED
      BY <3>1, <3>2
  <2>. QED
    BY <2>2, <2>3
<1>3. CASE \A d \in Dirs :
             /\ b[d] <= n[d]
             /\ x[d] + n[d] <= moved[d] + b[d]
             /\ \A r \in Rows : Val(r)[d] + x[d] + n[d] <= moved[d] + brought[d] + b[d]
  <2>1. ASSUME NEW d \in Dirs
        PROVE  b[d] <= n'[d]
    BY <1>0, <1>3
  <2>2. ASSUME NEW d \in Dirs
        PROVE  /\ y[d] + n'[d] <= moved'[d] + b[d]
               /\ \A r \in Rows :
                     Val(r)'[d] + y[d] + n'[d] <= moved'[d] + brought'[d] + b[d]
    BY <1>2, <1>3
  <2>. QED
    BY <2>1, <2>2 DEF Ahead
<1>4. CASE \A d \in Dirs :
             /\ x[d] + n[d] <= moved[d]
             /\ \A r \in Rows : Val(r)[d] + x[d] + n[d] <= moved[d] + brought[d]
  <2>1. ASSUME NEW d \in Dirs
        PROVE  /\ y[d] + n'[d] <= moved'[d]
               /\ \A r \in Rows : Val(r)'[d] + y[d] + n'[d] <= moved'[d] + brought'[d]
    <3>1. Zero \in Counters /\ Zero[d] = 0
      OBVIOUS
    <3>2. \A r \in Rows : Val(r)[d] \in Nat /\ Val(r)'[d] \in Nat
      BY <1>1
    <3>3. x[d] + n[d] <= moved[d] + Zero[d]
      BY <1>0, <1>4, <3>1
    <3>4. \A r \in Rows : Val(r)[d] + x[d] + n[d] <= moved[d] + brought[d] + Zero[d]
      BY <1>0, <1>4, <3>1, <3>2
    <3>5. /\ y[d] + n'[d] <= moved'[d] + Zero[d]
          /\ \A r \in Rows :
                Val(r)'[d] + y[d] + n'[d] <= moved'[d] + brought'[d] + Zero[d]
      BY <1>2, <3>1, <3>3, <3>4
    <3>. QED
      BY <1>0, <3>1, <3>2, <3>5
  <2>. QED
    BY <2>1 DEF Ahead
<1>. QED
  BY <1>3, <1>4 DEF Ahead

\* A delta that is owed fits: the rows may be credited with it.
LEMMA OwedFits ==
    ASSUME TypeOK, NEW b \in Counters, NEW x \in Counters, Ahead(b, x)
    PROVE  \A d \in Dirs, r \in Rows : Val(r)[d] + x[d] <= moved[d] + brought[d]
<1> SUFFICES ASSUME NEW d \in Dirs, NEW r \in Rows
             PROVE  Val(r)[d] + x[d] <= moved[d] + brought[d]
  OBVIOUS
<1>1. /\ n[d] \in Nat /\ moved[d] \in Nat /\ brought[d] \in Nat /\ b[d] \in Nat
      /\ x[d] \in Nat /\ Val(r)[d] \in Nat
  BY ValType DEF TypeOK
<1>. QED
  BY <1>1 DEF Ahead

\* Types hold after a step: the totals because what is credited is owed.
LEMMA TypeStep ==
    ASSUME IInv, [Next]_vars
    PROVE  TypeOK'
<1> USE DEF IInv
<1>1. CASE UNCHANGED vars
  BY <1>1 DEF vars, ledger, tick, TypeOK
<1>2. ASSUME NEW d \in Dirs, Move(d)
      PROVE  TypeOK'
  BY <1>2 DEF Move, ledger, tick, TypeOK, Covered
<1>3. CASE XrayRestarts
  BY <1>3 DEF XrayRestarts, ledger, tick, TypeOK
<1>16. Zero \in [Dirs -> 0 .. MaxBytes] /\ Zero \in [Dirs -> 0 .. MaxBytes + MaxBrought]
  OBVIOUS
<1>17. ASSUME NEW m \in [Dirs -> 0 .. MaxBytes], Forget(m)
       PROVE  /\ cur' \in [Dirs -> 0 .. MaxBytes]
              /\ meta' \in [Dirs -> 0 .. MaxBytes + MaxBrought]
              /\ seen' \in [{"prev", "cur"} -> [Dirs -> 0 .. MaxBytes]]
  BY <1>16, <1>17 DEF Forget
<1>4. CASE PanelRestarts
  <2>1. Forget(Zero) /\ prev' = Zero
    BY <1>4 DEF PanelRestarts
  <2>. QED
    BY <1>4, <1>16, <1>17, <2>1 DEF PanelRestarts, ledger, TypeOK
<1>5. CASE Seed
  BY <1>5 DEF Seed, ledger, TypeOK
<1>6. CASE SeedFails
  BY <1>6 DEF SeedFails, ledger, TypeOK
<1>7. CASE Query
  BY <1>7 DEF Query, ledger, TypeOK
<1>8. CASE ReadTotals
  <2>1. meta' \in [Dirs -> 0 .. MaxBytes + MaxBrought]
    BY <1>8, ValType DEF ReadTotals, TypeOK
  <2>. QED
    BY <1>8, <2>1 DEF ReadTotals, ledger, TypeOK
<1>9. CASE Abandon
  <2>1. Forget(seen.prev) /\ seen.prev \in [Dirs -> 0 .. MaxBytes]
    BY <1>9 DEF Abandon, TypeOK
  <2>. QED
    BY <1>9, <1>17, <2>1 DEF Abandon, ledger, TypeOK
<1>10. ASSUME EndTick, Show
       PROVE  shown' \in Counters
  <2>1. Plus(meta, Delta) \in Counters
    BY DeltaType DEF Plus, TypeOK
  <2>. QED
    BY <1>10, <2>1 DEF Show, TypeOK
<1>11. CASE Flush
  <2>1. Ahead(cur, Delta)
    BY <1>11 DEF Flush, EndTick, Covered
  <2>2. \A r \in Rows : Plus(Val(r), Delta) \in [Dirs -> 0 .. MaxBytes + MaxBrought]
    <3>1. \A r \in Rows, d \in Dirs : Val(r)[d] + Delta[d] <= moved[d] + brought[d]
      <4>1. TypeOK /\ Delta \in Counters /\ cur \in Counters
        BY DeltaType DEF TypeOK
      <4>. QED
        BY <2>1, <4>1, OwedFits
    <3>2. ASSUME NEW r \in Rows, NEW d \in Dirs
          PROVE  Val(r)[d] + Delta[d] \in 0 .. MaxBytes + MaxBrought
      <4>1. /\ Val(r)[d] \in Nat /\ Delta[d] \in Nat /\ moved[d] \in 0 .. MaxBytes
            /\ brought[d] \in 0 .. MaxBrought
        BY ValType, DeltaType DEF TypeOK
      <4>. QED
        BY <3>1, <4>1
    <3>. QED
      BY <3>2 DEF Plus
  <2>3. total' \in [Rows -> [Dirs -> 0 .. MaxBytes + MaxBrought]]
    BY <1>11, <2>2 DEF Flush, TypeOK
  <2>4. Forget(seen.cur) /\ seen.cur \in [Dirs -> 0 .. MaxBytes]
    BY <1>11 DEF Flush, EndTick, TypeOK
  <2>. QED
    BY <1>10, <1>11, <1>17, <2>3, <2>4 DEF Flush, EndTick, TypeOK
<1>12. CASE FlushFails
  <2>1. Forget(seen.cur) /\ seen.cur \in [Dirs -> 0 .. MaxBytes]
    BY <1>12 DEF FlushFails, EndTick, TypeOK
  <2>. QED
    BY <1>10, <1>12, <1>17, <2>1 DEF FlushFails, EndTick, TypeOK
<1>13. ASSUME NEW r \in Rows, Attach(r)
       PROVE  TypeOK'
  <2>1. total' \in [Rows -> [Dirs -> 0 .. MaxBytes + MaxBrought]]
    BY <1>13 DEF Attach, TypeOK
  <2>. QED
    BY <1>13, <2>1 DEF Attach, Edit, tick, TypeOK
<1>14. ASSUME NEW r \in Rows, Detach(r)
       PROVE  TypeOK'
  BY <1>14 DEF Detach, Edit, tick, TypeOK
<1>15. ASSUME NEW r \in Rows, ZeroRow(r)
       PROVE  TypeOK'
  BY <1>15 DEF ZeroRow, Edit, tick, TypeOK
<1>18. ASSUME NEW r \in Rows, Rename(r), stored' \in SUBSET Rows
       PROVE  TypeOK'
  <2>1. PICK v \in [Dirs -> 0 .. MaxBrought] :
           /\ total' = [total EXCEPT ![r] = v]
           /\ brought' = [d \in Dirs |-> Larger(brought[d], v[d])]
    BY <1>18 DEF Rename
  <2>2. v \in [Dirs -> 0 .. MaxBytes + MaxBrought]
    OBVIOUS
  <2>3. total' \in [Rows -> [Dirs -> 0 .. MaxBytes + MaxBrought]]
    BY <2>1, <2>2 DEF TypeOK
  <2>4. brought' \in [Dirs -> 0 .. MaxBrought]
    BY <2>1 DEF Larger, TypeOK
  <2>. QED
    BY <1>18, <2>3, <2>4 DEF Rename, Edit, tick, TypeOK
<1>19. ASSUME NEW r \in Rows, RenameEmail(r) \/ RenameTag(r)
       PROVE  TypeOK'
  <2>1. Rename(r) /\ stored' \in SUBSET Rows
    BY <1>19 DEF RenameEmail, RenameTag, TypeOK
  <2>. QED
    BY <1>18, <2>1
<1>. QED
  BY <1>1, <1>2, <1>3, <1>4, <1>5, <1>6, <1>7, <1>8, <1>9, <1>11, <1>12, <1>13,
     <1>14, <1>15, <1>19 DEF Next

\* A reading of a counter that was ahead of its baseline takes over as the
\* baseline, once the delta between them has been set aside.
LEMMA ReadingOwed ==
    ASSUME TypeOK, TypeOK', Covered, seeded => Ahead(prev, Zero),
           UNCHANGED <<n, ledger, moved, brought, prev, seeded>>, cur' = n
    PROVE  Ahead(cur, Delta)'
<1> USE DEF TypeOK
<1>1. /\ Delta' \in Counters
      /\ \A d \in Dirs : Delta'[d] <= n[d]
      /\ seeded /\ (\A d \in Dirs : prev[d] <= n[d]) =>
            \A d \in Dirs : Delta'[d] = n[d] - prev[d]
      /\ ~seeded => Delta' = Zero
  BY DEF Delta
<1>2. \A r \in Rows : /\ Val(r) \in [Dirs -> 0 .. MaxBytes + MaxBrought]
                      /\ Val(r)' = Val(r)
  BY DEF Val, ledger
<1>3. SUFFICES \A d \in Dirs :
                  /\ Delta'[d] + n[d] <= moved[d] + n[d]
                  /\ \A r \in Rows :
                        Val(r)[d] + Delta'[d] + n[d] <= moved[d] + brought[d] + n[d]
  BY <1>2 DEF Ahead
<1>4. CASE ~seeded
  BY <1>1, <1>2, <1>4 DEF Covered
<1>5. CASE seeded /\ \A d \in Dirs :
             /\ prev[d] <= n[d]
             /\ Zero[d] + n[d] <= moved[d] + prev[d]
             /\ \A r \in Rows :
                   Val(r)[d] + Zero[d] + n[d] <= moved[d] + brought[d] + prev[d]
  BY <1>1, <1>2, <1>5
<1>6. CASE seeded /\ \A d \in Dirs :
             /\ Zero[d] + n[d] <= moved[d]
             /\ \A r \in Rows : Val(r)[d] + Zero[d] + n[d] <= moved[d] + brought[d]
  BY <1>1, <1>2, <1>6
<1>. QED
  BY <1>4, <1>5, <1>6 DEF Ahead

\* A step after which every row stands at most where some row stood, in each
\* direction, or at most at what one came with, keeps every baseline that was ahead.
LEMMA SmallerRows ==
    ASSUME IInv, TypeOK', UNCHANGED <<n, moved, poll, prev, seeded, cur>>,
           \A d \in Dirs : brought[d] <= brought'[d],
           \A d \in Dirs, r \in Rows :
               \/ Val(r)'[d] <= brought'[d]
               \/ \E q \in Rows : Val(r)'[d] <= Val(q)[d]
    PROVE  Covered'
<1> USE DEF IInv, TypeOK
<1>1. \A r \in Rows : /\ Val(r) \in [Dirs -> 0 .. MaxBytes + MaxBrought]
                      /\ Val(r)' \in [Dirs -> 0 .. MaxBytes + MaxBrought]
  BY DEF Val
<1>2. Delta' = Delta /\ Delta \in Counters
  BY DeltaType DEF Delta
<1>3. ASSUME NEW b \in Counters, NEW x \in Counters, Ahead(b, x)
      PROVE  Ahead(b, x)'
  <2>1. \A d \in Dirs : /\ n'[d] - n[d] = moved'[d] - moved[d]
                        /\ n[d] <= n'[d]
                        /\ brought[d] <= brought'[d]
                        /\ x[d] <= x[d]
    OBVIOUS
  <2>2. ASSUME NEW d \in Dirs, NEW r \in Rows
        PROVE  \/ Val(r)'[d] <= brought'[d]
               \/ \E q \in Rows : Val(r)'[d] + x[d] <= Val(q)[d] + x[d]
    <3>1. CASE \E q \in Rows : Val(r)'[d] <= Val(q)[d]
      <4>1. PICK q \in Rows : Val(r)'[d] <= Val(q)[d]
        BY <3>1
      <4>2. Val(r)'[d] \in Nat /\ Val(q)[d] \in Nat /\ x[d] \in Nat
        BY <1>1
      <4>3. Val(r)'[d] + x[d] <= Val(q)[d] + x[d]
        BY <4>1, <4>2
      <4>. QED
        BY <4>3
    <3>. QED
      BY <3>1
  <2> HIDE DEF IInv, TypeOK
  <2>3. TypeOK
    BY DEF IInv
  <2>. QED
    BY <1>3, <2>1, <2>2, <2>3, AheadMonotone
<1>4. \A d \in Dirs, r \in Rows : Val(r)'[d] <= moved'[d] + brought'[d]
  <2>1. ASSUME NEW d \in Dirs, NEW r \in Rows
        PROVE  Val(r)'[d] <= moved[d] + brought'[d]
    <3>0. /\ Val(r)'[d] \in Nat /\ moved[d] \in Nat /\ brought[d] \in Nat
          /\ brought'[d] \in Nat /\ brought[d] <= brought'[d]
      BY <1>1
    <3>1. CASE Val(r)'[d] <= brought'[d]
      BY <3>0, <3>1
    <3>2. CASE \E q \in Rows : Val(r)'[d] <= Val(q)[d]
      <4>1. PICK q \in Rows : Val(r)'[d] <= Val(q)[d]
        BY <3>2
      <4>2. Val(q)[d] \in Nat /\ Val(q)[d] <= moved[d] + brought[d]
        BY <1>1 DEF Covered
      <4>. QED
        BY <3>0, <4>1, <4>2
    <3>. QED
      BY <3>1, <3>2
  <2>. QED
    BY <2>1
<1>5. prev \in Counters /\ cur \in Counters /\ Zero \in Counters
  OBVIOUS
<1> HIDE DEF TypeOK
<1>. QED
  BY <1>2, <1>3, <1>4, <1>5 DEF Covered

\* Every step keeps the totals covered.
LEMMA CoveredStep ==
    ASSUME IInv, TypeOK', [Next]_vars
    PROVE  Covered'
<1> USE DEF IInv
<1>0. /\ \A r \in Rows : Val(r) \in [Dirs -> 0 .. MaxBytes + MaxBrought]
      /\ \A r \in Rows : Val(r)' \in [Dirs -> 0 .. MaxBytes + MaxBrought]
  BY DEF TypeOK, Val
<1>16. prev \in Counters /\ cur \in Counters /\ Zero \in Counters
  BY DEF TypeOK
<1>1. CASE UNCHANGED vars
  BY <1>0, <1>1, SmallerRows DEF vars, ledger, tick, Val, TypeOK
<1>2. ASSUME NEW d \in Dirs, Move(d)
      PROVE  Covered'
  <2>1. \A e \in Dirs : /\ n'[e] - n[e] = moved'[e] - moved[e]
                        /\ n[e] <= n'[e]
                        /\ brought[e] <= brought'[e]
    BY <1>2 DEF Move, TypeOK
  <2>2. UNCHANGED <<ledger, tick>> /\ \A r \in Rows : Val(r)' = Val(r)
    BY <1>2 DEF Move, ledger, Val
  <2>3. Delta' = Delta /\ Delta \in Counters
    BY <2>2, DeltaType DEF Delta, tick
  <2>4. ASSUME NEW b \in Counters, NEW x \in Counters, Ahead(b, x)
        PROVE  Ahead(b, x)'
    <3>1. \A e \in Dirs, r \in Rows : Val(r)'[e] + x[e] <= Val(r)[e] + x[e]
      BY <1>0, <2>2
    <3>2. \A e \in Dirs : x[e] <= x[e]
      OBVIOUS
    <3>. QED
      BY <2>1, <2>4, <3>1, <3>2, AheadMonotone DEF IInv
  <2>5. \A e \in Dirs : moved[e] <= moved'[e] /\ n'[e] <= moved'[e]
    BY <2>1 DEF Covered, TypeOK
  <2>6. \A e \in Dirs, r \in Rows : Val(r)'[e] <= moved'[e] + brought'[e]
    <3>1. brought' = brought
      BY <1>2 DEF Move
    <3>. QED
      BY <1>0, <2>2, <2>5, <3>1 DEF Covered, TypeOK
  <2>. QED
    BY <1>16, <2>2, <2>3, <2>4, <2>5, <2>6 DEF Covered, tick
<1>3. CASE XrayRestarts
  <2>1. n' = Zero /\ UNCHANGED <<tick, moved, brought>> /\ \A r \in Rows : Val(r)' = Val(r)
    BY <1>3 DEF XrayRestarts, ledger, Val
  <2>2. Delta' = Delta /\ Delta \in Counters
    BY <2>1, DeltaType DEF Delta, tick
  <2>3. ASSUME NEW b \in Counters, NEW x \in Counters, Ahead(b, x)
        PROVE  Ahead(b, x)'
    <3>1. \A d \in Dirs : /\ x[d] <= moved[d]
                          /\ \A r \in Rows : Val(r)[d] + x[d] <= moved[d] + brought[d]
      <4>1. \A d \in Dirs : x[d] <= moved[d]
        BY <2>3 DEF Ahead, TypeOK
      <4>. QED
        BY <2>3, <4>1, OwedFits
    <3>. QED
      BY <1>0, <2>1, <3>1 DEF Ahead, TypeOK
  <2>4. /\ \A d \in Dirs : n'[d] <= moved'[d]
        /\ \A d \in Dirs, r \in Rows : Val(r)'[d] <= moved'[d] + brought'[d]
    BY <2>1 DEF Covered, TypeOK
  <2>. QED
    BY <1>16, <2>1, <2>2, <2>3, <2>4 DEF Covered, tick
<1>4. CASE PanelRestarts
  BY <1>4 DEF PanelRestarts, ledger, Covered, Val
<1>5. CASE Seed
  <2>1. \A d \in Dirs :
           /\ Zero[d] + n[d] <= moved[d] + n[d]
           /\ \A r \in Rows : Val(r)[d] + Zero[d] + n[d] <= moved[d] + brought[d] + n[d]
    BY <1>0 DEF Covered, TypeOK
  <2>2. UNCHANGED <<n, moved, brought>> /\ prev' = n /\ \A r \in Rows : Val(r)' = Val(r)
    BY <1>5 DEF Seed, ledger, Val
  <2>3. Ahead(prev, Zero)'
    BY <2>1, <2>2 DEF Ahead, TypeOK
  <2>. QED
    BY <1>5, <2>2, <2>3 DEF Seed, Covered
<1>6. CASE SeedFails
  BY <1>6 DEF SeedFails, ledger, Covered, Val
<1>7. CASE Query
  <2>1. UNCHANGED <<n, ledger, moved, brought>> /\ \A r \in Rows : Val(r)' = Val(r)
    BY <1>7 DEF Query, ledger, Val
  <2>2. seeded => Ahead(prev, Zero)
    BY <1>7 DEF Query, Covered
  <2>3. CASE Poller = "user" \/ seeded
    <3>1. cur' = n /\ poll' # "idle" /\ UNCHANGED <<prev, seeded>>
      BY <1>7, <2>3 DEF Query
    <3>2. Ahead(cur, Delta)'
      BY <2>1, <2>2, <3>1, ReadingOwed
    <3>3. seeded' => Ahead(prev, Zero)'
      BY <2>1, <2>2, <3>1 DEF Ahead
    <3>. QED
      BY <1>7, <2>1, <3>2, <3>3 DEF Query, Covered
  <2>4. CASE ~(Poller = "user" \/ seeded)
    <3>1. prev' = n /\ poll' = "idle"
      BY <1>7, <2>4 DEF Query
    <3>2. \A d \in Dirs :
             /\ Zero[d] + n[d] <= moved[d] + n[d]
             /\ \A r \in Rows : Val(r)[d] + Zero[d] + n[d] <= moved[d] + brought[d] + n[d]
      BY <1>0 DEF Covered, TypeOK
    <3>3. Ahead(prev, Zero)'
      BY <2>1, <3>1, <3>2 DEF Ahead, TypeOK
    <3>. QED
      BY <2>1, <3>1, <3>3 DEF Covered
  <2>. QED
    BY <2>3, <2>4
<1>8. CASE ReadTotals
  <2>1. /\ UNCHANGED <<n, ledger, moved, brought, prev, seeded, cur>>
        /\ \A r \in Rows : Val(r)' = Val(r)
        /\ poll = "queried" /\ poll' = "read"
    BY <1>8 DEF ReadTotals, ledger, Val
  <2>2. Delta' = Delta
    BY <2>1 DEF Delta
  <2>. QED
    BY <2>1, <2>2 DEF Covered, Ahead
<1>9. CASE Abandon
  <2>1. /\ UNCHANGED <<n, ledger, moved, brought, prev, seeded>>
        /\ \A r \in Rows : Val(r)' = Val(r)
        /\ poll = "queried" /\ poll' = "idle"
    BY <1>9 DEF Abandon, ledger, Val
  <2>. QED
    BY <2>1 DEF Covered, Ahead
<1>10. ASSUME EndTick, \A d \in Dirs, r \in Rows : Val(r)'[d] <= Val(r)[d] + Delta[d]
       PROVE  Covered'
  <2>1. UNCHANGED <<n, moved, brought>> /\ prev' = cur /\ poll = "read" /\ poll' = "idle"
    BY <1>10 DEF EndTick
  <2>2. Ahead(cur, Delta) /\ Delta \in Counters /\ cur \in Counters
    BY <2>1, DeltaType DEF Covered, TypeOK
  <2>3. \A d \in Dirs : /\ n'[d] - n[d] = moved'[d] - moved[d]
                        /\ n[d] <= n'[d]
                        /\ brought[d] <= brought'[d]
                        /\ Zero[d] <= Delta[d]
    BY <2>1, <2>2 DEF TypeOK
  <2>4. \A d \in Dirs, r \in Rows : Val(r)'[d] + Zero[d] <= Val(r)[d] + Delta[d]
    BY <1>0, <1>10, <2>2
  <2>5. ASSUME NEW b \in Counters, b = cur
        PROVE  Ahead(b, Zero)'
    BY <2>2, <2>3, <2>4, <2>5, AheadMonotone DEF IInv
  <2>6. Ahead(prev, Zero)'
    BY <2>1, <2>2, <2>5
  <2>7. \A d \in Dirs, r \in Rows : Val(r)'[d] <= moved'[d] + brought'[d]
    <3>1. \A d \in Dirs, r \in Rows : Val(r)[d] + Delta[d] <= moved[d] + brought[d]
      BY <2>2, OwedFits
    <3>. QED
      BY <1>0, <1>10, <2>1, <2>2, <3>1 DEF TypeOK
  <2>. QED
    BY <2>1, <2>6, <2>7 DEF Covered
<1>11. CASE Flush
  <2>1. /\ EndTick
        /\ total' = [r \in Rows |-> IF r \in stored' THEN Plus(Val(r), Delta)
                                    ELSE total[r]]
    BY <1>11 DEF Flush
  <2>2. \A d \in Dirs, r \in Rows : Val(r)'[d] <= Val(r)[d] + Delta[d]
    <3>1. \A r \in Rows : Val(r)' = IF r \in stored' THEN Plus(Val(r), Delta) ELSE Zero
      BY <2>1 DEF Val
    <3>2. \A r \in Rows, d \in Dirs : Plus(Val(r), Delta)[d] = Val(r)[d] + Delta[d]
      BY DEF Plus
    <3>. QED
      BY <1>0, <3>1, <3>2, DeltaType DEF TypeOK
  <2>. QED
    BY <1>10, <2>1, <2>2
<1>12. CASE FlushFails
  <2>1. EndTick /\ \A r \in Rows : Val(r)' = Val(r)
    BY <1>12 DEF FlushFails, EndTick, Val
  <2>2. \A d \in Dirs, r \in Rows : Val(r)'[d] <= Val(r)[d] + Delta[d]
    BY <1>0, <2>1, DeltaType DEF TypeOK
  <2>. QED
    BY <1>10, <2>1, <2>2
<1>13. ASSUME NEW r \in Rows, Attach(r)
       PROVE  Covered'
  <2>1. /\ UNCHANGED <<n, moved, poll, prev, seeded, cur, brought>>
        /\ \A d \in Dirs : brought[d] <= brought'[d]
    BY <1>13 DEF Attach, Edit, tick, IInv, TypeOK
  <2>2. ASSUME NEW d \in Dirs, NEW s \in Rows
        PROVE  \E q \in Rows : Val(s)'[d] <= Val(q)[d]
    <3>1. CASE Poller = "user" /\ s = r
      <4>1. PICK v \in [Dirs -> 0 .. MaxBytes + MaxBrought] :
                Inherited(v) /\ total' = [total EXCEPT ![r] = v]
        BY <1>13, <3>1 DEF Attach
      <4>2. Val(s)'[d] = v[d]
        BY <1>13, <3>1, <4>1 DEF Attach, Val, TypeOK
      <4>3. v[d] = 0 \/ \E q \in stored : v[d] = total[q][d]
        BY <4>1 DEF Inherited
      <4>. QED
        BY <1>0, <4>2, <4>3 DEF Val, TypeOK
    <3>2. CASE ~(Poller = "user" /\ s = r)
      <4>1. Val(s)' = Val(s)
        BY <1>13, <3>2 DEF Attach, Val, TypeOK
      <4>. QED
        BY <1>0, <4>1
    <3>. QED
      BY <3>1, <3>2
  <2>. QED
    BY <2>1, <2>2, SmallerRows
<1>14. ASSUME NEW r \in Rows, Detach(r)
       PROVE  Covered'
  <2>1. /\ UNCHANGED <<n, moved, poll, prev, seeded, cur, brought>>
        /\ \A d \in Dirs : brought[d] <= brought'[d]
    BY <1>14 DEF Detach, Edit, tick, IInv, TypeOK
  <2>2. \A d \in Dirs, s \in Rows : Val(s)'[d] <= Val(s)[d]
    BY <1>0, <1>14 DEF Detach, Val
  <2>. QED
    BY <2>1, <2>2, SmallerRows
<1>15. ASSUME NEW r \in Rows, ZeroRow(r)
       PROVE  Covered'
  <2>1. /\ UNCHANGED <<n, moved, poll, prev, seeded, cur, brought>>
        /\ \A d \in Dirs : brought[d] <= brought'[d]
    BY <1>15 DEF ZeroRow, Edit, tick, IInv, TypeOK
  <2>2. \A d \in Dirs, s \in Rows : Val(s)'[d] <= Val(s)[d]
    BY <1>0, <1>15 DEF ZeroRow, Val, TypeOK
  <2>. QED
    BY <2>1, <2>2, SmallerRows
<1>17. ASSUME NEW r \in Rows, RenameEmail(r) \/ RenameTag(r)
       PROVE  Covered'
  <2>1. /\ Rename(r)
        /\ UNCHANGED <<n, moved, poll, prev, seeded, cur>>
        /\ stored' \in {stored \ {r}, stored \cup {r}}
    BY <1>17 DEF RenameEmail, RenameTag, Rename, Edit, tick
  <2>2. PICK v \in [Dirs -> 0 .. MaxBrought] :
           /\ total' = [total EXCEPT ![r] = v]
           /\ brought' = [d \in Dirs |-> Larger(brought[d], v[d])]
    BY <2>1 DEF Rename
  <2>3. \A d \in Dirs : brought[d] <= brought'[d] /\ v[d] <= brought'[d]
    BY <2>2 DEF Larger, TypeOK
  <2>4. ASSUME NEW d \in Dirs, NEW s \in Rows
        PROVE  \/ Val(s)'[d] <= brought'[d]
               \/ \E q \in Rows : Val(s)'[d] <= Val(q)[d]
    <3>1. CASE s = r
      <4>1. Val(s)' = v \/ Val(s)' = Zero
        BY <2>1, <2>2, <3>1 DEF Val, TypeOK
      <4>. QED
        BY <2>3, <4>1 DEF TypeOK
    <3>2. CASE s # r
      <4>1. Val(s)' = Val(s) /\ Val(s)[d] <= Val(s)[d]
        BY <1>0, <2>1, <2>2, <3>2 DEF Val, TypeOK
      <4>. QED
        BY <4>1
    <3>. QED
      BY <3>1, <3>2
  <2>. QED
    BY <2>1, <2>3, <2>4, SmallerRows
<1>. QED
  BY <1>1, <1>2, <1>3, <1>4, <1>5, <1>6, <1>7, <1>8, <1>9, <1>11, <1>12, <1>13,
     <1>14, <1>15, <1>17 DEF Next

\* A panel that just came up with idle counters owes nothing.
LEMMA InitIInv ==
    Init => IInv
<1> SUFFICES ASSUME Init PROVE IInv
  OBVIOUS
<1> USE DEF Init
<1>1. TypeOK
  BY DEF TypeOK
<1>2. \A r \in Rows : Val(r) = Zero
  BY DEF Val
<1>3. Covered
  BY <1>2 DEF Covered, Ahead
<1>. QED
  BY <1>1, <1>3 DEF IInv

\* Typing and coverage together are inductive.
LEMMA InductiveIInv ==
    IInv /\ [Next]_vars => IInv'
BY TypeStep, CoveredStep DEF IInv

\* Every counter, delta and total stays a natural number within what was moved:
\* no reading after a reset wraps around (compute_delta, tag_deltas).
THEOREM TypeCorrect ==
    Spec => []TypeOK
<1>1. IInv => TypeOK
  BY DEF IInv
<1>. QED
  BY <1>1, InitIInv, InductiveIInv, PTL DEF Spec

\* What the pollers may still credit, in flight or later, is owed.
THEOREM AlwaysCovered ==
    Spec => []Covered
<1>1. IInv => Covered
  BY DEF IInv
<1>. QED
  BY <1>1, InitIInv, InductiveIInv, PTL DEF Spec

\* No byte is counted twice: whatever xray, the panel, the database and the
\* operators do, and in whatever order, no total exceeds the bytes moved.
THEOREM NothingCountedTwice ==
    Spec => []NeverOverCredited
<1>1. IInv => NeverOverCredited
  BY DEF IInv, Covered, NeverOverCredited, Val, TypeOK
<1>. QED
  BY <1>1, InitIInv, InductiveIInv, PTL DEF Spec

-----------------------------------------------------------------------------
(* Rows in step. Every flush reaches all attachments of the email, and a new  *)
(* one inherits what the others hold.                                         *)

\* Nothing that happened is ever forgotten to have happened.
LEMMA MishapsGrow ==
    [Next]_vars => mishaps \subseteq mishaps'
BY DEF Next, vars, Move, XrayRestarts, PanelRestarts, Seed, SeedFails, Query, ReadTotals,
       Abandon, Flush, FlushFails, EndTick, Attach, Detach, ZeroRow, RenameEmail,
       RenameTag, Rename, Edit

\* Steps of xray and of the poller, but for the end of a tick, leave the rows alone.
Beside ==
    \/ \E d \in Dirs : Move(d)
    \/ XrayRestarts \/ PanelRestarts
    \/ Seed \/ SeedFails \/ Query \/ ReadTotals \/ Abandon

\* The actions by what they do to the rows.
LEMMA NextCases ==
    [Next]_vars <=> \/ Beside \/ Flush \/ FlushFails \/ UNCHANGED vars
                    \/ \E r \in Rows : \/ Attach(r) \/ Detach(r) \/ ZeroRow(r)
                                       \/ RenameEmail(r) \/ RenameTag(r)
BY DEF Next, Beside

LEMMA BesideRows ==
    Beside => UNCHANGED ledger /\ \A r \in Rows : Val(r)' = Val(r)
BY DEF Beside, Move, XrayRestarts, PanelRestarts, Seed, SeedFails, Query, ReadTotals,
       Abandon, ledger, Val

\* The rows of an email in the table are its attachments; the last one is only
\* gone once it was deleted.
Attachments ==
    /\ Poller = "user" => stored = attached
    /\ attached = {} => "forgotten" \in mishaps

LEMMA AttachmentsStep ==
    ASSUME TypeOK, Attachments, [Next]_vars
    PROVE  Attachments'
<1>1. CASE Beside \/ FlushFails \/ UNCHANGED vars
  <2>1. UNCHANGED <<attached, stored>>
    BY <1>1, BesideRows DEF FlushFails, EndTick, vars, ledger
  <2>. QED
    BY <2>1, MishapsGrow DEF Attachments
<1>2. CASE Flush
  BY <1>2, MishapsGrow DEF Flush, EndTick, Attachments
<1>3. ASSUME NEW r \in Rows, Attach(r)
      PROVE  Attachments'
  BY <1>3 DEF Attach, Attachments
<1>4. ASSUME NEW r \in Rows, Detach(r)
      PROVE  Attachments'
  BY <1>4 DEF Detach, Attachments
<1>5. ASSUME NEW r \in Rows, ZeroRow(r)
      PROVE  Attachments'
  BY <1>5 DEF ZeroRow, Attachments
<1>6. ASSUME NEW r \in Rows, RenameEmail(r) \/ RenameTag(r)
      PROVE  Attachments'
  BY <1>6 DEF RenameEmail, RenameTag, Rename, Attachments
<1>. QED
  BY <1>1, <1>2, <1>3, <1>4, <1>5, <1>6, NextCases

\* What an attachment inherits from rows that are in step is what they hold.
LEMMA InheritsCommon ==
    ASSUME TypeOK, Poller = "user", Attachments, RowsInStep,
           NEW v \in [Dirs -> 0 .. MaxBytes + MaxBrought], Inherited(v), NEW q \in attached
    PROVE  v = Val(q)
<1>1. /\ stored = attached /\ q \in Rows /\ Val(q) = total[q]
      /\ total[q] \in [Dirs -> 0 .. MaxBytes + MaxBrought]
      /\ \A r \in stored : total[r] = total[q]
  BY DEF TypeOK, Attachments, RowsInStep, Val
<1>2. ASSUME NEW d \in Dirs
      PROVE  v[d] = total[q][d]
  <2>1. v[d] = 0 \/ v[d] = total[q][d]
    BY <1>1 DEF Inherited
  <2>2. total[q][d] <= v[d]
    BY <1>1 DEF Inherited
  <2>. QED
    BY <1>1, <2>1, <2>2
<1>. QED
  BY <1>1, <1>2

\* Only a reset or a rename sets the rows of an email apart.
LEMMA InStepStep ==
    ASSUME TypeOK, TypeOK', Attachments, Attachments', RowsInStepUntilReset, [Next]_vars
    PROVE  RowsInStepUntilReset'
<1> SUFFICES ASSUME mishaps' \cap {"zeroed", "renamed"} = {}, Poller = "user",
                    NEW q \in attached', NEW s \in attached'
             PROVE  Val(q)' = Val(s)'
  BY OneRowPerTag DEF RowsInStepUntilReset, RowsInStep, TypeOK
<1>0. RowsInStep /\ stored = attached /\ stored' = attached' /\ q \in Rows /\ s \in Rows
  BY MishapsGrow DEF RowsInStepUntilReset, Attachments, TypeOK
<1>1. CASE Beside \/ FlushFails \/ UNCHANGED vars
  <2>1. UNCHANGED <<attached, stored, total>>
    BY <1>1, BesideRows DEF FlushFails, EndTick, vars, ledger
  <2>. QED
    BY <1>0, <2>1 DEF RowsInStep, Val
<1>2. CASE Flush
  <2>1. UNCHANGED <<attached, stored>>
    BY <1>2 DEF Flush, EndTick
  <2>2. \A r \in attached : Val(r)' = Plus(Val(r), Delta)
    BY <1>0, <1>2, <2>1 DEF Flush, Val, TypeOK
  <2>3. Val(q) = Val(s)
    BY <1>0, <2>1 DEF RowsInStep
  <2>. QED
    BY <2>1, <2>2, <2>3
<1>3. ASSUME NEW r \in Rows, Attach(r)
      PROVE  Val(q)' = Val(s)'
  <2>1. PICK v \in [Dirs -> 0 .. MaxBytes + MaxBrought] :
           Inherited(v) /\ total' = [total EXCEPT ![r] = v]
    BY <1>3 DEF Attach
  <2>2. attached' = attached \cup {r} /\ r \notin attached
    BY <1>3 DEF Attach
  <2>3. Val(r)' = v /\ \A p \in attached : Val(p)' = Val(p)
    BY <1>0, <2>1, <2>2 DEF Val, TypeOK
  <2>4. \A p \in attached : Val(p)' = v
    BY <1>0, <2>1, <2>3, InheritsCommon
  <2>. QED
    BY <2>2, <2>3, <2>4
<1>4. ASSUME NEW r \in Rows, Detach(r)
      PROVE  Val(q)' = Val(s)'
  BY <1>0, <1>4 DEF Detach, RowsInStep, Val
<1>5. ASSUME NEW r \in Rows, ZeroRow(r) \/ RenameEmail(r) \/ RenameTag(r)
      PROVE  FALSE
  BY <1>5 DEF ZeroRow, RenameEmail, RenameTag, Rename
<1>. QED
  BY <1>1, <1>2, <1>3, <1>4, <1>5, NextCases

StepInv == IInv /\ Attachments /\ RowsInStepUntilReset

LEMMA StepInvInductive ==
    /\ Init => StepInv
    /\ StepInv /\ [Next]_vars => StepInv'
<1>1. ASSUME Init
      PROVE  StepInv
  <2>1. \A r \in Rows : Val(r) = Zero
    BY <1>1 DEF Init, Val
  <2>2. Attachments /\ RowsInStepUntilReset
    BY <1>1, <2>1 DEF Init, Attachments, RowsInStepUntilReset, RowsInStep
  <2>. QED
    BY <1>1, <2>2, InitIInv DEF StepInv
<1>2. ASSUME StepInv, [Next]_vars
      PROVE  StepInv'
  <2>1. IInv /\ IInv' /\ TypeOK /\ TypeOK'
    BY <1>2, InductiveIInv DEF StepInv, IInv
  <2>2. Attachments'
    BY <1>2, <2>1, AttachmentsStep DEF StepInv
  <2>3. RowsInStepUntilReset'
    BY <1>2, <2>1, <2>2, InStepStep DEF StepInv
  <2>. QED
    BY <2>1, <2>2, <2>3 DEF StepInv
<1>. QED
  BY <1>1, <1>2

\* Whatever restarts or fails and whatever is attached and deleted in between,
\* the attachments of an email carry the same total until one of them is reset or
\* one comes from another email.
THEOREM InStepUntilReset ==
    Spec => []RowsInStepUntilReset
<1>1. StepInv => RowsInStepUntilReset
  BY DEF StepInv
<1>. QED
  BY <1>1, StepInvInductive, PTL DEF Spec

-----------------------------------------------------------------------------
(* Nothing is lost. Since a baseline was read, as many bytes have moved as    *)
(* the counters grew by, or more, if xray has exited since; so the delta of   *)
(* two readings is what moved between them.                                   *)

\* As many bytes were moved since m as the counter grew by since b...
Level(b, m) == \A d \in Dirs : b[d] <= n[d] /\ n[d] + m[d] = moved[d] + b[d]

\* ...or, if xray exited meanwhile, at least what it counts now.
Behind(m) == \A d \in Dirs : n[d] + m[d] <= moved[d]

\* The same of the two readings of a tick.
Apart ==
    \A d \in Dirs :
        IF "before" \in exits THEN cur[d] + seen.prev[d] <= seen.cur[d]
        ELSE prev[d] <= cur[d] /\ cur[d] + seen.prev[d] = seen.cur[d] + prev[d]

Readings ==
    /\ poll \notin {"queried", "read"} => "after" \notin exits
    /\ poll = "idle" /\ seeded =>
          IF exits # {} THEN Behind(seen.prev) ELSE Level(prev, seen.prev)
    /\ poll \in {"queried", "read"} =>
          /\ IF "after" \in exits THEN Behind(seen.cur) ELSE Level(cur, seen.cur)
          /\ seeded => Apart

LEMMA ReadingsStep ==
    ASSUME TypeOK, TypeOK', Covered, Readings, [Next]_vars
    PROVE  Readings'
<1>0. \A d \in Dirs :
         /\ n[d] \in Nat /\ n'[d] \in Nat /\ moved[d] \in Nat /\ moved'[d] \in Nat
         /\ prev[d] \in Nat /\ cur[d] \in Nat
         /\ seen.prev[d] \in Nat /\ seen.cur[d] \in Nat
  BY DEF TypeOK
<1>1. CASE UNCHANGED vars
  BY <1>1 DEF vars, tick, Readings, Level, Behind, Apart
<1>2. ASSUME NEW d \in Dirs, Move(d)
      PROVE  Readings'
  <2>1. \A e \in Dirs : n'[e] - n[e] = moved'[e] - moved[e] /\ n[e] <= n'[e]
    BY <1>0, <1>2 DEF Move, TypeOK
  <2>2. UNCHANGED <<prev, cur, seen, exits, poll, seeded>>
    BY <1>2 DEF Move, tick
  <2>3. /\ Level(prev, seen.prev) => Level(prev, seen.prev)'
        /\ Level(cur, seen.cur) => Level(cur, seen.cur)'
    <3>1. ASSUME NEW e \in Dirs, NEW b \in Nat, NEW m \in Nat,
                 b <= n[e], n[e] + m = moved[e] + b
          PROVE  b <= n'[e] /\ n'[e] + m = moved'[e] + b
      <4>1. /\ n[e] \in Nat /\ n'[e] \in Nat /\ moved[e] \in Nat /\ moved'[e] \in Nat
        BY <1>0
      <4>2. n'[e] - n[e] = moved'[e] - moved[e] /\ n[e] <= n'[e]
        BY <2>1
      <4>. QED
        BY <3>1, <4>1, <4>2
    <3>2. Level(prev, seen.prev) => Level(prev, seen.prev)'
      BY <1>0, <2>2, <3>1 DEF Level
    <3>3. Level(cur, seen.cur) => Level(cur, seen.cur)'
      BY <1>0, <2>2, <3>1 DEF Level
    <3>. QED
      BY <3>2, <3>3
  <2>4. /\ Behind(seen.prev) => Behind(seen.prev)'
        /\ Behind(seen.cur) => Behind(seen.cur)'
    BY <1>0, <2>1, <2>2 DEF Behind
  <2>. QED
    BY <2>2, <2>3, <2>4 DEF Readings, Apart
<1>3. CASE XrayRestarts
  <2>1. /\ n' = Zero /\ UNCHANGED <<moved, prev, cur, seen, poll, seeded>>
        /\ exits' = exits \cup {IF poll \in {"queried", "read"} THEN "after" ELSE "before"}
    BY <1>3 DEF XrayRestarts, tick
  <2>2. /\ Level(prev, seen.prev) \/ Behind(seen.prev) => Behind(seen.prev)'
        /\ Level(cur, seen.cur) \/ Behind(seen.cur) => Behind(seen.cur)'
    BY <1>0, <2>1 DEF Level, Behind
  <2>3. /\ poll \in {"queried", "read"} =>
              "after" \in exits' /\ ("before" \in exits' <=> "before" \in exits)
        /\ poll \notin {"queried", "read"} /\ "after" \notin exits => "after" \notin exits'
    BY <2>1
  <2>4. exits' # {}
    BY <2>1
  <2>5. poll \in {"queried", "read"} /\ seeded => Apart'
    BY <2>1, <2>3 DEF Readings, Apart
  <2>. QED
    BY <2>1, <2>2, <2>3, <2>4, <2>5 DEF Readings
<1>4. CASE PanelRestarts \/ SeedFails
  BY <1>4 DEF PanelRestarts, SeedFails, Readings
<1>11. ASSUME UNCHANGED <<n, moved>>
       PROVE  /\ prev' = n /\ seen.prev' = moved => Level(prev, seen.prev)'
              /\ cur' = n /\ seen.cur' = moved => Level(cur, seen.cur)'
  BY <1>0, <1>11 DEF Level
<1>5. CASE Seed
  <2>1. /\ UNCHANGED <<n, moved>> /\ prev' = n /\ seen.prev' = moved
        /\ poll' = "idle" /\ exits' = {}
    BY <1>5 DEF Seed, TypeOK
  <2>. QED
    BY <1>11, <2>1 DEF Readings
<1>6. CASE Query
  <2>0. UNCHANGED <<n, moved>> /\ poll = "idle"
    BY <1>6 DEF Query
  <2>1. CASE Poller = "user" \/ seeded
    <3>1. /\ poll' \in {"queried", "read"} /\ cur' = n /\ seen.cur' = moved
          /\ seen.prev' = seen.prev /\ UNCHANGED <<prev, seeded, exits>>
      BY <1>6, <2>1 DEF Query, TypeOK
    <3>2. CASE exits = {}
      <4>1. seeded => Apart'
        BY <1>0, <2>0, <3>1, <3>2 DEF Readings, Level, Apart
      <4>. QED
        BY <1>11, <2>0, <3>1, <3>2, <4>1 DEF Readings
    <3>4. "after" \notin exits
      BY <2>0 DEF Readings
    <3>3. CASE exits # {}
      <4>0. "before" \in exits
        BY <3>3, <3>4 DEF TypeOK
      <4>1. seeded => Apart'
        BY <1>0, <2>0, <3>1, <3>3, <4>0 DEF Readings, Behind, Apart
      <4>. QED
        BY <1>11, <2>0, <3>1, <3>4, <4>1 DEF Readings
    <3>. QED
      BY <3>2, <3>3
  <2>2. CASE ~(Poller = "user" \/ seeded)
    <3>1. prev' = n /\ seen.prev' = moved /\ exits' = {} /\ poll' = "idle"
      BY <1>6, <2>0, <2>2 DEF Query, TypeOK
    <3>. QED
      BY <1>11, <2>0, <3>1 DEF Readings
  <2>. QED
    BY <2>1, <2>2
<1>7. CASE ReadTotals
  <2>1. /\ poll = "queried" /\ poll' = "read"
        /\ UNCHANGED <<n, moved, prev, seeded, cur, seen, exits>>
    BY <1>7 DEF ReadTotals
  <2>. QED
    BY <2>1 DEF Readings, Level, Behind, Apart
<1>8. CASE Abandon
  <2>1. /\ poll = "queried" /\ poll' = "idle"
        /\ UNCHANGED <<n, moved, prev, seeded>> /\ seen.prev' = seen.prev
        /\ exits' = {e \in {"before"} : exits # {}}
    BY <1>8 DEF Abandon, Forget
  <2>2. CASE exits = {}
    BY <1>0, <2>1, <2>2 DEF Readings, Level, Apart
  <2>3. CASE exits # {}
    <3>1. exits' # {}
      BY <2>1, <2>3
    <3>2. "before" \in exits \/ "after" \in exits
      BY <2>3 DEF TypeOK
    <3>3. seeded => Behind(seen.prev)
      BY <1>0, <2>1, <3>2 DEF Readings, Level, Behind, Apart
    <3>. QED
      BY <2>1, <3>1, <3>3 DEF Readings, Behind
  <2>. QED
    BY <2>2, <2>3
<1>9. CASE Flush \/ FlushFails
  <2>1. /\ poll = "read" /\ poll' = "idle" /\ UNCHANGED <<n, moved>>
        /\ prev' = cur /\ seen.prev' = seen.cur
        /\ exits' = {e \in {"before"} : "after" \in exits}
    BY <1>9 DEF Flush, FlushFails, EndTick, Forget
  <2>2. exits' # {} <=> "after" \in exits
    BY <2>1
  <2>3. /\ Level(cur, seen.cur) => Level(prev, seen.prev)'
        /\ Behind(seen.cur) => Behind(seen.prev)'
    BY <2>1 DEF Level, Behind
  <2>. QED
    BY <2>1, <2>2, <2>3 DEF Readings
<1>10. ASSUME NEW r \in Rows, \/ Attach(r) \/ Detach(r) \/ ZeroRow(r)
                              \/ RenameEmail(r) \/ RenameTag(r)
       PROVE  Readings'
  <2>1. UNCHANGED <<n, moved, prev, seeded, cur, seen, poll, exits>>
    BY <1>10 DEF Attach, Detach, ZeroRow, RenameEmail, RenameTag, Rename, Edit, tick
  <2>. QED
    BY <2>1 DEF Readings, Level, Behind, Apart
<1>. QED
  BY <1>1, <1>2, <1>3, <1>4, <1>5, <1>6, <1>7, <1>8, <1>9, <1>10 DEF Next

\* A flush credits a row with the tick's delta, whatever the poller: a tag's row
\* that is still missing is only left out when there is nothing to credit.
LEMMA FlushCredits ==
    ASSUME TypeOK, Attachments, Flush, NEW r \in attached
    PROVE  \A d \in Dirs : Val(r)'[d] = Val(r)[d] + Delta[d]
<1>0. /\ r \in Rows /\ Val(r) \in [Dirs -> 0 .. MaxBytes + MaxBrought] /\ Delta \in Counters
      /\ \A d \in Dirs : Plus(Val(r), Delta)[d] = Val(r)[d] + Delta[d]
  BY ValType, DeltaType DEF TypeOK, Plus
<1>1. CASE r \in stored'
  BY <1>0, <1>1 DEF Flush, Val
<1>2. CASE r \notin stored'
  <2>1. Delta = Zero /\ r \notin stored
    BY <1>0, <1>2 DEF Flush, EndTick, Attachments
  <2>. QED
    BY <1>0, <1>2, <2>1 DEF Val
<1>. QED
  BY <1>1, <1>2

\* An edit other than a reset leaves every attachment with a total that one of
\* them had.
LEMMA EditedRows ==
    ASSUME TypeOK, Attachments, RowsInStep, attached # {},
           NEW q \in Rows, Attach(q) \/ Detach(q), NEW r \in attached'
    PROVE  \E p \in attached : Val(r)' = Val(p)
<1>1. CASE Detach(q)
  BY <1>1 DEF Detach, Val
<1>2. CASE Attach(q) /\ r = q /\ Poller = "user"
  <2>1. PICK v \in [Dirs -> 0 .. MaxBytes + MaxBrought] :
           Inherited(v) /\ total' = [total EXCEPT ![q] = v]
    BY <1>2 DEF Attach
  <2>2. Val(r)' = v
    BY <1>2, <2>1 DEF Attach, Val, TypeOK
  <2>. QED
    BY <1>2, <2>1, <2>2, InheritsCommon
<1>3. CASE Attach(q) /\ r = q /\ Poller # "user"
  <2>1. attached \subseteq {q} /\ q \notin attached
    BY <1>3, OneRowPerTag DEF Attach, TypeOK
  <2>. QED
    BY <2>1
<1>4. CASE Attach(q) /\ r # q
  BY <1>4 DEF Attach, Val, TypeOK
<1>. QED
  BY <1>1, <1>2, <1>3, <1>4

\* The tick that ends credits what is due, or its transaction failed.
LEMMA CreditStep ==
    ASSUME TypeOK, Attachments, Readings, [Next]_vars, poll = "read", poll' = "idle"
    PROVE  \/ "flush" \in mishaps' /\ UNCHANGED ledger
           \/ \A r \in attached, d \in Dirs :
                 \E credit \in 0 .. Due(d) :
                    /\ Val(r)'[d] = Val(r)[d] + credit
                    /\ "before" \notin exits => credit = Due(d)
<1>1. Flush \/ FlushFails
  BY DEF Next, vars, tick, Move, XrayRestarts, PanelRestarts, Seed, SeedFails, Query,
         ReadTotals, Abandon, Attach, Detach, ZeroRow, RenameEmail, RenameTag, Rename, Edit
<1>2. CASE FlushFails
  BY <1>2 DEF FlushFails, EndTick, ledger
<1>3. CASE Flush
  <2> SUFFICES ASSUME NEW r \in attached, NEW d \in Dirs
               PROVE  \E credit \in 0 .. Due(d) :
                         /\ Val(r)'[d] = Val(r)[d] + credit
                         /\ "before" \notin exits => credit = Due(d)
    OBVIOUS
  <2>1. Val(r)'[d] = Val(r)[d] + Delta[d]
    BY <1>3, FlushCredits
  <2>2. /\ Delta[d] \in Nat /\ Delta[d] <= cur[d]
        /\ seeded /\ (\A e \in Dirs : prev[e] <= cur[e]) => Delta[d] = cur[d] - prev[d]
        /\ ~seeded => Delta[d] = 0
    BY DeltaType
  <2>3. /\ cur[d] \in Nat /\ prev[d] \in Nat
        /\ seen.cur[d] \in Nat /\ seen.prev[d] \in Nat
    BY DEF TypeOK
  <2>4. seeded => Apart
    BY DEF Readings
  <2>5. CASE ~seeded
    BY <2>1, <2>2, <2>5 DEF Due
  <2>6. CASE seeded /\ "before" \in exits
    <3>1. cur[d] + seen.prev[d] <= seen.cur[d]
      BY <2>4, <2>6 DEF Apart
    <3>2. Delta[d] \in 0 .. Due(d)
      BY <2>2, <2>3, <2>6, <3>1 DEF Due
    <3>. QED
      BY <2>1, <2>6, <3>2
  <2>7. CASE seeded /\ "before" \notin exits
    <3>1. \A e \in Dirs : prev[e] <= cur[e]
      BY <2>4, <2>7 DEF Apart
    <3>2. cur[d] + seen.prev[d] = seen.cur[d] + prev[d]
      BY <2>4, <2>7 DEF Apart
    <3>3. Delta[d] = Due(d) /\ Delta[d] \in 0 .. Due(d)
      BY <2>2, <2>3, <2>7, <3>1, <3>2 DEF Due
    <3>. QED
      BY <2>1, <3>3
  <2>. QED
    BY <2>5, <2>6, <2>7
<1>. QED
  BY <1>1, <1>2, <1>3

\* Whatever was skipped, failed, restarted, reset or renamed before, a tick credits
\* every attachment with exactly what moved between its readings, unless xray exited
\* between the two, and even then with no more.
THEOREM EveryTickCredits ==
    Spec => CreditedExactly
<1> DEFINE Inv == StepInv /\ Readings
<1>1. Init => Inv
  <2> SUFFICES ASSUME Init PROVE Readings
    BY StepInvInductive
  <2>. QED
    BY DEF Init, Readings, Level
<1>2. Inv /\ [Next]_vars => Inv'
  BY StepInvInductive, ReadingsStep DEF StepInv, IInv
<1>3. Inv /\ [Next]_vars =>
         [poll = "read" /\ poll' = "idle" =>
            \/ "flush" \in mishaps' /\ UNCHANGED ledger
            \/ \A r \in attached, d \in Dirs :
                  \E credit \in 0 .. Due(d) :
                     /\ Val(r)'[d] = Val(r)[d] + credit
                     /\ "before" \notin exits => credit = Due(d)]_vars
  BY CreditStep DEF StepInv, IInv
<1>. QED
  BY <1>1, <1>2, <1>3, PTL DEF Spec, CreditedExactly

-----------------------------------------------------------------------------
(* What the operator sees. The page shows the canonical total read in a tick  *)
(* plus that tick's delta; while the rows only grow, neither falls behind     *)
(* what it showed before.                                                     *)

Kept == mishaps \cap {"flush", "zeroed", "renamed", "forgotten"} = {}

ShownBehindRows ==
    /\ Poller # "user" => shown = Zero
    /\ Kept =>
          /\ \A r \in attached, d \in Dirs : shown[d] <= Val(r)[d]
          /\ poll = "read" /\ Poller = "user" =>
                \A d \in Dirs : /\ shown[d] <= meta[d]
                                /\ \A r \in attached : meta[d] <= Val(r)[d]

LEMMA ShownStep ==
    ASSUME StepInv, StepInv', ShownBehindRows, [Next]_vars
    PROVE  ShownBehindRows'
<1>0. /\ TypeOK /\ TypeOK' /\ Attachments
      /\ \A r \in Rows : Val(r) \in [Dirs -> 0 .. MaxBytes + MaxBrought]
  BY ValType DEF StepInv, IInv
<1>1. ASSUME Poller # "user"
      PROVE  shown' = Zero
  <2>1. shown = Zero
    BY <1>1 DEF ShownBehindRows
  <2>2. CASE Beside \/ UNCHANGED vars
    BY <2>1, <2>2 DEF Beside, vars, Move, XrayRestarts, PanelRestarts, Seed, SeedFails,
                      Query, ReadTotals, Abandon
  <2>3. CASE Flush \/ FlushFails
    BY <1>1, <2>1, <2>3 DEF Flush, FlushFails, Show
  <2>4. ASSUME NEW r \in Rows, \/ Attach(r) \/ Detach(r) \/ ZeroRow(r)
                               \/ RenameEmail(r) \/ RenameTag(r)
        PROVE  shown' = Zero
    BY <2>1, <2>4 DEF Attach, Detach, ZeroRow, RenameEmail, RenameTag, Rename, Edit
  <2>. QED
    BY <2>2, <2>3, <2>4, NextCases
<1> SUFFICES ASSUME Kept'
             PROVE  /\ \A r \in attached', d \in Dirs : shown'[d] <= Val(r)'[d]
                    /\ poll' = "read" /\ Poller = "user" =>
                          \A d \in Dirs : /\ shown'[d] <= meta'[d]
                                          /\ \A r \in attached' : meta'[d] <= Val(r)'[d]
  BY <1>1 DEF ShownBehindRows
<1>2. /\ Kept /\ RowsInStep /\ attached # {}
      /\ \A r \in attached, d \in Dirs : shown[d] <= Val(r)[d]
      /\ poll = "read" /\ Poller = "user" =>
            \A d \in Dirs : /\ shown[d] <= meta[d]
                            /\ \A r \in attached : meta[d] <= Val(r)[d]
  BY MishapsGrow DEF Kept, StepInv, RowsInStepUntilReset, Attachments, ShownBehindRows
<1>3. CASE UNCHANGED vars
  BY <1>2, <1>3 DEF vars, ledger, tick, Val
<1>4. CASE Beside /\ ~ReadTotals
  <2>1. /\ UNCHANGED <<attached, shown>>
        /\ \A r \in Rows : Val(r)' = Val(r)
        /\ poll' = "read" /\ Poller = "user" => poll = "read" /\ meta' = meta
    BY <1>4, BesideRows DEF Beside, Move, XrayRestarts, PanelRestarts, Seed, SeedFails,
       Query, Abandon, ledger, tick
  <2>. QED
    BY <1>0, <1>2, <2>1 DEF TypeOK
<1>5. CASE ReadTotals
  <2>1. /\ UNCHANGED <<attached, shown>>
        /\ \A r \in Rows : Val(r)' = Val(r)
    BY <1>5, BesideRows DEF Beside, ReadTotals, ledger
  <2>2. PICK q \in attached : meta' = Val(q)
    BY <1>2, <1>5 DEF ReadTotals
  <2>3. \A r \in attached : meta' = Val(r)
    BY <1>2, <2>2 DEF RowsInStep
  <2>. QED
    BY <1>0, <1>2, <2>1, <2>2, <2>3 DEF TypeOK
<1>6. CASE Flush
  <2>1. poll = "read" /\ poll' = "idle" /\ attached' = attached
    BY <1>6 DEF Flush, EndTick
  <2>2. ASSUME NEW r \in attached', NEW d \in Dirs
        PROVE  shown'[d] <= Val(r)'[d]
    <3>1. /\ r \in Rows /\ Delta[d] \in Nat /\ meta[d] \in Nat /\ shown[d] \in Nat
          /\ Val(r)[d] \in Nat /\ Val(r)'[d] = Val(r)[d] + Delta[d]
      BY <1>0, <1>6, <2>1, FlushCredits, DeltaType DEF TypeOK
    <3>2. CASE Poller = "user"
      <4>1. shown'[d] = meta[d] + Delta[d]
        BY <1>6, <3>2 DEF Flush, Show, Plus
      <4>. QED
        BY <1>2, <2>1, <3>1, <3>2, <4>1
    <3>3. CASE Poller # "user"
      <4>1. shown'[d] = shown[d]
        BY <1>6, <3>3 DEF Flush, Show
      <4>. QED
        BY <1>2, <2>1, <3>1, <4>1
    <3>. QED
      BY <3>2, <3>3
  <2>. QED
    BY <2>1, <2>2
<1>7. CASE FlushFails
  BY <1>7 DEF FlushFails, Kept
<1>8. ASSUME NEW q \in Rows, \/ Attach(q) \/ Detach(q) \/ ZeroRow(q)
                             \/ RenameEmail(q) \/ RenameTag(q)
      PROVE  /\ \A r \in attached', d \in Dirs : shown'[d] <= Val(r)'[d]
             /\ poll' = "read" /\ Poller = "user" =>
                   \A d \in Dirs : /\ shown'[d] <= meta'[d]
                                   /\ \A r \in attached' : meta'[d] <= Val(r)'[d]
  <2>1. UNCHANGED <<shown, poll, meta>> /\ (Attach(q) \/ Detach(q))
    BY <1>8 DEF Attach, Detach, ZeroRow, RenameEmail, RenameTag, Rename, Edit, tick, Kept
  <2>2. \A r \in attached' : \E p \in attached : Val(r)' = Val(p)
    BY <1>0, <1>2, <1>8, <2>1, EditedRows
  <2>. QED
    BY <1>2, <2>1, <2>2
<1>. QED
  BY <1>3, <1>4, <1>5, <1>6, <1>7, <1>8, NextCases

LEMMA ShownInductive ==
    /\ Init => StepInv /\ ShownBehindRows
    /\ StepInv /\ ShownBehindRows /\ [Next]_vars => (StepInv /\ ShownBehindRows)'
<1>1. ASSUME Init
      PROVE  ShownBehindRows
  BY <1>1 DEF Init, ShownBehindRows, Val
<1>. QED
  BY <1>1, StepInvInductive, ShownStep

\* The total an operator is shown only grows, across restarts of xray and of the
\* panel and changes of the attachments, unless a transaction failed, a row was
\* reset or came from another email, or the last attachment was deleted.
THEOREM ShownOnlyGrows ==
    Spec => ShownMonotone
<1> DEFINE Inv == StepInv /\ ShownBehindRows
<1>1. ASSUME Inv, [Next]_vars, mishaps' \cap {"flush", "zeroed", "renamed", "forgotten"} = {},
             NEW d \in Dirs
      PROVE  shown'[d] >= shown[d]
  <2>0. /\ TypeOK /\ Kept /\ shown[d] \in Nat
        /\ poll = "read" /\ Poller = "user" => shown[d] <= meta[d]
    BY <1>1, MishapsGrow DEF StepInv, IInv, TypeOK, Kept, ShownBehindRows
  <2>1. CASE shown' = shown
    BY <2>0, <2>1
  <2>2. CASE poll = "read" /\ Poller = "user" /\ shown' = Plus(meta, Delta)
    <3>1. shown'[d] = meta[d] + Delta[d] /\ meta[d] \in Nat /\ Delta[d] \in Nat
      BY <2>0, <2>2, DeltaType DEF Plus, TypeOK
    <3>. QED
      BY <2>0, <2>2, <3>1
  <2>3. shown' = shown \/ (poll = "read" /\ Poller = "user" /\ shown' = Plus(meta, Delta))
    BY <1>1 DEF Next, vars, Move, XrayRestarts, PanelRestarts, Seed, SeedFails, Query,
       ReadTotals, Abandon, Flush, FlushFails, EndTick, Show, Attach, Detach, ZeroRow,
       RenameEmail, RenameTag, Rename, Edit
  <2>. QED
    BY <2>1, <2>2, <2>3
<1>2. Inv /\ [Next]_vars =>
         [mishaps' \cap {"flush", "zeroed", "renamed", "forgotten"} = {} =>
             \A d \in Dirs : shown'[d] >= shown[d]]_vars
  BY <1>1
<1>. QED
  BY <1>2, ShownInductive, PTL DEF Spec, ShownMonotone
=============================================================================
