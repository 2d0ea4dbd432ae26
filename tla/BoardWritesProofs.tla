------------------------- MODULE BoardWritesProofs -------------------------
(* The log of a board is dense and a keyed command is in it once, for any      *)
(* number of boards, commands and connections; the log tells the history of    *)
(* the tables, and the transactions implement SerialBoard, commands that take  *)
(* effect one at a time. The first two rest on the locks: the                  *)
(* sequence a transaction holds is the next one as long as it holds the row of *)
(* the counter, and its record is absent as long as it holds the row of the    *)
(* record, since whoever changes either row must hold it to commit.            *)
EXTENDS BoardWrites, SequenceTheorems, FiniteSetTheorems, TLAPS

Running(t) == tx[t].m \in Mutations
StepsOf(t) == Steps(tx[t].m, tx[t].seen.list)

\* The locks a transaction has counted are the ones it has.
HoldsItsSteps ==
    \A t \in Txs : Running(t) =>
       /\ tx[t].at \in 0..Len(StepsOf(t))
       /\ \A i \in 1..tx[t].at : StepsOf(t)[i] \in locked[t]

\* No row is locked twice.
LocksDisjoint == \A t, u \in Txs : t # u => locked[t] \cap locked[u] = {}

\* Under the lock of the counter, the sequence taken is the next one.
NextSequence ==
    \A t \in Txs : (Running(t) /\ CounterRow(BoardFor(tx[t].m)) \in locked[t])
                     => tx[t].seq = counter[BoardFor(tx[t].m)] + 1

\* Under the lock of the record's row, there is no record.
NoRecord == \A t \in Txs : (Running(t) /\ KeyRow(tx[t].m) \in locked[t])
                             => keys[tx[t].m] = 0

\* Whatever a keyed command did, its record says so.
Recorded == \A b \in Boards : \A i \in DOMAIN log[b] :
               Keyed(log[b][i].m) => keys[log[b][i].m] # 0

\* A record quotes the sequence of the event that its command left.
RecordsAgree ==
    \A m \in Mutations : keys[m] # 0 =>
       keys[m] \in 1..Len(log[BoardFor(m)]) /\ log[BoardFor(m)][keys[m]].m = m

IInv == /\ TypeOK /\ DenseLog /\ AppliedOnce
        /\ HoldsItsSteps /\ LocksDisjoint /\ NextSequence /\ NoRecord /\ Recorded
-----------------------------------------------------------------------------
\* A command's rows are rows; the counter and the record's row are among them.
LEMMA StepsOfCommands ==
    ASSUME NEW m \in Mutations, NEW s \in Lists
    PROVE  /\ BoardFor(m) \in Boards
           /\ Steps(m, s) \in Seq(Rows)
           /\ Kind[m] # "moveList" =>
                \E i \in 1..Len(Steps(m, s)) : Steps(m, s)[i] = CounterRow(BoardFor(m))
           /\ Keyed(m) => \E i \in 1..Len(Steps(m, s)) : Steps(m, s)[i] = KeyRow(m)
<1> DEFINE b == BoardFor(m)
<1>0. Kind[m] \in Kinds /\ (Kind[m] \in CardKinds => CardOf[m] \in Cards)
      /\ Target[m] \in Lists
  BY CommandAssumption
<1>1. b \in Boards
  BY <1>0, CommandAssumption DEF BoardFor, CardKinds
<1>2. /\ CounterRow(b) \in Rows /\ BoardRow(b) \in Rows /\ KeyRow(m) \in Rows
      /\ ListRow(s) \in Rows /\ ListRow(Target[m]) \in Rows
      /\ Kind[m] \in CardKinds => CardRow(CardOf[m]) \in Rows
  BY <1>0, <1>1 DEF Rows
<1>3. CASE Kind[m] = "moveCard"
  <2>1. Steps(m, s) = <<CardRow(CardOf[m]), ListRow(Target[m]), BoardRow(b), ListRow(s),
                        CounterRow(b), KeyRow(m)>>
    BY <1>3 DEF Steps
  <2>2. Steps(m, s)[5] = CounterRow(b) /\ Steps(m, s)[6] = KeyRow(m) /\ Len(Steps(m, s)) = 6
    BY <2>1
  <2>3. Steps(m, s) \in Seq(Rows)
    BY <2>1, <1>2, <1>3 DEF CardKinds
  <2> QED BY <1>1, <2>2, <2>3
<1>4. CASE Kind[m] \in {"updateCard", "deleteCard"}
  <2>1. Steps(m, s) = <<CardRow(CardOf[m]), ListRow(s), CounterRow(b), BoardRow(b), KeyRow(m)>>
    BY <1>4 DEF Steps
  <2>2. Steps(m, s)[3] = CounterRow(b) /\ Steps(m, s)[5] = KeyRow(m) /\ Len(Steps(m, s)) = 5
    BY <2>1
  <2>3. Steps(m, s) \in Seq(Rows)
    BY <2>1, <1>2, <1>4 DEF CardKinds
  <2> QED BY <1>1, <2>2, <2>3
<1>5. CASE Kind[m] = "createCard"
  <2>1. Steps(m, s) = <<ListRow(Target[m]), CounterRow(b), BoardRow(b), KeyRow(m)>>
    BY <1>5 DEF Steps
  <2>2. Steps(m, s)[2] = CounterRow(b) /\ Steps(m, s)[4] = KeyRow(m) /\ Len(Steps(m, s)) = 4
    BY <2>1
  <2>3. Steps(m, s) \in Seq(Rows)
    BY <2>1, <1>2
  <2> QED BY <1>1, <2>2, <2>3
<1>6. CASE Kind[m] = "createList"
  <2>1. Steps(m, s) = <<BoardRow(b), CounterRow(b)>>
    BY <1>6 DEF Steps
  <2>2. Steps(m, s)[2] = CounterRow(b) /\ Len(Steps(m, s)) = 2 /\ Steps(m, s) \in Seq(Rows)
    BY <2>1, <1>2
  <2> QED BY <1>1, <1>6, <2>2 DEF Keyed
<1>7. CASE Kind[m] = "moveList"
  <2>1. Steps(m, s) = <<ListRow(Target[m])>>
    BY <1>7 DEF Steps
  <2> QED BY <1>1, <1>2, <1>7, <2>1 DEF Keyed
<1> QED BY <1>0, <1>3, <1>4, <1>5, <1>6, <1>7 DEF Kinds, CardKinds
-----------------------------------------------------------------------------
\* No transaction runs at first, so the locks have nothing to say.
LEMMA Initial == Init => IInv
<1> SUFFICES ASSUME Init PROVE IInv
  OBVIOUS
<1>1. NoCardSeen \in CardRows
  BY CommandAssumption DEF NoCardSeen, CardRows
<1>2. Idle \in Transactions
  BY <1>1 DEF Idle, Transactions
<1>3. TypeOK
  BY <1>2, CommandAssumption DEF TypeOK, Init, Idle, CardRows
<1>4. DenseLog /\ AppliedOnce /\ Recorded
  BY DEF Init, DenseLog, AppliedOnce, Recorded
<1>5. \A t \in Txs : ~Running(t)
  BY CommandAssumption DEF Init, Running, Idle
<1>6. HoldsItsSteps /\ LocksDisjoint /\ NextSequence /\ NoRecord
  BY <1>5 DEF Init, HoldsItsSteps, LocksDisjoint, NextSequence, NoRecord
<1> QED BY <1>3, <1>4, <1>6 DEF IInv

\* A transaction begins with no lock; its record is not looked at again.
LEMMA BeginStep == ASSUME IInv, NEW t \in Txs, NEW m \in Mutations, Begin(t, m)
                   PROVE  IInv'
<1> USE CommandAssumption
<1> DEFINE x == tx'[t]
<1>1. x \in Transactions /\ x.m = m /\ x.at = 0 /\ x.seen \in CardRows
  <2>1. NoCardSeen \in CardRows /\ (CardOf[m] \in Cards => card[CardOf[m]] \in CardRows)
    BY DEF IInv, TypeOK, NoCardSeen, CardRows
  <2>2. Idle \in Transactions
    BY <2>1 DEF Idle, Transactions
  <2>3. x = [Idle EXCEPT !.m = m,
               !.seen = IF CardOf[m] \in Cards THEN card[CardOf[m]] ELSE NoCardSeen,
               !.targetRev = listRev[Target[m]]]
    BY DEF Begin, IInv, TypeOK
  <2>4. listRev[Target[m]] \in Nat
    BY DEF IInv, TypeOK
  <2> QED BY <2>1, <2>2, <2>3, <2>4 DEF Transactions, Idle
<1>2. \A u \in Txs : u # t => tx'[u] = tx[u]
  BY DEF Begin
<1>3. tx' \in [Txs -> Transactions]
  BY <1>1, <1>2 DEF Begin, IInv, TypeOK
<1>4. locked[t] = {}
  BY DEF Begin, IInv, TypeOK
<1>5. TypeOK'
  <2>1. attempts' \in [Mutations -> Nat]
    BY DEF Begin, IInv, TypeOK
  <2> QED BY <1>1, <1>2, <1>3, <2>1 DEF Begin, IInv, TypeOK, tables
<1>6. DenseLog' /\ AppliedOnce' /\ Recorded'
  BY DEF Begin, tables, IInv, DenseLog, AppliedOnce, Recorded
<1>7. HoldsItsSteps'
  <2> SUFFICES ASSUME NEW u \in Txs, Running(u)'
               PROVE  /\ tx'[u].at \in 0..Len(StepsOf(u)')
                      /\ \A i \in 1..tx'[u].at : StepsOf(u)'[i] \in locked'[u]
    BY DEF HoldsItsSteps
  <2>1. CASE u = t
    <3>1. StepsOf(t)' \in Seq(Rows)
      BY <1>1, StepsOfCommands DEF StepsOf, CardRows
    <3> QED BY <1>1, <2>1, <3>1
  <2>2. CASE u # t
    BY <1>2, <2>2 DEF Begin, IInv, HoldsItsSteps, Running, StepsOf
  <2> QED BY <2>1, <2>2
<1>8. LocksDisjoint'
  BY DEF Begin, IInv, LocksDisjoint
<1>9. NextSequence' /\ NoRecord'
  BY <1>2, <1>4 DEF Begin, tables, IInv, NextSequence, NoRecord, Running
<1> QED BY <1>5, <1>6, <1>7, <1>8, <1>9 DEF IInv

\* A replay reads the record and changes nothing but what the client was told.
LEMMA ReplayStep == ASSUME IInv, NEW m \in Mutations, Replay(m) PROVE IInv'
<1>1. attempts' \in [Mutations -> Nat] /\ answers' \in [Mutations -> SUBSET Nat]
  BY DEF Replay, IInv, TypeOK
<1>2. UNCHANGED <<card, listRev, moved, counter, log, keys, locked, tx>>
  BY DEF Replay, tables
<1>3. TypeOK'
  BY <1>1, <1>2 DEF IInv, TypeOK
<1>4. DenseLog' /\ AppliedOnce' /\ Recorded'
  BY <1>2 DEF IInv, DenseLog, AppliedOnce, Recorded
<1>5. HoldsItsSteps' /\ LocksDisjoint'
  BY <1>2 DEF IInv, HoldsItsSteps, LocksDisjoint, Running, StepsOf
<1>6. NextSequence' /\ NoRecord'
  BY <1>2 DEF IInv, NextSequence, NoRecord, Running
<1> QED BY <1>3, <1>4, <1>5, <1>6 DEF IInv

\* A transaction that is given up leaves the tables and its locks.
LEMMA EndStep == ASSUME IInv, NEW t \in Txs, End(t), UNCHANGED <<tables, answers, attempts>>
                 PROVE  IInv'
<1> USE CommandAssumption
<1>1. Idle \in Transactions /\ Idle.m \notin Mutations
  BY DEF Idle, Transactions, NoCardSeen, CardRows
<1>2. TypeOK'
  BY <1>1 DEF End, IInv, TypeOK, tables
<1>3. DenseLog' /\ AppliedOnce' /\ Recorded'
  BY DEF tables, IInv, DenseLog, AppliedOnce, Recorded
<1>4. /\ \A u \in Txs : u # t => tx'[u] = tx[u] /\ locked'[u] = locked[u]
      /\ tx'[t] = Idle /\ locked'[t] = {}
  BY DEF End, IInv, TypeOK
<1>5. HoldsItsSteps'
  BY <1>1, <1>4 DEF IInv, HoldsItsSteps, Running, StepsOf
<1>6. LocksDisjoint'
  BY <1>4 DEF IInv, LocksDisjoint
<1>7. NextSequence' /\ NoRecord'
  BY <1>1, <1>4 DEF tables, IInv, NextSequence, NoRecord, Running
<1> QED BY <1>2, <1>3, <1>5, <1>6, <1>7 DEF IInv

\* A row is locked if nobody else holds it: with the counter's comes the next
\* sequence, with the record's the certainty that there is no record.
LEMMA LockStep == ASSUME IInv, NEW t \in Txs, Running(t), Lock(t) PROVE IInv'
<1> DEFINE r == NextRow(tx[t])
           m == tx[t].m
           b == BoardFor(tx[t].m)
           q == IF r = CounterRow(b) THEN counter[b] + 1 ELSE tx[t].seq
<1>1. /\ m \in Mutations /\ tx[t] \in Transactions /\ tx[t].seen.list \in Lists
      /\ tx[t].at \in Nat /\ locked \in [Txs -> SUBSET Rows]
      /\ tx \in [Txs -> Transactions]
  BY DEF IInv, TypeOK, Running, Transactions, CardRows
<1>2. b \in Boards /\ StepsOf(t) \in Seq(Rows)
  BY <1>1, StepsOfCommands DEF StepsOf
<1>3. /\ tx[t].at < Len(StepsOf(t)) /\ r = StepsOf(t)[tx[t].at + 1]
      /\ r \in locked[t] \/ Free(r)
      /\ r = KeyRow(m) => keys[m] = 0
      /\ locked' = [locked EXCEPT ![t] = @ \cup {r}]
      /\ TakeSequence(t, r)
      /\ UNCHANGED <<card, listRev, moved, log, keys, answers, attempts>>
  BY DEF Lock, HasNextRow, Refused, NextRow, StepsOf
<1>4. r \in Rows
  BY <1>1, <1>2, <1>3
<1>5. tx' = [tx EXCEPT ![t].at = @ + 1, ![t].seq = q] /\ counter' = counter
  BY <1>3 DEF TakeSequence
<1>6. /\ tx'[t].m = m /\ tx'[t].at = tx[t].at + 1 /\ tx'[t].seq = q
      /\ tx'[t].seen = tx[t].seen /\ tx'[t].stale = tx[t].stale
      /\ tx'[t].targetRev = tx[t].targetRev
      /\ \A u \in Txs : u # t => tx'[u] = tx[u] /\ locked'[u] = locked[u]
      /\ locked'[t] = locked[t] \cup {r}
  BY <1>1, <1>3, <1>5 DEF Transactions
<1>7. q \in Nat
  BY <1>1, <1>2 DEF IInv, TypeOK, Transactions
<1>8. tx' \in [Txs -> Transactions]
  <2>1. tx[t].at + 1 \in Nat
    BY <1>1
  <2>2. tx'[t] = [[tx[t] EXCEPT !.at = @ + 1] EXCEPT !.seq = q]
    BY <1>1, <1>5
  <2>3. tx'[t] \in Transactions
    BY <1>1, <1>7, <2>1, <2>2 DEF Transactions
  <2> QED BY <1>1, <1>5, <1>6, <2>3
<1>9. TypeOK'
  <2>1. locked' \in [Txs -> SUBSET Rows]
    BY <1>1, <1>3, <1>4
  <2>2. \A u \in Txs : tx'[u].m = NoMutation => locked'[u] = {}
    <3> TAKE u \in Txs
    <3>1. CASE u = t
      BY <1>1, <1>6, <3>1, CommandAssumption
    <3>2. CASE u # t
      BY <1>6, <3>2 DEF IInv, TypeOK
    <3> QED BY <3>1, <3>2
  <2> QED BY <1>3, <1>5, <1>8, <2>1, <2>2 DEF IInv, TypeOK
<1>10. DenseLog' /\ AppliedOnce' /\ Recorded'
  BY <1>3, <1>5 DEF IInv, DenseLog, AppliedOnce, Recorded
<1>11. HoldsItsSteps'
  <2> SUFFICES ASSUME NEW u \in Txs, Running(u)'
               PROVE  /\ tx'[u].at \in 0..Len(StepsOf(u)')
                      /\ \A i \in 1..tx'[u].at : StepsOf(u)'[i] \in locked'[u]
    BY DEF HoldsItsSteps
  <2>1. CASE u = t
    <3>1. StepsOf(t)' = StepsOf(t)
      BY <1>6 DEF StepsOf
    <3>2. \A i \in 1..tx[t].at : StepsOf(t)[i] \in locked[t]
      BY DEF IInv, HoldsItsSteps
    <3>3. \A i \in 1..(tx[t].at + 1) : StepsOf(t)[i] \in locked[t] \cup {r}
      BY <1>1, <1>3, <3>2
    <3> QED BY <1>1, <1>2, <1>3, <1>6, <2>1, <3>1, <3>3
  <2>2. CASE u # t
    BY <1>6, <2>2 DEF IInv, HoldsItsSteps, Running, StepsOf
  <2> QED BY <2>1, <2>2
<1>12. LocksDisjoint'
  BY <1>3, <1>6 DEF IInv, LocksDisjoint, Free
<1>13. NextSequence'
  <2> SUFFICES ASSUME NEW u \in Txs, Running(u)',
                      CounterRow(BoardFor(tx'[u].m)) \in locked'[u]
               PROVE  tx'[u].seq = counter[BoardFor(tx'[u].m)] + 1
    BY <1>5 DEF NextSequence
  <2>1. CASE u = t /\ r = CounterRow(b)
    BY <1>6, <2>1
  <2>2. CASE u = t /\ r # CounterRow(b)
    BY <1>6, <2>2 DEF IInv, NextSequence
  <2>3. CASE u # t
    BY <1>6, <2>3 DEF IInv, NextSequence, Running
  <2> QED BY <2>1, <2>2, <2>3
<1>14. NoRecord'
  <2> SUFFICES ASSUME NEW u \in Txs, Running(u)', KeyRow(tx'[u].m) \in locked'[u]
               PROVE  keys[tx'[u].m] = 0
    BY <1>3 DEF NoRecord
  <2>1. CASE u = t
    BY <1>3, <1>6, <2>1 DEF IInv, NoRecord
  <2>2. CASE u # t
    BY <1>6, <2>2 DEF IInv, NoRecord, Running
  <2> QED BY <2>1, <2>2
<1> QED BY <1>9, <1>10, <1>11, <1>12, <1>13, <1>14 DEF IInv

\* A commit makes rows stale to others and takes no lock away from them.
LEMMA CommitEffects ==
    ASSUME IInv, NEW t \in Txs, NEW W \in SUBSET Rows, EndWriting(t, W)
    PROVE  /\ tx' \in [Txs -> Transactions] /\ locked' \in [Txs -> SUBSET Rows]
           /\ tx'[t].m = NoMutation /\ locked'[t] = {}
           /\ \A u \in Txs : u # t => /\ locked'[u] = locked[u]
                                     /\ tx'[u].m = tx[u].m /\ tx'[u].at = tx[u].at
                                     /\ tx'[u].seen = tx[u].seen
                                     /\ tx'[u].seq = tx[u].seq
<1> USE CommandAssumption
<1>1. Idle \in Transactions /\ Idle.m = NoMutation
  BY DEF Idle, Transactions, NoCardSeen, CardRows
<1>2. tx \in [Txs -> Transactions] /\ locked \in [Txs -> SUBSET Rows]
  BY DEF IInv, TypeOK
<1>3. tx'[t] = Idle /\ locked'[t] = {}
  BY <1>2 DEF EndWriting
<1>4. \A u \in Txs : u # t =>
         /\ locked'[u] = locked[u]
         /\ tx'[u] = IF tx[u].m # NoMutation THEN [tx[u] EXCEPT !.stale = @ \cup W]
                                             ELSE tx[u]
  BY <1>2 DEF EndWriting
<1>5. \A u \in Txs : u # t =>
         /\ tx'[u].m = tx[u].m /\ tx'[u].at = tx[u].at /\ tx'[u].seen = tx[u].seen
         /\ tx'[u].seq = tx[u].seq /\ tx'[u] \in Transactions
  <2> TAKE u \in Txs
  <2> HAVE u # t
  <2>1. tx[u] \in Transactions
    BY <1>2
  <2>2. CASE tx[u].m = NoMutation
    BY <1>4, <2>1, <2>2
  <2>3. CASE tx[u].m # NoMutation
    <3>1. tx'[u] = [tx[u] EXCEPT !.stale = tx[u].stale \cup W]
      BY <1>4, <2>3
    <3>2. tx[u].stale \cup W \in SUBSET Rows
      BY <2>1 DEF Transactions
    <3> QED BY <2>1, <3>1, <3>2 DEF Transactions
  <2> QED BY <2>2, <2>3
<1>6. tx' \in [Txs -> Transactions]
  BY <1>1, <1>3, <1>5 DEF EndWriting
<1> QED BY <1>1, <1>2, <1>3, <1>4, <1>5, <1>6 DEF EndWriting

\* What a command writes are rows of its lists, its board, its card and itself.
LEMMA WrittenRows == ASSUME IInv, NEW t \in Txs, Running(t)
                     PROVE  Written(tx[t]) \in SUBSET Rows /\ Touched(tx[t]) \in SUBSET Lists
<1> DEFINE x == tx[t]
<1>1. x.m \in Mutations /\ x.seen.list \in Lists /\ Target[x.m] \in Lists
  BY CommandAssumption DEF IInv, TypeOK, Running, Transactions, CardRows
<1>2. BoardFor(x.m) \in Boards
  BY <1>1, StepsOfCommands
<1>3. Touched(x) \in SUBSET Lists
  BY <1>1 DEF Touched
<1>4. \A l \in Touched(x) : ListRow(l) \in Rows
  BY <1>3 DEF Rows
<1>5. /\ CounterRow(BoardFor(x.m)) \in Rows /\ BoardRow(BoardFor(x.m)) \in Rows
      /\ KeyRow(x.m) \in Rows
      /\ CardOf[x.m] \in Cards => CardRow(CardOf[x.m]) \in Rows
  BY <1>1, <1>2 DEF Rows
<1> QED BY <1>3, <1>4, <1>5 DEF Written

\* The other transactions hold on to what they had; the one that ended has nothing.
LEMMA OthersHold ==
    ASSUME IInv, NEW t \in Txs, NEW W \in SUBSET Rows, EndWriting(t, W)
    PROVE  HoldsItsSteps' /\ LocksDisjoint'
<1>1. ~Running(t)'
  BY CommitEffects, CommandAssumption DEF Running
<1>2. HoldsItsSteps'
  <2> SUFFICES ASSUME NEW u \in Txs, Running(u)'
               PROVE  /\ tx'[u].at \in 0..Len(StepsOf(u)')
                      /\ \A i \in 1..tx'[u].at : StepsOf(u)'[i] \in locked'[u]
    BY DEF HoldsItsSteps
  <2>1. u # t
    BY <1>1
  <2>2. StepsOf(u)' = StepsOf(u) /\ Running(u) /\ tx'[u].at = tx[u].at /\ locked'[u] = locked[u]
    BY <2>1, CommitEffects DEF StepsOf, Running
  <2> QED BY <2>2 DEF IInv, HoldsItsSteps
<1>3. LocksDisjoint'
  BY CommitEffects DEF IInv, LocksDisjoint
<1> QED BY <1>2, <1>3

\* moveList's early return writes no table that the invariant speaks of.
LEMMA SaveListStep == ASSUME IInv, NEW t \in Txs, Running(t), SaveList(t) PROVE IInv'
<1> DEFINE l == Target[tx[t].m]
<1>1. l \in Lists /\ {ListRow(l)} \in SUBSET Rows
  BY CommandAssumption DEF Running, Rows
<1>2. /\ EndWriting(t, {ListRow(l)}) /\ moved' = [moved EXCEPT ![l] = @ + 1]
      /\ UNCHANGED <<card, listRev, counter, log, keys, answers, attempts>>
  BY DEF SaveList
<1>3. /\ tx' \in [Txs -> Transactions] /\ locked' \in [Txs -> SUBSET Rows]
      /\ tx'[t].m = NoMutation /\ locked'[t] = {}
      /\ \A u \in Txs : u # t => /\ locked'[u] = locked[u] /\ tx'[u].m = tx[u].m
                                /\ tx'[u].seq = tx[u].seq
  BY <1>1, <1>2, CommitEffects
<1>4. TypeOK'
  <2>1. moved' \in [Lists -> Nat]
    BY <1>1, <1>2 DEF IInv, TypeOK
  <2>2. \A u \in Txs : tx'[u].m = NoMutation => locked'[u] = {}
    BY <1>3 DEF IInv, TypeOK
  <2> QED BY <1>2, <1>3, <2>1, <2>2 DEF IInv, TypeOK
<1>5. DenseLog' /\ AppliedOnce' /\ Recorded'
  BY <1>2 DEF IInv, DenseLog, AppliedOnce, Recorded
<1>6. HoldsItsSteps' /\ LocksDisjoint'
  BY <1>1, <1>2, OthersHold
<1>7. NextSequence' /\ NoRecord'
  BY <1>2, <1>3 DEF IInv, NextSequence, NoRecord, Running
<1> QED BY <1>4, <1>5, <1>6, <1>7 DEF IInv

\* The transaction that appends holds the counter, so its event comes next, and
\* the row of its record, so it is the first of its command.
LEMMA FinishStep == ASSUME IInv, NEW t \in Txs, Running(t), Finish(t) PROVE IInv'
<1> DEFINE x == tx[t]
           m == tx[t].m
           b == BoardFor(tx[t].m)
           e == EventOf(tx[t])
<1>1. /\ m \in Mutations /\ x \in Transactions /\ x.seen \in CardRows /\ x.seen.list \in Lists
      /\ x.seq \in Nat /\ x.seen.rev \in Nat /\ Target[m] \in Lists /\ b \in Boards
      /\ Kind[m] \in Kinds
  BY StepsOfCommands, CommandAssumption DEF IInv, TypeOK, Running, Transactions, CardRows
<1>2. /\ x.at = Len(StepsOf(t)) /\ Kind[m] # "moveList"
      /\ \A i \in 1..Len(StepsOf(t)) : StepsOf(t)[i] \in locked[t]
  <2>1. StepsOf(t) \in Seq(Rows)
    BY <1>1, StepsOfCommands DEF StepsOf
  <2>2. ~(x.at < Len(StepsOf(t))) /\ Kind[m] # "moveList"
    BY <1>1 DEF Finish, HasNextRow, StepsOf
  <2>3. x.at \in 0..Len(StepsOf(t)) /\ \A i \in 1..x.at : StepsOf(t)[i] \in locked[t]
    BY DEF IInv, HoldsItsSteps
  <2>4. x.at = Len(StepsOf(t))
    BY <2>1, <2>2, <2>3
  <2> QED BY <2>2, <2>3, <2>4
<1>3. /\ CounterRow(b) \in locked[t] /\ x.seq = counter[b] + 1
      /\ Keyed(m) => KeyRow(m) \in locked[t] /\ keys[m] = 0
  <2>1. CounterRow(b) \in locked[t]
    BY <1>1, <1>2, StepsOfCommands DEF StepsOf
  <2>2. Keyed(m) => KeyRow(m) \in locked[t]
    BY <1>1, <1>2, StepsOfCommands DEF StepsOf
  <2> QED BY <2>1, <2>2 DEF IInv, NextSequence, NoRecord
<1>4. /\ EndWriting(t, Written(x))
      /\ card' = [c \in Cards |-> IF c = CardOf[m] THEN CardAfter(x, card[c]) ELSE card[c]]
      /\ listRev' = [l \in Lists |-> IF l \in Touched(x) THEN listRev[l] + 1 ELSE listRev[l]]
      /\ counter' = [counter EXCEPT ![b] = x.seq]
      /\ log' = [log EXCEPT ![b] = Append(@, e)]
      /\ keys' = [keys EXCEPT ![m] = IF Keyed(m) THEN x.seq ELSE @]
      /\ answers' = [answers EXCEPT ![m] = @ \cup {x.seq}]
      /\ moved' = moved /\ attempts' = attempts
  BY DEF Finish, Response
<1>5. /\ tx' \in [Txs -> Transactions] /\ locked' \in [Txs -> SUBSET Rows]
      /\ tx'[t].m = NoMutation /\ locked'[t] = {}
      /\ \A u \in Txs : u # t => /\ locked'[u] = locked[u] /\ tx'[u].m = tx[u].m
                                /\ tx'[u].seq = tx[u].seq
  BY <1>4, WrittenRows, CommitEffects
<1>6. /\ counter \in [Boards -> Nat] /\ log \in [Boards -> Seq(Events)]
      /\ keys \in [Mutations -> Nat] /\ card \in [Cards -> CardRows]
      /\ listRev \in [Lists -> Nat] /\ answers \in [Mutations -> SUBSET Nat]
  BY DEF IInv, TypeOK
<1>7. e \in Events /\ e.m = m /\ e.seq = x.seq
  <2>1. Kind[m] = "updateCard" => card[CardOf[m]].rev \in Nat
    BY <1>1, <1>6, CommandAssumption DEF CardKinds, CardRows
  <2>2. listRev[Target[m]] \in Nat
    BY <1>1, <1>6
  <2> QED BY <1>1, <2>1, <2>2 DEF EventOf, Events
<1>8. TypeOK'
  <2>1. \A c \in Cards : CardAfter(x, card[c]) \in CardRows
    <3> TAKE c \in Cards
    <3>1. card[c] \in CardRows
      BY <1>6
    <3>2. CASE Kind[m] = "moveCard"
      BY <1>1, <3>1, <3>2 DEF CardAfter, CardRows
    <3>3. CASE Kind[m] = "updateCard"
      <4>1. CardAfter(x, card[c])
              = [[card[c] EXCEPT !.list = x.seen.list] EXCEPT !.rev = x.seen.rev + 1]
        BY <3>3 DEF CardAfter
      <4>2. x.seen.rev + 1 \in Nat
        BY <1>1
      <4> QED BY <1>1, <3>1, <4>1, <4>2 DEF CardRows
    <3>4. CASE Kind[m] \notin {"moveCard", "updateCard"}
      BY <1>1, <3>1, <3>4 DEF CardAfter, CardRows
    <3> QED BY <3>2, <3>3, <3>4
  <2>2. card' \in [Cards -> CardRows]
    BY <1>4, <1>6, <2>1
  <2>3. listRev' \in [Lists -> Nat] /\ counter' \in [Boards -> Nat]
    BY <1>1, <1>4, <1>6
  <2>4. log' \in [Boards -> Seq(Events)]
    BY <1>1, <1>4, <1>6, <1>7
  <2>5. keys' \in [Mutations -> Nat] /\ answers' \in [Mutations -> SUBSET Nat]
    BY <1>1, <1>4, <1>6
  <2>6. \A u \in Txs : tx'[u].m = NoMutation => locked'[u] = {}
    BY <1>5 DEF IInv, TypeOK
  <2> QED BY <1>4, <1>5, <2>2, <2>3, <2>4, <2>5, <2>6 DEF IInv, TypeOK
<1>9. /\ log'[b] = Append(log[b], e) /\ \A d \in Boards : d # b => log'[d] = log[d]
      /\ Len(log'[b]) = Len(log[b]) + 1 /\ log'[b][Len(log[b]) + 1] = e
      /\ \A i \in 1..Len(log[b]) : log'[b][i] = log[b][i]
      /\ \A d \in Boards : log'[d] \in Seq(Events) /\ log[d] \in Seq(Events)
  BY <1>1, <1>4, <1>6, <1>7
<1>10. DenseLog'
  <2>1. /\ counter'[b] = counter[b] + 1 /\ counter[b] = Len(log[b])
        /\ \A i \in 1..Len(log[b]) : log[b][i].seq = i
    BY <1>1, <1>3, <1>4, <1>6 DEF IInv, DenseLog
  <2>2. \A i \in 1..Len(log'[b]) : log'[b][i].seq = i
    BY <1>1, <1>3, <1>6, <1>7, <1>9, <2>1
  <2>3. counter'[b] = Len(log'[b])
    BY <1>9, <2>1
  <2>4. \A d \in Boards : d # b => counter'[d] = counter[d] /\ log'[d] = log[d]
    BY <1>4, <1>6, <1>9
  <2> QED BY <2>2, <2>3, <2>4 DEF IInv, DenseLog
<1>11. x.seq # 0
  BY <1>1, <1>3, <1>6
<1>12. Recorded'
  <2> SUFFICES ASSUME NEW d \in Boards, NEW i \in DOMAIN log'[d], Keyed(log'[d][i].m)
               PROVE  keys'[log'[d][i].m] # 0
    BY DEF Recorded, Keyed
  <2>1. CASE log'[d][i] = e
    BY <1>1, <1>4, <1>6, <1>7, <1>11, <2>1
  <2>2. CASE log'[d][i] # e
    <3>1. i \in DOMAIN log[d] /\ log'[d][i] = log[d][i]
      BY <1>9, <2>2
    <3>2. Keyed(log[d][i].m)
      BY <3>1 DEF Keyed
    <3>3. keys[log[d][i].m] # 0
      BY <3>1, <3>2 DEF IInv, Recorded
    <3>4. log[d][i] \in Events
      BY <1>9, <3>1
    <3>5. log[d][i].m \in Mutations
      BY <3>4 DEF Events
    <3> QED BY <1>1, <1>4, <1>6, <1>11, <3>1, <3>3, <3>5
  <2> QED BY <2>1, <2>2
<1>13. AppliedOnce'
  <2>1. Kind[m] \in CardKinds \cup {"createCard"} =>
           \A d \in Boards : \A i \in DOMAIN log[d] : log[d][i].m # m
    BY <1>3 DEF IInv, Recorded, Keyed, CardKinds
  <2>2. ASSUME NEW c \in Boards, NEW i \in DOMAIN log'[c]
        PROVE  \/ c = b /\ i = Len(log[b]) + 1 /\ log'[c][i].m = m
               \/ i \in DOMAIN log[c] /\ log'[c][i] = log[c][i]
    BY <1>7, <1>9
  <2> SUFFICES ASSUME NEW c \in Boards, NEW d \in Boards,
                      NEW i \in DOMAIN log'[c], NEW j \in DOMAIN log'[d],
                      log'[c][i].m = log'[d][j].m,
                      Kind[log'[c][i].m] \in CardKinds \cup {"createCard"}
               PROVE  c = d /\ i = j
    BY DEF AppliedOnce
  <2>3. CASE i \in DOMAIN log[c] /\ log'[c][i] = log[c][i]
             /\ j \in DOMAIN log[d] /\ log'[d][j] = log[d][j]
    BY <2>3 DEF IInv, AppliedOnce
  <2>4. CASE log'[c][i].m = m
    <3>1. \A f \in Boards : \A k \in DOMAIN log[f] : log[f][k].m # m
      BY <2>1, <2>4
    <3>2. c = b /\ i = Len(log[b]) + 1
      <4>1. ~(i \in DOMAIN log[c] /\ log'[c][i] = log[c][i])
        BY <2>4, <3>1
      <4> QED BY <2>2, <4>1
    <3>3. d = b /\ j = Len(log[b]) + 1
      <4>1. ~(j \in DOMAIN log[d] /\ log'[d][j] = log[d][j])
        BY <2>4, <3>1
      <4> QED BY <2>2, <4>1
    <3> QED BY <3>2, <3>3
  <2>5. \/ log'[c][i].m = m
        \/ i \in DOMAIN log[c] /\ log'[c][i] = log[c][i]
    BY <2>2
  <2>6. \/ log'[c][i].m = m
        \/ j \in DOMAIN log[d] /\ log'[d][j] = log[d][j]
    BY <2>2
  <2> QED BY <2>3, <2>4, <2>5, <2>6
<1>14. HoldsItsSteps' /\ LocksDisjoint'
  BY <1>4, WrittenRows, OthersHold
<1>15. ASSUME NEW u \in Txs, Running(u)'
       PROVE  u # t /\ Running(u) /\ CounterRow(b) \notin locked'[u]
              /\ (Keyed(m) => KeyRow(m) \notin locked'[u])
  <2>1. u # t
    BY <1>5, <1>15, CommandAssumption DEF Running
  <2>2. locked'[u] = locked[u] /\ tx'[u].m = tx[u].m
    BY <1>5, <2>1
  <2>3. locked[u] \cap locked[t] = {}
    BY <2>1 DEF IInv, LocksDisjoint
  <2> QED BY <1>3, <1>15, <2>1, <2>2, <2>3 DEF Running
<1>16. NextSequence'
  <2> SUFFICES ASSUME NEW u \in Txs, Running(u)',
                      CounterRow(BoardFor(tx'[u].m)) \in locked'[u]
               PROVE  tx'[u].seq = counter'[BoardFor(tx'[u].m)] + 1
    BY DEF NextSequence
  <2>1. u # t /\ BoardFor(tx'[u].m) # b
    BY <1>15
  <2>2. counter'[BoardFor(tx'[u].m)] = counter[BoardFor(tx'[u].m)]
    BY <1>4, <1>6, <2>1
  <2> QED BY <1>5, <1>15, <2>1, <2>2 DEF IInv, NextSequence
<1>17. NoRecord'
  <2> SUFFICES ASSUME NEW u \in Txs, Running(u)', KeyRow(tx'[u].m) \in locked'[u]
               PROVE  keys'[tx'[u].m] = 0
    BY DEF NoRecord
  <2>1. u # t /\ Running(u) /\ (Keyed(m) => tx'[u].m # m)
    BY <1>15
  <2>2. keys'[tx'[u].m] = keys[tx'[u].m]
    BY <1>4, <1>6, <2>1
  <2> QED BY <1>5, <2>1, <2>2 DEF IInv, NoRecord
<1> QED BY <1>8, <1>10, <1>12, <1>13, <1>14, <1>16, <1>17 DEF IInv

-----------------------------------------------------------------------------
\* A step of the specification is one of these, or changes nothing.
LEMMA NextCases ==
    ASSUME [Next]_vars
    PROVE  \/ UNCHANGED vars
           \/ \E m \in Mutations : Replay(m) \/ \E t \in Txs : Begin(t, m)
           \/ \E t \in Txs : Running(t) /\ (\/ Lock(t) \/ Finish(t) \/ SaveList(t)
                                            \/ End(t) /\ UNCHANGED <<tables, answers, attempts>>)
<1> USE DEF Running
<1>1. ASSUME NEW t \in Txs, Step(t)
      PROVE  Running(t) /\ (\/ Lock(t) \/ Finish(t) \/ SaveList(t)
                            \/ End(t) /\ UNCHANGED <<tables, answers, attempts>>)
  <2>1. CASE Lock(t)
    <3>1. tx[t].m \in Mutations
      BY <2>1 DEF Lock, HasNextRow
    <3> QED BY <2>1, <3>1
  <2>2. CASE Refuse(t)
    BY <2>2 DEF Refuse
  <2>3. CASE Abort(t)
    BY <2>3 DEF Abort
  <2>4. CASE Finish(t)
    <3>1. tx[t].m \in Mutations
      BY <2>4 DEF Finish
    <3> QED BY <2>4, <3>1
  <2>5. CASE SaveList(t)
    <3>1. tx[t].m \in Mutations
      BY <2>5 DEF SaveList
    <3> QED BY <2>5, <3>1
  <2> QED BY <1>1, <2>1, <2>2, <2>3, <2>4, <2>5 DEF Step
<1> QED BY <1>1 DEF Next, Attempt

\* A step that changes nothing keeps the invariant.
LEMMA Stutter == ASSUME IInv, UNCHANGED vars PROVE IInv'
<1>1. TypeOK'
  BY DEF vars, IInv, TypeOK
<1>2. DenseLog' /\ AppliedOnce' /\ Recorded'
  BY DEF vars, IInv, DenseLog, AppliedOnce, Recorded
<1>3. HoldsItsSteps' /\ LocksDisjoint'
  BY DEF vars, IInv, HoldsItsSteps, LocksDisjoint, Running, StepsOf
<1>4. NextSequence' /\ NoRecord'
  BY DEF vars, IInv, NextSequence, NoRecord, Running
<1> QED BY <1>1, <1>2, <1>3, <1>4 DEF IInv

\* Every step keeps the invariant.
LEMMA Inductive == IInv /\ [Next]_vars => IInv'
<1> SUFFICES ASSUME IInv, [Next]_vars PROVE IInv'
  OBVIOUS
<1>1. CASE UNCHANGED vars
  BY <1>1, Stutter
<1>2. CASE \E m \in Mutations : Replay(m) \/ \E t \in Txs : Begin(t, m)
  BY <1>2, ReplayStep, BeginStep
<1>3. ASSUME NEW t \in Txs, Running(t),
             \/ Lock(t) \/ Finish(t) \/ SaveList(t)
             \/ End(t) /\ UNCHANGED <<tables, answers, attempts>>
      PROVE  IInv'
  <2>1. CASE Lock(t)
    BY <1>3, <2>1, LockStep
  <2>2. CASE Finish(t)
    BY <1>3, <2>2, FinishStep
  <2>3. CASE SaveList(t)
    BY <1>3, <2>3, SaveListStep
  <2>4. CASE End(t) /\ UNCHANGED <<tables, answers, attempts>>
    BY <2>4, EndStep
  <2> QED BY <1>3, <2>1, <2>2, <2>3, <2>4
<1> QED BY <1>1, <1>2, <1>3, NextCases

\* A log only grows, and at the end; so what is answered remains true of it.
LEMMA AnswersInductive ==
    IInv /\ RecordsAgree /\ AnswersAgree /\ [Next]_vars => RecordsAgree' /\ AnswersAgree'
<1> SUFFICES ASSUME IInv, RecordsAgree, AnswersAgree, [Next]_vars
             PROVE  RecordsAgree' /\ AnswersAgree'
  OBVIOUS
<1>1. CASE UNCHANGED <<log, keys, answers>>
  BY <1>1 DEF RecordsAgree, AnswersAgree
<1>2. ASSUME NEW m \in Mutations, Replay(m) PROVE RecordsAgree' /\ AnswersAgree'
  <2>1. /\ keys[m] # 0 /\ log' = log /\ keys' = keys
        /\ answers' = [answers EXCEPT ![m] = @ \cup {keys[m]}]
    BY <1>2 DEF Replay, tables
  <2>2. RecordsAgree'
    BY <2>1 DEF RecordsAgree
  <2>3. AnswersAgree'
    <3> SUFFICES ASSUME NEW k \in Mutations, NEW n \in answers'[k]
                 PROVE  n \in 1..Len(log[BoardFor(k)]) /\ log[BoardFor(k)][n].m = k
      BY <2>1 DEF AnswersAgree
    <3>1. n \in answers[k] \/ (k = m /\ n = keys[m])
      BY <2>1 DEF IInv, TypeOK
    <3> QED BY <2>1, <3>1 DEF RecordsAgree, AnswersAgree
  <2> QED BY <2>2, <2>3
<1>3. ASSUME NEW t \in Txs, Running(t), Finish(t) PROVE RecordsAgree' /\ AnswersAgree'
  <2> DEFINE m == tx[t].m
             b == BoardFor(tx[t].m)
             q == Len(log[b]) + 1
  <2>1. m \in Mutations /\ b \in Boards /\ tx[t].seen.list \in Lists
    BY <1>3, StepsOfCommands DEF IInv, TypeOK, Running, Transactions, CardRows
  <2>2. /\ counter' = [counter EXCEPT ![b] = tx[t].seq]
        /\ log' = [log EXCEPT ![b] = Append(@, EventOf(tx[t]))]
        /\ keys' = [keys EXCEPT ![m] = IF Keyed(m) THEN tx[t].seq ELSE @]
        /\ answers' = [answers EXCEPT ![m] = @ \cup {tx[t].seq}]
    BY <1>3 DEF Finish, Response
  <2>3. /\ log \in [Boards -> Seq(Events)] /\ counter \in [Boards -> Nat]
        /\ keys \in [Mutations -> Nat] /\ answers \in [Mutations -> SUBSET Nat]
        /\ log'[b] \in Seq(Events)
    BY <1>3, <2>1, FinishStep DEF IInv, TypeOK
  <2>4. Len(log'[b]) = q
    BY <2>1, <2>2, <2>3
  <2>5. tx[t].seq = q
    <3>1. counter'[b] = tx[t].seq
      BY <2>1, <2>2, <2>3
    <3>2. counter'[b] = Len(log'[b])
      BY <1>3, <2>1, FinishStep DEF IInv, DenseLog
    <3> QED BY <2>4, <3>1, <3>2
  <2>6. log'[b][q].m = m
    <3>1. log'[b][q] = EventOf(tx[t])
      BY <2>1, <2>2, <2>3
    <3> QED BY <3>1 DEF EventOf
  <2>7. \A d \in Boards : /\ Len(log[d]) \in Nat /\ Len(log'[d]) \in Nat
                          /\ Len(log[d]) <= Len(log'[d])
                          /\ \A i \in 1..Len(log[d]) : log'[d][i] = log[d][i]
    BY <2>1, <2>2, <2>3
  <2>8. \A k \in Mutations : BoardFor(k) \in Boards
    BY StepsOfCommands, <2>1
  <2>9. ASSUME NEW k \in Mutations, NEW n \in Nat,
               \/ k = m /\ n = q
               \/ n \in 1..Len(log[BoardFor(k)]) /\ log[BoardFor(k)][n].m = k
        PROVE  n \in 1..Len(log'[BoardFor(k)]) /\ log'[BoardFor(k)][n].m = k
    <3>1. CASE k = m /\ n = q
      BY <2>1, <2>3, <2>4, <2>6, <2>7, <3>1
    <3>2. CASE n \in 1..Len(log[BoardFor(k)]) /\ log[BoardFor(k)][n].m = k
      BY <2>7, <2>8, <3>2
    <3> QED BY <2>9, <3>1, <3>2
  <2>10. RecordsAgree'
    <3> SUFFICES ASSUME NEW k \in Mutations, keys'[k] # 0
                 PROVE  /\ keys'[k] \in 1..Len(log'[BoardFor(k)])
                        /\ log'[BoardFor(k)][keys'[k]].m = k
      BY DEF RecordsAgree, BoardFor
    <3>1. (k = m /\ keys'[k] = q) \/ keys'[k] = keys[k]
      BY <2>1, <2>2, <2>3, <2>5
    <3>2. q \in Nat /\ keys[k] \in Nat
      BY <2>1, <2>3, <2>7
    <3> QED BY <2>9, <3>1, <3>2 DEF RecordsAgree
  <2>11. AnswersAgree'
    <3> SUFFICES ASSUME NEW k \in Mutations, NEW n \in answers'[k]
                 PROVE  /\ n \in 1..Len(log'[BoardFor(k)])
                        /\ log'[BoardFor(k)][n].m = k
      BY DEF AnswersAgree, BoardFor
    <3>1. n \in answers[k] \/ (k = m /\ n = q)
      BY <2>1, <2>2, <2>3, <2>5
    <3>2. n \in Nat
      BY <2>1, <2>3, <2>7, <3>1
    <3> QED BY <2>9, <3>1, <3>2 DEF AnswersAgree
  <2> QED BY <2>10, <2>11
<1>4. ASSUME NEW t \in Txs, Lock(t) \/ SaveList(t) \/ UNCHANGED <<tables, answers, attempts>>
      PROVE  UNCHANGED <<log, keys, answers>>
  BY <1>4 DEF Lock, SaveList, tables
<1>5. ASSUME NEW t \in Txs, NEW m \in Mutations, Begin(t, m)
      PROVE  UNCHANGED <<log, keys, answers>>
  BY <1>5 DEF Begin, tables
<1>6. UNCHANGED vars => UNCHANGED <<log, keys, answers>>
  BY DEF vars
<1> QED BY <1>1, <1>2, <1>3, <1>4, <1>5, <1>6, NextCases

\* The inductive invariant holds in every state.
THEOREM Invariant == Spec => []IInv
<1> QED BY Initial, Inductive, PTL DEF Spec

\* Every variable has its type, and only a running transaction holds locks.
THEOREM WritesTyped == Spec => []TypeOK
<1>1. IInv => TypeOK
  BY DEF IInv
<1> QED BY <1>1, Invariant, PTL

\* The events of every board are committed in the order of their sequences and
\* no sequence is left out, for any number of boards, commands and connections.
THEOREM LogIsDense == Spec => []DenseLog
<1>1. IInv => DenseLog
  BY DEF IInv
<1> QED BY <1>1, Invariant, PTL

\* A command about a card takes effect at most once, however often it is sent.
THEOREM KeyedAppliedOnce == Spec => []AppliedOnce
<1>1. IInv => AppliedOnce
  BY DEF IInv
<1> QED BY <1>1, Invariant, PTL

\* A client that is told a sequence finds its command there in the log.
THEOREM AnswersAreTrue == Spec => []AnswersAgree
<1>1. Init => RecordsAgree /\ AnswersAgree
  BY DEF Init, RecordsAgree, AnswersAgree
<1> QED BY <1>1, Invariant, AnswersInductive, PTL DEF Spec
-----------------------------------------------------------------------------
(* The expected revision. What a transaction compares, its snapshot says; that *)
(* the snapshot is still true when it commits is due to the lock of the row,   *)
(* which is refused once the row has changed, and which nobody else can hold.  *)

\* The snapshot of a row that is not stale is what is committed.
SnapshotTrue ==
    \A t \in Txs : Running(t) =>
       /\ (CardOf[tx[t].m] \in Cards /\ CardRow(CardOf[tx[t].m]) \notin tx[t].stale)
             => tx[t].seen = card[CardOf[tx[t].m]]
       /\ ListRow(Target[tx[t].m]) \notin tx[t].stale
             => tx[t].targetRev = listRev[Target[tx[t].m]]

\* No row is stale to the transaction that has locked it.
LocksFresh == \A t \in Txs : Running(t) => locked[t] \cap tx[t].stale = {}

\* A transaction past its comparison has passed it.
Compared ==
    \A t \in Txs : Running(t) =>
       /\ (Kind[tx[t].m] = "updateCard" /\ tx[t].at >= 2)
             => Expect[tx[t].m] \in {Unstated, tx[t].seen.rev}
       /\ (Kind[tx[t].m] = "moveCard" /\ tx[t].at >= 4)
             => Expect[tx[t].m] \in {Unstated, tx[t].targetRev}

RevisionInv == SnapshotTrue /\ LocksFresh /\ Compared /\ AppliedOnExpectedRevision

\* What a commit adds to the rows that are stale to the others.
LEMMA CommitSpoils ==
    ASSUME IInv, NEW t \in Txs, NEW W \in SUBSET Rows, EndWriting(t, W),
           NEW u \in Txs, Running(u)'
    PROVE  /\ u # t /\ Running(u) /\ tx'[u].m = tx[u].m /\ tx'[u].at = tx[u].at
           /\ tx'[u].seen = tx[u].seen /\ tx'[u].targetRev = tx[u].targetRev
           /\ tx'[u].stale = tx[u].stale \cup W /\ locked'[u] = locked[u]
<1>1. u # t
  BY CommitEffects, CommandAssumption DEF Running
<1>2. tx'[u].m = tx[u].m /\ tx'[u].at = tx[u].at /\ tx'[u].seen = tx[u].seen
      /\ locked'[u] = locked[u]
  BY <1>1, CommitEffects
<1>3. Running(u) /\ tx[u].m # NoMutation
  BY <1>2, CommandAssumption DEF Running
<1>4. tx'[u] = [tx[u] EXCEPT !.stale = tx[u].stale \cup W] /\ tx[u] \in Transactions
  BY <1>1, <1>3 DEF EndWriting, IInv, TypeOK
<1>5. tx'[u].targetRev = tx[u].targetRev /\ tx'[u].stale = tx[u].stale \cup W
  BY <1>4 DEF Transactions
<1> QED BY <1>1, <1>2, <1>3, <1>5

\* A transaction that has taken its last step holds every row that it writes.
LEMMA WritesLocked ==
    ASSUME IInv, NEW t \in Txs, Running(t), ~HasNextRow(tx[t]), Kind[tx[t].m] # "moveList"
    PROVE  /\ Written(tx[t]) \in SUBSET locked[t]
           /\ Kind[tx[t].m] = "updateCard" => tx[t].at >= 2
           /\ Kind[tx[t].m] = "moveCard" => tx[t].at >= 4
           /\ Kind[tx[t].m] \in CardKinds => CardRow(CardOf[tx[t].m]) \in locked[t]
           /\ Kind[tx[t].m] = "moveCard" => ListRow(Target[tx[t].m]) \in locked[t]
<1> DEFINE m == tx[t].m
           s == tx[t].seen.list
           b == BoardFor(m)
<1>1. m \in Mutations /\ s \in Lists /\ Kind[m] \in Kinds
      /\ (Kind[m] \in CardKinds <=> CardOf[m] \in Cards)
  BY CommandAssumption DEF Running, IInv, TypeOK, Transactions, CardRows
<1>2. Steps(m, s) \in Seq(Rows)
  BY <1>1, StepsOfCommands
<1>3. tx[t].at = Len(Steps(m, s)) /\ \A i \in 1..Len(Steps(m, s)) : Steps(m, s)[i] \in locked[t]
  BY <1>1, <1>2 DEF IInv, HoldsItsSteps, StepsOf, HasNextRow
<1>4. CASE Kind[m] = "moveCard"
  <2>1. Steps(m, s) = <<CardRow(CardOf[m]), ListRow(Target[m]), BoardRow(b), ListRow(s),
                        CounterRow(b), KeyRow(m)>>
    BY <1>4 DEF Steps
  <2>2. /\ tx[t].at = 6 /\ CardRow(CardOf[m]) \in locked[t] /\ ListRow(Target[m]) \in locked[t]
        /\ ListRow(s) \in locked[t] /\ CounterRow(b) \in locked[t] /\ KeyRow(m) \in locked[t]
    BY <1>3, <2>1
  <2>3. Touched(tx[t]) = {s, Target[m]}
    BY <1>4 DEF Touched
  <2> QED BY <1>4, <2>2, <2>3 DEF Written
<1>5. CASE Kind[m] \in {"updateCard", "deleteCard"}
  <2>1. Steps(m, s) = <<CardRow(CardOf[m]), ListRow(s), CounterRow(b), BoardRow(b), KeyRow(m)>>
    BY <1>5 DEF Steps
  <2>2. /\ tx[t].at = 5 /\ CardRow(CardOf[m]) \in locked[t]
        /\ ListRow(s) \in locked[t] /\ CounterRow(b) \in locked[t] /\ KeyRow(m) \in locked[t]
    BY <1>3, <2>1
  <2>3. Touched(tx[t]) = {s}
    BY <1>5 DEF Touched
  <2> QED BY <1>5, <2>2, <2>3 DEF Written
<1>6. CASE Kind[m] = "createCard"
  <2>1. Steps(m, s) = <<ListRow(Target[m]), CounterRow(b), BoardRow(b), KeyRow(m)>>
    BY <1>6 DEF Steps
  <2>2. /\ ListRow(Target[m]) \in locked[t]
        /\ CounterRow(b) \in locked[t] /\ KeyRow(m) \in locked[t]
    BY <1>3, <2>1
  <2>3. Touched(tx[t]) = {Target[m]} /\ CardOf[m] \notin Cards
    BY <1>1, <1>6 DEF Touched, CardKinds
  <2> QED BY <1>6, <2>2, <2>3 DEF Written, CardKinds
<1>7. CASE Kind[m] = "createList"
  <2>1. Steps(m, s) = <<BoardRow(b), CounterRow(b)>>
    BY <1>7 DEF Steps
  <2>2. BoardRow(b) \in locked[t] /\ CounterRow(b) \in locked[t]
    BY <1>3, <2>1
  <2>3. Touched(tx[t]) = {} /\ CardOf[m] \notin Cards /\ ~Keyed(m)
    BY <1>1, <1>7 DEF Touched, CardKinds, Keyed
  <2> QED BY <1>7, <2>2, <2>3 DEF Written, CardKinds
<1> QED BY <1>1, <1>4, <1>5, <1>6, <1>7 DEF Kinds, CardKinds

\* An event quotes the revision that its command compared.
LEMMA QuotesCompared ==
    ASSUME IInv, RevisionInv, NEW t \in Txs, Running(t), Finish(t)
    PROVE  AppliedOnExpectedRevision'
<1> DEFINE m == tx[t].m
           b == BoardFor(m)
           e == EventOf(tx[t])
<1>1. ~HasNextRow(tx[t]) /\ Kind[m] # "moveList" /\ m \in Mutations
      /\ log' = [log EXCEPT ![b] = Append(@, e)]
  BY DEF Finish
<1>2. b \in Boards /\ log \in [Boards -> Seq(Events)]
      /\ (Kind[m] \in CardKinds <=> CardOf[m] \in Cards)
  BY <1>1, StepsOfCommands, CommandAssumption DEF IInv, TypeOK, Transactions, CardRows
<1>3. e.m = m /\ (Kind[m] \in {"moveCard", "updateCard"} => Expect[m] \in {Unstated, e.base})
  <2>1. CASE Kind[m] = "updateCard"
    <3>1. tx[t].at >= 2 /\ CardRow(CardOf[m]) \in locked[t]
      BY <1>1, <2>1, WritesLocked DEF CardKinds
    <3>2. tx[t].seen = card[CardOf[m]]
      BY <1>2, <2>1, <3>1 DEF RevisionInv, LocksFresh, SnapshotTrue, CardKinds
    <3>3. Expect[m] \in {Unstated, tx[t].seen.rev}
      BY <2>1, <3>1 DEF RevisionInv, Compared
    <3> QED BY <2>1, <3>2, <3>3 DEF EventOf
  <2>2. CASE Kind[m] = "moveCard"
    <3>1. tx[t].at >= 4 /\ ListRow(Target[m]) \in locked[t]
      BY <1>1, <2>2, WritesLocked
    <3>2. tx[t].targetRev = listRev[Target[m]]
      BY <3>1 DEF RevisionInv, LocksFresh, SnapshotTrue
    <3>3. Expect[m] \in {Unstated, tx[t].targetRev}
      BY <2>2, <3>1 DEF RevisionInv, Compared
    <3> QED BY <2>2, <3>2, <3>3 DEF EventOf
  <2> QED BY <2>1, <2>2 DEF EventOf
<1> HIDE DEF e, b, m
<1>4. ASSUME NEW d \in Boards, NEW i \in DOMAIN log'[d]
      PROVE  log'[d][i] = e \/ (i \in DOMAIN log[d] /\ log'[d][i] = log[d][i])
  <2>1. CASE d = b
    <3>1. log'[b] = Append(log[b], e) /\ log[b] \in Seq(Events)
      BY <1>1, <1>2
    <3>2. DOMAIN log'[b] = 1..(Len(log[b]) + 1) /\ DOMAIN log[b] = 1..Len(log[b])
      BY <3>1
    <3> QED BY <2>1, <3>1, <3>2
  <2>2. CASE d # b
    BY <1>1, <1>2, <2>2
  <2> QED BY <2>1, <2>2
<1> SUFFICES ASSUME NEW d \in Boards, NEW i \in DOMAIN log'[d],
                    Kind[log'[d][i].m] \in {"moveCard", "updateCard"}
             PROVE  Expect[log'[d][i].m] \in {Unstated, log'[d][i].base}
  BY DEF AppliedOnExpectedRevision
<1>5. CASE log'[d][i] = e
  BY <1>3, <1>5
<1>6. CASE i \in DOMAIN log[d] /\ log'[d][i] = log[d][i]
  BY <1>6 DEF RevisionInv, AppliedOnExpectedRevision
<1> QED BY <1>4, <1>5, <1>6

\* A commit that changes a card or a list's revision makes its row stale to all
\* other transactions, and none of them holds it.
LEMMA CommitKeepsSnapshots ==
    ASSUME IInv, RevisionInv, NEW t \in Txs, Running(t), NEW W \in SUBSET Rows,
           EndWriting(t, W), W \in SUBSET locked[t],
           \A c \in Cards : card'[c] = card[c] \/ CardRow(c) \in W,
           \A l \in Lists : listRev'[l] = listRev[l] \/ ListRow(l) \in W
    PROVE  SnapshotTrue' /\ LocksFresh' /\ Compared'
<1>1. ASSUME NEW u \in Txs, Running(u)'
      PROVE  /\ u # t /\ Running(u) /\ tx'[u].m = tx[u].m /\ tx'[u].at = tx[u].at
             /\ tx'[u].seen = tx[u].seen /\ tx'[u].targetRev = tx[u].targetRev
             /\ tx'[u].stale = tx[u].stale \cup W /\ locked'[u] = locked[u]
  BY <1>1, CommitSpoils
<1>2. SnapshotTrue'
  <2> SUFFICES ASSUME NEW u \in Txs, Running(u)'
               PROVE  /\ (CardOf[tx'[u].m] \in Cards /\ CardRow(CardOf[tx'[u].m]) \notin tx'[u].stale)
                            => tx'[u].seen = card'[CardOf[tx'[u].m]]
                      /\ ListRow(Target[tx'[u].m]) \notin tx'[u].stale
                            => tx'[u].targetRev = listRev'[Target[tx'[u].m]]
    BY DEF SnapshotTrue
  <2>1. Target[tx[u].m] \in Lists
    BY <1>1, CommandAssumption DEF Running
  <2> QED BY <1>1, <2>1 DEF RevisionInv, SnapshotTrue
<1>3. LocksFresh'
  BY <1>1 DEF IInv, LocksDisjoint, RevisionInv, LocksFresh
<1>4. Compared'
  BY <1>1 DEF RevisionInv, Compared
<1> QED BY <1>2, <1>3, <1>4

LEMMA RevisionInitial == Init => RevisionInv
<1> SUFFICES ASSUME Init PROVE RevisionInv
  OBVIOUS
<1>1. \A t \in Txs : ~Running(t)
  BY CommandAssumption DEF Init, Running, Idle
<1> QED BY <1>1 DEF Init, RevisionInv, SnapshotTrue, LocksFresh, Compared,
        AppliedOnExpectedRevision

LEMMA RevisionInductive == IInv /\ RevisionInv /\ [Next]_vars => RevisionInv'
<1> SUFFICES ASSUME IInv, RevisionInv, [Next]_vars PROVE RevisionInv'
  OBVIOUS
<1> USE DEF RevisionInv
<1>1. ASSUME UNCHANGED <<card, listRev, log>>, NEW t \in Txs,
             \A u \in Txs : u # t => tx'[u] = tx[u] /\ locked'[u] = locked[u],
             ~Running(t)'
      PROVE  RevisionInv'
  <2>1. \A u \in Txs : Running(u)' => Running(u) /\ tx'[u] = tx[u] /\ locked'[u] = locked[u]
    BY <1>1 DEF Running
  <2> QED BY <1>1, <2>1 DEF SnapshotTrue, LocksFresh, Compared, AppliedOnExpectedRevision
<1>2. ASSUME UNCHANGED <<card, listRev, log, tx, locked>> PROVE RevisionInv'
  BY <1>2 DEF SnapshotTrue, LocksFresh, Compared, AppliedOnExpectedRevision, Running
<1>3. CASE UNCHANGED vars
  BY <1>2, <1>3 DEF vars
<1>4. ASSUME NEW m \in Mutations, Replay(m) PROVE RevisionInv'
  BY <1>2, <1>4 DEF Replay, tables
<1>5. ASSUME NEW m \in Mutations, NEW t \in Txs, Begin(t, m) PROVE RevisionInv'
  <2>1. tx'[t].m = m /\ tx'[t].at = 0 /\ tx'[t].stale = {}
        /\ (CardOf[m] \in Cards => tx'[t].seen = card[CardOf[m]])
        /\ tx'[t].targetRev = listRev[Target[m]]
    BY <1>5 DEF Begin, Idle, IInv, TypeOK
  <2>2. \A u \in Txs : u # t => tx'[u] = tx[u]
    BY <1>5 DEF Begin
  <2>3. UNCHANGED <<card, listRev, log, locked>>
    BY <1>5 DEF Begin, tables
  <2>4. \A u \in Txs : u # t /\ Running(u)' => Running(u)
    BY <2>2 DEF Running
  <2> QED BY <2>1, <2>2, <2>3, <2>4 DEF SnapshotTrue, LocksFresh, Compared,
          AppliedOnExpectedRevision
<1>6. ASSUME NEW t \in Txs, Running(t), Lock(t) PROVE RevisionInv'
  <2> DEFINE r == NextRow(tx[t])
  <2>1. /\ tx'[t].m = tx[t].m /\ tx'[t].at = tx[t].at + 1 /\ tx'[t].seen = tx[t].seen
        /\ tx'[t].stale = tx[t].stale /\ tx'[t].targetRev = tx[t].targetRev
        /\ tx[t].at \in Nat
    BY <1>6 DEF Lock, TakeSequence, IInv, TypeOK, Transactions
  <2>2. /\ \A u \in Txs : u # t => tx'[u] = tx[u] /\ locked'[u] = locked[u]
        /\ locked'[t] = locked[t] \cup {r} /\ r \notin tx[t].stale
        /\ UNCHANGED <<card, listRev, log>> /\ ~Refusal(tx[t])
    BY <1>6 DEF Lock, TakeSequence, Refused, IInv, TypeOK
  <2>3. \A u \in Txs : Running(u)' => Running(u)
    BY <2>1, <2>2 DEF Running
  <2> HIDE DEF r
  <2>4. SnapshotTrue' /\ LocksFresh' /\ AppliedOnExpectedRevision'
    BY <2>1, <2>2, <2>3 DEF SnapshotTrue, LocksFresh, AppliedOnExpectedRevision
  <2>5. /\ (Kind[tx[t].m] = "updateCard" /\ tx[t].at + 1 >= 2)
              => Expect[tx[t].m] \in {Unstated, tx[t].seen.rev}
        /\ (Kind[tx[t].m] = "moveCard" /\ tx[t].at + 1 >= 4)
              => Expect[tx[t].m] \in {Unstated, tx[t].targetRev}
    <3>1. tx[t].at + 1 >= 2 => tx[t].at = 1 \/ tx[t].at >= 2
      BY <2>1
    <3>2. tx[t].at + 1 >= 4 => tx[t].at = 3 \/ tx[t].at >= 4
      BY <2>1
    <3> QED BY <1>6, <2>2, <3>1, <3>2 DEF Refusal, Compared
  <2>6. Compared'
    BY <2>1, <2>2, <2>3, <2>5 DEF Compared
  <2> QED BY <2>4, <2>6
<1>7. ASSUME NEW t \in Txs, Running(t), Finish(t) PROVE RevisionInv'
  <2> DEFINE x == tx[t]
  <2>1. ~HasNextRow(x) /\ Kind[x.m] # "moveList" /\ EndWriting(t, Written(x))
        /\ card' = [c \in Cards |-> IF c = CardOf[x.m] THEN CardAfter(x, card[c]) ELSE card[c]]
        /\ listRev' = [l \in Lists |-> IF l \in Touched(x) THEN listRev[l] + 1 ELSE listRev[l]]
    BY <1>7 DEF Finish
  <2>2. Written(x) \in SUBSET Rows /\ Written(x) \in SUBSET locked[t]
    BY <1>7, <2>1, WrittenRows, WritesLocked
  <2>3. /\ \A c \in Cards : card'[c] = card[c] \/ CardRow(c) \in Written(x)
        /\ \A l \in Lists : listRev'[l] = listRev[l] \/ ListRow(l) \in Written(x)
    BY <2>1 DEF Written
  <2>4. SnapshotTrue' /\ LocksFresh' /\ Compared'
    BY <1>7, <2>1, <2>2, <2>3, CommitKeepsSnapshots
  <2> QED BY <1>7, <2>4, QuotesCompared
<1>8. ASSUME NEW t \in Txs, Running(t), SaveList(t) PROVE RevisionInv'
  <2> DEFINE m == tx[t].m
             W == {ListRow(Target[m])}
  <2>1. EndWriting(t, W) /\ UNCHANGED <<card, listRev, log>>
        /\ ~HasNextRow(tx[t]) /\ Kind[m] = "moveList" /\ m \in Mutations
    BY <1>8 DEF SaveList
  <2>2. Target[m] \in Lists /\ W \in SUBSET Rows
    BY <2>1, CommandAssumption DEF Rows
  <2>3. Steps(m, tx[t].seen.list) = <<ListRow(Target[m])>>
    BY <2>1 DEF Steps, CardKinds
  <2>4. ListRow(Target[m]) \in locked[t]
    <3>1. Len(StepsOf(t)) = 1 /\ StepsOf(t)[1] = ListRow(Target[m])
      BY <2>3 DEF StepsOf
    <3>2. tx[t].at = 1
      BY <1>8, <2>1, <3>1 DEF IInv, HoldsItsSteps, HasNextRow, StepsOf
    <3> QED BY <1>8, <3>1, <3>2 DEF IInv, HoldsItsSteps
  <2> HIDE DEF m, W
  <2>5. SnapshotTrue' /\ LocksFresh' /\ Compared'
    BY <1>8, <2>1, <2>2, <2>4, CommitKeepsSnapshots DEF W
  <2>6. AppliedOnExpectedRevision'
    BY <2>1 DEF AppliedOnExpectedRevision
  <2> QED BY <2>5, <2>6
<1>9. ASSUME NEW t \in Txs, Running(t), End(t), UNCHANGED <<tables, answers, attempts>>
      PROVE  RevisionInv'
  <2>1. /\ \A u \in Txs : u # t => tx'[u] = tx[u] /\ locked'[u] = locked[u]
        /\ tx'[t].m = NoMutation /\ UNCHANGED <<card, listRev, log>>
    BY <1>9 DEF End, Idle, IInv, TypeOK, tables
  <2>2. ~Running(t)'
    BY <2>1, CommandAssumption DEF Running
  <2> QED BY <1>1, <2>1, <2>2
<1> QED BY <1>3, <1>4, <1>5, <1>6, <1>7, <1>8, <1>9, NextCases

\* An update or a move that states a revision is only in the log of its board if
\* the card or the target list had that revision when it was committed: what was
\* compared in the snapshot is still true behind it.
THEOREM ExpectationsMet == Spec => []AppliedOnExpectedRevision
<1>1. RevisionInv => AppliedOnExpectedRevision
  BY DEF RevisionInv
<1> QED BY <1>1, RevisionInitial, Invariant, RevisionInductive, PTL DEF Spec
-----------------------------------------------------------------------------
(* The history of a card. The event that a command appends tells of the card   *)
(* in its snapshot, which is the one in the table as long as the command holds *)
(* its row; and a command that has locked anything has found its card alive.   *)

\* A transaction past its first read has found its card.
FoundAlive == \A t \in Txs : (Running(t) /\ Kind[tx[t].m] \in CardKinds /\ tx[t].at >= 1)
                                => tx[t].seen.live

HistoryInv == LogIsHistory /\ FoundAlive

\* The card that a commit writes is the one of its snapshot, and was alive.
LEMMA CommitsWhatItSaw ==
    ASSUME IInv, RevisionInv, HistoryInv, NEW t \in Txs, Running(t), Finish(t),
           Kind[tx[t].m] \in CardKinds
    PROVE  tx[t].seen = card[CardOf[tx[t].m]] /\ tx[t].seen.live
<1> DEFINE m == tx[t].m
<1>1. ~HasNextRow(tx[t]) /\ Kind[m] # "moveList" /\ m \in Mutations
  BY DEF Finish
<1>2. CardOf[m] \in Cards /\ CardRow(CardOf[m]) \in locked[t]
  BY <1>1, WritesLocked, CommandAssumption
<1>3. tx[t].seen = card[CardOf[m]]
  BY <1>2 DEF RevisionInv, LocksFresh, SnapshotTrue
<1>4. tx[t].at >= 1
  <2>1. StepsOf(t) \in Seq(Rows) /\ tx[t].seen.list \in Lists /\ tx[t].at = Len(StepsOf(t))
    <3>1. tx[t].seen.list \in Lists
      BY DEF IInv, TypeOK, Transactions, CardRows
    <3>2. StepsOf(t) \in Seq(Rows)
      BY <1>1, <3>1, StepsOfCommands DEF StepsOf
    <3>3. tx[t].at \in 0..Len(StepsOf(t)) /\ ~(tx[t].at < Len(StepsOf(t)))
      BY <1>1 DEF IInv, HoldsItsSteps, HasNextRow, StepsOf
    <3> QED BY <3>1, <3>2, <3>3
  <2>2. \E i \in 1..Len(StepsOf(t)) : TRUE
    BY <1>1, <2>1, StepsOfCommands DEF StepsOf
  <2> QED BY <2>1, <2>2
<1> QED BY <1>1, <1>3, <1>4 DEF HistoryInv, FoundAlive

LEMMA PlacesFinite == ASSUME NEW k \in Int PROVE IsFiniteSet(1..k)
  BY FS_Interval

\* An event that starts where the card is, and comes after all others about the
\* card, continues its history.
LEMMA HistoryGoesOn ==
    ASSUME NEW h, NEW g, NEW n \in Nat, NEW E \in SUBSET (1..(n - 1)), NEW first,
           NEW row, NEW next, Tells(h, E, first, row), row.live, g[n].from = row.list,
           \A i \in E : g[i] = h[i],
           next.list = ListAfter(g[n]), row.rev \in Nat,
           next.rev = IF Kind[g[n].m] = "updateCard" THEN row.rev + 1 ELSE row.rev,
           next.live <=> Kind[g[n].m] # "deleteCard"
    PROVE  Tells(g, E \cup {n}, first, next)
<1> DEFINE F == E \cup {n}
<1>1. \A i \in E : i \in Nat /\ i < n /\ ~(n <= i) /\ i <= n /\ ~(n < i) /\ i # n
  OBVIOUS
<1>2. \A i \in E : Kind[h[i].m] # "deleteCard"
  BY DEF Tells
<1>3. \A i \in F : (\A k \in F : i <= k) => g[i].from = first
  <2>1. /\ \A i \in E : (\A k \in E : i <= k) => h[i].from = first
        /\ E = {} => row.list = first
    BY DEF Tells
  <2> QED BY <1>1, <2>1
<1>4. \A i, j \in F : NextOf(F, i, j) => g[j].from = ListAfter(g[i])
  <2>1. /\ \A i, j \in E : NextOf(E, i, j) => h[j].from = ListAfter(h[i])
        /\ \A i \in E : LastOf(E, i) => row.list = ListAfter(h[i])
    BY DEF Tells
  <2> SUFFICES ASSUME NEW i \in F, NEW j \in F, NextOf(F, i, j)
               PROVE  g[j].from = ListAfter(g[i])
    OBVIOUS
  <2>2. i \in E
    BY <1>1 DEF NextOf
  <2>3. CASE j = n
    <3>1. LastOf(E, i)
      BY <1>1, <2>2, <2>3 DEF NextOf, LastOf
    <3> QED BY <2>1, <2>2, <2>3, <3>1
  <2>4. CASE j \in E
    <3>1. NextOf(E, i, j)
      BY <2>2, <2>4 DEF NextOf
    <3> QED BY <2>1, <2>2, <2>4, <3>1
  <2> QED BY <2>3, <2>4
<1>5. \A i \in F : LastOf(F, i) <=> i = n
  BY <1>1 DEF LastOf
<1>6. \A i \in F : Kind[g[i].m] = "deleteCard" => LastOf(F, i)
  BY <1>2, <1>5
<1>7. \A i \in F : LastOf(F, i) => next.list = ListAfter(g[i])
  BY <1>5
<1>8. next.rev = 1 + Cardinality({i \in F : Kind[g[i].m] = "updateCard"})
  <2> DEFINE U == {i \in E : Kind[h[i].m] = "updateCard"}
             V == {i \in F : Kind[g[i].m] = "updateCard"}
  <2>1. IsFiniteSet(U) /\ Cardinality(U) \in Nat
    <3>1. n - 1 \in Int
      OBVIOUS
    <3>2. IsFiniteSet(1..(n - 1))
      BY <3>1, PlacesFinite
    <3>3. IsFiniteSet(U)
      BY <3>2, FS_Subset
    <3> QED BY <3>3, FS_CardinalityType
  <2>2. row.rev = 1 + Cardinality(U)
    BY DEF Tells
  <2>3. CASE Kind[g[n].m] = "updateCard"
    <3>1. V = U \cup {n} /\ n \notin U
      BY <1>1, <2>3
    <3>2. Cardinality(V) = Cardinality(U) + 1
      BY <2>1, <3>1, FS_AddElement
    <3> QED BY <2>1, <2>2, <2>3, <3>2
  <2>4. CASE Kind[g[n].m] # "updateCard"
    <3>1. V = U
      BY <1>1, <2>4
    <3> QED BY <2>2, <2>4, <3>1
  <2> QED BY <2>3, <2>4
<1>9. next.live <=> \A i \in F : Kind[g[i].m] # "deleteCard"
  BY <1>2
<1>10. F # {}
  OBVIOUS
<1> QED BY <1>3, <1>4, <1>6, <1>7, <1>8, <1>9, <1>10 DEF Tells

\* A history is told by the events at its places and by no others.
LEMMA HistoryStands ==
    ASSUME NEW h, NEW g, NEW E, NEW first, NEW row, Tells(h, E, first, row),
           \A i \in E : g[i] = h[i]
    PROVE  Tells(g, E, first, row)
<1>1. {i \in E : Kind[h[i].m] = "updateCard"} = {i \in E : Kind[g[i].m] = "updateCard"}
  OBVIOUS
<1>2. /\ \A i \in E : (\A k \in E : i <= k) => g[i].from = first
      /\ \A i, j \in E : NextOf(E, i, j) => g[j].from = ListAfter(g[i])
  BY DEF Tells
<1>3. \A i \in E : Kind[g[i].m] = "deleteCard" => LastOf(E, i)
  BY DEF Tells
<1>4. \A i \in E : LastOf(E, i) => row.list = ListAfter(g[i])
  BY DEF Tells
<1>5. (E = {} => row.list = first) /\ row.rev = 1 + Cardinality({i \in E : Kind[g[i].m] = "updateCard"})
  BY <1>1 DEF Tells
<1>6. row.live <=> \A i \in E : Kind[g[i].m] # "deleteCard"
  BY DEF Tells
<1> QED BY <1>2, <1>3, <1>4, <1>5, <1>6 DEF Tells

\* The event of the command comes last, starts where the card is and says where
\* it is left; the histories of the other cards stay as they are.
LEMMA HistoryFinish ==
    ASSUME IInv, RevisionInv, HistoryInv, NEW t \in Txs, Running(t), Finish(t)
    PROVE  LogIsHistory'
<1> DEFINE x == tx[t]
           m == tx[t].m
           b == BoardFor(m)
           e == EventOf(tx[t])
           n == Len(log[b]) + 1
<1>1. /\ m \in Mutations /\ b \in Boards /\ log \in [Boards -> Seq(Events)]
      /\ card \in [Cards -> CardRows] /\ (CardOf[m] \in Cards <=> Kind[m] \in CardKinds)
      /\ log' = [log EXCEPT ![b] = Append(@, e)]
      /\ card' = [c \in Cards |-> IF c = CardOf[m] THEN CardAfter(x, card[c]) ELSE card[c]]
  BY StepsOfCommands, CommandAssumption DEF Running, IInv, TypeOK, Transactions, CardRows, Finish
<1>2. e.m = m /\ e.from = x.seen.list
  BY DEF EventOf
<1> HIDE DEF e, b
<1>3. /\ n \in Nat /\ log'[b][n] = e /\ DOMAIN log[b] = 1..(n - 1)
      /\ DOMAIN log'[b] = DOMAIN log[b] \cup {n} /\ n \notin DOMAIN log[b]
      /\ \A i \in DOMAIN log[b] : log'[b][i] = log[b][i]
      /\ \A d \in Boards : d # b => log'[d] = log[d]
  <2>1. log[b] \in Seq(Events)
    BY <1>1
  <2>2. log'[b] = Append(log[b], e)
    BY <1>1
  <2>3. /\ DOMAIN log[b] = 1..Len(log[b]) /\ Len(log[b]) \in Nat
        /\ DOMAIN log'[b] = 1..(Len(log[b]) + 1) /\ log'[b][Len(log[b]) + 1] = e
        /\ \A i \in 1..Len(log[b]) : log'[b][i] = log[b][i]
    BY <2>1, <2>2
  <2> QED BY <1>1, <2>3
<1> HIDE DEF n
<1> SUFFICES ASSUME NEW c \in Cards, StaysOnBoard(c)
             PROVE  Tells(log'[BoardOf[c]], EventsAbout(c)', Home[c], card'[c])
  BY DEF LogIsHistory, StaysOnBoard, BoardFor
<1> DEFINE h == log[BoardOf[c]]
           E == EventsAbout(c)
<1>4. Tells(h, E, Home[c], card[c]) /\ BoardOf[c] \in Boards
  BY CommandAssumption DEF HistoryInv, LogIsHistory
<1>5. E = {i \in DOMAIN h : CardOf[h[i].m] = c}
      /\ EventsAbout(c)' = {i \in DOMAIN log'[BoardOf[c]] : CardOf[log'[BoardOf[c]][i].m] = c}
  BY DEF EventsAbout
<1> HIDE DEF E
<1>6. CASE c = CardOf[m]
  <2>1. b = BoardOf[c] /\ Kind[m] \in CardKinds
    BY <1>1, <1>6 DEF StaysOnBoard, b
  <2>2. EventsAbout(c)' = E \cup {n} /\ E \in SUBSET (1..(n - 1))
        /\ \A i \in E : log'[b][i] = log[b][i]
    <3>1. /\ E = {i \in DOMAIN log[b] : CardOf[log[b][i].m] = c}
          /\ EventsAbout(c)' = {i \in DOMAIN log'[b] : CardOf[log'[b][i].m] = c}
      BY <1>5, <2>1
    <3> QED BY <1>2, <1>3, <1>6, <3>1
  <2>3. x.seen = card[c] /\ x.seen.live /\ card[c] \in CardRows
    BY <1>1, <1>6, <2>1, CommitsWhatItSaw
  <2>4. /\ card'[c].list = ListAfter(e)
        /\ card'[c].rev = IF Kind[m] = "updateCard" THEN card[c].rev + 1 ELSE card[c].rev
        /\ card'[c].live <=> Kind[m] # "deleteCard"
    <3>1. card'[c] = CardAfter(x, card[c])
      BY <1>1, <1>6
    <3> QED BY <1>2, <2>1, <2>3, <3>1 DEF CardAfter, ListAfter, CardRows, CardKinds
  <2>5. card[c].rev \in Nat
    BY <2>3 DEF CardRows
  <2> QED BY <1>2, <1>3, <1>4, <2>1, <2>2, <2>3, <2>4, <2>5, HistoryGoesOn
<1>7. CASE c # CardOf[m]
  <2>1. card'[c] = card[c]
    BY <1>1, <1>7
  <2>2. EventsAbout(c)' = E /\ \A i \in E : log'[BoardOf[c]][i] = h[i]
    BY <1>2, <1>3, <1>4, <1>5, <1>7
  <2> QED BY <1>4, <2>1, <2>2, HistoryStands
<1> QED BY <1>6, <1>7

LEMMA HistoryInductive ==
    IInv /\ RevisionInv /\ HistoryInv /\ [Next]_vars => HistoryInv'
<1> SUFFICES ASSUME IInv, RevisionInv, HistoryInv, [Next]_vars PROVE HistoryInv'
  OBVIOUS
<1>1. ASSUME UNCHANGED <<card, log>> PROVE LogIsHistory'
  BY <1>1 DEF HistoryInv, LogIsHistory, EventsAbout
<1>2. ASSUME NEW t \in Txs, \A u \in Txs : u # t => tx'[u] = tx[u],
             Running(t)' /\ Kind[tx'[t].m] \in CardKinds /\ tx'[t].at >= 1 => tx'[t].seen.live
      PROVE  FoundAlive'
  BY <1>2 DEF HistoryInv, FoundAlive, Running
<1>3. ASSUME NEW t \in Txs, NEW W \in SUBSET Rows, EndWriting(t, W) PROVE FoundAlive'
  <2>1. \A u \in Txs : Running(u)' => /\ Running(u) /\ tx'[u].m = tx[u].m
                                      /\ tx'[u].at = tx[u].at /\ tx'[u].seen = tx[u].seen
    BY <1>3, CommitSpoils
  <2> QED BY <2>1 DEF HistoryInv, FoundAlive
<1>4. CASE UNCHANGED vars
  BY <1>1, <1>4 DEF HistoryInv, FoundAlive, Running, vars
<1>5. ASSUME NEW m \in Mutations, Replay(m) PROVE HistoryInv'
  BY <1>1, <1>5 DEF HistoryInv, FoundAlive, Running, Replay, tables
<1>6. ASSUME NEW m \in Mutations, NEW t \in Txs, Begin(t, m) PROVE HistoryInv'
  <2>1. tx'[t].at = 0 /\ \A u \in Txs : u # t => tx'[u] = tx[u]
    BY <1>6 DEF Begin, Idle, IInv, TypeOK
  <2>2. FoundAlive'
    BY <1>2, <2>1
  <2> QED BY <1>1, <1>6, <2>2 DEF HistoryInv, Begin, tables
<1>7. ASSUME NEW t \in Txs, Running(t), Lock(t) PROVE HistoryInv'
  <2>1. /\ tx'[t].m = tx[t].m /\ tx'[t].at = tx[t].at + 1 /\ tx'[t].seen = tx[t].seen
        /\ tx[t].at \in Nat /\ \A u \in Txs : u # t => tx'[u] = tx[u]
        /\ UNCHANGED <<card, log>> /\ ~Refusal(tx[t])
    BY <1>7 DEF Lock, TakeSequence, IInv, TypeOK, Transactions
  <2>2. Kind[tx[t].m] \in CardKinds => tx[t].seen.live
    <3>1. tx[t].at = 0 \/ tx[t].at >= 1
      BY <2>1
    <3> QED BY <1>7, <2>1, <3>1 DEF Refusal, HistoryInv, FoundAlive
  <2>3. FoundAlive'
    BY <1>2, <2>1, <2>2
  <2> QED BY <1>1, <2>1, <2>3 DEF HistoryInv
<1>8. ASSUME NEW t \in Txs, Running(t), Finish(t) PROVE HistoryInv'
  <2>1. Written(tx[t]) \in SUBSET Rows /\ EndWriting(t, Written(tx[t]))
    BY <1>8, WrittenRows DEF Finish
  <2> QED BY <1>3, <1>8, <2>1, HistoryFinish DEF HistoryInv
<1>9. ASSUME NEW t \in Txs, Running(t), SaveList(t) PROVE HistoryInv'
  <2>1. {ListRow(Target[tx[t].m])} \in SUBSET Rows
    BY <1>9, CommandAssumption DEF Running, Rows
  <2>2. EndWriting(t, {ListRow(Target[tx[t].m])}) /\ UNCHANGED <<card, log>>
    BY <1>9 DEF SaveList
  <2> QED BY <1>1, <1>3, <2>1, <2>2 DEF HistoryInv
<1>10. ASSUME NEW t \in Txs, Running(t), End(t), UNCHANGED <<tables, answers, attempts>>
       PROVE  HistoryInv'
  <2>1. /\ \A u \in Txs : u # t => tx'[u] = tx[u]
        /\ tx'[t].m = NoMutation /\ UNCHANGED <<card, log>>
    BY <1>10 DEF End, Idle, IInv, TypeOK, tables
  <2>2. FoundAlive'
    BY <1>2, <2>1, CommandAssumption DEF Running
  <2> QED BY <1>1, <2>1, <2>2 DEF HistoryInv
<1> QED BY <1>4, <1>5, <1>6, <1>7, <1>8, <1>9, <1>10, NextCases

\* At first no card has a history.
LEMMA InitialHistory == Init => HistoryInv
<1> SUFFICES ASSUME Init PROVE HistoryInv
  OBVIOUS
<1>1. \A t \in Txs : ~Running(t)
  BY CommandAssumption DEF Init, Running, Idle
<1>2. ASSUME NEW c \in Cards
      PROVE  Tells(log[BoardOf[c]], EventsAbout(c), Home[c], card[c])
  <2>1. log[BoardOf[c]] = <<>>
    BY CommandAssumption DEF Init
  <2>2. EventsAbout(c) = {}
    BY <2>1 DEF EventsAbout
  <2>3. Cardinality({}) = 0
    BY FS_EmptySet
  <2>4. card[c] = [list |-> Home[c], rev |-> 1, live |-> TRUE]
    BY DEF Init
  <2>5. {i \in {} : Kind[log[BoardOf[c]][i].m] = "updateCard"} = {}
    OBVIOUS
  <2> QED BY <2>2, <2>3, <2>4, <2>5 DEF Tells
<1> QED BY <1>1, <1>2 DEF HistoryInv, LogIsHistory, FoundAlive

\* The log of a board tells the history of each of its cards, and to apply all the
\* events of a card gives the card in the table: no move or edit is overwritten by
\* one that had read the card before it, and no deleted card comes back.
THEOREM LogTellsHistory == Spec => []LogIsHistory
<1>1. HistoryInv => LogIsHistory
  BY DEF HistoryInv
<1> QED BY <1>1, InitialHistory, RevisionInitial, Invariant, RevisionInductive,
           HistoryInductive, PTL DEF Spec
-----------------------------------------------------------------------------
(* The transactions implement commands that take effect one at a time. All that *)
(* a transaction read in its snapshot and that its effect depends on is still   *)
(* true when it commits, by the invariants above; so its commit is the step of  *)
(* SerialBoard, and every other step changes nothing a client or a table tells. *)

\* What a record makes the server answer again, it has answered before.
RecordsAnswered == \A m \in Mutations : keys[m] # 0 => keys[m] \in answers[m]

SerialInv == IInv /\ RevisionInv /\ HistoryInv /\ RecordsAnswered

\* Its sequence is the next one of its board's log, and it has no event there yet.
LEMMA FinishesNext ==
    ASSUME IInv, NEW t \in Txs, Running(t), Finish(t)
    PROVE  /\ tx[t].seq = Len(log[BoardFor(tx[t].m)]) + 1
           /\ Keyed(tx[t].m) => \A i \in DOMAIN log[BoardFor(tx[t].m)] :
                                  log[BoardFor(tx[t].m)][i].m # tx[t].m
<1> DEFINE m == tx[t].m
           b == BoardFor(m)
<1>1. ~HasNextRow(tx[t]) /\ Kind[m] # "moveList" /\ m \in Mutations
  BY DEF Finish
<1>2. b \in Boards
  BY <1>1, StepsOfCommands DEF IInv, TypeOK, Transactions, CardRows
<1>3. CounterRow(b) \in locked[t] /\ (Keyed(m) => KeyRow(m) \in locked[t])
  BY <1>1, WritesLocked DEF Written
<1>4. tx[t].seq = counter[b] + 1 /\ (Keyed(m) => keys[m] = 0)
  BY <1>3 DEF IInv, NextSequence, NoRecord
<1>5. counter[b] = Len(log[b])
  BY <1>2 DEF IInv, DenseLog
<1>6. \A i \in DOMAIN log[b] : Keyed(log[b][i].m) => keys[log[b][i].m] # 0
  BY <1>2 DEF IInv, Recorded
<1> QED BY <1>4, <1>5, <1>6

\* What the command expects is true when it commits.
LEMMA FinishExpects ==
    ASSUME IInv, RevisionInv, NEW t \in Txs, Running(t), Finish(t)
    PROVE  /\ Kind[tx[t].m] = "updateCard" =>
                Expect[tx[t].m] \in {Unstated, card[CardOf[tx[t].m]].rev}
           /\ Kind[tx[t].m] = "moveCard" =>
                Expect[tx[t].m] \in {Unstated, listRev[Target[tx[t].m]]}
<1> DEFINE m == tx[t].m
<1>1. ~HasNextRow(tx[t]) /\ Kind[m] # "moveList" /\ m \in Mutations
      /\ (Kind[m] \in CardKinds <=> CardOf[m] \in Cards)
  BY CommandAssumption DEF Finish
<1>2. CASE Kind[m] = "updateCard"
  <2>1. tx[t].at >= 2 /\ CardRow(CardOf[m]) \in locked[t]
    BY <1>1, <1>2, WritesLocked DEF CardKinds
  <2>2. tx[t].seen = card[CardOf[m]]
    BY <1>1, <1>2, <2>1 DEF RevisionInv, LocksFresh, SnapshotTrue, CardKinds
  <2>3. Expect[m] \in {Unstated, tx[t].seen.rev}
    BY <1>2, <2>1 DEF RevisionInv, Compared
  <2> QED BY <1>2, <2>2, <2>3
<1>3. CASE Kind[m] = "moveCard"
  <2>1. tx[t].at >= 4 /\ ListRow(Target[m]) \in locked[t]
    BY <1>1, <1>3, WritesLocked
  <2>2. tx[t].targetRev = listRev[Target[m]]
    BY <2>1 DEF RevisionInv, LocksFresh, SnapshotTrue
  <2>3. Expect[m] \in {Unstated, tx[t].targetRev}
    BY <1>3, <2>1 DEF RevisionInv, Compared
  <2> QED BY <1>3, <2>2, <2>3
<1> QED BY <1>2, <1>3

\* A commit is the command's one step.
LEMMA FinishIsSerial ==
    ASSUME IInv, RevisionInv, HistoryInv, NEW t \in Txs, Running(t), Finish(t)
    PROVE  Serial!Do(tx[t].m)
<1> DEFINE x == tx[t]
           m == tx[t].m
           b == BoardFor(m)
           l == x.seen.list
           boards == [k \in Mutations |-> BoardFor(k)]
           once == {k \in Mutations : Keyed(k)}
<1>1. /\ m \in Mutations /\ Kind[m] # "moveList" /\ UNCHANGED moved
      /\ card' = [c \in Cards |-> IF c = CardOf[m] THEN CardAfter(x, card[c]) ELSE card[c]]
      /\ listRev' = [k \in Lists |-> IF k \in Touched(x) THEN listRev[k] + 1 ELSE listRev[k]]
      /\ log' = [log EXCEPT ![b] = Append(@, EventOf(x))]
      /\ answers' = [answers EXCEPT ![m] = @ \cup {x.seq}]
  BY DEF Finish, Response
<1>2. boards[m] = b /\ (m \in once <=> Keyed(m)) /\ l \in Lists /\ Kind[m] \in Kinds
      /\ (Kind[m] \in CardKinds <=> CardOf[m] \in Cards)
  BY <1>1, CommandAssumption DEF IInv, TypeOK, Transactions, CardRows
<1>3. x.seq = Len(log[b]) + 1
  BY FinishesNext
<1>4. CardOf[m] \in Cards => x.seen = card[CardOf[m]] /\ card[CardOf[m]].live
  BY <1>2, CommitsWhatItSaw
<1>5. Serial!Allowed(m)
  <2>1. Keyed(m) => Serial!Places(m) = {}
    BY <1>2, FinishesNext DEF Serial!Places
  <2>2. m \in once => Serial!Places(m) = {}
    BY <1>2, <2>1
  <2> QED BY <1>4, <2>2, FinishExpects DEF Serial!Allowed
<1>6. \A c \in Cards : c = CardOf[m] => CardAfter(x, card[c]) = Serial!RowAfter(m, card[c])
  <2> SUFFICES ASSUME CardOf[m] \in Cards
               PROVE  CardAfter(x, card[CardOf[m]]) = Serial!RowAfter(m, card[CardOf[m]])
    OBVIOUS
  <2>1. x.seen = card[CardOf[m]] /\ card[CardOf[m]] \in CardRows
    BY <1>4 DEF IInv, TypeOK
  <2> QED BY <2>1 DEF CardAfter, Serial!RowAfter, CardRows
<1>7. Touched(x) = Serial!Affected(m, l)
  BY DEF Touched, Serial!Affected
<1>8. EventOf(x) = [m |-> m, seq |-> Len(log[b]) + 1, from |-> l,
                    base |-> IF Kind[m] = "updateCard" THEN card[CardOf[m]].rev
                                                       ELSE listRev[Target[m]]]
  BY <1>3 DEF EventOf
<1>9. card' = [c \in Cards |-> IF c = CardOf[m] THEN Serial!RowAfter(m, card[c]) ELSE card[c]]
  BY <1>1, <1>6
<1>10. CardOf[m] \in Cards => l = card[CardOf[m]].list
  BY <1>4
<1> QED BY <1>1, <1>2, <1>3, <1>5, <1>7, <1>8, <1>9, <1>10 DEF Serial!Do

\* Whatever is recorded has been answered.
LEMMA RecordsAnsweredInductive ==
    IInv /\ RecordsAnswered /\ [Next]_vars => RecordsAnswered'
<1> SUFFICES ASSUME IInv, RecordsAnswered, [Next]_vars PROVE RecordsAnswered'
  OBVIOUS
<1>1. CASE UNCHANGED <<keys, answers>>
  BY <1>1 DEF RecordsAnswered
<1>2. ASSUME NEW m \in Mutations, Replay(m) PROVE RecordsAnswered'
  <2>1. keys' = keys /\ answers' = [answers EXCEPT ![m] = @ \cup {keys[m]}]
    BY <1>2 DEF Replay, tables
  <2> QED BY <2>1 DEF RecordsAnswered, IInv, TypeOK
<1>3. ASSUME NEW t \in Txs, Running(t), Finish(t) PROVE RecordsAnswered'
  <2>1. /\ keys' = [keys EXCEPT ![tx[t].m] = IF Keyed(tx[t].m) THEN tx[t].seq ELSE @]
        /\ answers' = [answers EXCEPT ![tx[t].m] = @ \cup {tx[t].seq}]
    BY <1>3 DEF Finish, Response
  <2> QED BY <2>1 DEF RecordsAnswered, IInv, TypeOK
<1>4. ASSUME NEW t \in Txs, Lock(t) \/ SaveList(t) \/ UNCHANGED <<tables, answers, attempts>>
      PROVE  UNCHANGED <<keys, answers>>
  BY <1>4 DEF Lock, SaveList, tables
<1>5. ASSUME NEW t \in Txs, NEW m \in Mutations, Begin(t, m) PROVE UNCHANGED <<keys, answers>>
  BY <1>5 DEF Begin, tables
<1>6. UNCHANGED vars => UNCHANGED <<keys, answers>>
  BY DEF vars
<1> QED BY <1>1, <1>2, <1>3, <1>4, <1>5, <1>6, NextCases

\* Every step is one of SerialBoard, or changes none of its variables.
LEMMA StepIsSerial ==
    SerialInv /\ [Next]_vars => [Serial!Next]_Serial!vars
<1> SUFFICES ASSUME SerialInv, [Next]_vars PROVE Serial!Next \/ UNCHANGED Serial!vars
  OBVIOUS
<1>1. CASE UNCHANGED <<card, listRev, moved, log, answers>>
  BY <1>1 DEF Serial!vars
<1>2. ASSUME NEW m \in Mutations, Replay(m)
      PROVE  UNCHANGED <<card, listRev, moved, log, answers>>
  <2>1. /\ keys[m] # 0 /\ answers' = [answers EXCEPT ![m] = @ \cup {keys[m]}]
        /\ UNCHANGED <<card, listRev, moved, log>>
    BY <1>2 DEF Replay, tables
  <2>2. keys[m] \in answers[m] /\ answers \in [Mutations -> SUBSET Nat]
    BY <2>1 DEF SerialInv, RecordsAnswered, IInv, TypeOK
  <2>3. answers[m] \cup {keys[m]} = answers[m]
    BY <2>2
  <2> QED BY <2>1, <2>2, <2>3
<1>3. ASSUME NEW t \in Txs, NEW m \in Mutations, Begin(t, m)
      PROVE  UNCHANGED <<card, listRev, moved, log, answers>>
  BY <1>3 DEF Begin, tables
<1>4. ASSUME NEW t \in Txs, Lock(t) \/ UNCHANGED <<tables, answers, attempts>>
      PROVE  UNCHANGED <<card, listRev, moved, log, answers>>
  BY <1>4 DEF Lock, tables
<1>5. ASSUME NEW t \in Txs, Running(t), Finish(t) PROVE Serial!Next
  BY <1>5, FinishIsSerial DEF Serial!Next, SerialInv, Running
<1>6. ASSUME NEW t \in Txs, Running(t), SaveList(t) PROVE Serial!Next
  <2>1. Serial!Drag(tx[t].m)
    BY <1>6 DEF SaveList, Serial!Drag
  <2> QED BY <1>6, <2>1 DEF Serial!Next, Running
<1>7. UNCHANGED vars => UNCHANGED <<card, listRev, moved, log, answers>>
  BY DEF vars
<1> QED BY <1>1, <1>2, <1>3, <1>4, <1>5, <1>6, <1>7, NextCases

\* The transactions are serializable in the order of their commits: for any number
\* of boards, commands, connections and attempts, the tables, the logs and the
\* answers change as if each command took effect at one moment or never.
THEOREM WritesAreSerial == Spec => ImplementsSerial
<1>1. Init => Serial!Init
  BY DEF Init, Serial!Init
<1>2. Init => RecordsAnswered
  BY DEF Init, RecordsAnswered
<1>3. Init => HistoryInv
  BY InitialHistory
<1> QED BY <1>1, <1>2, <1>3, Initial, Inductive, RevisionInitial, RevisionInductive,
           HistoryInductive, RecordsAnsweredInductive, StepIsSerial, PTL
    DEF Spec, ImplementsSerial, Serial!Spec, SerialInv
=============================================================================
