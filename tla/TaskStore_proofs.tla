-------------------------- MODULE TaskStore_proofs --------------------------
(***************************************************************************)
(* What the task store guarantees for any number of writers and ids, any   *)
(* capacity, retention and prune interval, on either backend.              *)
(***************************************************************************)
EXTENDS TaskStore, SequenceTheorems, WellFoundedInduction, TLAPS

\* Where a writing thread may stand.
WriterState == [pc : {"idle", "held", "prune"}, id : Ids \cup {None},
                op : Ops \cup {"-"}, rec : Record \cup {NoRow}]

\* The types of the store's state.
StoreTypes ==
    /\ backend \in {"sqlite", "memory"}
    /\ now \in Nat /\ writes \in Nat /\ pruned \in Nat /\ crashes \in Nat
    /\ rows \in [Ids -> Record \cup {NoRow}]
    /\ order \in Seq(Ids)
    /\ rmw \in Writers \cup {None}
    /\ writer \in [Writers -> WriterState]
    /\ used \subseteq Ids
    /\ done \in [Ids -> SUBSET Ops]

\* The lock: a thread between its read and its write holds it, so what it read
\* is what is stored, unless the row was dropped meanwhile, and no update was
\* confirmed that it has not seen.
HolderReadsLatest ==
    \A w \in Writers : LET t == writer[w] IN
        t.pc = "held" =>
            /\ rmw = w
            /\ t.id \in used /\ t.op \in Ops /\ t.rec \in Record
            /\ rows[t.id].exists => rows[t.id] = t.rec
            /\ done[t.id] \subseteq t.rec.set
            /\ t.op \in Running => ~t.rec.terminal

\* Only an id that was given to a task has a row.
RowsAreUsed == \A id \in Ids : rows[id].exists \/ done[id] # {} => id \in used

\* The inductive invariant of the read-modify-write.
StoreInv == StoreTypes /\ HolderReadsLatest /\ RowsAreUsed /\ NoLostUpdate

\* The queue of the memory backend names rows it holds, each once, and is
\* never pruned; the database has no queue.
QueueOK ==
    /\ Persistent => order = <<>>
    /\ ~Persistent => \A w \in Writers : writer[w].pc # "prune"
    /\ \A i \in 1 .. Len(order) : rows[order[i]].exists
    /\ \A i, j \in 1 .. Len(order) : order[i] = order[j] => i = j

\* A database that no thread is about to prune was pruned since its count of
\* writes was last a multiple of PruneEvery.
PruneInv ==
    (\A w \in Writers : writer[w].pc # "prune")
        => writes - pruned <= writes % PruneEvery

(***************************************************************************)
(* Operators.                                                              *)
(***************************************************************************)

\* Lemma: a set of naturals that is not empty has a least element, the one
\* Min names.
LEMMA MinIsLeast ==
    ASSUME NEW S \in SUBSET Nat, S # {}
    PROVE  Min(S) \in S /\ \A x \in S : Min(S) <= x
<1> DEFINE R == {ss \in Nat \X Nat : ss[1] < ss[2]}
<1>1. IsWellFoundedOn(R, Nat)
  BY NatLessThanWellFounded DEF OpToRel
<1> HIDE DEF R
<1>2. PICK m \in S : \A y \in S : ~(<<y, m>> \in R)
  BY <1>1, WFMin
<1>3. ASSUME NEW y \in S, y < m PROVE FALSE
  <2>1. <<y, m>> \in Nat \X Nat /\ <<y, m>>[1] < <<y, m>>[2]
    BY <1>3
  <2>2. <<y, m>> \in R
    BY <2>1 DEF R
  <2> QED BY <1>2, <2>2
<1>4. \A y \in S : m <= y
  BY <1>3
<1> QED BY <1>4 DEF Min

\* A row that may make room: it is finished, or there is none.
Spare(table, id) == ~table[id].exists \/ table[id].terminal

\* Lemma: Victim names an entry of the queue, and the first spare one when
\* there is any.
LEMMA VictimIsFirst ==
    ASSUME NEW table, NEW queue \in Seq(Ids), queue # <<>>,
           NEW v, v = Victim(table, queue)
    PROVE  /\ v \in 1 .. Len(queue)
           /\ (\E i \in 1 .. Len(queue) : Spare(table, queue[i]))
                 => /\ Spare(table, queue[v])
                    /\ \A j \in 1 .. v - 1 : ~Spare(table, queue[j])
<1> DEFINE I == {i \in 1 .. Len(queue) : Spare(table, queue[i])}
<1>1. v = IF I = {} THEN 1 ELSE IF Min(I) = 0 THEN 1 ELSE Min(I)
  BY DEF Victim, SelectInSeq, Spare
<1>2. Len(queue) \in Nat \ {0}
  OBVIOUS
<1>3. CASE I = {}
  BY <1>1, <1>2, <1>3
<1>4. CASE I # {}
  <2>1. Min(I) \in I /\ \A x \in I : Min(I) <= x
    <3>1. I \in SUBSET Nat
      OBVIOUS
    <3> HIDE DEF I
    <3> QED BY <1>4, <3>1, MinIsLeast
  <2>2. v = Min(I)
    BY <1>1, <1>4, <2>1, <1>2
  <2>3. v \in I /\ v \in 1 .. Len(queue) /\ \A j \in 1 .. v - 1 : j \notin I
    <3>1. I \subseteq 1 .. Len(queue)
      OBVIOUS
    <3> HIDE DEF I
    <3>2. v \in I /\ v \in 1 .. Len(queue)
      BY <2>1, <2>2, <3>1
    <3>3. ASSUME NEW j \in 1 .. v - 1, j \in I PROVE FALSE
      BY <2>1, <2>2, <3>2, <3>3, <1>2
    <3> QED BY <3>2, <3>3
  <2> QED BY <2>3, <1>2
<1> QED BY <1>3, <1>4

\* Lemma: taking an entry out of a queue leaves the others, in order.
LEMMA RemoveAtEntries ==
    ASSUME NEW queue \in Seq(Ids), NEW v \in 1 .. Len(queue)
    PROVE  /\ RemoveAt(queue, v) \in Seq(Ids)
           /\ Len(RemoveAt(queue, v)) = Len(queue) - 1
           /\ \A i \in 1 .. Len(queue) - 1 :
                 RemoveAt(queue, v)[i] = queue[IF i < v THEN i ELSE i + 1]
<1> DEFINE l == SubSeq(queue, 1, v - 1)
           r == SubSeq(queue, v + 1, Len(queue))
<1>1. l \in Seq(Ids) /\ Len(l) = v - 1 /\ \A i \in 1 .. v - 1 : l[i] = queue[i]
  BY SubSeqProperties
<1>2. /\ r \in Seq(Ids) /\ Len(r) = Len(queue) - v
      /\ \A i \in 1 .. Len(queue) - v : r[i] = queue[v + i]
  BY SubSeqProperties
<1>3. RemoveAt(queue, v) = l \o r
  BY DEF RemoveAt
<1> HIDE DEF l, r
<1>4. /\ l \o r \in Seq(Ids) /\ Len(l \o r) = Len(queue) - 1
      /\ \A i \in 1 .. Len(queue) - 1 :
            (l \o r)[i] = IF i <= v - 1 THEN l[i] ELSE r[i - (v - 1)]
  <2>1. l \in Seq(Ids) /\ r \in Seq(Ids)
    BY <1>1, <1>2
  <2>2. /\ l \o r \in Seq(Ids) /\ Len(l \o r) = Len(l) + Len(r)
        /\ \A i \in 1 .. Len(l) + Len(r) :
              (l \o r)[i] = IF i <= Len(l) THEN l[i] ELSE r[i - Len(l)]
    BY <2>1, ConcatProperties
  <2>3. Len(l) = v - 1 /\ Len(l) + Len(r) = Len(queue) - 1
    BY <1>1, <1>2
  <2> QED BY <2>2, <2>3
<1>5. ASSUME NEW i \in 1 .. Len(queue) - 1
      PROVE  (l \o r)[i] = queue[IF i < v THEN i ELSE i + 1]
  <2>1. CASE i < v
    BY <1>1, <1>4, <2>1
  <2>2. CASE ~(i < v)
    <3>1. i - (v - 1) \in 1 .. Len(queue) - v /\ v + (i - (v - 1)) = i + 1
      BY <2>2
    <3>2. (l \o r)[i] = r[i - (v - 1)]
      BY <1>4, <2>2
    <3> QED BY <1>2, <2>2, <3>1, <3>2
  <2> QED BY <2>1, <2>2
<1> QED BY <1>3, <1>4, <1>5

\* Lemma: a remainder grows with its dividend until it is about to wrap.
LEMMA NextRemainder ==
    ASSUME NEW n \in Nat, NEW p \in Nat \ {0}, n % p # p - 1
    PROVE  (n + 1) % p = (n % p) + 1
<1> DEFINE q == n \div p
           r == n % p
           s == (n + 1) \div p
           u == (n + 1) % p
<1>1. q \in Nat /\ r \in 0 .. p - 1 /\ n = p * q + r
  OBVIOUS
<1>2. s \in Nat /\ u \in 0 .. p - 1 /\ n + 1 = p * s + u
  OBVIOUS
<1> HIDE DEF q, r, s, u
<1>3. p * (s - q) = r + 1 - u
  BY <1>1, <1>2
<1>4. r + 1 - u < p /\ r + 1 - u > 0 - p
  BY <1>1, <1>2 DEF r
<1>5. s - q < 1
  BY <1>1, <1>2, <1>3, <1>4
<1>6. s - q > -1
  BY <1>1, <1>2, <1>3, <1>4
<1> QED BY <1>1, <1>2, <1>5, <1>6 DEF r, u

\* Lemma: a remainder is below its divisor.
LEMMA RemainderBound ==
    ASSUME NEW n \in Nat, NEW p \in Nat \ {0}
    PROVE  n % p \in Nat /\ n % p < p
  OBVIOUS

(***************************************************************************)
(* put.                                                                    *)
(***************************************************************************)

\* Lemma: making room in the memory backend empties at most one row, one of
\* the queue.
LEMMA RoomTypes ==
    ASSUME StoreTypes, NEW id \in Ids, NEW rec \in Record, PutMemory(id, rec)
    PROVE  /\ rows' \in [Ids -> Record \cup {NoRow}]
           /\ order' \in Seq(Ids)
           /\ rows'[id] = rec
           /\ \A u \in Ids \ {id} : rows'[u] \in {rows[u], NoRow}
<1> DEFINE queue == Append(order, id)
           v == Victim(rows, queue)
<1>1. queue \in Seq(Ids) /\ queue # <<>>
  BY DEF StoreTypes
<1>2. CASE rows[id].exists \/ Len(queue) <= Capacity
  BY <1>1, <1>2 DEF PutMemory, MakeRoom, StoreTypes
<1>3. CASE ~rows[id].exists /\ Len(queue) > Capacity
  <2>1. v \in 1 .. Len(queue)
    BY <1>1, VictimIsFirst
  <2>2. MakeRoom(rows, queue) = <<[rows EXCEPT ![queue[v]] = NoRow], RemoveAt(queue, v)>>
    <3>1. ~(Len(queue) <= Capacity)
      BY <1>3, <1>1, StoreConstants
    <3> HIDE DEF queue
    <3> QED BY <3>1 DEF MakeRoom
  <2>3. /\ rows' = [MakeRoom(rows, queue)[1] EXCEPT ![id] = rec]
        /\ order' = MakeRoom(rows, queue)[2]
    BY <1>3 DEF PutMemory
  <2> HIDE DEF queue, v
  <2>4. RemoveAt(queue, v) \in Seq(Ids) /\ queue[v] \in Ids
    BY <1>1, <2>1, RemoveAtEntries
  <2> QED BY <2>2, <2>3, <2>4 DEF StoreTypes
<1> QED BY <1>1, <1>2, <1>3, StoreConstants

\* Lemma: what a put does to the store, on either backend.
LEMMA PutTypes ==
    ASSUME StoreTypes, NEW w \in Writers, NEW id \in Ids, NEW rec \in Record,
           Put(w, id, rec)
    PROVE  /\ rows' \in [Ids -> Record \cup {NoRow}]
           /\ order' \in Seq(Ids) /\ writes' \in Nat
           /\ rows'[id] = rec
           /\ \A u \in Ids \ {id} : rows'[u] \in {rows[u], NoRow}
           /\ \E pc \in {"idle", "prune"} :
                 writer' = [writer EXCEPT ![w] = [Idle EXCEPT !.pc = pc]]
<1>1. CASE Persistent
  BY <1>1 DEF Put, StoreTypes, Idle
<1>2. CASE ~Persistent
  <2>1. Idle = [Idle EXCEPT !.pc = "idle"]
    BY DEF Idle
  <2> QED BY <1>2, <2>1, RoomTypes DEF Put, StoreTypes
<1> QED BY <1>1, <1>2

(***************************************************************************)
(* The read-modify-write.                                                  *)
(***************************************************************************)

\* Lemma: what the lock protects holds at boot.
LEMMA StoreStart == Init => StoreInv
  BY StoreConstants DEF Init, StoreInv, StoreTypes, HolderReadsLatest, RowsAreUsed,
                        NoLostUpdate, WriterState, Idle, NoRow

\* Lemma: every step of a thread, of the clock and of the process keeps it.
LEMMA StoreStep == StoreInv /\ [Next]_vars => StoreInv'
<1> SUFFICES ASSUME StoreInv, [Next]_vars PROVE StoreInv'
  OBVIOUS
<1> USE DEF StoreInv
<1>1. ASSUME NEW w \in Writers, NEW id \in Ids, NEW terminal \in BOOLEAN,
             PutNew(w, id, terminal)
      PROVE  StoreInv'
  <2> DEFINE rec == [exists |-> TRUE, terminal |-> terminal, set |-> {}, updated |-> now]
  <2>1. rec \in Record
    BY DEF Record, StoreTypes
  <2>2. Put(w, id, rec)
    BY <1>1 DEF PutNew
  <2>3. PICK pc \in {"idle", "prune"} :
           writer' = [writer EXCEPT ![w] = [Idle EXCEPT !.pc = pc]]
    BY <2>1, <2>2, PutTypes
  <2>4. [Idle EXCEPT !.pc = pc] \in WriterState /\ [Idle EXCEPT !.pc = pc].pc = pc
    BY DEF Idle, WriterState
  <2>5. StoreTypes'
    BY <1>1, <2>1, <2>2, <2>3, <2>4, PutTypes DEF PutNew, StoreTypes
  <2>6. /\ rows'[id] = rec /\ \A u \in Ids \ {id} : rows'[u] \in {rows[u], NoRow}
    BY <2>1, <2>2, PutTypes
  <2>7. \A x \in Writers : writer'[x].pc = "held" => x # w /\ writer'[x] = writer[x]
    BY <2>3, <2>4 DEF StoreTypes
  <2>8. /\ id \notin used /\ used' = used \cup {id}
        /\ done' = done /\ rmw' = rmw
    BY <1>1 DEF PutNew
  <2>9. done[id] = {} /\ ~NoRow.exists
    BY <2>8 DEF RowsAreUsed, NoRow
  <2>10. HolderReadsLatest'
    BY <2>6, <2>7, <2>8, <2>9 DEF HolderReadsLatest, StoreTypes
  <2>11. RowsAreUsed'
    BY <2>6, <2>8, <2>9 DEF RowsAreUsed, StoreTypes
  <2>12. NoLostUpdate'
    BY <2>6, <2>8, <2>9 DEF NoLostUpdate, StoreTypes
  <2> QED BY <2>5, <2>10, <2>11, <2>12
<1>2. ASSUME NEW w \in Writers, NEW id \in Ids, NEW op \in Ops, BeginUpdate(w, id, op)
      PROVE  StoreInv'
  <2> DEFINE t == [pc |-> "held", id |-> id, op |-> op, rec |-> rows[id]]
  <2>1. rows[id] \in Record
    BY <1>2 DEF BeginUpdate, Live, StoreTypes, NoRow
  <2>2. t \in WriterState
    BY <2>1 DEF WriterState
  <2>3. StoreTypes'
    BY <1>2, <2>2 DEF BeginUpdate, StoreTypes
  <2>4. id \in used /\ done[id] \subseteq rows[id].set
    BY <1>2 DEF BeginUpdate, Live, RowsAreUsed, NoLostUpdate
  <2>5. \A x \in Writers \ {w} : writer'[x] = writer[x] /\ writer[x].pc # "held"
    BY <1>2, NoneAssumption DEF BeginUpdate, HolderReadsLatest, StoreTypes
  <2>6. writer'[w] = t
    BY <1>2 DEF BeginUpdate, StoreTypes
  <2>7. HolderReadsLatest'
    BY <1>2, <2>1, <2>4, <2>5, <2>6 DEF HolderReadsLatest, BeginUpdate
  <2> QED BY <1>2, <2>3, <2>7 DEF BeginUpdate, RowsAreUsed, NoLostUpdate
<1>3. ASSUME NEW w \in Writers, EndUpdate(w)
      PROVE  StoreInv'
  <2> DEFINE t == writer[w]
             rec == Apply(t.rec, t.op)
  <2>1. /\ t.id \in Ids /\ t.id \in used /\ t.op \in Ops /\ t.rec \in Record
        /\ done[t.id] \subseteq t.rec.set /\ rmw = w
    BY <1>3 DEF EndUpdate, HolderReadsLatest, StoreTypes
  <2>2. /\ rec \in Record /\ rec.exists
        /\ rec.set = t.rec.set \cup {t.op}
    BY <2>1 DEF Apply, Record, StoreTypes
  <2>3. Put(w, t.id, rec)
    BY <1>3 DEF EndUpdate
  <2>4. PICK pc \in {"idle", "prune"} :
           writer' = [writer EXCEPT ![w] = [Idle EXCEPT !.pc = pc]]
    BY <2>1, <2>2, <2>3, PutTypes
  <2>5. [Idle EXCEPT !.pc = pc] \in WriterState /\ [Idle EXCEPT !.pc = pc].pc = pc
    BY DEF Idle, WriterState
  <2>6. /\ done' = [done EXCEPT ![t.id] = @ \cup {t.op}]
        /\ UNCHANGED <<backend, now, used, pruned, crashes>>
        /\ rmw' \in {rmw, None}
    BY <1>3 DEF EndUpdate
  <2>7. /\ rows' \in [Ids -> Record \cup {NoRow}]
        /\ order' \in Seq(Ids) /\ writes' \in Nat
        /\ rows'[t.id] = rec /\ \A u \in Ids \ {t.id} : rows'[u] \in {rows[u], NoRow}
    BY <2>1, <2>2, <2>3, PutTypes
  <2> HIDE DEF rec
  <2>8. StoreTypes'
    BY <2>1, <2>4, <2>5, <2>6, <2>7 DEF StoreTypes
  <2>9. \A x \in Writers : writer'[x].pc # "held"
    BY <2>1, <2>4, <2>5 DEF StoreTypes, HolderReadsLatest
  <2>10. HolderReadsLatest'
    BY <2>9 DEF HolderReadsLatest
  <2>11. RowsAreUsed'
    BY <2>1, <2>6, <2>7 DEF RowsAreUsed, StoreTypes, NoRow
  <2>12. NoLostUpdate'
    BY <2>1, <2>2, <2>6, <2>7 DEF NoLostUpdate, StoreTypes, NoRow
  <2> QED BY <2>8, <2>10, <2>11, <2>12
<1>4. ASSUME NEW w \in Writers, EndUpdateLost(w)
      PROVE  StoreInv'
  <2>1. Idle \in WriterState /\ Idle.pc = "idle"
    BY DEF Idle, WriterState
  <2>2. StoreTypes'
    BY <1>4, <2>1 DEF EndUpdateLost, StoreTypes
  <2>3. \A x \in Writers : writer'[x].pc # "held"
    BY <1>4, <2>1 DEF EndUpdateLost, StoreTypes, HolderReadsLatest
  <2> QED BY <1>4, <2>2, <2>3 DEF EndUpdateLost, HolderReadsLatest, RowsAreUsed, NoLostUpdate
<1>5. ASSUME NEW w \in Writers, Prune(w)
      PROVE  StoreInv'
  <2>1. Idle \in WriterState /\ Idle.pc = "idle" /\ ~NoRow.exists
    BY DEF Idle, WriterState, NoRow
  <2>2. \A u \in Ids : rows'[u] \in {rows[u], NoRow}
    BY <1>5 DEF Prune
  <2>3. StoreTypes'
    BY <1>5, <2>1 DEF Prune, StoreTypes
  <2>4. \A x \in Writers : writer'[x].pc = "held" => x # w /\ writer'[x] = writer[x]
    BY <1>5, <2>1 DEF Prune, StoreTypes
  <2>5. UNCHANGED <<used, done>> /\ (rmw # w => rmw' = rmw)
    BY <1>5 DEF Prune
  <2>6. HolderReadsLatest'
    BY <2>1, <2>2, <2>4, <2>5 DEF HolderReadsLatest, StoreTypes
  <2> QED BY <2>1, <2>2, <2>3, <2>5, <2>6 DEF RowsAreUsed, NoLostUpdate
<1>6. ASSUME Tick
      PROVE  StoreInv'
  BY <1>6 DEF Tick, StoreTypes, HolderReadsLatest, RowsAreUsed, NoLostUpdate
<1>7. ASSUME Crash
      PROVE  StoreInv'
  <2>1. Idle \in WriterState /\ Idle.pc = "idle" /\ ~NoRow.exists
    BY DEF Idle, WriterState, NoRow
  <2>2. \A u \in Ids : rows'[u] \in {rows[u], NoRow}
    BY <1>7 DEF Crash
  <2>3. StoreTypes'
    BY <1>7, <2>1 DEF Crash, StoreTypes
  <2> QED BY <1>7, <2>1, <2>2, <2>3 DEF Crash, HolderReadsLatest, RowsAreUsed, NoLostUpdate
<1>8. CASE UNCHANGED vars
  BY <1>8 DEF vars, StoreTypes, HolderReadsLatest, RowsAreUsed, NoLostUpdate
<1> QED BY <1>1, <1>2, <1>3, <1>4, <1>5, <1>6, <1>7, <1>8 DEF Next

\* The locked read-modify-write of TaskStore::update and update_running loses
\* no update that was confirmed, however the puts, prunes, evictions and
\* restarts of any number of threads fall between its read and its write.
THEOREM UpdatesKept == Spec => []NoLostUpdate
<1>1. StoreInv => NoLostUpdate
  BY DEF StoreInv
<1> QED BY <1>1, StoreStart, StoreStep, PTL DEF Spec

(***************************************************************************)
(* Pruning.                                                                *)
(***************************************************************************)

\* Lemma: a write that leaves no thread about to prune was not due for one.
LEMMA PruneStep == StoreInv /\ PruneInv /\ [Next]_vars => PruneInv'
<1> SUFFICES ASSUME StoreInv, PruneInv, [Next]_vars,
                    \A w \in Writers : writer'[w].pc # "prune"
             PROVE  writes' - pruned' <= writes' % PruneEvery
  BY DEF PruneInv
<1> USE DEF StoreInv
<1>1. ASSUME NEW w \in Writers, NEW id \in Ids, NEW rec, Put(w, id, rec),
             writer[w].pc # "prune", pruned' = pruned
      PROVE  writes' - pruned' <= writes' % PruneEvery
  <2>1. CASE Persistent
    <3>1. ~PruneDue
      BY <1>1, <2>1 DEF Put, StoreTypes, Idle
    <3>2. \A x \in Writers : writer[x].pc # "prune"
      BY <1>1, <2>1 DEF Put, StoreTypes
    <3>3. writes - pruned <= writes % PruneEvery
      BY <3>2 DEF PruneInv
    <3>4. (writes + 1) % PruneEvery = (writes % PruneEvery) + 1
      BY <3>1, StoreConstants, NextRemainder DEF PruneDue, StoreTypes
    <3>5. writes % PruneEvery \in Nat
      BY StoreConstants, RemainderBound DEF StoreTypes
    <3> QED BY <1>1, <2>1, <3>3, <3>4, <3>5 DEF Put, StoreTypes
  <2>2. CASE ~Persistent
    <3>1. \A x \in Writers : writer[x].pc # "prune"
      BY <1>1, <2>2 DEF Put, StoreTypes
    <3> QED BY <1>1, <2>2, <3>1 DEF Put, PruneInv
  <2> QED BY <2>1, <2>2
<1>2. ASSUME NEW w \in Writers, NEW id \in Ids, NEW terminal \in BOOLEAN,
             PutNew(w, id, terminal)
      PROVE  writes' - pruned' <= writes' % PruneEvery
  BY <1>1, <1>2 DEF PutNew
<1>3. ASSUME NEW w \in Writers, NEW id \in Ids, NEW op \in Ops, BeginUpdate(w, id, op)
      PROVE  writes' - pruned' <= writes' % PruneEvery
  BY <1>3 DEF BeginUpdate, PruneInv, StoreTypes
<1>4. ASSUME NEW w \in Writers, EndUpdate(w)
      PROVE  writes' - pruned' <= writes' % PruneEvery
  <2>1. writer[w].id \in Ids
    BY <1>4 DEF EndUpdate, HolderReadsLatest, StoreTypes
  <2> QED BY <1>1, <1>4, <2>1 DEF EndUpdate
<1>5. ASSUME NEW w \in Writers, EndUpdateLost(w)
      PROVE  writes' - pruned' <= writes' % PruneEvery
  BY <1>5 DEF EndUpdateLost, PruneInv, StoreTypes, Idle
<1>6. ASSUME NEW w \in Writers, Prune(w)
      PROVE  writes' - pruned' <= writes' % PruneEvery
  BY <1>6, StoreConstants, RemainderBound DEF Prune, StoreTypes
<1>7. ASSUME Crash
      PROVE  writes' - pruned' <= writes' % PruneEvery
  BY <1>7, StoreConstants, RemainderBound DEF Crash
<1>8. ASSUME Tick \/ UNCHANGED vars
      PROVE  writes' - pruned' <= writes' % PruneEvery
  BY <1>8 DEF Tick, vars, PruneInv
<1> QED BY <1>2, <1>3, <1>4, <1>5, <1>6, <1>7, <1>8 DEF Next

\* A database is pruned every PRUNE_EVERY writes, whichever threads make them
\* and however many of them are about to prune: what is past retention does
\* not pile up.
THEOREM PrunesInTime == Spec => []PruneKeepsUp
<1>1. Init => PruneInv
  BY StoreConstants, RemainderBound DEF Init, PruneInv
<1>2. StoreInv /\ PruneInv => PruneKeepsUp
  BY StoreConstants, RemainderBound DEF StoreInv, StoreTypes, PruneInv, PruneKeepsUp
<1> QED BY <1>1, <1>2, StoreStart, StoreStep, PruneStep, PTL DEF Spec

(***************************************************************************)
(* The queue of the memory backend, and what may happen to a finished row. *)
(***************************************************************************)

\* A step drops a row of the queue only if it is the first finished one.
DropsFirstFinished ==
    \A i \in 1 .. Len(order) :
        ~rows'[order[i]].exists =>
            /\ rows[order[i]].terminal
            /\ \A j \in 1 .. i - 1 : ~rows[order[j]].terminal

\* Lemma: a put in memory keeps the queue in step with the rows, and the row
\* it drops, if it drops one, is the first finished one.
LEMMA RoomQueue ==
    ASSUME StoreTypes, QueueOK, NEW id \in Ids, NEW rec \in Record, PutMemory(id, rec)
    PROVE  /\ \A i \in 1 .. Len(order') : rows'[order'[i]].exists
           /\ \A i, j \in 1 .. Len(order') : order'[i] = order'[j] => i = j
           /\ DropsFirstFinished
<1> DEFINE n == Len(order)
           queue == Append(order, id)
           v == Victim(rows, queue)
<1>1. /\ n \in Nat /\ queue \in Seq(Ids) /\ queue # <<>> /\ Len(queue) = n + 1
      /\ queue[n + 1] = id /\ \A i \in 1 .. n : queue[i] = order[i] /\ order[i] \in Ids
  BY DEF StoreTypes
<1>2. /\ \A i \in 1 .. n : rows[order[i]].exists
      /\ \A i, j \in 1 .. n : order[i] = order[j] => i = j
  BY DEF QueueOK
<1>3. rec.exists
  BY DEF Record
<1>4. CASE rows[id].exists
  BY <1>1, <1>2, <1>3, <1>4 DEF PutMemory, StoreTypes, DropsFirstFinished
<1>5. CASE ~rows[id].exists
  <2>1. \A i \in 1 .. n : order[i] # id
    BY <1>2, <1>5
  <2>2. \A i, j \in 1 .. n + 1 : queue[i] = queue[j] => i = j
    BY <1>1, <1>2, <2>1
  <2>3. CASE Len(queue) <= Capacity
    <3>1. rows' = [rows EXCEPT ![id] = rec] /\ order' = queue
      BY <1>5, <2>3 DEF PutMemory, MakeRoom
    <3> HIDE DEF queue, n
    <3>2. \A i \in 1 .. n + 1 : rows'[queue[i]].exists
      BY <1>1, <1>2, <1>3, <3>1 DEF StoreTypes
    <3>3. DropsFirstFinished
      BY <1>1, <1>2, <1>3, <3>1 DEF StoreTypes, DropsFirstFinished, n
    <3> QED BY <1>1, <2>2, <3>1, <3>2, <3>3
  <2>4. CASE ~(Len(queue) <= Capacity)
    <3>1. MakeRoom(rows, queue)
             = <<[rows EXCEPT ![queue[v]] = NoRow], RemoveAt(queue, v)>>
      <4> HIDE DEF queue
      <4> QED BY <2>4 DEF MakeRoom
    <3>2. /\ rows' = [MakeRoom(rows, queue)[1] EXCEPT ![id] = rec]
          /\ order' = MakeRoom(rows, queue)[2]
      BY <1>5 DEF PutMemory
    <3>3. /\ v \in 1 .. n + 1
          /\ (\E i \in 1 .. n + 1 : Spare(rows, queue[i]))
                => Spare(rows, queue[v]) /\ \A j \in 1 .. v - 1 : ~Spare(rows, queue[j])
      BY <1>1, VictimIsFirst
    <3>4. Spare(rows, queue[n + 1])
      BY <1>1, <1>5 DEF Spare
    <3> HIDE DEF queue, v, n
    <3>5. /\ rows' = [[rows EXCEPT ![queue[v]] = NoRow] EXCEPT ![id] = rec]
          /\ order' = RemoveAt(queue, v)
      BY <3>1, <3>2
    <3>6. /\ Len(order') = n
          /\ \A i \in 1 .. n : order'[i] = queue[IF i < v THEN i ELSE i + 1]
      <4>1. v \in 1 .. Len(queue) /\ Len(queue) - 1 = n
        BY <1>1, <3>3
      <4>2. /\ Len(RemoveAt(queue, v)) = Len(queue) - 1
            /\ \A i \in 1 .. Len(queue) - 1 :
                  RemoveAt(queue, v)[i] = queue[IF i < v THEN i ELSE i + 1]
        BY <1>1, <4>1, RemoveAtEntries
      <4> QED BY <3>5, <4>1, <4>2
    <3>7. \A i \in 1 .. n + 1 : i # v => rows'[queue[i]].exists
      BY <1>1, <1>2, <1>3, <2>2, <3>3, <3>5 DEF StoreTypes
    <3>8. ASSUME NEW i \in 1 .. n PROVE rows'[order'[i]].exists
      <4>1. (IF i < v THEN i ELSE i + 1) \in (1 .. n + 1) \ {v}
        BY <1>1, <3>3
      <4> QED BY <3>6, <3>7, <4>1
    <3>9. ASSUME NEW i \in 1 .. n, NEW j \in 1 .. n, order'[i] = order'[j] PROVE i = j
      <4> DEFINE k == IF i < v THEN i ELSE i + 1
                 l == IF j < v THEN j ELSE j + 1
      <4>1. k \in 1 .. n + 1 /\ l \in 1 .. n + 1 /\ queue[k] = queue[l]
        BY <1>1, <3>3, <3>6, <3>9
      <4>2. k = l
        BY <2>2, <4>1
      <4> QED BY <4>2, <1>1, <3>3
    <3>10. ASSUME NEW i \in 1 .. n, ~rows'[order[i]].exists
           PROVE  rows[order[i]].terminal /\ \A j \in 1 .. i - 1 : ~rows[order[j]].terminal
      <4>1. i = v
        BY <1>1, <3>7, <3>10
      <4>2. Spare(rows, queue[v]) /\ \A j \in 1 .. v - 1 : ~Spare(rows, queue[j])
        BY <1>1, <3>3, <3>4
      <4> QED BY <1>1, <1>2, <4>1, <4>2 DEF Spare
    <3> QED BY <3>6, <3>8, <3>9, <3>10 DEF DropsFirstFinished, n
  <2> QED BY <2>3, <2>4
<1> QED BY <1>4, <1>5

\* Lemma: the same of a put on either backend; the database has no queue.
LEMMA PutQueue ==
    ASSUME StoreTypes, QueueOK, NEW w \in Writers, NEW id \in Ids, NEW rec \in Record,
           Put(w, id, rec), backend' = backend
    PROVE  QueueOK' /\ DropsFirstFinished
<1>1. CASE Persistent
  BY <1>1 DEF Put, QueueOK, Persistent, DropsFirstFinished
<1>2. CASE ~Persistent
  <2>1. \A x \in Writers : writer'[x].pc # "prune"
    BY <1>2 DEF Put, QueueOK, StoreTypes, Idle
  <2> QED BY <1>2, <2>1, RoomQueue DEF Put, QueueOK, Persistent
<1> QED BY <1>1, <1>2

\* Lemma: every step keeps the queue in step with the rows, and only a
\* restart drops rows in another order.
LEMMA QueueStep ==
    ASSUME StoreInv, QueueOK, [Next]_vars
    PROVE  QueueOK' /\ (crashes' = crashes => DropsFirstFinished)
<1> USE DEF StoreInv
<1>1. ASSUME NEW w \in Writers, NEW id \in Ids, NEW terminal \in BOOLEAN,
             PutNew(w, id, terminal)
      PROVE  QueueOK' /\ DropsFirstFinished
  <2> DEFINE rec == [exists |-> TRUE, terminal |-> terminal, set |-> {}, updated |-> now]
  <2>1. rec \in Record
    BY DEF Record, StoreTypes
  <2>2. Put(w, id, rec) /\ backend' = backend
    BY <1>1 DEF PutNew
  <2> HIDE DEF rec
  <2> QED BY <2>1, <2>2, PutQueue
<1>2. ASSUME NEW w \in Writers, EndUpdate(w)
      PROVE  QueueOK' /\ DropsFirstFinished
  <2> DEFINE rec == Apply(writer[w].rec, writer[w].op)
  <2>1. writer[w].id \in Ids /\ writer[w].op \in Ops /\ writer[w].rec \in Record
    BY <1>2 DEF EndUpdate, HolderReadsLatest, StoreTypes
  <2>2. rec \in Record
    BY <2>1 DEF Apply, Record, StoreTypes
  <2>3. Put(w, writer[w].id, rec) /\ backend' = backend
    BY <1>2 DEF EndUpdate
  <2> HIDE DEF rec
  <2> QED BY <2>1, <2>2, <2>3, PutQueue
<1>3. ASSUME NEW w \in Writers, Prune(w)
      PROVE  QueueOK' /\ DropsFirstFinished
  <2>1. Persistent /\ order = <<>> /\ order' = order /\ backend' = backend
    BY <1>3 DEF Prune, QueueOK
  <2> QED BY <2>1 DEF QueueOK, Persistent, DropsFirstFinished
<1>4. ASSUME \/ \E w \in Writers, id \in Ids, op \in Ops : BeginUpdate(w, id, op)
             \/ \E w \in Writers : EndUpdateLost(w)
             \/ Tick \/ UNCHANGED vars
      PROVE  QueueOK' /\ DropsFirstFinished
  <2>1. UNCHANGED <<backend, rows, order>>
    BY <1>4 DEF BeginUpdate, EndUpdateLost, Tick, vars
  <2>2. ~Persistent => \A x \in Writers : writer'[x].pc # "prune"
    BY <1>4 DEF BeginUpdate, EndUpdateLost, Tick, vars, QueueOK, StoreTypes, Idle
  <2> QED BY <2>1, <2>2 DEF QueueOK, Persistent, DropsFirstFinished
<1>5. ASSUME Crash
      PROVE  QueueOK' /\ crashes' # crashes
  <2>1. order' = <<>> /\ crashes' # crashes
    BY <1>5 DEF Crash, StoreTypes
  <2>2. \A x \in Writers : writer'[x].pc # "prune"
    BY <1>5 DEF Crash, Idle
  <2> QED BY <2>1, <2>2 DEF QueueOK
<1> QED BY <1>1, <1>2, <1>3, <1>4, <1>5 DEF Next

\* Lemma: a step leaves a finished row finished and adds at most the delivery
\* mark to it, or drops it.
LEMMA FinishedStep ==
    ASSUME StoreInv, [Next]_vars, NEW id \in Ids, rows[id].terminal, rows'[id].exists
    PROVE  rows'[id].terminal /\ rows'[id].set \subseteq rows[id].set \cup {"delivered"}
<1> USE DEF StoreInv
<1>1. rows[id].exists /\ id \in used /\ ~NoRow.exists
  <2>1. rows[id] # NoRow /\ ~NoRow.exists
    BY DEF NoRow
  <2>2. rows[id].exists
    BY <2>1 DEF StoreTypes, Record
  <2> QED BY <2>1, <2>2 DEF RowsAreUsed
<1>2. ASSUME rows'[id] \in {rows[id], NoRow}
      PROVE  rows'[id].terminal /\ rows'[id].set \subseteq rows[id].set \cup {"delivered"}
  BY <1>1, <1>2
<1>3. ASSUME NEW w \in Writers, NEW new \in Ids, NEW terminal \in BOOLEAN,
             PutNew(w, new, terminal)
      PROVE  rows'[id] \in {rows[id], NoRow}
  <2> DEFINE rec == [exists |-> TRUE, terminal |-> terminal, set |-> {}, updated |-> now]
  <2>1. rec \in Record /\ Put(w, new, rec) /\ new # id
    BY <1>1, <1>3 DEF PutNew, Record, StoreTypes
  <2> HIDE DEF rec
  <2> QED BY <2>1, PutTypes
<1>4. ASSUME NEW w \in Writers, EndUpdate(w)
      PROVE  rows'[id].terminal /\ rows'[id].set \subseteq rows[id].set \cup {"delivered"}
  <2> DEFINE t == writer[w]
             rec == Apply(t.rec, t.op)
  <2>1. /\ t.id \in Ids /\ t.op \in Ops /\ t.rec \in Record
        /\ rows[t.id].exists => rows[t.id] = t.rec
        /\ t.op \in Running => ~t.rec.terminal
    BY <1>4 DEF EndUpdate, HolderReadsLatest, StoreTypes
  <2>2. /\ rec \in Record /\ rec.set = t.rec.set \cup {t.op}
        /\ t.rec.terminal => rec.terminal
    BY <2>1 DEF Apply, Record, StoreTypes
  <2>3. Put(w, t.id, rec)
    BY <1>4 DEF EndUpdate
  <2> HIDE DEF rec
  <2>4. rows'[t.id] = rec /\ \A u \in Ids \ {t.id} : rows'[u] \in {rows[u], NoRow}
    BY <2>1, <2>2, <2>3, PutTypes
  <2>5. CASE id = t.id
    <3>1. t.rec = rows[id] /\ t.op = "delivered"
      BY <1>1, <2>1, <2>5 DEF Ops
    <3> QED BY <2>2, <2>4, <2>5, <3>1
  <2>6. CASE id # t.id
    BY <1>2, <2>4, <2>6
  <2> QED BY <2>5, <2>6
<1>5. ASSUME \/ \E w \in Writers, u \in Ids, op \in Ops : BeginUpdate(w, u, op)
             \/ \E w \in Writers : EndUpdateLost(w) \/ Prune(w)
             \/ Tick \/ Crash \/ UNCHANGED vars
      PROVE  rows'[id] \in {rows[id], NoRow}
  BY <1>5 DEF BeginUpdate, EndUpdateLost, Prune, Tick, Crash, vars
<1> QED BY <1>2, <1>3, <1>4, <1>5 DEF Next

\* A finished record is never turned back into a running one, whatever a
\* thread read before it finished, and the memory backend makes room with the
\* oldest finished row: no running task is evicted while one is kept.
THEOREM FinishedStay == Spec => FinishedRows
<1>1. Init => QueueOK
  BY DEF Init, QueueOK, Idle
<1>2. StoreInv /\ QueueOK /\ [Next]_vars => QueueOK'
  BY QueueStep
<1>3. StoreInv /\ QueueOK /\ [Next]_vars =>
        [\A i \in 1 .. Len(order) :
            (~rows'[order[i]].exists /\ crashes' = crashes) =>
                /\ rows[order[i]].terminal
                /\ \A j \in 1 .. i - 1 : ~rows[order[j]].terminal]_vars
  BY QueueStep DEF DropsFirstFinished
<1>4. StoreInv /\ [Next]_vars =>
        [\A id \in Ids :
            (rows[id].terminal /\ rows'[id].exists) =>
                /\ rows'[id].terminal
                /\ rows'[id].set \subseteq rows[id].set \cup {"delivered"}]_vars
  BY FinishedStep
<1> QED
  BY <1>1, <1>2, <1>3, <1>4, StoreStart, StoreStep, PTL
  DEF Spec, FinishedRows, FinishedOnlyDelivered, EvictsOldestFinished
=============================================================================
