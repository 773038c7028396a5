----------------------------- MODULE TaskStore -----------------------------
(***************************************************************************)
(* The task store of triton-tasks: TaskStore over its two backends.        *)
(*                                                                         *)
(* A `put` is one critical section of the backend (the mutex of Memory, or *)
(* of the SQLite connection).  A read-modify-write holds the `rmw` lock    *)
(* from its `get` to its `put`, which are two critical sections with a gap *)
(* between them: other puts, reads and prunes go on in the gap.            *)
(***************************************************************************)
EXTENDS Naturals, FiniteSets, SequencesExt

CONSTANTS
    Ids,         \* task ids, never reused
    Writers,     \* threads that write: runners, couriers, handlers
    Backends,    \* the backends a store may be built on
    Capacity,    \* MEMORY_CAPACITY
    Retention,   \* TaskStore::retention
    PruneEvery,  \* PRUNE_EVERY
    MaxTime,     \* bound on the clock
    MaxWrites,   \* bound on the writes a database counts
    MaxCrashes,  \* bound on restarts
    None         \* no thread, no id

ASSUME StoreConstants == /\ Backends \subseteq {"sqlite", "memory"}
                         /\ Capacity \in Nat \ {0}
                         /\ Retention \in Nat
                         /\ PruneEvery \in Nat \ {0}
ASSUME StoreBounds == MaxTime \in Nat /\ MaxWrites \in Nat /\ MaxCrashes \in Nat
ASSUME NoneAssumption == None \notin Writers \cup Ids

VARIABLES
    backend, \* TaskStore::backend, fixed at boot
    now,     \* the wall clock
    rows,    \* rows[id]: the stored record or NoRow
    order,   \* Memory::order
    writes,  \* TaskStore::writes, the writes that succeeded
    rmw,     \* the holder of TaskStore::rmw
    writer,  \* writer[w]: where a writing thread stands
    used,    \* ids that were given to a task
    done,    \* done[id]: history, the updates that were confirmed
    pruned,  \* history: `writes` at the last prune
    crashes

vars == <<backend, now, rows, order, writes, rmw, writer, used, done, pruned, crashes>>

Persistent == backend = "sqlite"

\* What an update changes: the runner's progress and outcome, the courier's
\* card id and delivery mark.
Running == {"progress", "card", "finish"}   \* through update_running
Ops == Running \cup {"delivered"}           \* through update

\* A record: finished or not, the parts that have been set, updated_ms.
Record == [exists : {TRUE}, terminal : BOOLEAN, set : SUBSET Ops, updated : Nat]
NoRow == [exists |-> FALSE, terminal |-> FALSE, set |-> {}, updated |-> 0]

Idle == [pc |-> "idle", id |-> None, op |-> "-", rec |-> NoRow]

Init ==
    /\ backend \in Backends
    /\ now = 0
    /\ rows = [id \in Ids |-> NoRow]
    /\ order = <<>>
    /\ writes = 0
    /\ rmw = None
    /\ writer = [w \in Writers |-> Idle]
    /\ used = {}
    /\ done = [id \in Ids |-> {}]
    /\ pruned = 0
    /\ crashes = 0

(***************************************************************************)
(* put.                                                                    *)
(***************************************************************************)

\* live: a record past the retention period is gone for every reader.
Live(rec) == rec.exists /\ rec.updated + Retention >= now

\* Mutant: the plain FIFO the bound's comment names.
VictimOldest(table, queue) == 1

\* The row to evict: the first in the queue that is finished or has no row.
Victim(table, queue) ==
    LET i == SelectInSeq(queue, LAMBDA id : ~table[id].exists \/ table[id].terminal)
    IN  IF i = 0 THEN 1 ELSE i

MakeRoom(table, queue) ==
    IF Len(queue) <= Capacity THEN <<table, queue>>
    ELSE LET v == Victim(table, queue)
         IN  <<[table EXCEPT ![queue[v]] = NoRow], RemoveAt(queue, v)>>

\* Backend::Memory.  A new id is queued first, room is made, and only then is
\* the row inserted.
PutMemory(id, rec) ==
    LET room == IF rows[id].exists THEN <<rows, order>>
                ELSE MakeRoom(rows, Append(order, id)) IN
    /\ rows' = [room[1] EXCEPT ![id] = rec]
    /\ order' = room[2]

\* Mutant: the prune is due one write late.
PruneDueLate == writes % (PruneEvery + 1) = PruneEvery

\* fetch_add returned n = writes.
PruneDue == writes % PruneEvery = PruneEvery - 1

\* One successful put by w, which is then done or, when SQLite is due for
\* one, goes on to a prune.  Only SQLite counts its writes.
Put(w, id, rec) ==
    IF Persistent
    THEN /\ writes < MaxWrites
         /\ writes' = writes + 1
         /\ rows' = [rows EXCEPT ![id] = rec]
         /\ writer' = [writer EXCEPT ![w] =
                          [Idle EXCEPT !.pc = IF PruneDue THEN "prune" ELSE @]]
         /\ UNCHANGED order
    ELSE /\ PutMemory(id, rec)
         /\ writer' = [writer EXCEPT ![w] = Idle]
         /\ UNCHANGED writes

(***************************************************************************)
(* The operations.                                                         *)
(***************************************************************************)

\* Runner::start or a held-back first record (put of a running task), and
\* record_entry of the Triton-shaped route (put of a finished one).
PutNew(w, id, terminal) ==
    /\ writer[w].pc = "idle"
    /\ id \notin used
    /\ used' = used \cup {id}
    /\ Put(w, id, [exists |-> TRUE, terminal |-> terminal, set |-> {}, updated |-> now])
    /\ UNCHANGED <<backend, now, rmw, done, pruned, crashes>>

\* Mutant: no lock is taken.
BeginUnlocked(w, id, op) ==
    /\ writer[w].pc = "idle"
    /\ Live(rows[id])
    /\ op \in Running => ~rows[id].terminal
    /\ writer' = [writer EXCEPT ![w] = [pc |-> "held", id |-> id, op |-> op,
                                        rec |-> rows[id]]]
    /\ UNCHANGED <<backend, now, rows, order, writes, rmw, used, done, pruned, crashes>>

\* update / update_running up to the read: take `rmw`, `get` the record, and
\* give up when it is missing, past retention, or (update_running) finished.
BeginUpdate(w, id, op) ==
    /\ writer[w].pc = "idle"
    /\ rmw = None
    /\ Live(rows[id])
    /\ op \in Running => ~rows[id].terminal
    /\ rmw' = w
    /\ writer' = [writer EXCEPT ![w] = [pc |-> "held", id |-> id, op |-> op,
                                        rec |-> rows[id]]]
    /\ UNCHANGED <<backend, now, rows, order, writes, used, done, pruned, crashes>>

Apply(rec, op) == [exists   |-> TRUE,
                   terminal |-> rec.terminal \/ op = "finish",
                   set      |-> rec.set \cup {op},
                   updated  |-> now]

\* The rest of an update: apply the closure to the record that was read, put
\* it, release the lock (after the prune, when the put runs one).
EndUpdate(w) ==
    LET t == writer[w] IN
    /\ t.pc = "held"
    /\ Put(w, t.id, Apply(t.rec, t.op))
    /\ rmw' = IF writer'[w].pc = "prune" THEN rmw ELSE None
    /\ done' = [done EXCEPT ![t.id] = @ \cup {t.op}]
    /\ UNCHANGED <<backend, now, used, pruned, crashes>>

\* A put that fails is logged and ignored by update.
EndUpdateLost(w) ==
    /\ Persistent
    /\ writer[w].pc = "held"
    /\ rmw' = None
    /\ writer' = [writer EXCEPT ![w] = Idle]
    /\ UNCHANGED <<backend, now, rows, order, writes, used, done, pruned, crashes>>

\* prune, on the thread whose put was due; then its caller goes on.
Prune(w) ==
    /\ writer[w].pc = "prune"
    /\ rows' = [id \in Ids |-> IF Live(rows[id]) THEN rows[id] ELSE NoRow]
    /\ pruned' = writes
    /\ writer' = [writer EXCEPT ![w] = Idle]
    /\ rmw' = IF rmw = w THEN None ELSE rmw
    /\ UNCHANGED <<backend, now, order, writes, used, done, crashes>>

Tick ==
    /\ now < MaxTime
    /\ now' = now + 1
    /\ UNCHANGED <<backend, rows, order, writes, rmw, writer, used, done, pruned, crashes>>

\* A restart: memory is clean, SQLite reopens and prunes.
Crash ==
    /\ crashes < MaxCrashes
    /\ crashes' = crashes + 1
    /\ rows' = [id \in Ids |-> IF Persistent /\ Live(rows[id]) THEN rows[id] ELSE NoRow]
    /\ order' = <<>>
    /\ writes' = 0
    /\ pruned' = 0
    /\ rmw' = None
    /\ writer' = [w \in Writers |-> Idle]
    /\ UNCHANGED <<backend, now, used, done>>

Next ==
    \/ \E w \in Writers, id \in Ids, terminal \in BOOLEAN : PutNew(w, id, terminal)
    \/ \E w \in Writers, id \in Ids, op \in Ops : BeginUpdate(w, id, op)
    \/ \E w \in Writers : EndUpdate(w) \/ EndUpdateLost(w) \/ Prune(w)
    \/ Tick
    \/ Crash

Spec == Init /\ [][Next]_vars

(***************************************************************************)
(* Properties.                                                             *)
(***************************************************************************)

\* "The lock, not a convention, keeps their writes from overwriting each
\* other": an update that was confirmed is still in the record, as long as
\* there is one, whatever other writers did since.
NoLostUpdate == \A id \in Ids : rows[id].exists => done[id] \subseteq rows[id].set

\* "A stale reader cannot turn a completed answer back into a running task":
\* a finished record is only ever marked delivered, or dropped.
FinishedOnlyDelivered ==
    [][\A id \in Ids :
          (rows[id].terminal /\ rows'[id].exists) =>
              /\ rows'[id].terminal
              /\ rows'[id].set \subseteq rows[id].set \cup {"delivered"}]_vars

\* "Evict the oldest finished rows first": a row that makes room for another
\* is finished, and every row before it in the queue is running.
EvictsOldestFinished ==
    [][\A i \in 1 .. Len(order) :
          (~rows'[order[i]].exists /\ crashes' = crashes) =>
              /\ rows[order[i]].terminal
              /\ \A j \in 1 .. i - 1 : ~rows[order[j]].terminal]_vars

\* What may happen to a row once its task has finished.
FinishedRows == FinishedOnlyDelivered /\ EvictsOldestFinished

\* "Retention is enforced at runtime": between two prunes there are fewer
\* than PRUNE_EVERY writes, unless a thread is just about to prune.
PruneKeepsUp ==
    Persistent /\ (\A w \in Writers : writer[w].pc # "prune")
        => writes - pruned < PruneEvery

\* "In-memory store bound": the memory store never holds more than its
\* capacity.
MemoryBounded ==
    ~Persistent => Cardinality({id \in Ids : rows[id].exists}) <= Capacity
=============================================================================
