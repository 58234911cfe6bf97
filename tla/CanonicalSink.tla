--------------------------- MODULE CanonicalSink ---------------------------
(***************************************************************************)
(* write_chunk and write_catalogue_chunk of streaming-consumer, run by     *)
(* several consumer instances against one Postgres database.  Every batch  *)
(* is a READ COMMITTED transaction: a statement sees what was committed    *)
(* when it began, an INSERT waits for an uncommitted row with the same     *)
(* unique key, an UPDATE waits for the lock of the row it matched and then *)
(* tests its WHERE again.  Any chunk may be written again at any time: the *)
(* subscription delivers at least once.                                    *)
(***************************************************************************)
EXTENDS HotMerge

CONSTANTS
    Writers,  \* consumer instances
    MaxTxns,  \* bound on the number of transactions
    None      \* no chunk in hand

ASSUME CanonicalSinkAssumption ==
    /\ MaxTxns \in Nat
    /\ None \notin Chunks

VARIABLES
    log,     \* committed rows of the event table
    hot,     \* committed rows of store_sku_current_position
    done,    \* chunks whose write returned a WriteReport
    txns,    \* transactions begun so far; their order is that of now()
    pc,      \* where each writer is
    job,     \* the chunk it writes
    part,    \* the number of the batch it writes
    begun,   \* now() in its open transaction: when the transaction began
    todo,    \* rows of to_insert it has not sent yet
    groups,  \* SKUs of the batch it has not merged yet
    pend,    \* event rows inserted by its open transaction
    held,    \* hot rows its open transaction has locked, with their new content
    missed   \* SKUs for which it found no hot row

txnVars == <<begun, todo, groups, pend, held, missed>>
vars == <<log, hot, done, txns, pc, job, part, begun, todo, groups, pend, held, missed>>

\* A stored row: last_updated_at is the start of its transaction, and the id orders
\* the rows of one transaction.
Entry == [row : EventRow, last_updated_at : Nat, id : Nat]

\* Outside a transaction a writer holds nothing.
NothingOpen(w) ==
    /\ begun[w] = 0 /\ todo[w] = << >> /\ groups[w] = {}
    /\ pend[w] = {} /\ held[w] = << >> /\ missed[w] = {}

\* Types, the batch numbers a chunk has, and: a writer between two transactions has
\* no row, lock or miss of an earlier one.
TypeOK ==
    /\ log \subseteq Entry
    /\ hot \in [Skus -> HotRow \cup {NoRow}]
    /\ done \subseteq Chunks
    /\ txns \in 0..MaxTxns
    /\ pc \in [Writers -> {"idle", "detect", "write", "exists"}]
    /\ job \in [Writers -> Chunks \cup {None}]
    /\ part \in [Writers -> Nat]
    /\ \A w \in Writers : IF pc[w] = "idle" THEN job[w] = None /\ part[w] = 0
                                            ELSE job[w] \in Chunks /\ part[w] \in 1..BatchCount(job[w])
    /\ \A w \in Writers : pc[w] \in {"idle", "detect"} => NothingOpen(w)
    /\ begun \in [Writers -> 0..MaxTxns]
    /\ todo \in [Writers -> Seq(EventRow)]
    /\ groups \in [Writers -> SUBSET Skus]
    /\ pend \in [Writers -> SUBSET Entry]
    /\ DOMAIN held = Writers
    /\ \A w \in Writers : DOMAIN held[w] \subseteq Skus /\ held[w] \in [DOMAIN held[w] -> HotRow]
    /\ missed \in [Writers -> SUBSET Skus]

Init ==
    /\ log = {}
    /\ hot = InitialHot
    /\ done = {}
    /\ txns = 0
    /\ pc = [w \in Writers |-> "idle"]
    /\ job = [w \in Writers |-> None]
    /\ part = [w \in Writers |-> 0]
    /\ begun = [w \in Writers |-> 0]
    /\ todo = [w \in Writers |-> << >>]
    /\ groups = [w \in Writers |-> {}]
    /\ pend = [w \in Writers |-> {}]
    /\ held = [w \in Writers |-> << >>]
    /\ missed = [w \in Writers |-> {}]

-----------------------------------------------------------------------------
(* What a statement sees. *)

CurrentBatch(w) == Batch(job[w], part[w])

InTable(r, entries) == \E e \in entries : e.row = r

\* ORDER BY event time, last_updated_at, id.
NotBefore(e, f) ==
    \/ e.row.ts > f.row.ts
    \/ e.row.ts = f.row.ts /\ e.last_updated_at > f.last_updated_at
    \/ e.row.ts = f.row.ts /\ e.last_updated_at = f.last_updated_at /\ e.id >= f.id

\* _detect_duplicates: r is DUPLICATE_NOOP when the latest committed row with its
\* dedup key has its payload.
DuplicateNoop(r) ==
    \E e \in log :
        /\ e.row = r
        /\ \A f \in log : f.row.key = r.key => NotBefore(e, f)

LockedByOther(w, s) == \E v \in Writers \ {w} : s \in DOMAIN held[v]

\* Mutant: an INSERT does not see the rows of transactions still open.
Conflicts_CommittedOnly(w, r) == FALSE

\* Another open transaction has inserted the same (dedup key, row_hash).
Conflicts(w, r) == \E v \in Writers \ {w} : InTable(r, pend[v])

\* hot_sort_key: the next group is the smallest SKU left.
NextSku(w) == CHOOSE s \in groups[w] : \A t \in groups[w] : s <= t

-----------------------------------------------------------------------------
(* One chunk by one writer. *)

\* A chunk without rows opens no transaction and writes nothing.
StartChunk(w, c) ==
    /\ pc[w] = "idle"
    /\ Len(EventRows[c]) > 0
    /\ pc' = [pc EXCEPT ![w] = "detect"]
    /\ job' = [job EXCEPT ![w] = c]
    /\ part' = [part EXCEPT ![w] = 1]
    /\ UNCHANGED <<log, hot, done, txns, txnVars>>

\* The transaction opens; _detect_duplicates and _partition_redeliveries decide
\* which rows are worth inserting.  A catalogue batch has no event rows.
DetectDuplicates(w) ==
    /\ pc[w] = "detect"
    /\ txns < MaxTxns
    /\ txns' = txns + 1
    /\ begun' = [begun EXCEPT ![w] = txns']
    /\ todo' = [todo EXCEPT ![w] =
                  IF job[w] \in Catalogue THEN << >>
                  ELSE Unseen(CurrentBatch(w), {r \in RowsIn(CurrentBatch(w)) : DuplicateNoop(r)})]
    /\ groups' = [groups EXCEPT ![w] = BatchSkus(CurrentBatch(w))]
    /\ pc' = [pc EXCEPT ![w] = "write"]
    /\ UNCHANGED <<log, hot, done, job, part, pend, held, missed>>

\* One row of the executemany INSERT ... ON CONFLICT DO NOTHING.
InsertEvent(w) ==
    /\ pc[w] = "write"
    /\ todo[w] # << >>
    /\ LET r == Head(todo[w])
           e == [row |-> r, last_updated_at |-> begun[w],
                 id |-> Len(CurrentBatch(w)) - Len(todo[w])]
       IN  /\ ~Conflicts(w, r)
           /\ pend' = [pend EXCEPT ![w] =
                         IF InTable(r, log \cup @) THEN @ ELSE @ \cup {e}]
    /\ todo' = [todo EXCEPT ![w] = Tail(@)]
    /\ UNCHANGED <<log, hot, done, txns, pc, job, part, begun, groups, held, missed>>

\* The lock and the new content of a hot row, until the transaction ends.
Write(w, s, row) ==
    held' = [held EXCEPT ![w] = Over([x \in {s} |-> row], @)]

MergeNext(w) ==
    /\ pc[w] = "write"
    /\ todo[w] = << >>
    /\ groups[w] # {}

Group(w) == HotGroup(CurrentBatch(w), NextSku(w))

\* Mutant: the event-time-wins predicate is left out of the UPDATE.
Matches_AnyTime(w) == hot[NextSku(w)] # NoRow

\* The WHERE of the UPDATE, on the committed row.
Matches(w) ==
    /\ hot[NextSku(w)] # NoRow
    /\ NotOlder(Group(w), hot[NextSku(w)])

\* _update_hot_incomplete_path, rowcount 1.
UpdateHot(w) ==
    /\ MergeNext(w)
    /\ job[w] \notin Catalogue
    /\ Matches(w)
    /\ ~LockedByOther(w, NextSku(w))
    /\ Write(w, NextSku(w), Updated(hot[NextSku(w)], Group(w)))
    /\ groups' = [groups EXCEPT ![w] = @ \ {NextSku(w)}]
    /\ UNCHANGED <<log, hot, done, txns, pc, job, part, begun, todo, pend, missed>>

\* rowcount 0: the existence check is a second statement, so it comes later.
UpdateMatchesNothing(w) ==
    /\ MergeNext(w)
    /\ job[w] \notin Catalogue
    /\ ~Matches(w)
    /\ pc' = [pc EXCEPT ![w] = "exists"]
    /\ UNCHANGED <<log, hot, done, txns, job, part, txnVars>>

\* Mutant: a hot row that is not there is counted as an older-event no-op too.
CountMiss_Never(w) == missed[w]

\* present = older-event no-op, absent = a miss.
CountMiss(w) ==
    IF hot[NextSku(w)] = NoRow THEN missed[w] \cup {NextSku(w)} ELSE missed[w]

CheckExists(w) ==
    /\ pc[w] = "exists"
    /\ missed' = [missed EXCEPT ![w] = CountMiss(w)]
    /\ groups' = [groups EXCEPT ![w] = @ \ {NextSku(w)}]
    /\ pc' = [pc EXCEPT ![w] = "write"]
    /\ UNCHANGED <<log, hot, done, txns, job, part, begun, todo, pend, held>>

\* _insert_on_conflict_hot_complete_path.  The conflicting row is locked even when
\* the WHERE of DO UPDATE declines it.
UpsertHot(w) ==
    /\ MergeNext(w)
    /\ job[w] \in Catalogue
    /\ ~LockedByOther(w, NextSku(w))
    /\ Write(w, NextSku(w),
         IF hot[NextSku(w)] = NoRow THEN Group(w)
         ELSE IF Matches(w) THEN Updated(hot[NextSku(w)], Group(w))
         ELSE hot[NextSku(w)])
    /\ groups' = [groups EXCEPT ![w] = @ \ {NextSku(w)}]
    /\ UNCHANGED <<log, hot, done, txns, pc, job, part, begun, todo, pend, missed>>

Committed(w) == [s \in Skus |-> IF s \in DOMAIN held[w] THEN held[w][s] ELSE hot[s]]

\* Mutant: the connection goes back to the pool with its locks.
EndTxn_KeepsLocks(w) ==
    /\ todo' = [todo EXCEPT ![w] = << >>]
    /\ groups' = [groups EXCEPT ![w] = {}]
    /\ pend' = [pend EXCEPT ![w] = {}]
    /\ missed' = [missed EXCEPT ![w] = {}]
    /\ begun' = [begun EXCEPT ![w] = 0]
    /\ UNCHANGED held

\* The transaction ends: its locks go, its writer forgets it.
EndTxn(w) ==
    /\ todo' = [todo EXCEPT ![w] = << >>]
    /\ groups' = [groups EXCEPT ![w] = {}]
    /\ pend' = [pend EXCEPT ![w] = {}]
    /\ held' = [held EXCEPT ![w] = << >>]
    /\ missed' = [missed EXCEPT ![w] = {}]
    /\ begun' = [begun EXCEPT ![w] = 0]

Idle(w) ==
    /\ pc' = [pc EXCEPT ![w] = "idle"]
    /\ job' = [job EXCEPT ![w] = None]
    /\ part' = [part EXCEPT ![w] = 0]

\* Mutant: the event rows are not part of the transaction that commits.
CommitTables_HotOnly(w) ==
    /\ hot' = Committed(w)
    /\ UNCHANGED log

CommitTables(w) ==
    /\ hot' = Committed(w)
    /\ log' = log \cup pend[w]

BatchWritten(w) == pc[w] = "write" /\ todo[w] = << >> /\ groups[w] = {}

\* The batch commits.  Misses raise after the commit; otherwise the next batch is
\* begun, or the chunk is reported as written.
CommitBatch(w) ==
    /\ BatchWritten(w)
    /\ CommitTables(w)
    /\ EndTxn(w)
    /\ \/ /\ missed[w] # {}
          /\ Idle(w)
          /\ UNCHANGED done
       \/ /\ missed[w] = {}
          /\ part[w] < BatchCount(job[w])
          /\ pc' = [pc EXCEPT ![w] = "detect"]
          /\ part' = [part EXCEPT ![w] = @ + 1]
          /\ UNCHANGED <<done, job>>
       \/ /\ missed[w] = {}
          /\ part[w] = BatchCount(job[w])
          /\ done' = done \cup {job[w]}
          /\ Idle(w)
    /\ UNCHANGED txns

\* The commit took effect but the writer saw an exception.
CommitRaises(w) ==
    /\ BatchWritten(w)
    /\ CommitTables(w)
    /\ EndTxn(w)
    /\ Idle(w)
    /\ UNCHANGED <<done, txns>>

\* A statement raises (the deadlock detector's victim included) or the instance
\* dies: Postgres rolls the open transaction back.
Abort(w) ==
    /\ pc[w] # "idle"
    /\ EndTxn(w)
    /\ Idle(w)
    /\ UNCHANGED <<log, hot, done, txns>>

WriterStep(w) ==
    \/ DetectDuplicates(w) \/ InsertEvent(w)
    \/ UpdateHot(w) \/ UpdateMatchesNothing(w) \/ CheckExists(w) \/ UpsertHot(w)
    \/ CommitBatch(w) \/ CommitRaises(w) \/ Abort(w)

Next ==
    \E w \in Writers : WriterStep(w) \/ \E c \in Chunks : StartChunk(w, c)

Spec == Init /\ [][Next]_vars

-----------------------------------------------------------------------------
(* Properties. *)

\* The append-only log holds a byte-identical row once, however often its chunk is
\* redelivered and whichever instances write it at the same time.
NoRepeatedRow == \A e, f \in log : e.row = f.row => e = f

\* Event-time-wins: no interleaving of instances moves a hot row back in time or
\* removes it.
HotNeverGoesBack ==
    [][\A s \in Skus : hot[s] # NoRow => hot'[s] # NoRow /\ hot'[s].at >= hot[s].at]_hot

\* Either-or-neither: the time of a hot row is that of a row in the log, of a
\* catalogue chunk, or its first one, whatever was rolled back.
HotIsBacked ==
    \A s \in Skus : hot[s] # NoRow =>
        \/ s \in Onboarded /\ hot[s].at = 0
        \/ \E e \in log : e.row.sku = s /\ e.row.ts = hot[s].at
        \/ \E c \in Catalogue : \E r \in RowsIn(EventRows[c]) : r.sku = s /\ r.ts = hot[s].at

\* A chunk whose write was reported (and whose message is then acknowledged) has
\* landed: its rows are in the log and no hot row is older than they are.
WrittenHasLanded == \A c \in done : Landed(c, {e.row : e \in log}, hot)

\* No catalogue chunk brings the first hot row of a SKU that an event chunk names: the
\* case in which the existence check can come too late (_update_hot_incomplete_path).
OnboardedFirst ==
    \A c \in Chunks \ Catalogue, d \in Catalogue :
        BatchSkus(EventRows[c]) \cap BatchSkus(EventRows[d]) \subseteq Onboarded

\* write_chunk implements the atomic dual write.
DW == INSTANCE DualWrite WITH log <- {e.row : e \in log}

ImplementsDualWrite == DW!Spec

\* "an exact-tie redelivery rewrites identical values" (event-time-wins with >=):
\* writing a chunk again that was already reported as written leaves the hot table as
\* it is.
RedeliveryIsIdempotent ==
    [][\A w \in Writers : job[w] \in done /\ CommitBatch(w) => hot' = hot]_vars

\* "latest event time wins per column" (_group_hot): the value a group has for a
\* column is that of the latest row that asserts the column.
LatestWinsPerColumn ==
    \A w \in Writers : pc[w] = "write" /\ job[w] \notin Catalogue =>
        \A s \in BatchSkus(CurrentBatch(w)) :
            LET g    == HotGroup(CurrentBatch(w), s)
                rows == {r \in RowsIn(CurrentBatch(w)) : r.sku = s}
            IN  \A col \in DOMAIN g.cols :
                  \E r \in rows :
                      /\ col \in DOMAIN r.contrib
                      /\ r.contrib[col] = g.cols[col]
                      /\ \A q \in rows : col \in DOMAIN q.contrib => q.ts <= r.ts
=============================================================================
