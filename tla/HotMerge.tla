------------------------------ MODULE HotMerge ------------------------------
(***************************************************************************)
(* The data of the canonical write of streaming-consumer, and its pure     *)
(* part: how a chunk is cut into batches and a batch into hot groups.      *)
(*                                                                         *)
(* An event row is its dedup key (source_event_id), the SKU, the event     *)
(* time and the hot columns it asserts with their values.  Two rows are    *)
(* equal exactly when key and payload are, so a row stands for its own     *)
(* (source_event_id, row_hash).  SKUs are numbers: their order is the      *)
(* order of hot_sort_key.  One tenant, store and source.                   *)
(***************************************************************************)
EXTENDS Naturals, Sequences

CONSTANTS
    Chunks,     \* what ingress.ready events point at
    Catalogue,  \* the chunks whose template is a snapshot
    EventRows,  \* build_event_rows: the rows of each chunk, in chunk order
    BatchSize,  \* BATCH_SIZE_ROW_PAIRS
    Onboarded,  \* SKUs whose hot row exists from the start
    Keys, Skus, Times, Columns, Values, NoRow

\* Functions on a subset of Columns: a column that is not asserted is absent.
Contributions == UNION {[C -> Values] : C \in SUBSET Columns}

EventRow == [key : Keys, sku : Skus, ts : Times, contrib : Contributions]

HotRow == [at : Times, cols : Contributions]

ASSUME HotMergeAssumption ==
    /\ Catalogue \subseteq Chunks
    /\ EventRows \in [Chunks -> Seq(EventRow)]
    /\ BatchSize \in Nat \ {0}
    /\ Skus \subseteq Nat
    /\ Times \subseteq Nat
    /\ 0 \in Times
    /\ Onboarded \subseteq Skus
    /\ NoRow \notin HotRow

-----------------------------------------------------------------------------

\* _batches: consecutive slices of at most BatchSize rows.
BatchCount(c) == (Len(EventRows[c]) + BatchSize - 1) \div BatchSize

Batch(c, i) ==
    LET first == (i - 1) * BatchSize + 1
        last  == i * BatchSize
    IN  SubSeq(EventRows[c], first, IF last < Len(EventRows[c]) THEN last
                                                                ELSE Len(EventRows[c]))

RowsIn(batch) == {batch[n] : n \in DOMAIN batch}

\* to_insert: the rows of a batch without those already known, in batch order.
Unseen(batch, known) ==
    LET kept[n \in 0..Len(batch)] ==
            IF n = 0 THEN << >>
            ELSE IF batch[n] \in known THEN kept[n - 1] ELSE Append(kept[n - 1], batch[n])
    IN  kept[Len(batch)]

BatchSkus(batch) == {r.sku : r \in RowsIn(batch)}

\* d1 | d2 of two Python dicts, the first one winning.
Over(f, g) == [x \in DOMAIN f \cup DOMAIN g |-> IF x \in DOMAIN f THEN f[x] ELSE g[x]]

\* A further row of a group: a row that is not older overwrites, an older one only
\* adds the columns nobody asserted yet.
JoinGroup(g, r) ==
    [at   |-> IF r.ts >= g.at THEN r.ts ELSE g.at,
     cols |-> IF r.ts >= g.at THEN Over(r.contrib, g.cols) ELSE Over(g.cols, r.contrib)]

\* _group_hot for one natural key.  A catalogue batch makes a group of each row and
\* applies those of one SKU one after the other; all have the same time, so the
\* result is the same.
HotGroup(batch, s) ==
    LET group[n \in 0..Len(batch)] ==
            IF n = 0 THEN NoRow
            ELSE IF batch[n].sku # s THEN group[n - 1]
            ELSE IF group[n - 1] = NoRow
                 THEN [at |-> batch[n].ts, cols |-> batch[n].contrib]
                 ELSE JoinGroup(group[n - 1], batch[n])
    IN  group[Len(batch)]

\* The SET list: every projected column and last_source_event_at.
Updated(h, g) == [at |-> g.at, cols |-> Over(g.cols, h.cols)]

\* last_source_event_at IS NULL OR incoming >= last_source_event_at, on a row.
NotOlder(g, h) == g.at >= h.at

\* What the first hot row of a SKU looks like before any chunk is written.
InitialHot == [s \in Skus |-> IF s \in Onboarded THEN [at |-> 0, cols |-> << >>] ELSE NoRow]

\* A chunk has landed when its rows are in the log and no hot row is behind them.
Landed(c, rows, hotRows) ==
    \A r \in RowsIn(EventRows[c]) :
        /\ c \notin Catalogue => r \in rows
        /\ hotRows[r.sku] # NoRow
        /\ hotRows[r.sku].at >= r.ts
=============================================================================
