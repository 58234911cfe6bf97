----------------------------- MODULE DualWrite -----------------------------
(***************************************************************************)
(* What the canonical sink promises: a batch reaches the event log and the *)
(* hot table in one step or not at all, an event older than its hot row    *)
(* never overwrites it, repeating a batch adds nothing to the log, and a   *)
(* chunk is reported as written only when all of it has landed.            *)
(***************************************************************************)
EXTENDS HotMerge

VARIABLES
    log,   \* rows of the event table
    hot,   \* canonical.store_sku_current_position
    done   \* chunks whose write returned a WriteReport

vars == <<log, hot, done>>

Init ==
    /\ log = {}
    /\ hot = InitialHot
    /\ done = {}

\* The hot row of s after group g: created only from a catalogue chunk.
Merged(c, s, g) ==
    IF hot[s] = NoRow
    THEN IF c \in Catalogue THEN g ELSE NoRow
    ELSE IF NotOlder(g, hot[s]) THEN Updated(hot[s], g) ELSE hot[s]

\* One batch of c.  The sink may pass over some SKUs of it (no hot row to update
\* when it looked), but then it may not report the chunk.
WriteBatch(c, i) ==
    /\ log' = IF c \in Catalogue THEN log ELSE log \cup RowsIn(Batch(c, i))
    /\ \E passed \in SUBSET BatchSkus(Batch(c, i)) :
         hot' = [s \in Skus |->
                   IF s \in BatchSkus(Batch(c, i)) \ passed
                   THEN Merged(c, s, HotGroup(Batch(c, i), s)) ELSE hot[s]]
    /\ done' \in {done, done \cup {c}}
    /\ c \in done' \ done => Landed(c, log', hot')

Next == \E c \in Chunks : \E i \in 1..BatchCount(c) : WriteBatch(c, i)

Spec == Init /\ [][Next]_vars
=============================================================================
