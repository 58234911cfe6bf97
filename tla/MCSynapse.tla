------------------------------ MODULE MCSynapse ------------------------------
(* An instance of Synapse for TLC: one tenant, two SKUs, at most two           *)
(* executions of the orchestrator or two console requests.                    *)
EXTENDS SynapseReads

Line(event, sku, day, subtype, quantity) ==
    [event |-> event, sku |-> sku, day |-> day, subtype |-> subtype, quantity |-> quantity]

\* A sale of the second SKU, and a correction of event 2.
MCSaleLines == {Line(4, 2, 2, "SALE", 3), Line(2, 1, 2, "RETURN", -3)}

Selling == <<Line(1, 1, 1, "SALE", 2), Line(2, 1, 2, "SALE", 2), Line(3, 2, 0, "SALE", 1)>>
Quiet == <<Line(1, 1, -2, "SALE", 2), Line(2, 1, 1, "SALE", 1)>>
Stopped == <<Line(1, 1, -1, "SALE", 2), Line(2, 1, 0, "SALE", 1)>>

MCStocks == {0, Null}
MCNotice == [r \in Requests |-> IF r = 1 THEN "m1" ELSE "m2"]
MCExpiresAfterDays == [a \in Analyses |-> IF a = "dead_stock" THEN 2 ELSE 1]
MCTimezones == {-1, 0}
MCHeld == {<<"dead_stock", 2>>, <<"stockout_risk", 2>>}

On(z) == [rung |-> "shadow", timezone |-> z, enabled_at |-> StartNow, disabled |-> FALSE]
Stocked == [k \in {1, 2} |-> k]

Nothing == [moves |-> 0, faults |-> 0, ticks |-> 0, edits |-> 0, decisions |-> 0,
            requests |-> 0, foreign |-> FALSE, jobs |-> 0]

\* Two executions of one analysis, with a fault, moving data and, where it changes the
\* tenant's date, passing time.
Overlaps ==
    {[positions |-> Stocked, lines |-> Selling, provision |-> [b \in {a} |-> On(z)],
      left |-> [Nothing EXCEPT !.moves = 1, !.faults = 1, !.ticks = -z, !.jobs = 2]] :
        a \in Analyses, z \in {-1, 0}}

\* One execution of both analyses.
Sweeps ==
    {[positions |-> Stocked, lines |-> h, provision |-> [a \in Analyses |-> On(0)],
      left |-> [Nothing EXCEPT !.moves = 1, !.faults = 2, !.jobs = 1]] :
        h \in {Selling, Quiet, Stopped}}

\* An operator disables an analysis or sets its rung between two attempts.
Edits ==
    {[positions |-> Stocked, lines |-> Selling, provision |-> [a \in Analyses |-> On(0)],
      left |-> [Nothing EXCEPT !.faults = 1, !.edits = 1, !.jobs = 1]]}

\* Decisions are made on alerts of two days; or nothing was ever sold.
Alerts ==
    {[positions |-> p, lines |-> h, provision |-> [a \in {"dead_stock"} |-> On(-1)],
      left |-> [Nothing EXCEPT !.ticks = 1, !.decisions = 2, !.jobs = 2]] :
        p \in {Stocked, [k \in {1, 2} |-> IF k = 1 THEN Null ELSE 1]}, h \in {<<>>, Selling}}

\* The console enables the analyses and Axon delivers the notices: one request for a
\* tenant without any, beside a message Axon cannot serve, or two that race for the
\* analysis that is left.
Console ==
    {[positions |-> Stocked, lines |-> <<>>, provision |-> [a \in on |-> On(0)],
      left |-> [Nothing EXCEPT !.requests = IF on = {} THEN 1 ELSE 2, !.foreign = (on = {})]] :
        on \in {{}, {"dead_stock"}}}

MCWorkloads == Overlaps \cup Sweeps \cup Edits \cup Alerts \cup Console
=============================================================================
