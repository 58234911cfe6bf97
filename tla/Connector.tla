----------------------------- MODULE Connector -----------------------------
(***************************************************************************)
(* One Square or Clover source: ConnectorPipeline.run, executed by runs    *)
(* that may overlap and may die at any step, over the tokens of            *)
(* ConnectorTokens, the bronze table, the ingress.ready topic and the      *)
(* telemetry.connector_health row.                                         *)
(*                                                                         *)
(* Each execution is one process with one trigger (real_transport): the    *)
(* connector_run_id follows from the run key, so a retry of a run repeats  *)
(* it, and the trace is new.  An extract is its content; the bronze id     *)
(* stands for the row, its trace and its object, which are minted          *)
(* together.  Adapter headers are fixed and hold no PII column, so the PII *)
(* gate always passes.  Every exception that leaves run ends the process,  *)
(* which is what Crash models.                                             *)
(***************************************************************************)
EXTENDS ConnectorTokens

CONSTANTS
    RunKeys,      \* logical runs
    Contents,     \* what the vendor's catalogue may hold
    Empty,        \* the contents that yield no row
    MaxTriggers,  \* bound on executions
    MaxRows,      \* bound on objects uploaded
    MaxAttempts   \* _MAX_ATTEMPTS of the pullers

ASSUME ConnectorAssumption ==
    /\ Empty \subseteq Contents
    /\ MaxTriggers \in Nat
    /\ MaxRows \in Nat \ {0}
    /\ MaxAttempts \in Nat \ {0}

Ids == 1..MaxRows

Disposition == {"auth_failed", "extract_failed", "duplicate_noop", "duplicate_resumed",
                "preflight_failed", "ingested"}
Reason == {"AUTH_FAILED", "RATE_LIMITED", "VENDOR_UNAVAILABLE"}
Posture == {None, "throttled", "exhausted"}

BronzeRow == [key : RunKeys, sha : Contents, status : {"RECEIVED", "FAILED"},
              published : BOOLEAN]

ASSUME ConnectorNoneAssumption ==
    /\ None \notin RunKeys \cup Contents
    /\ None \notin Ids /\ None \notin BronzeRow
    /\ None \notin Disposition \cup Reason \cup {"throttled", "exhausted"}

VARIABLES
    objects,    \* bucket: the content of each uploaded object
    bronze,     \* bronze rows, channel api
    ready,      \* ids of the envelopes on ingress.ready
    health,     \* the connector_health row
    ctx,        \* locals of each run
    limited,    \* runs that were ever answered 429 (history)
    triggers    \* executions so far

dataVars == <<objects, bronze, ready, health>>
vars == <<tokenVars, dataVars, pc, ctx, limited, triggers>>

Context == [key : RunKeys \cup {None}, attempt : 1..MaxAttempts, throttled : BOOLEAN,
            content : Contents \cup {None}, row : Ids \cup {None},
            reason : Reason \cup {None}, outcome : Disposition \cup {None}]

NoContext == [key |-> None, attempt |-> 1, throttled |-> FALSE, content |-> None,
              row |-> None, reason |-> None, outcome |-> None]

Steps == TokenSteps \cup
    {"idle", "probe", "extract", "lookup", "preflight", "upload", "insert", "publish",
     "mark", "fail upload", "fail insert", "report"}

TypeOK ==
    /\ TokenTypeOK
    /\ objects \in [Ids -> Contents \cup {None}]
    /\ bronze \in [Ids -> BronzeRow \cup {None}]
    /\ ready \subseteq Ids
    /\ health \in [status : {None, "healthy", "stale"}, rate_limit_state : Posture]
    /\ pc \in [Runs -> Steps]
    /\ ctx \in [Runs -> Context]
    /\ limited \subseteq Runs
    /\ triggers \in 0..MaxTriggers

Init ==
    /\ TokenInit
    /\ objects = [i \in Ids |-> None]
    /\ bronze = [i \in Ids |-> None]
    /\ ready = {}
    /\ health = [status |-> None, rate_limit_state |-> None]
    /\ pc = [r \in Runs |-> "idle"]
    /\ ctx = [r \in Runs |-> NoContext]
    /\ limited = {}
    /\ triggers = 0

----------------------------------------------------------------------------

\* real_transport: mint the run id of a run key and start the pipeline.
RunTrigger(r) ==
    /\ pc[r] = "idle"
    /\ triggers < MaxTriggers
    /\ triggers' = triggers + 1
    /\ \E k \in RunKeys : ctx' = [ctx EXCEPT ![r] = [NoContext EXCEPT !.key = k]]
    /\ Goto(r, "auth")
    /\ limited' = limited \ {r}
    /\ UNCHANGED <<tokenVars, dataVars>>

\* The outcome is decided; what is left is the health emit.
Conclude(r, outcome, reason) ==
    /\ ctx' = [ctx EXCEPT ![r].outcome = outcome, ![r].reason = reason]
    /\ Goto(r, "report")

\* A DisError that is no ConnectorError leaves run: no audit, no health, no outcome.
Escape(r) ==
    /\ ctx' = [ctx EXCEPT ![r] = NoContext]
    /\ Goto(r, "idle")

\* What authenticate raises: CloverOAuthError is not a ConnectorError, Square's store
\* maps its own errors to one.
AuthFails(r) ==
    IF vendor = "clover"
    THEN Escape(r)
    ELSE \E reason \in {"AUTH_FAILED", "VENDOR_UNAVAILABLE"} :
            Conclude(r, "auth_failed", reason)

\* Step 1. Authenticate: the token, then one request that validates it (get_merchant,
\* list_locations).
Authenticate(r) ==
    /\ \/ get_session(r, UNCHANGED ctx, AuthFails(r))
       \/ refresh(r, UNCHANGED ctx, AuthFails(r))
       \/ _recover(r, UNCHANGED ctx, AuthFails(r))
       \/ _persist_then_return(r, UNCHANGED ctx, Escape(r))
    /\ UNCHANGED <<dataVars, limited>>

LastAttempt(r) == ctx[r].attempt = MaxAttempts

\* A 429 that is going to be retried sets _absorbed_rate_limit.
Absorb(r) == ctx' = [ctx EXCEPT ![r].attempt = @ + 1, ![r].throttled = TRUE]

\* _get / _request: at most MaxAttempts attempts; 429, 5xx and transport errors are
\* retried, 401 / 403 and any other status are final.
Request(r, ok, outcome) ==
    \/ ok /\ UNCHANGED limited
    \/ Conclude(r, outcome, "AUTH_FAILED") /\ UNCHANGED limited
    \/ /\ IF LastAttempt(r) THEN Conclude(r, outcome, "RATE_LIMITED") ELSE Absorb(r) /\ UNCHANGED pc
       /\ limited' = limited \cup {r}
    \/ /\ ~LastAttempt(r)
       /\ ctx' = [ctx EXCEPT ![r].attempt = @ + 1]
       /\ UNCHANGED <<pc, limited>>
    \/ Conclude(r, outcome, "VENDOR_UNAVAILABLE") /\ UNCHANGED limited

Probe(r) ==
    /\ pc[r] = "probe"
    /\ Request(r, Goto(r, "extract") /\ ctx' = [ctx EXCEPT ![r].attempt = 1], "auth_failed")
    /\ UNCHANGED <<tokenVars, dataVars>>

\* Steps 2 and 3. _extract_all, and the hash of what it returned, which may differ from
\* what the previous attempt at the same run got.  The requests of one extract share
\* the fate of one.
Extract(r) ==
    /\ pc[r] = "extract"
    /\ Request(r,
               /\ Goto(r, "lookup")
               /\ \E c \in Contents :
                    ctx' = [ctx EXCEPT ![r].attempt = 1, ![r].content = c],
               "extract_failed")
    /\ UNCHANGED <<tokenVars, dataVars>>

----------------------------------------------------------------------------
(* Bronze and ingress.ready. *)

Priors(r) ==
    {i \in Ids : /\ bronze[i] # None
                 /\ bronze[i].key = ctx[r].key
                 /\ bronze[i].sha = ctx[r].content}

\* find_prior: the newest row of this run id and this payload, inside the window.
IsPrior(i, r) == i \in Priors(r) /\ \A j \in Priors(r) : j <= i

\* Mutant: a landed row is taken for a published one.
Concluded_Landed(i) == bronze[i].status \in {"FAILED", "RECEIVED"}

Concluded(i) == bronze[i].status = "FAILED" \/ bronze[i].published

\* Step 4. The dedup lookup and both branches of _handle_duplicate: nothing left to do,
\* or resume the lost publish of the prior row.
Lookup(r) ==
    /\ pc[r] = "lookup"
    /\ \/ /\ Priors(r) = {}
          /\ Goto(r, "preflight")
          /\ UNCHANGED ctx
       \/ \E i \in Ids :
            /\ IsPrior(i, r)
            /\ IF Concluded(i)
               THEN Conclude(r, "duplicate_noop", None)
               ELSE /\ ctx' = [ctx EXCEPT ![r].row = i, ![r].outcome = "duplicate_resumed"]
                    /\ Goto(r, "publish")
    /\ UNCHANGED <<tokenVars, dataVars, limited>>

\* Steps 5 and 6. run_preflight; the RECEIVED audit and the PII gate.
Preflight(r) ==
    /\ pc[r] = "preflight"
    /\ Goto(r, IF ctx[r].content \in Empty THEN "fail upload" ELSE "upload")
    /\ UNCHANGED <<tokenVars, dataVars, ctx, limited>>

\* Step 7, and the first half of _handle_preflight_failure: the object first.
Upload(r) ==
    /\ pc[r] \in {"upload", "fail upload"}
    /\ \E i \in Ids :
         /\ objects[i] = None
         /\ \A j \in 1..(i - 1) : objects[j] # None
         /\ objects' = [objects EXCEPT ![i] = ctx[r].content]
         /\ ctx' = [ctx EXCEPT ![r].row = i]
    /\ Goto(r, IF pc[r] = "upload" THEN "insert" ELSE "fail insert")
    /\ UNCHANGED <<tokenVars, bronze, ready, health, limited>>

Row(r, status) ==
    [key |-> ctx[r].key, sha |-> ctx[r].content, status |-> status, published |-> FALSE]

\* Step 8. The bronze row.
Insert(r) ==
    /\ pc[r] = "insert"
    /\ bronze' = [bronze EXCEPT ![ctx[r].row] = Row(r, "RECEIVED")]
    /\ ctx' = [ctx EXCEPT ![r].outcome = "ingested"]
    /\ Goto(r, "publish")
    /\ UNCHANGED <<tokenVars, objects, ready, health, limited>>

\* The second half of _handle_preflight_failure: a FAILED row, and no publish.
InsertFailed(r) ==
    /\ pc[r] = "fail insert"
    /\ bronze' = [bronze EXCEPT ![ctx[r].row] = Row(r, "FAILED")]
    /\ Conclude(r, "preflight_failed", None)
    /\ UNCHANGED <<tokenVars, objects, ready, health, limited>>

\* Step 9, and the resume: publish ...
Publish(r) ==
    /\ pc[r] = "publish"
    /\ ready' = ready \cup {ctx[r].row}
    /\ Goto(r, "mark")
    /\ UNCHANGED <<tokenVars, objects, bronze, health, ctx, limited>>

\* ... then mark_published.
MarkPublished(r) ==
    /\ pc[r] = "mark"
    /\ bronze' = [bronze EXCEPT ![ctx[r].row].published = TRUE]
    /\ Goto(r, "report")
    /\ UNCHANGED <<tokenVars, objects, ready, health, ctx, limited>>

----------------------------------------------------------------------------
(* telemetry.connector_health. *)

\* Mutant: a run that did not extract passes None instead of RATE_LIMIT_UNKNOWN.
RateLimitState_Clears(c) ==
    IF c.reason = "RATE_LIMITED" THEN {"exhausted"}
    ELSE IF c.throttled THEN {"throttled"} ELSE {None}

\* The posture an outcome stamps: what an ingest observed, exhausted when the retries
\* ran out on 429; RATE_LIMIT_UNKNOWN, which stamps nothing, otherwise.
RateLimitState(c) ==
    CASE c.outcome = "ingested" -> {IF c.throttled THEN "throttled" ELSE None}
      [] c.reason = "RATE_LIMITED" -> {"exhausted"}
      [] OTHER -> {}

\* upsert_health_seen, upsert_health_error.
Upserted(c) ==
    [status |-> IF c.outcome \in {"ingested", "duplicate_noop", "duplicate_resumed"}
                THEN "healthy" ELSE "stale",
     rate_limit_state |-> IF RateLimitState(c) = {}
                          THEN health.rate_limit_state
                          ELSE CHOOSE s \in RateLimitState(c) : TRUE]

\* _emit_health_seen / _emit_health_error / _emit_terminal_failure: the upsert, or an
\* error that is swallowed; run returns its outcome either way.
Report(r) ==
    /\ pc[r] = "report"
    /\ health' \in {health, Upserted(ctx[r])}
    /\ ctx' = [ctx EXCEPT ![r].throttled = FALSE, ![r].row = None, ![r].reason = None,
                          ![r].attempt = 1]
    /\ limited' = limited \ {r}
    /\ Goto(r, "idle")
    /\ UNCHANGED <<tokenVars, objects, bronze, ready>>

----------------------------------------------------------------------------

\* The process dies, or an exception nobody handles ends it.
Crash(r) ==
    /\ pc[r] # "idle"
    /\ Escape(r)
    /\ Drop(r)
    /\ limited' = limited \ {r}
    /\ UNCHANGED <<vendor, grantVars, vault, age, dataVars>>

Merchant ==
    /\ Revoke \/ RecoveryLapses \/ AccessTokenFallsDue \/ RefreshTokenExpires \/ oauth_complete
    /\ UNCHANGED <<dataVars, ctx, limited>>

Next ==
    \/ \E r \in Runs : RunTrigger(r)
    \/ /\ \/ \E r \in Runs :
               \/ Authenticate(r) \/ Probe(r) \/ Extract(r) \/ Lookup(r) \/ Preflight(r)
               \/ Upload(r) \/ Insert(r) \/ InsertFailed(r) \/ Publish(r)
               \/ MarkPublished(r) \/ Report(r) \/ Crash(r)
          \/ Merchant
       /\ UNCHANGED triggers

Spec == Init /\ [][Next]_vars

----------------------------------------------------------------------------

Returned(r) == pc[r] = "idle" /\ ctx[r].outcome # None

\* ConnectorOutcome: a run that returned ingested or duplicate_* leaves its payload
\* announced on ingress.ready, by itself or by the run it duplicates, or on record as a
\* FAILED row; whatever crashed before, and whatever other run was resuming the row.
\* The state stays well typed, the attempts of an extract included.
FinishedRunIsAnnounced ==
    /\ TypeOK
    /\ \A r \in Runs :
        (Returned(r) /\ ctx[r].outcome \in {"ingested", "duplicate_noop", "duplicate_resumed"})
        => \E i \in Priors(r) :
             \/ bronze[i].status = "RECEIVED" /\ i \in ready /\ objects[i] = ctx[r].content
             \/ bronze[i].status = "FAILED" /\ ctx[r].outcome = "duplicate_noop"

\* rate_limit_state, "distinct from None, which asserts 'no rate-limit response
\* observed' and CLEARS the column": a stored throttle disappears only in the emit of a
\* run that ingested and never saw a 429, and appears only after one.
PostureStep ==
    \A r \in Runs :
        (pc[r] = "report" /\ pc'[r] = "idle"
         /\ health'.rate_limit_state # health.rate_limit_state)
        => IF health'.rate_limit_state = None
           THEN ctx[r].outcome = "ingested" /\ r \notin limited
           ELSE r \in limited

PostureIsEarned == [][PostureStep]_vars

============================================================================
