----------------------------- MODULE CmSession -----------------------------
(* A request to the Customer Master backend runs in one transaction         *)
(* (db/session.py get_tenant_session): it commits when the handler returns  *)
(* and rolls back when anything raises.  A request is a record whose "op"   *)
(* names the endpoint and whose other fields are its body.  The statements  *)
(* of a transaction are separate steps, so that requests interleave between *)
(* them.  What a transaction writes becomes visible when it commits, so     *)
(* every operation reads and locks in steps of its own and writes in the    *)
(* step that commits.                                                       *)
EXTENDS Naturals, Sequences, FiniteSets

CONSTANTS Requests,     \* the requests a client may send
          None,         \* SQL NULL, and a missing row
          RoleIds,      \* the roles, a fixed catalogue
          TenantRoles,  \* the roles of the TENANT audience; the rest is PLATFORM's
          Archived      \* the ARCHIVED roles

VARIABLES step,         \* step[q]: the statement request q runs next
          local,        \* local[q]: what the handler of q has read so far
          locks,        \* locks[q]: the row locks q's transaction holds
          trail         \* trail[r]: the audit rows about r's status, in commit order

sessionVars == <<step, local, locks, trail>>

(* The caller of a request: its user_type, its user and, for a TENANT user, *)
(* its tenant (auth/context.py AuthContext).                                *)
Caller(type, user, tenant) == [type |-> type, user |-> user, tenant |-> tenant]

(* The endpoints without a permission gate (GATE_EXEMPT_PATHS); the mirror  *)
(* job is not a request at all.                                             *)
Ungated == {"login", "mirror_pass"}

(* The requests in "sent" arrive; the others are never sent.                *)
SessionInit(sent) ==
    /\ step = [q \in Requests |-> IF q \notin sent THEN "answered"
                                  ELSE IF q.op \in Ungated THEN "received" ELSE "arrived"]
    /\ local = [q \in Requests |-> None]
    /\ locks = [q \in Requests |-> {}]

(* The row policies of the tenant-owned tables compare a row's tenant with  *)
(* the session's app.tenant_id, or admit everything to app.user_type        *)
(* PLATFORM.                                                                *)
Sees(q, tenant) == q.by.type = "PLATFORM" \/ q.by.tenant = tenant

At(q, op, s) == q.op = op /\ step[q] = s

(* PostgreSQL's row locks: SELECT FOR UPDATE and DELETE take "update", an   *)
(* UPDATE that leaves the keys alone takes "no_key", and the foreign key of *)
(* an inserted row takes "key_share" on the row it refers to.               *)
Compatible(a, b) == "key_share" \in {a, b} /\ "update" \notin {a, b}

Free(q, row, mode) ==
    \A p \in Requests \ {q} : \A l \in locks[p] : l.row = row => Compatible(l.mode, mode)

Lock(row, mode) == [row |-> row, mode |-> mode]

(* A statement that takes locks and remembers what it read.                 *)
Proceed(q, s, read, taken) ==
    /\ step' = [step EXCEPT ![q] = s]
    /\ local' = [local EXCEPT ![q] = read]
    /\ locks' = [locks EXCEPT ![q] = @ \cup taken]
    /\ UNCHANGED trail

(* The transaction ends and lets go of its locks.                           *)
Done(q) ==
    /\ step' = [step EXCEPT ![q] = "answered"]
    /\ local' = [local EXCEPT ![q] = None]
    /\ locks' = [locks EXCEPT ![q] = {}]

Answer(q) == Done(q) /\ UNCHANGED trail

(* emit_audit_event: the audit row is part of the transaction.  It goes to  *)
(* the tenant's table, or to the platform's for the creation of a tenant.   *)
AnswerAudited(q, row, before, after) ==
    /\ Done(q)
    /\ trail' = [trail EXCEPT ![row] = Append(@,
           [table |-> IF q.op = "create_tenant" THEN "platform" ELSE "tenant",
            by |-> q.by, before |-> before, after |-> after])]

InFlight(q) == step[q] \notin {"arrived", "received", "answered"}

(* A domain error, a constraint violation, a failed external call, a lost   *)
(* connection, a failed commit or a deadlock: the handler raises and the    *)
(* transaction is rolled back, whatever statement it had reached.           *)
Rollback(q) == step[q] # "answered" /\ Answer(q)
=============================================================================
