-------------------------- MODULE MappingTemplates --------------------------
(***************************************************************************)
(* config.source_mappings under concurrent editors: POST and PATCH of      *)
(* /mapping-templates in dis-ui-server, statement by statement, as READ    *)
(* COMMITTED transactions.  A template is a lineage of version rows; a     *)
(* PATCH locks the lineage, reads it again, and decides on that second     *)
(* read whether to edit the DRAFT in place or to chain a new one.          *)
(*                                                                         *)
(* Each editor sends one request.  What it carries, the columns of a POST  *)
(* or the rules document of a PATCH, first passes MappingGates.  Tenant    *)
(* and source are fixed: every constraint of the table is per tenant and   *)
(* source.  The endpoints that promote or deprecate a version are not in   *)
(* the repository; versions in those states are part of the table the      *)
(* editors find.                                                           *)
(***************************************************************************)
EXTENDS MappingGates

CONSTANTS
    Editors,    \* requests in flight, one each
    Templates,  \* template_ids, the ones of Seed and fresh UUIDs
    Names,      \* template names
    Bodies,     \* by name, what a POST may carry: template_type and columns
    Documents,  \* by name, the mapping_rules a PATCH may carry
    MaxRows,    \* bound: mapping_version_ids 1..MaxRows
    Seed,       \* the rows the editors find
    None        \* NULL; no row; no lock

Ids == 1..MaxRows
Status == {"DRAFT", "STAGED", "ACTIVE", "DEPRECATED"}
\* mapping_rules is told apart by who sent it and by what was sent.
SourceMappingRow ==
    [template : Templates, name : Names, type : TEMPLATE_TYPES, status : Status, seq : Ids,
     author : Editors \cup {None}, rules : DOMAIN Bodies \cup DOMAIN Documents,
     predecessor : Ids \cup {None}]
Request ==
    [op : {"create", "patch"}, template : Templates, name : Names \cup {None},
     rules : DOMAIN Bodies \cup DOMAIN Documents \cup {None}]

ASSUME MappingTemplatesAssumption ==
    /\ MaxRows \in Nat
    /\ None \notin Editors \cup Names \cup Ids \cup SourceMappingRow \cup Request
    /\ None \notin DOMAIN Bodies \cup DOMAIN Documents
    /\ DOMAIN Bodies \cap DOMAIN Documents = {}
    /\ Seed \in [Ids -> SourceMappingRow \cup {None}]

VARIABLES
    rows,  \* the committed table
    lock,  \* who holds each row's FOR UPDATE lock
    pend,  \* each transaction's uncommitted row versions
    req,   \* the request body
    snap,  \* ids the running SELECT ... FOR UPDATE found
    pc     \* the editor's next statement

table == <<rows, lock, pend>>
vars == <<table, req, snap, pc>>

Steps == {"idle", "insert", "lock", "reread", "rename", "edit", "commit", "done"}

TypeOK ==
    /\ rows \in [Ids -> SourceMappingRow \cup {None}]
    /\ lock \in [Ids -> Editors \cup {None}]
    /\ pend \in [Editors -> [Ids -> SourceMappingRow \cup {None}]]
    /\ req \in [Editors -> Request \cup {None}]
    /\ snap \in [Editors -> SUBSET Ids]
    /\ pc \in [Editors -> Steps]

NoWrites == [i \in Ids |-> None]

Init ==
    /\ rows = Seed
    /\ lock = NoWrites
    /\ pend = [e \in Editors |-> NoWrites]
    /\ req = [e \in Editors |-> None]
    /\ snap = [e \in Editors |-> {}]
    /\ pc = [e \in Editors |-> "idle"]

-----------------------------------------------------------------------------
(* The table. *)

\* What a new statement of e's transaction sees.
View(e) == [i \in Ids |-> IF pend[e][i] # None THEN pend[e][i] ELSE rows[i]]

Lineage(tab, t) == {i \in Ids : tab[i] # None /\ tab[i].template = t}

\* ORDER BY version_seq_per_source DESC: the first row of a result.
First(tab, ids) == CHOOSE i \in ids : \A j \in ids : tab[j].seq <= tab[i].seq

\* set_csm_version_seq, the BEFORE INSERT trigger: MAX + 1 on a fresh snapshot.
NextSeq(tab, t) ==
    IF Lineage(tab, t) = {} THEN 1 ELSE tab[First(tab, Lineage(tab, t))].seq + 1

Living(row) == row.status # "DEPRECATED"

\* ex_csm_template_name_per_source: rows of another template with this name.
Excludes(row, t, name) == row # None /\ row.template # t /\ row.name = name /\ Living(row)

\* A committed row no running transaction touches stands in the way.
NameTaken(e, t, name) ==
    \E i \in Ids : /\ Excludes(rows[i], t, name)
                   /\ \A f \in Editors \ {e} : pend[f][i] = None

\* The outcome depends on a transaction that is still running: the statement waits.
NameInDoubt(e, t, name) ==
    \E f \in Editors \ {e}, i \in Ids :
        /\ pend[f][i] # None
        /\ Excludes(pend[f][i], t, name) \/ Excludes(rows[i], t, name)

FreeIds == {i \in Ids : rows[i] = None /\ \A e \in Editors : pend[e][i] = None}

\* The next value of the BIGSERIAL.
NewId == CHOOSE i \in FreeIds : \A j \in FreeIds : i <= j

Goto(e, step) == pc' = [pc EXCEPT ![e] = step]

\* The transaction ends and its locks go.
EndTxn(e) ==
    /\ pend' = [pend EXCEPT ![e] = NoWrites]
    /\ lock' = [i \in Ids |-> IF lock[i] = e THEN None ELSE lock[i]]
    /\ snap' = [snap EXCEPT ![e] = {}]
    /\ Goto(e, "done")
    /\ UNCHANGED req

Rollback(e) == EndTxn(e) /\ UNCHANGED rows

-----------------------------------------------------------------------------
(* POST /mapping-templates. *)

\* The POSTs that translate_columns_to_mapping_rules and the gate let through.
PostGate == [b \in DOMAIN Bodies |-> body_accepted(Bodies[b])]

\* The gates passed; a fresh template_id is minted.
CreateMappingTemplate(e) ==
    /\ pc[e] = "idle"
    /\ \E t \in Templates, n \in Names, b \in DOMAIN Bodies :
         /\ PostGate[b]
         /\ Lineage(rows, t) = {}
         /\ \A f \in Editors : req[f] # None => req[f].template # t
         /\ req' = [req EXCEPT ![e] =
                      [op |-> "create", template |-> t, name |-> n, rules |-> b]]
    /\ Goto(e, "insert")
    /\ UNCHANGED <<table, snap>>

\* create_template: version 1 is ACTIVE at once.
InsertFirstVersion(e) ==
    LET r == req[e]
    IN  /\ pc[e] = "insert"
        /\ ~NameTaken(e, r.template, r.name)
        /\ ~NameInDoubt(e, r.template, r.name)
        /\ FreeIds # {}
        /\ pend' = [pend EXCEPT ![e][NewId] =
                      [template |-> r.template, name |-> r.name,
                       type |-> Bodies[r.rules].template_type, status |-> "ACTIVE",
                       seq |-> NextSeq(View(e), r.template), author |-> e, rules |-> r.rules,
                       predecessor |-> None]]
        /\ Goto(e, "commit")
        /\ UNCHANGED <<rows, lock, req, snap>>

\* MappingTemplateNameConflictError, 409, out of the INSERT or out of a rename.
NameConflict(e) ==
    /\ pc[e] \in {"insert", "rename"}
    /\ NameTaken(e, req[e].template, req[e].name)
    /\ \/ pc[e] = "insert"
       \/ \E i \in Lineage(rows, req[e].template) : Living(rows[i])
    /\ Rollback(e)

-----------------------------------------------------------------------------
(* PATCH /mapping-templates/{template_id}. *)

\* The documents the gate of each type lets through.
PatchGate ==
    [type \in TEMPLATE_TYPES |->
        {d \in DOMAIN Documents : validate_mapping_rules_for_type(Documents[d], type)}]

\* The type the handler reads before it validates; the newest row has it.
template_type(t) == rows[First(rows, Lineage(rows, t))].type

\* The handler's own read of the lineage found it if there are rules to validate; then
\* patch_template opens its transaction and statement 1 takes its snapshot.
PatchMappingTemplate(e) ==
    /\ pc[e] = "idle"
    /\ \E t \in Templates, n \in Names \cup {None}, d \in DOMAIN Documents \cup {None} :
         /\ d # None => Lineage(rows, t) # {} /\ d \in PatchGate[template_type(t)]
         /\ n = None => d # None
         /\ req' = [req EXCEPT ![e] = [op |-> "patch", template |-> t, name |-> n, rules |-> d]]
         /\ snap' = [snap EXCEPT ![e] = Lineage(rows, t)]
    /\ Goto(e, "lock")
    /\ UNCHANGED table

\* A 400 of the gate, on either path, before any statement: nothing is stored.
RequestRefused(e) ==
    /\ pc[e] = "idle"
    /\ \/ \E b \in DOMAIN Bodies : ~PostGate[b]
       \/ \E t \in Templates : /\ Lineage(rows, t) # {}
                               /\ DOMAIN Documents \ PatchGate[template_type(t)] # {}
    /\ Goto(e, "done")
    /\ UNCHANGED <<table, req, snap>>

Unlocked(e) == {i \in snap[e] : lock[i] # e}

\* Mutant: the lock is taken although another transaction has it (no FOR UPDATE).
LockRow_NoWait(e) ==
    LET i == First(rows, Unlocked(e))
    IN  /\ pc[e] \in {"lock", "reread"}
        /\ Unlocked(e) # {}
        /\ lock' = [lock EXCEPT ![i] = e]
        /\ UNCHANGED <<rows, pend, req, snap, pc>>

\* FOR UPDATE takes the rows one by one in result order and waits for each.
LockRow(e) ==
    LET i == First(rows, Unlocked(e))
    IN  /\ pc[e] \in {"lock", "reread"}
        /\ Unlocked(e) # {}
        /\ lock[i] = None
        /\ lock' = [lock EXCEPT ![i] = e]
        /\ UNCHANGED <<rows, pend, req, snap, pc>>

\* Mutant: the first, blocked read is the one decided on.
Reread_Skipped(e) ==
    /\ pc[e] = "lock"
    /\ Unlocked(e) = {}
    /\ Goto(e, "reread")
    /\ UNCHANGED <<table, req, snap>>

\* Statement 2 starts: the same query on a fresh snapshot.
Reread(e) ==
    /\ pc[e] = "lock"
    /\ Unlocked(e) = {}
    /\ snap' = [snap EXCEPT ![e] = Lineage(rows, req[e].template)]
    /\ Goto(e, "reread")
    /\ UNCHANGED <<table, req>>

CurrentName(e) == rows[First(rows, snap[e])].name

AfterRename(e) == IF req[e].rules # None THEN "edit" ELSE "commit"

\* ResourceNotFoundError, 404.
TemplateNotFound(e) ==
    /\ pc[e] = "reread"
    /\ snap[e] = {}
    /\ Rollback(e)

\* Statement 2 returned: `locked` is decided on.
Decide(e) ==
    /\ pc[e] = "reread"
    /\ snap[e] # {}
    /\ Unlocked(e) = {}
    /\ Goto(e, IF req[e].name \notin {None, CurrentName(e)} THEN "rename" ELSE AfterRename(e))
    /\ UNCHANGED <<table, req, snap>>

\* UPDATE of the name on every row of the lineage, a row lock on each included.
RenameLineage(e) ==
    LET t == req[e].template
        ids == Lineage(rows, t)
        excluded == NameTaken(e, t, req[e].name) \/ NameInDoubt(e, t, req[e].name)
    IN  /\ pc[e] = "rename"
        /\ \A i \in ids : lock[i] \in {None, e}
        /\ lock' = [i \in Ids |-> IF i \in ids THEN e ELSE lock[i]]
        /\ ~(excluded /\ \E i \in ids : Living(rows[i]))
        /\ pend' = [pend EXCEPT ![e] = [i \in Ids |->
                      IF i \in ids THEN [rows[i] EXCEPT !.name = req[e].name] ELSE @[i]]]
        /\ Goto(e, AfterRename(e))
        /\ UNCHANGED <<rows, req, snap>>

Drafts(e) == {i \in snap[e] : rows[i].status = "DRAFT"}
LivingVersions(e) == {i \in snap[e] : Living(rows[i])}

\* Mutant: the newest living version is edited in place, whatever its status.
EditDraft_AnyHead(e) ==
    /\ pc[e] = "edit"
    /\ LivingVersions(e) # {}
    /\ LET i == First(rows, LivingVersions(e))
       IN  pend' = [pend EXCEPT ![e][i] = [View(e)[i] EXCEPT !.author = e, !.rules = req[e].rules]]
    /\ Goto(e, "commit")
    /\ UNCHANGED <<rows, lock, req, snap>>

\* _apply_rules_edit with a DRAFT: its rules are replaced in place.
EditDraft(e) ==
    /\ pc[e] = "edit"
    /\ Drafts(e) # {}
    /\ LET i == First(rows, Drafts(e))
       IN  pend' = [pend EXCEPT ![e][i] = [View(e)[i] EXCEPT !.author = e, !.rules = req[e].rules]]
    /\ Goto(e, "commit")
    /\ UNCHANGED <<rows, lock, req, snap>>

\* Mutant: the new DRAFT copies the name of the row read before the rename.
EffectiveName_Stale(e) == CurrentName(e)

\* The locked rows are stale after a rename.
EffectiveName(e) == IF req[e].name # None THEN req[e].name ELSE CurrentName(e)

\* Mutant: the new DRAFT is chained to the newest row, living or not.
HeadVersion_Newest(e) == First(rows, snap[e])

HeadVersion(e) == First(rows, LivingVersions(e))

\* _apply_rules_edit without a DRAFT: a new one is chained to the newest living version.
ChainDraft(e) ==
    LET t == req[e].template
    IN  /\ pc[e] = "edit"
        /\ Drafts(e) = {}
        /\ LivingVersions(e) # {}
        /\ FreeIds # {}
        /\ ~NameTaken(e, t, EffectiveName(e)) /\ ~NameInDoubt(e, t, EffectiveName(e))
        /\ pend' = [pend EXCEPT ![e][NewId] =
                      [template |-> t, name |-> EffectiveName(e), type |-> rows[HeadVersion(e)].type,
                       status |-> "DRAFT", seq |-> NextSeq(View(e), t), author |-> e,
                       rules |-> req[e].rules, predecessor |-> HeadVersion(e)]]
        /\ Goto(e, "commit")
        /\ UNCHANGED <<rows, lock, req, snap>>

\* MappingStateConflictError, 409: the rename of this request is rolled back too.
LineageClosed(e) ==
    /\ pc[e] = "edit"
    /\ LivingVersions(e) = {}
    /\ Rollback(e)

-----------------------------------------------------------------------------

Commit(e) ==
    /\ pc[e] = "commit"
    /\ rows' = View(e)
    /\ EndTxn(e)

\* Any other exception: the connection is lost, or the database picks this
\* transaction to break a deadlock.
Abort(e) == pc[e] \notin {"idle", "done"} /\ Rollback(e)

EditorStep(e) ==
    \/ CreateMappingTemplate(e) \/ InsertFirstVersion(e) \/ NameConflict(e)
    \/ PatchMappingTemplate(e) \/ RequestRefused(e) \/ LockRow(e) \/ Reread(e)
    \/ TemplateNotFound(e) \/ Decide(e)
    \/ RenameLineage(e) \/ EditDraft(e) \/ ChainDraft(e) \/ LineageClosed(e)
    \/ Commit(e) \/ Abort(e)

Next == \E e \in Editors : EditorStep(e)

Spec == Init /\ [][Next]_vars

-----------------------------------------------------------------------------
(* Properties. *)

\* No interleaving of PATCHes mints a second DRAFT of a template: the re-read sees the
\* DRAFT that the transaction it waited for has committed.
OneDraft ==
    \A t \in Templates : \A i, j \in Lineage(rows, t) :
        rows[i].status = "DRAFT" /\ rows[j].status = "DRAFT" => i = j

\* A template has one name, on all its versions, and the name of a template with a
\* living version is no other's: a rename reaches the DRAFT it chains, and a concurrent
\* create or rename cannot take the name in between.
NamesAreCoherent ==
    \A i, j \in Ids : rows[i] # None /\ rows[j] # None =>
        /\ rows[i].template = rows[j].template => rows[i].name = rows[j].name
        /\ ~(Living(rows[j]) /\ Living(rows[i]) /\ Excludes(rows[i], rows[j].template, rows[j].name))

Deciding(e) == pc[e] \in {"rename", "edit", "commit"} /\ req[e].op = "patch"

\* Between its second read and its commit a PATCH is alone on its template: what it
\* decides on is what it commits on.
PatchesAreSerial ==
    \A e, f \in Editors :
        e # f /\ Deciding(e) /\ Deciding(f) => req[e].template # req[f].template

\* version_seq_per_source numbers the versions of a template 1..n without gaps, and a
\* chained version points at an older, living version of its own template.
VersionsAreChained ==
    \A t \in Templates :
        LET ids == Lineage(rows, t)
        IN  /\ {rows[i].seq : i \in ids} = 1..Cardinality(ids)
            /\ \A i \in ids : LET p == rows[i].predecessor
                              IN  p # None /\ Seed[i] = None =>
                                    /\ p \in ids
                                    /\ rows[p].seq < rows[i].seq
                                    /\ Living(rows[p])

\* resolve_active_template: the version an upload is mapped with.
resolve_active_template(t) ==
    {i \in Lineage(rows, t) : rows[i].status = "ACTIVE"}

\* Canonical rows pin the version that produced them: no edit changes the content of a
\* version that is or was live, or which version uploads are mapped with.
LiveVersionsAreFrozen ==
    [][/\ \A i \in Ids : rows[i] # None /\ rows[i].status # "DRAFT" =>
            /\ rows'[i] # None
            /\ [rows'[i] EXCEPT !.name = rows[i].name] = rows[i]
       /\ \A t \in Templates : resolve_active_template(t) # {} =>
            resolve_active_template(t)' = resolve_active_template(t)]_vars

\* What a row holds: the validated rules, dumped with their defaults.
mapping_rules(r) ==
    with_defaults(IF r \in DOMAIN Bodies THEN translate_columns_to_mapping_rules(Bodies[r])
                  ELSE Documents[r])

\* What a request for a template of this type may store.
Storable(type) ==
    PatchGate[type] \cup {b \in DOMAIN Bodies : PostGate[b] /\ Bodies[b].template_type = type}

\* The table the editors find is one that edits, promotions and deprecations leave.
ASSUME SeedAssumption ==
    \A i \in Ids : Seed[i] # None =>
        /\ Seed[i].rules \in Storable(Seed[i].type)
        /\ {Seed[j].seq : j \in Lineage(Seed, Seed[i].template)}
              = 1..Cardinality(Lineage(Seed, Seed[i].template))
        /\ \A j \in Ids : Seed[j] # None /\ j # i =>
             IF Seed[i].template = Seed[j].template
             THEN /\ Seed[i].name = Seed[j].name /\ Seed[i].type = Seed[j].type
                  /\ Seed[i].seq # Seed[j].seq
                  /\ Seed[i].status = "DRAFT" => Seed[j].seq < Seed[i].seq
             ELSE Living(Seed[i]) /\ Living(Seed[j]) => Seed[i].name # Seed[j].name

\* What the consumer's load_active_mapping takes for a template of this type.
Loadable ==
    [type \in TEMPLATE_TYPES |->
        {r \in Storable(type) :
            LET raw == mapping_rules(r)
                loaded == load_active_mapping(raw, type)
            IN  /\ loadable(raw, type)
                /\ loaded.target_model = MODEL_BY_TYPE[type]
                /\ type = "snapshot" => loaded.hot_complete}]

\* Whatever order the edits came in, load_active_mapping takes every stored version: it
\* parses, the model the consumer infers from its columns is the one the gate checked
\* it against by the template's type, and a snapshot brings every column a new hot row
\* needs.  Nothing is claimed of the gates a chunk meets later: a stored document may
\* still cast a column otherwise than its model or name a zone the engine does not
\* know, and the consumer then refuses every chunk of it.
StoredRulesLoad ==
    \A i \in Ids : rows[i] # None => rows[i].rules \in Loadable[rows[i].type]
=============================================================================
