--------------------------- MODULE TemplateReads ---------------------------
(***************************************************************************)
(* GET /mapping-templates and GET /mapping-templates/{template_id}: what   *)
(* the template screens show of the version rows, while editors work.     *)
(* Each read is one statement and so an operator on the committed rows.   *)
(* All templates are one tenant's; source_id, the order of the list and   *)
(* the timestamps are left out.                                            *)
(***************************************************************************)
EXTENDS MappingTemplates, TokenScope
LOCAL INSTANCE Functions

CONSTANT Owner  \* the tenant of the templates

ASSUME TemplateReadsAssumption == Owner \in Tenants

-----------------------------------------------------------------------------
(* The repository's reads. *)

list_template_rows(scope) == {i \in Ids : rows[i] # None /\ read_session(scope, Owner)}

get_template_rows(scope, t) == {i \in list_template_rows(scope) : rows[i].template = t}

-----------------------------------------------------------------------------
(* The screens. *)

STATUS_WIRE == [DRAFT |-> "draft", STAGED |-> "staged", ACTIVE |-> "active", DEPRECATED |-> "deprecated"]

\* Steps of all columns of one section.
Specs(section) == SumFunction([c \in DOMAIN section |-> Len(section[c])])

\* A JSON object has finitely many keys.
ASSUME RulesAssumption ==
    \A type \in TEMPLATE_TYPES : \A r \in Storable(type) : IsFiniteSet(DOMAIN mapping_rules(r).rename)

\* The rules of every version that can be stored, counted once.
FieldCount ==
    [r \in UNION {Storable(type) : type \in TEMPLATE_TYPES} |->
        Cardinality(DOMAIN mapping_rules(r).rename)]
TransformCount ==
    [r \in DOMAIN FieldCount |->
        LET rules == mapping_rules(r)
        IN  Specs(rules.normalize) + Cardinality(DOMAIN rules.cast) + Specs(rules.derive)]

to_version(i) ==
    [mapping_version_id |-> i, version |-> rows[i].seq, status |-> STATUS_WIRE[rows[i].status],
     field_count |-> FieldCount[rows[i].rules], transform_count |-> TransformCount[rows[i].rules],
     predecessor_version_id |-> rows[i].predecessor]

version_seq_for(ids, status) ==
    LET those == {i \in ids : rows[i].status = status}
    IN  IF those = {} THEN None ELSE rows[First(rows, those)].seq

summary_fields(ids) ==
    LET newest == rows[First(rows, ids)]
    IN  [template_id |-> newest.template, template_name |-> newest.name,
         template_type |-> newest.type, latest_version |-> newest.seq,
         active_version |-> version_seq_for(ids, "ACTIVE"),
         staged_version |-> version_seq_for(ids, "STAGED"),
         draft_version |-> version_seq_for(ids, "DRAFT"),
         versions_count |-> Cardinality(ids)]

\* The newest version first.
to_detail(ids) ==
    [summary |-> summary_fields(ids),
     versions |-> [k \in 1..Cardinality(ids) |->
        to_version(CHOOSE i \in ids : Cardinality({j \in ids : rows[j].seq > rows[i].seq}) = k - 1)]]

list_mapping_templates(scope) ==
    LET found == list_template_rows(scope)
    IN  {summary_fields({i \in found : rows[i].template = t}) : t \in {rows[i].template : i \in found}}

\* Nothing is the 404, for an absent template and for another tenant's.
get_mapping_template(scope, t) ==
    LET found == get_template_rows(scope, t)
    IN  IF found = {} THEN {} ELSE {to_detail(found)}

-----------------------------------------------------------------------------
(* Properties. *)

\* A detail screen lists the versions n..1 without a gap, each with rules that map
\* something; the version it calls active is the one uploads are mapped with, and the
\* one it calls the draft is the newest of all.
DetailIsRight(t, detail) ==
    LET s == detail.summary
        active == resolve_active_template(t)
    IN  /\ s.latest_version = s.versions_count
        /\ \A k \in 1..s.versions_count :
             /\ detail.versions[k].version = s.versions_count + 1 - k
             /\ detail.versions[k].field_count > 0
        /\ active = IF s.active_version = None THEN {}
                    ELSE {v.mapping_version_id : v \in
                            {detail.versions[k] : k \in {k \in 1..s.versions_count :
                                                            detail.versions[k].status = "active"}}}
        /\ s.draft_version \in {None, s.latest_version}

Dead(s) == {s.active_version, s.staged_version, s.draft_version} = {None}

\* The screens, for every caller: the owner and a platform operator find every template
\* once, listed as its own page shows it, with a name that no other usable template
\* bears; any other caller finds nothing, and nobody may edit what they do not find.
ScreensAreRight ==
    /\ ReadersAreWriters
    /\ \A caller \in Callers :
           LET listed == list_mapping_templates(caller.scope)
               details == [t \in Templates |-> get_mapping_template(caller.scope, t)]
           IN  IF caller.user_type = "PLATFORM" \/ caller.tenant_id = Owner
               THEN /\ \A t \in Templates :
                         /\ details[t] = {} <=> Lineage(rows, t) = {}
                         /\ \A detail \in details[t] :
                              DetailIsRight(t, detail) /\ detail.summary \in listed
                    /\ \A s, u \in listed :
                         /\ s.template_id = u.template_id => s = u
                         /\ s.template_name = u.template_name => s = u \/ Dead(s) \/ Dead(u)
               ELSE listed = {} /\ \A t \in Templates : details[t] = {}

\* The versions of a template form a chain, numbered without gaps; the template screens
\* show that chain; every row and every editor is well typed.
ChainIsSound == TypeOK /\ VersionsAreChained /\ ScreensAreRight
=============================================================================
