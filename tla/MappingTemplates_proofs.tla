----------------------- MODULE MappingTemplates_proofs -----------------------
(***************************************************************************)
(* Proofs about MappingTemplates and the screens of TemplateReads, for     *)
(* every set of editors, templates, names, request bodies and documents,   *)
(* and every table they may find.                                          *)
(***************************************************************************)
EXTENDS TemplateReads, FiniteSetTheorems, TLAPS

-----------------------------------------------------------------------------
(* Order and cardinality. *)

LEMMA LeastElement ==
    ASSUME NEW S \in SUBSET Nat, S # {}
    PROVE  \E x \in S : \A y \in S : x <= y
<1> DEFINE R == OpToRel(<, Nat)
<1>1. PICK x \in S : \A y \in S : ~ (<<y, x>> \in R)
  <2>1. IsWellFoundedOn(R, Nat)
    BY NatLessThanWellFounded
  <2> HIDE DEF R
  <2>2. QED BY <2>1, WFMin
<1>2. ASSUME NEW y \in S, y < x PROVE FALSE
  <2>1. <<y, x>> \in R
    BY <1>2 DEF OpToRel
  <2>2. QED BY <1>1, <2>1
<1> HIDE DEF R
<1>3. QED BY <1>2

Table == [Ids -> SourceMappingRow \cup {None}]

LEMMA NoneIsNone ==
    /\ None \notin Editors /\ None \notin Names /\ None \notin Ids
    /\ None \notin SourceMappingRow /\ None \notin Request
    /\ None \notin DOMAIN Bodies /\ None \notin DOMAIN Documents
BY MappingTemplatesAssumption

LEMMA RowType ==
    ASSUME NEW tab \in Table, NEW i \in Ids, tab[i] # None
    PROVE  tab[i] \in SourceMappingRow /\ tab[i].seq \in Nat /\ tab[i].seq <= MaxRows
BY MappingTemplatesAssumption DEF Table, SourceMappingRow, Ids

\* First finds the row with the largest version_seq_per_source.
LEMMA FirstIsNewest ==
    ASSUME NEW tab \in Table, NEW ids \in SUBSET Ids, ids # {}, \A i \in ids : tab[i] # None
    PROVE  First(tab, ids) \in ids /\ \A j \in ids : tab[j].seq <= tab[First(tab, ids)].seq
<1> DEFINE S == {MaxRows - tab[i].seq : i \in ids}
<1>1. \A i \in ids : tab[i].seq \in Nat /\ tab[i].seq <= MaxRows /\ MaxRows \in Nat
  BY RowType, MappingTemplatesAssumption
<1>2. S \in SUBSET Nat /\ S # {}
  BY <1>1
<1>3. PICK x \in S : \A y \in S : x <= y
  BY <1>2, LeastElement
<1>4. PICK i \in ids : x = MaxRows - tab[i].seq
  BY <1>3
<1>5. \A j \in ids : tab[j].seq <= tab[i].seq
  <2>1. SUFFICES ASSUME NEW j \in ids PROVE tab[j].seq <= tab[i].seq
    OBVIOUS
  <2>2. MaxRows - tab[i].seq <= MaxRows - tab[j].seq
    BY <1>3, <1>4
  <2>3. QED BY <2>2, <1>1
<1>6. QED BY <1>4, <1>5 DEF First

\* The BIGSERIAL gives an id that no row has.
LEMMA NewIdIsFree ==
    ASSUME FreeIds # {}
    PROVE  NewId \in FreeIds
<1>1. FreeIds \in SUBSET Nat
  BY MappingTemplatesAssumption DEF FreeIds, Ids
<1>2. QED BY <1>1, LeastElement DEF NewId

LEMMA LineageIsFinite ==
    ASSUME NEW tab, NEW t
    PROVE  /\ Lineage(tab, t) \in SUBSET Ids
           /\ IsFiniteSet(Lineage(tab, t)) /\ Cardinality(Lineage(tab, t)) \in Nat
           /\ \A k \in Ids \ Lineage(tab, t) : Cardinality(Lineage(tab, t)) + 1 \in Ids
           /\ \A k \in Ids \ Lineage(tab, t) :
                Cardinality(Lineage(tab, t) \cup {k}) = Cardinality(Lineage(tab, t)) + 1
<1> DEFINE L == Lineage(tab, t)
<1>1. L \in SUBSET Ids
  BY DEF Lineage
<1>2. IsFiniteSet(Ids) /\ Cardinality(Ids) = MaxRows /\ MaxRows \in Nat
  BY MappingTemplatesAssumption, FS_Interval DEF Ids
<1> HIDE DEF L
<1>3. IsFiniteSet(L) /\ Cardinality(L) \in Nat
  BY <1>1, <1>2, FS_Subset, FS_CardinalityType
<1>4. ASSUME NEW k \in Ids \ L
      PROVE  Cardinality(L \cup {k}) = Cardinality(L) + 1 /\ Cardinality(L) + 1 \in Ids
  <2>1. Cardinality(L \cup {k}) = Cardinality(L) + 1
    BY <1>3, <1>4, FS_AddElement
  <2>2. L \cup {k} \subseteq Ids
    BY <1>1
  <2>3. Cardinality(L \cup {k}) <= MaxRows
    BY <2>2, <1>2, FS_Subset
  <2>4. QED BY <2>1, <2>3, <1>3, <1>2 DEF Ids
<1>5. QED BY <1>1, <1>3, <1>4 DEF L

\* The trigger gives the number after the last one.
LEMMA NextSeqIsNext ==
    ASSUME NEW tab \in Table, NEW t,
           {tab[i].seq : i \in Lineage(tab, t)} = 1..Cardinality(Lineage(tab, t))
    PROVE  NextSeq(tab, t) = Cardinality(Lineage(tab, t)) + 1
<1> DEFINE L == Lineage(tab, t)
           n == Cardinality(L)
<1>1. L \in SUBSET Ids /\ n \in Nat /\ \A i \in L : tab[i] # None
  <2>1. L \in SUBSET Ids /\ n \in Nat
    BY LineageIsFinite
  <2>2. \A i \in L : tab[i] # None
    BY DEF Lineage
  <2>3. QED BY <2>1, <2>2
<1>2. CASE L = {}
  <2>1. n = 0
    BY <1>2, FS_EmptySet
  <2>2. QED BY <1>2, <2>1 DEF NextSeq
<1>3. CASE L # {}
  <2>1. First(tab, L) \in L /\ \A j \in L : tab[j].seq <= tab[First(tab, L)].seq
    BY <1>1, <1>3, FirstIsNewest
  <2> DEFINE m == tab[First(tab, L)].seq
             Seqs == {tab[i].seq : i \in L}
  <2>2. m \in Seqs /\ \A x \in Seqs : x <= m
    BY <2>1
  <2>3. Seqs = 1..n
    OBVIOUS
  <2> HIDE DEF Seqs, m, n
  <2>4. m = n
    BY <2>2, <2>3, <1>1
  <2>5. NextSeq(tab, t) = m + 1
    BY <1>3 DEF NextSeq, m
  <2>6. QED BY <2>4, <2>5 DEF n
<1>4. QED BY <1>2, <1>3

-----------------------------------------------------------------------------
(***************************************************************************)
(* The inductive invariant.                                                *)
(***************************************************************************)

T(e) == req[e].template
Busy(e) == pc[e] \notin {"idle", "done"}
Creating(e) == Busy(e) /\ req[e].op = "create"
Patching(e) == Busy(e) /\ req[e].op = "patch"
Editing(e) == Patching(e) /\ req[e].rules # None

\* The request, and the statements it may be at.
ReqInv ==
    \A e \in Editors : Busy(e) =>
        /\ req[e] \in Request
        /\ pc[e] = "insert" => req[e].op = "create"
        /\ pc[e] \in {"lock", "reread", "rename", "edit"} => req[e].op = "patch"
        /\ req[e].op = "create" => /\ req[e].name \in Names
                                   /\ req[e].rules \in DOMAIN Bodies /\ PostGate[req[e].rules]
        /\ req[e].op = "patch" => req[e].rules \in DOMAIN Documents \cup {None}
        /\ pc[e] = "rename" => req[e].name # None
        /\ pc[e] = "edit" => req[e].rules # None

\* A template_id is minted for one POST, which finds it unused until it commits.
CreateInv ==
    /\ \A e \in Editors : Creating(e) => Lineage(rows, T(e)) = {}
    /\ \A e, f \in Editors : e # f /\ Creating(e) /\ Creating(f) => T(e) # T(f)

\* A snapshot is a part of the lineage, and of two the later one contains the earlier;
\* a PATCH that decides holds every row of its own.
SnapInv ==
    /\ \A e \in Editors : snap[e] # {} => Patching(e) /\ snap[e] \subseteq Lineage(rows, T(e))
    /\ \A e, f \in Editors : snap[e] # {} /\ snap[f] # {} /\ T(e) = T(f) =>
            snap[e] \subseteq snap[f] \/ snap[f] \subseteq snap[e]
    /\ \A e \in Editors : Deciding(e) => snap[e] # {} /\ \A i \in snap[e] : lock[i] = e

\* e keeps a row of every other reader's snapshot, so that none of them can decide.
Blocks(e) ==
    \A f \in Editors : snap[f] # {} /\ T(f) = T(e) => \E i \in snap[f] : lock[i] = e

\* A PATCH of the rules found the template on its first read; its second is still the
\* whole lineage when it decides on it.
EditInv ==
    \A e \in Editors : Editing(e) =>
        /\ snap[e] # {}
        /\ \A i \in snap[e] : req[e].rules \in PatchGate[rows[i].type]
        /\ pc[e] # "lock" => snap[e] = Lineage(rows, T(e)) /\ Blocks(e)

\* An UPDATE of a version.
Updates(new, old) ==
    /\ new.template = old.template /\ new.type = old.type /\ new.status = old.status
    /\ new.seq = old.seq /\ new.predecessor = old.predecessor
    /\ old.status # "DRAFT" => new.author = old.author /\ new.rules = old.rules

\* An INSERT of a version.
Inserts(e, new) ==
    LET ids == Lineage(rows, T(e))
    IN  /\ new.seq = Cardinality(ids) + 1
        /\ req[e].op = "create" => new.status = "ACTIVE" /\ new.predecessor = None
        /\ req[e].op = "patch" =>
             /\ new.status = "DRAFT"
             /\ \A j \in ids : rows[j].status # "DRAFT" /\ rows[j].type = new.type
             /\ new.predecessor \in ids /\ Living(rows[new.predecessor])

\* What a transaction has written and not committed.
PendInv ==
    /\ \A e \in Editors, i \in Ids : pend[e][i] # None =>
        /\ pc[e] = "commit" \/ (pc[e] = "edit" /\ req[e].name # None)
        /\ pend[e][i].template = T(e)
        /\ pend[e][i].rules \in Storable(pend[e][i].type)
        /\ IF rows[i] # None THEN Updates(pend[e][i], rows[i])
           ELSE /\ pc[e] = "commit" /\ Inserts(e, pend[e][i])
                /\ \A j \in Ids : pend[e][j] # None /\ rows[j] = None => i = j
    /\ \A e, f \in Editors, i \in Ids : e # f => pend[e][i] = None \/ pend[f][i] = None

\* Rows of different templates do not claim the same name.
Clash(r, s) ==
    /\ r # None /\ s # None /\ r.template # s.template
    /\ r.name = s.name /\ Living(r) /\ Living(s)

\* A new name is nobody else's, and a transaction gives its template one name.
NameInv ==
    /\ \A e \in Editors, i, j \in Ids : ~Clash(pend[e][i], rows[j])
    /\ \A e, f \in Editors, i, j \in Ids : e # f => ~Clash(pend[e][i], pend[f][j])
    /\ \A e \in Editors : Busy(e) => \A i, j \in Lineage(View(e), T(e)) :
            View(e)[i].name = View(e)[j].name
    /\ \A e \in Editors : pc[e] \in {"edit", "commit"} /\ req[e].op = "patch" /\ req[e].name # None =>
            \A i \in Lineage(View(e), T(e)) : View(e)[i].name = req[e].name

\* The committed versions.
RowsInv ==
    /\ \A i, j \in Ids : rows[i] # None /\ rows[j] # None /\ rows[i].template = rows[j].template =>
            /\ rows[i].type = rows[j].type
            /\ rows[i].seq = rows[j].seq => i = j
            /\ rows[i].status = "DRAFT" => rows[j].seq <= rows[i].seq
    /\ \A i \in Ids : rows[i] # None => rows[i].rules \in Storable(rows[i].type)

IInv ==
    /\ TypeOK /\ ReqInv /\ CreateInv /\ SnapInv /\ EditInv /\ PendInv /\ NameInv /\ RowsInv
    /\ OneDraft /\ NamesAreCoherent /\ VersionsAreChained

-----------------------------------------------------------------------------
(***************************************************************************)
(* Why two PATCHes never decide at once: their snapshots are nested and    *)
(* not empty, so they share a row, and each holds the lock of all of its   *)
(* own.                                                                    *)
(***************************************************************************)

LEMMA Serial ==
    ASSUME SnapInv
    PROVE  PatchesAreSerial
<1>1. SUFFICES ASSUME NEW e \in Editors, NEW f \in Editors, e # f, Deciding(e), Deciding(f), T(e) = T(f)
               PROVE  FALSE
  BY DEF PatchesAreSerial, T
<1>2. snap[e] # {} /\ snap[f] # {} /\ (\A i \in snap[e] : lock[i] = e) /\ (\A i \in snap[f] : lock[i] = f)
  BY <1>1 DEF SnapInv
<1>3. snap[e] \subseteq snap[f] \/ snap[f] \subseteq snap[e]
  BY <1>1, <1>2 DEF SnapInv
<1>4. QED BY <1>1, <1>2, <1>3

Writer(e) == Deciding(e) \/ Creating(e)

LEMMA WritersDiffer ==
    ASSUME IInv, NEW e \in Editors, NEW f \in Editors, e # f, Writer(e), Writer(f)
    PROVE  T(e) # T(f)
<1>1. CASE Deciding(e) /\ Deciding(f)
  BY <1>1, Serial DEF IInv, PatchesAreSerial, T
<1>2. CASE Creating(e) /\ Creating(f)
  BY <1>2 DEF IInv, CreateInv
<1>3. \A x \in Editors : Deciding(x) => Lineage(rows, T(x)) # {}
  BY DEF IInv, SnapInv
<1>4. \A x \in Editors : Creating(x) => Lineage(rows, T(x)) = {}
  BY DEF IInv, CreateInv
<1>5. QED BY <1>1, <1>2, <1>3, <1>4 DEF Writer

\* Whoever has written, or is about to commit, is a writer; the others see the table.
LEMMA Writers ==
    ASSUME IInv, NEW e \in Editors
    PROVE  /\ pc[e] \in {"insert", "rename", "edit", "commit"} => Writer(e)
           /\ \A i \in Ids : pend[e][i] # None => pc[e] \in {"edit", "commit"} /\ Writer(e)
           /\ ~Writer(e) => pend[e] = NoWrites /\ View(e) = rows
<1>1. pc[e] \in {"insert", "rename", "edit", "commit"} => Writer(e)
  BY DEF IInv, ReqInv, Writer, Deciding, Creating, Busy, Request
<1>2. \A i \in Ids : pend[e][i] # None => pc[e] \in {"edit", "commit"}
  BY DEF IInv, PendInv
<1>3. pend[e] \in [Ids -> SourceMappingRow \cup {None}] /\ rows \in [Ids -> SourceMappingRow \cup {None}]
  BY DEF IInv, TypeOK
<1>4. ~Writer(e) => \A i \in Ids : pend[e][i] = None
  BY <1>1, <1>2
<1>5. ~Writer(e) => pend[e] = NoWrites
  BY <1>3, <1>4 DEF NoWrites
<1>6. ~Writer(e) => View(e) = rows
  BY <1>3, <1>4 DEF View
<1>7. QED BY <1>1, <1>2, <1>5, <1>6

\* The names of the committed rows.
LEMMA CoherentNames ==
    NamesAreCoherent <=>
      \A i, j \in Ids :
        /\ rows[i] # None /\ rows[j] # None /\ rows[i].template = rows[j].template =>
             rows[i].name = rows[j].name
        /\ ~Clash(rows[i], rows[j])
BY DEF NamesAreCoherent, Clash, Excludes

-----------------------------------------------------------------------------
(* The initial state. *)

LEMMA InitIInv == Init => IInv
<1> SUFFICES ASSUME Init PROVE IInv
  OBVIOUS
<1>1. TypeOK
  BY MappingTemplatesAssumption DEF Init, TypeOK, NoWrites, Steps
<1>2. ReqInv /\ CreateInv /\ SnapInv /\ EditInv
  BY DEF Init, ReqInv, CreateInv, SnapInv, EditInv, Creating, Editing, Patching, Busy, Deciding
<1>3. PendInv /\ NameInv
  BY DEF Init, PendInv, NameInv, NoWrites, Clash, Busy
<1>9. \A i \in Ids : Seed[i] # None => Seed[i].seq \in Nat
  BY RowType, MappingTemplatesAssumption DEF Table
<1>4. RowsInv
  BY SeedAssumption, <1>9 DEF Init, RowsInv
<1>5. OneDraft
  BY SeedAssumption, <1>9 DEF Init, OneDraft, Lineage
<1>6. NamesAreCoherent
  BY SeedAssumption DEF Init, NamesAreCoherent, Excludes
<1>7. VersionsAreChained
  <2>1. ASSUME NEW t \in Templates
        PROVE  {Seed[i].seq : i \in Lineage(Seed, t)} = 1..Cardinality(Lineage(Seed, t))
    <3>1. CASE Lineage(Seed, t) = {}
      <4>1. Cardinality(Lineage(Seed, t)) = 0
        BY <3>1, FS_EmptySet
      <4>2. QED BY <3>1, <4>1
    <3>2. CASE Lineage(Seed, t) # {}
      <4>1. PICK i \in Ids : Seed[i] # None /\ Seed[i].template = t
        BY <3>2 DEF Lineage
      <4>2. QED BY <4>1, SeedAssumption
    <3>3. QED BY <3>1, <3>2
  <2>2. \A t \in Templates : \A i \in Lineage(Seed, t) : Seed[i] # None
    BY DEF Lineage
  <2>3. QED BY <2>1, <2>2 DEF Init, VersionsAreChained
<1>8. QED BY <1>1, <1>2, <1>3, <1>4, <1>5, <1>6, <1>7 DEF IInv

-----------------------------------------------------------------------------
(* Steps that leave the table and the uncommitted rows alone. *)

LEMMA SameTable ==
    ASSUME IInv, rows' = rows
    PROVE  RowsInv' /\ OneDraft' /\ NamesAreCoherent' /\ VersionsAreChained'
BY DEF IInv, RowsInv, OneDraft, NamesAreCoherent, VersionsAreChained, Lineage, Living, Excludes

LEMMA ReaderStep ==
    ASSUME IInv, NEW e \in Editors, ~Writer(e), UNCHANGED <<rows, pend>>,
           \A f \in Editors : f # e => pc'[f] = pc[f] /\ req'[f] = req[f],
           pc'[e] \in {"edit", "commit"} /\ req'[e].name # None =>
             \A i \in Lineage(rows, req'[e].template) : rows[i].name = req'[e].name
    PROVE  PendInv' /\ NameInv'
<1>1. pend[e] = NoWrites /\ View(e) = rows
  BY Writers
<1>2. \A i \in Ids : pend[e][i] = None
  BY <1>1 DEF NoWrites
<1>3. \A f \in Editors, i \in Ids : pend[f][i] # None => f # e /\ T(f)' = T(f)
  BY <1>2 DEF T
<1>4. PendInv'
  <2>1. ASSUME NEW f \in Editors, NEW i \in Ids, pend[f][i] # None, Inserts(f, pend[f][i])
        PROVE  Inserts(f, pend[f][i])'
    <3>1. T(f)' = T(f) /\ pc'[f] = pc[f] /\ req'[f] = req[f]
      BY <1>3, <2>1
    <3>2. QED BY <3>1, <2>1 DEF Inserts, Living
  <2>2. PendInv
    BY DEF IInv
  <2>3. ASSUME NEW f \in Editors, NEW i \in Ids, pend'[f][i] # None
        PROVE  /\ pc'[f] = "commit" \/ (pc'[f] = "edit" /\ req'[f].name # None)
               /\ pend'[f][i].template = T(f)'
               /\ pend'[f][i].rules \in Storable(pend'[f][i].type)
               /\ IF rows'[i] # None THEN Updates(pend[f][i], rows[i])'
                  ELSE /\ pc'[f] = "commit" /\ Inserts(f, pend[f][i])'
                       /\ \A j \in Ids : pend'[f][j] # None /\ rows'[j] = None => i = j
    <3>1. f # e /\ T(f)' = T(f) /\ pend[f][i] # None /\ pend'[f] = pend[f] /\ pc'[f] = pc[f] /\ req'[f] = req[f]
      BY <2>3, <1>3
    <3>2. rows[i] # None => Updates(pend[f][i], rows[i])'
      BY <2>2, <3>1 DEF PendInv, Updates
    <3>3. rows[i] = None => Inserts(f, pend[f][i])'
      BY <2>1, <2>2, <3>1 DEF PendInv
    <3>4. QED BY <2>2, <3>1, <3>2, <3>3 DEF PendInv
  <2>4. QED BY <2>2, <2>3 DEF PendInv
<1>5. NameInv'
  <2>1. NameInv
    BY DEF IInv
  <2>2. /\ \A f \in Editors, i, j \in Ids : ~Clash(pend[f][i], rows[j])'
        /\ \A f, g \in Editors, i, j \in Ids : f # g => ~Clash(pend[f][i], pend[g][j])'
    BY <2>1 DEF NameInv, Clash, Living
  <2>3. \A f \in Editors : View(f)' = View(f)
    BY DEF View
  <2>4. ASSUME NEW f \in Editors, f # e, Busy(f)'
        PROVE  \A i, j \in Lineage(View(f), T(f))' : View(f)'[i].name = View(f)'[j].name
    <3>1. Busy(f) /\ T(f)' = T(f) /\ View(f)' = View(f)
      BY <2>3, <2>4 DEF Busy, T
    <3>2. QED BY <2>1, <3>1 DEF NameInv, Lineage
  <2>5. \A i, j \in Lineage(View(e), T(e))' : View(e)'[i].name = View(e)'[j].name
    BY <2>3, <1>1, CoherentNames DEF IInv, Lineage
  <2>6. ASSUME NEW f \in Editors, f # e, pc'[f] \in {"edit", "commit"}, req'[f].op = "patch", req'[f].name # None
        PROVE  \A i \in Lineage(View(f), T(f))' : View(f)'[i].name = req'[f].name
    <3>1. T(f)' = T(f) /\ View(f)' = View(f) /\ pc[f] = pc'[f] /\ req[f] = req'[f]
      BY <2>3, <2>6 DEF T
    <3>2. QED BY <2>1, <2>6, <3>1 DEF NameInv, Lineage
  <2>7. ASSUME pc'[e] \in {"edit", "commit"}, req'[e].name # None
        PROVE  \A i \in Lineage(View(e), T(e))' : View(e)'[i].name = req'[e].name
    BY <2>7, <2>3, <1>1 DEF Lineage, T
  <2>8. QED BY <2>2, <2>4, <2>5, <2>6, <2>7 DEF NameInv
<1>6. QED BY <1>4, <1>5

LEMMA CreateStep ==
    ASSUME IInv, NEW e \in Editors, CreateMappingTemplate(e)
    PROVE  IInv'
<1> USE NoneIsNone
<1>1. PICK t \in Templates : \E n \in Names, b \in DOMAIN Bodies :
         /\ PostGate[b]
         /\ Lineage(rows, t) = {}
         /\ \A f \in Editors : req[f] # None => req[f].template # t
         /\ req' = [req EXCEPT ![e] = [op |-> "create", template |-> t, name |-> n, rules |-> b]]
  BY DEF CreateMappingTemplate
<1>2. PICK n \in Names, b \in DOMAIN Bodies :
         /\ PostGate[b]
         /\ Lineage(rows, t) = {}
         /\ \A f \in Editors : req[f] # None => req[f].template # t
         /\ req' = [req EXCEPT ![e] = [op |-> "create", template |-> t, name |-> n, rules |-> b]]
  BY <1>1
<1>3. /\ pc[e] = "idle" /\ pc' = [pc EXCEPT ![e] = "insert"]
      /\ UNCHANGED <<rows, lock, pend, snap>>
  BY DEF CreateMappingTemplate, Goto, table
<1>4. TypeOK /\ ReqInv /\ CreateInv /\ SnapInv /\ EditInv
  BY DEF IInv
<1>5. TypeOK'
  BY <1>2, <1>3, <1>4 DEF TypeOK, Request, Steps
<1>6. req'[e] = [op |-> "create", template |-> t, name |-> n, rules |-> b] /\ pc'[e] = "insert"
      /\ \A f \in Editors : f # e => pc'[f] = pc[f] /\ req'[f] = req[f]
  BY <1>2, <1>3, <1>4 DEF TypeOK
<1>7. ReqInv'
  BY <1>2, <1>4, <1>6 DEF ReqInv, Busy, Request, PostGate
<1>8. snap[e] = {}
  BY <1>3, <1>4 DEF SnapInv, Patching, Busy
<1>9. CreateInv'
  <2>1. \A f \in Editors : Busy(f) => req[f] # None
    BY <1>4 DEF ReqInv
  <2>2. \A f \in Editors : f # e /\ Creating(f)' => T(f)' # T(e)'
    BY <1>2, <1>6, <2>1 DEF Creating, Busy, T
  <2>3. \A f \in Editors : Creating(f)' => Lineage(rows, T(f))' = {}
    BY <1>2, <1>3, <1>4, <1>6 DEF Creating, Busy, T, CreateInv
  <2>4. QED BY <2>2, <2>3, <1>4, <1>6 DEF CreateInv, Creating, Busy, T
<1>10. SnapInv'
  BY <1>3, <1>4, <1>6, <1>8 DEF SnapInv, Patching, Busy, T, Deciding
<1>11. EditInv'
  BY <1>3, <1>4, <1>6, <1>8 DEF EditInv, Blocks, Editing, Patching, Busy, T
<1>12. PendInv' /\ NameInv'
  BY <1>3, <1>6, ReaderStep DEF Writer, Deciding, Creating, Busy
<1>13. QED BY <1>3, <1>5, <1>7, <1>9, <1>10, <1>11, <1>12, SameTable DEF IInv

LEMMA PatchStep ==
    ASSUME IInv, NEW e \in Editors, PatchMappingTemplate(e)
    PROVE  IInv'
<1> USE NoneIsNone
<1> DEFINE Found(t, n, d) ==
             /\ d # None => Lineage(rows, t) # {} /\ d \in PatchGate[template_type(t)]
             /\ n = None => d # None
             /\ req' = [req EXCEPT ![e] = [op |-> "patch", template |-> t, name |-> n, rules |-> d]]
             /\ snap' = [snap EXCEPT ![e] = Lineage(rows, t)]
<1>1. PICK t \in Templates, n \in Names \cup {None}, d \in DOMAIN Documents \cup {None} : Found(t, n, d)
  BY DEF PatchMappingTemplate
<1>3. /\ pc[e] = "idle" /\ pc' = [pc EXCEPT ![e] = "lock"]
      /\ UNCHANGED <<rows, lock, pend>>
  BY DEF PatchMappingTemplate, Goto, table
<1>4. TypeOK /\ ReqInv /\ CreateInv /\ SnapInv /\ EditInv /\ RowsInv
  BY DEF IInv
<1>5. TypeOK'
  BY <1>1, <1>3, <1>4 DEF TypeOK, Request, Steps, Lineage
<1>6. /\ req'[e] = [op |-> "patch", template |-> t, name |-> n, rules |-> d] /\ pc'[e] = "lock"
      /\ snap'[e] = Lineage(rows, t)
      /\ \A f \in Editors : f # e => pc'[f] = pc[f] /\ req'[f] = req[f] /\ snap'[f] = snap[f]
  BY <1>1, <1>3, <1>4 DEF TypeOK
<1>7. ReqInv'
  BY <1>1, <1>4, <1>6 DEF ReqInv, Busy, Request
<1>8. CreateInv'
  BY <1>3, <1>4, <1>6 DEF CreateInv, Creating, Busy, T
<1>9. SnapInv'
  <2>1. \A f \in Editors : snap'[f] # {} => Patching(f)' /\ snap'[f] \subseteq Lineage(rows, T(f))'
    BY <1>3, <1>4, <1>6 DEF SnapInv, Patching, Busy, T
  <2>2. ASSUME NEW f \in Editors, NEW g \in Editors, snap'[f] # {}, snap'[g] # {}, T(f)' = T(g)'
        PROVE  snap'[f] \subseteq snap'[g] \/ snap'[g] \subseteq snap'[f]
    <3>1. CASE f = e \/ g = e
      BY <3>1, <2>1, <2>2, <1>3, <1>6 DEF T
    <3>2. CASE f # e /\ g # e
      BY <3>2, <2>2, <1>4, <1>6 DEF SnapInv, T
    <3>3. QED BY <3>1, <3>2
  <2>3. \A f \in Editors : Deciding(f)' => snap'[f] # {} /\ \A i \in snap'[f] : lock'[i] = f
    BY <1>3, <1>4, <1>6 DEF SnapInv, Deciding
  <2>4. QED BY <2>1, <2>2, <2>3 DEF SnapInv
<1>10. EditInv'
  <2>1. ASSUME NEW f \in Editors, f # e, Editing(f)'
        PROVE  /\ snap'[f] # {}
               /\ \A i \in snap'[f] : req'[f].rules \in PatchGate[rows'[i].type]
               /\ pc'[f] # "lock" => snap'[f] = Lineage(rows, T(f))' /\ Blocks(f)'
    <3>1. Editing(f) /\ T(f)' = T(f) /\ pc'[f] = pc[f] /\ req'[f] = req[f] /\ snap'[f] = snap[f]
      BY <2>1, <1>6 DEF Editing, Patching, Busy, T
    <3>2. ASSUME pc[f] # "lock" PROVE Blocks(f)'
      <4>1. snap[f] # {} /\ snap[f] = Lineage(rows, T(f)) /\ Blocks(f)
        BY <3>1, <3>2, <1>4 DEF EditInv
      <4>2. PICK i \in snap[f] : lock[i] = f
        BY <4>1 DEF Blocks
      <4>3. ASSUME NEW g \in Editors, snap'[g] # {}, T(g)' = T(f)'
            PROVE  \E j \in snap'[g] : lock'[j] = f
        <5>1. CASE g = e
          BY <5>1, <4>1, <4>2, <4>3, <3>1, <1>3, <1>6 DEF T
        <5>2. CASE g # e
          BY <5>2, <4>1, <4>3, <3>1, <1>3, <1>6 DEF T, Blocks
        <5>3. QED BY <5>1, <5>2
      <4>4. QED BY <4>3 DEF Blocks
    <3>3. QED BY <3>1, <3>2, <1>3, <1>4 DEF EditInv
  <2>2. ASSUME Editing(e)'
        PROVE  snap'[e] # {} /\ \A i \in snap'[e] : req'[e].rules \in PatchGate[rows'[i].type]
    <3>1. d # None /\ Lineage(rows, t) # {} /\ d \in PatchGate[template_type(t)]
      BY <2>2, <1>1, <1>6 DEF Editing
    <3>2. First(rows, Lineage(rows, t)) \in Lineage(rows, t)
      BY <3>1, <1>4, FirstIsNewest DEF TypeOK, Table, Lineage
    <3>3. \A i \in Lineage(rows, t) : rows[i].type = template_type(t)
      BY <3>2, <1>4 DEF RowsInv, Lineage, template_type
    <3>4. QED BY <3>1, <3>3, <1>3, <1>6
  <2>3. QED BY <2>1, <2>2, <1>6 DEF EditInv
<1>11. PendInv' /\ NameInv'
  BY <1>3, <1>6, ReaderStep DEF Writer, Deciding, Creating, Busy
<1>12. QED BY <1>3, <1>5, <1>7, <1>8, <1>9, <1>10, <1>11, SameTable DEF IInv

LEMMA RefusedStep ==
    ASSUME IInv, NEW e \in Editors, RequestRefused(e)
    PROVE  IInv'
<1>1. pc[e] = "idle" /\ pc' = [pc EXCEPT ![e] = "done"] /\ UNCHANGED <<rows, lock, pend, req, snap>>
  BY DEF RequestRefused, Goto, table
<1>2. TypeOK /\ ReqInv /\ CreateInv /\ SnapInv /\ EditInv
  BY DEF IInv
<1>3. TypeOK' /\ pc'[e] = "done" /\ \A f \in Editors : f # e => pc'[f] = pc[f] /\ req'[f] = req[f]
  BY <1>1, <1>2 DEF TypeOK, Steps
<1>4. ReqInv' /\ CreateInv'
  BY <1>1, <1>2, <1>3 DEF ReqInv, CreateInv, Creating, Busy, T
<1>5. SnapInv' /\ EditInv'
  BY <1>1, <1>2, <1>3 DEF SnapInv, EditInv, Blocks, Editing, Patching, Busy, T, Deciding
<1>6. PendInv' /\ NameInv'
  BY <1>1, <1>3, ReaderStep DEF Writer, Deciding, Creating, Busy
<1>7. QED BY <1>1, <1>3, <1>4, <1>5, <1>6, SameTable DEF IInv

LEMMA LockStep ==
    ASSUME IInv, NEW e \in Editors, LockRow(e)
    PROVE  IInv'
<1>1. UNCHANGED <<rows, pend, req, snap, pc>>
  BY DEF LockRow
<1>2. TypeOK /\ ReqInv /\ CreateInv /\ SnapInv /\ EditInv /\ PendInv /\ NameInv
  BY DEF IInv
<1>3. TypeOK' /\ \A i \in Ids : lock[i] # None => lock'[i] = lock[i]
  BY <1>1, <1>2 DEF LockRow, TypeOK
<1>4. \A f \in Editors, i \in Ids : lock[i] = f => lock'[i] = f
  BY <1>3, NoneIsNone
<1>5. \A f \in Editors : snap[f] \subseteq Ids
  BY <1>2 DEF TypeOK
<1>6. ReqInv' /\ CreateInv'
  BY <1>1, <1>2 DEF ReqInv, CreateInv, Creating, Busy, T
<1>7. SnapInv'
  BY <1>1, <1>2, <1>4, <1>5 DEF SnapInv, Patching, Busy, T, Deciding
<1>8. EditInv'
  <2>1. \A f \in Editors : Blocks(f) => Blocks(f)'
    BY <1>1, <1>4, <1>5 DEF Blocks, T
  <2>2. QED BY <2>1, <1>1, <1>2 DEF EditInv, Editing, Patching, Busy, T
<1>9. PendInv' /\ NameInv'
  BY <1>1, <1>2 DEF PendInv, NameInv, Inserts, Updates, Clash, Living, Busy, T, View
<1>10. QED BY <1>1, <1>3, <1>6, <1>7, <1>8, <1>9, SameTable DEF IInv

LEMMA RereadStep ==
    ASSUME IInv, NEW e \in Editors, Reread(e)
    PROVE  IInv'
<1>1. /\ pc[e] = "lock" /\ pc' = [pc EXCEPT ![e] = "reread"]
      /\ snap' = [snap EXCEPT ![e] = Lineage(rows, T(e))]
      /\ UNCHANGED <<rows, lock, pend, req>>
      /\ \A i \in snap[e] : lock[i] = e
  BY DEF Reread, Goto, table, T, Unlocked
<1>2. TypeOK /\ ReqInv /\ CreateInv /\ SnapInv /\ EditInv
  BY DEF IInv
<1>3. TypeOK'
  BY <1>1, <1>2 DEF TypeOK, Steps, Lineage
<1>4. /\ pc'[e] = "reread" /\ snap'[e] = Lineage(rows, T(e)) /\ T(e)' = T(e) /\ req'[e] = req[e]
      /\ \A f \in Editors : f # e => pc'[f] = pc[f] /\ req'[f] = req[f] /\ snap'[f] = snap[f]
      /\ \A f \in Editors : T(f)' = T(f)
  BY <1>1, <1>2 DEF TypeOK, T
<1>5. ReqInv' /\ CreateInv'
  BY <1>1, <1>2, <1>4 DEF ReqInv, CreateInv, Creating, Busy
<1>6. Patching(e)
  BY <1>1, <1>2 DEF ReqInv, Patching, Busy
<1>7. snap[e] \subseteq Lineage(rows, T(e))
  BY <1>2 DEF SnapInv
<1>8. SnapInv'
  <2>1. \A f \in Editors : snap'[f] # {} => Patching(f)' /\ snap'[f] \subseteq Lineage(rows, T(f))'
    BY <1>1, <1>2, <1>4, <1>6 DEF SnapInv, Patching, Busy
  <2>2. ASSUME NEW f \in Editors, NEW g \in Editors, snap'[f] # {}, snap'[g] # {}, T(f)' = T(g)'
        PROVE  snap'[f] \subseteq snap'[g] \/ snap'[g] \subseteq snap'[f]
    <3>1. CASE f = e \/ g = e
      BY <3>1, <2>1, <2>2, <1>1, <1>4
    <3>2. CASE f # e /\ g # e
      BY <3>2, <2>2, <1>2, <1>4 DEF SnapInv
    <3>3. QED BY <3>1, <3>2
  <2>3. \A f \in Editors : Deciding(f)' => snap'[f] # {} /\ \A i \in snap'[f] : lock'[i] = f
    BY <1>1, <1>2, <1>4 DEF SnapInv, Deciding
  <2>4. QED BY <2>1, <2>2, <2>3 DEF SnapInv
<1>9. EditInv'
  <2>1. ASSUME NEW f \in Editors, f # e, Editing(f)'
        PROVE  /\ snap'[f] # {}
               /\ \A i \in snap'[f] : req'[f].rules \in PatchGate[rows'[i].type]
               /\ pc'[f] # "lock" => snap'[f] = Lineage(rows, T(f))' /\ Blocks(f)'
    <3>1. Editing(f) /\ T(f)' = T(f) /\ pc'[f] = pc[f] /\ req'[f] = req[f] /\ snap'[f] = snap[f]
      BY <2>1, <1>4 DEF Editing, Patching, Busy
    <3>2. ASSUME pc[f] # "lock" PROVE Blocks(f)'
      <4>1. snap[f] # {} /\ snap[f] = Lineage(rows, T(f)) /\ Blocks(f)
        BY <3>1, <3>2, <1>2 DEF EditInv
      <4>2. PICK i \in snap[f] : lock[i] = f
        BY <4>1 DEF Blocks
      <4>3. ASSUME NEW g \in Editors, snap'[g] # {}, T(g)' = T(f)'
            PROVE  \E j \in snap'[g] : lock'[j] = f
        <5>1. CASE g = e
          BY <5>1, <4>1, <4>2, <4>3, <3>1, <1>1, <1>4
        <5>2. CASE g # e
          BY <5>2, <4>1, <4>3, <3>1, <1>1, <1>4 DEF Blocks
        <5>3. QED BY <5>1, <5>2
      <4>4. QED BY <4>3 DEF Blocks
    <3>3. QED BY <3>1, <3>2, <1>1, <1>2 DEF EditInv
  <2>2. ASSUME Editing(e)'
        PROVE  /\ snap'[e] # {}
               /\ \A i \in snap'[e] : req'[e].rules \in PatchGate[rows'[i].type]
               /\ snap'[e] = Lineage(rows, T(e))' /\ Blocks(e)'
    <3>1. Editing(e)
      BY <2>2, <1>1, <1>4, <1>6 DEF Editing
    <3>2. snap[e] # {} /\ \A i \in snap[e] : req[e].rules \in PatchGate[rows[i].type]
      BY <3>1, <1>2 DEF EditInv
    <3>3. PICK i \in snap[e] : lock[i] = e /\ req[e].rules \in PatchGate[rows[i].type]
      BY <3>2, <1>1
    <3>4. \A j \in Lineage(rows, T(e)) : rows[j].type = rows[i].type
      BY <3>3, <1>7 DEF IInv, RowsInv, Lineage
    <3>5. ASSUME NEW g \in Editors, snap'[g] # {}, T(g)' = T(e)'
          PROVE  \E j \in snap'[g] : lock'[j] = e
      <4>1. CASE g = e
        BY <4>1, <3>3, <1>1, <1>4, <1>7
      <4>2. CASE g # e
        <5>1. snap[e] \subseteq snap[g] \/ snap[g] \subseteq snap[e]
          BY <4>2, <3>2, <3>5, <1>2, <1>4 DEF SnapInv
        <5>2. QED BY <5>1, <4>2, <3>2, <3>5, <1>1, <1>4
      <4>3. QED BY <4>1, <4>2
    <3>6. QED BY <3>3, <3>4, <3>5, <1>1, <1>4, <1>7 DEF Blocks
  <2>3. QED BY <2>1, <2>2 DEF EditInv
<1>10. PendInv' /\ NameInv'
  BY <1>1, <1>4, <1>6, ReaderStep DEF Writer, Deciding, Creating, Patching, Busy
<1>11. QED BY <1>1, <1>3, <1>5, <1>8, <1>9, <1>10, SameTable DEF IInv

LEMMA DecideStep ==
    ASSUME IInv, NEW e \in Editors, Decide(e)
    PROVE  IInv'
<1> USE NoneIsNone
<1>1. /\ pc[e] = "reread" /\ snap[e] # {} /\ UNCHANGED <<rows, lock, pend, req, snap>>
      /\ \A i \in snap[e] : lock[i] = e
      /\ pc' = [pc EXCEPT ![e] = IF req[e].name \notin {None, CurrentName(e)} THEN "rename" ELSE AfterRename(e)]
  BY DEF Decide, Goto, table, Unlocked
<1>2. TypeOK /\ ReqInv /\ CreateInv /\ SnapInv /\ EditInv
  BY DEF IInv
<1>3. /\ pc'[e] \in {"rename", "edit", "commit"}
      /\ pc'[e] = "rename" => req[e].name # None
      /\ pc'[e] = "edit" => req[e].rules # None
      /\ pc'[e] \in {"edit", "commit"} => req[e].name \in {None, CurrentName(e)}
      /\ \A f \in Editors : f # e => pc'[f] = pc[f]
  BY <1>1, <1>2 DEF TypeOK, AfterRename
<1>4. TypeOK'
  BY <1>1, <1>2, <1>3 DEF TypeOK, Steps, AfterRename
<1>5. \A f \in Editors : T(f)' = T(f) /\ Busy(f)' = Busy(f)
  BY <1>1, <1>3 DEF T, Busy
<1>6. ReqInv' /\ CreateInv'
  BY <1>1, <1>2, <1>3, <1>5 DEF ReqInv, CreateInv, Creating, Busy
<1>7. SnapInv'
  BY <1>1, <1>2, <1>3, <1>5 DEF SnapInv, Patching, Deciding
<1>8. EditInv'
  BY <1>1, <1>2, <1>3, <1>5 DEF EditInv, Blocks, Editing, Patching
<1>9. PendInv' /\ NameInv'
  <2>1. First(rows, snap[e]) \in Lineage(rows, T(e))
    <3>1. snap[e] \subseteq Lineage(rows, T(e))
      BY <1>2 DEF SnapInv
    <3>2. First(rows, snap[e]) \in snap[e]
      BY <3>1, <1>1, <1>2, FirstIsNewest DEF TypeOK, Table, Lineage
    <3>3. QED BY <3>1, <3>2
  <2>2. \A i \in Lineage(rows, T(e)) : rows[i].name = CurrentName(e)
    BY <2>1, CoherentNames DEF IInv, CurrentName, Lineage
  <2>3. ~Writer(e)
    BY <1>1, <1>2 DEF ReqInv, Writer, Deciding, Creating, Busy
  <2>4. QED BY <2>2, <2>3, <1>1, <1>3, ReaderStep DEF T
<1>10. QED BY <1>1, <1>4, <1>6, <1>7, <1>8, <1>9, SameTable DEF IInv

\* A rolled back transaction leaves nothing behind.
LEMMA RollbackStep ==
    ASSUME IInv, NEW e \in Editors, Busy(e), Rollback(e)
    PROVE  IInv'
<1> USE NoneIsNone
<1>1. /\ pend' = [pend EXCEPT ![e] = NoWrites] /\ snap' = [snap EXCEPT ![e] = {}]
      /\ lock' = [i \in Ids |-> IF lock[i] = e THEN None ELSE lock[i]]
      /\ pc' = [pc EXCEPT ![e] = "done"] /\ UNCHANGED <<rows, req>>
  BY DEF Rollback, EndTxn, Goto
<1>2. TypeOK /\ ReqInv /\ CreateInv /\ SnapInv /\ EditInv /\ PendInv /\ NameInv
  BY DEF IInv
<1>3. TypeOK'
  BY <1>1, <1>2 DEF TypeOK, NoWrites, Steps
<1>4. /\ pc'[e] = "done" /\ snap'[e] = {} /\ \A i \in Ids : pend'[e][i] = None
      /\ \A f \in Editors : f # e => pc'[f] = pc[f] /\ snap'[f] = snap[f] /\ pend'[f] = pend[f]
      /\ \A f \in Editors, i \in Ids : f # e /\ lock[i] = f => lock'[i] = f
      /\ \A f \in Editors : T(f)' = T(f) /\ req'[f] = req[f]
  BY <1>1, <1>2 DEF TypeOK, NoWrites, T
<1>5. \A f \in Editors : snap[f] \subseteq Ids
  BY <1>2 DEF TypeOK
<1>6. ReqInv' /\ CreateInv'
  BY <1>1, <1>2, <1>4 DEF ReqInv, CreateInv, Creating, Busy
<1>7. SnapInv'
  BY <1>1, <1>2, <1>4, <1>5 DEF SnapInv, Patching, Busy, Deciding
<1>8. EditInv'
  <2>1. \A f \in Editors : f # e /\ Blocks(f) => Blocks(f)'
    BY <1>4, <1>5 DEF Blocks
  <2>2. QED BY <2>1, <1>1, <1>2, <1>4 DEF EditInv, Editing, Patching, Busy
<1>9. PendInv'
  <2>1. ASSUME NEW f \in Editors, NEW i \in Ids, pend'[f][i] # None
        PROVE  /\ pc'[f] = "commit" \/ (pc'[f] = "edit" /\ req'[f].name # None)
               /\ pend'[f][i].template = T(f)'
               /\ pend'[f][i].rules \in Storable(pend'[f][i].type)
               /\ IF rows'[i] # None THEN Updates(pend[f][i], rows[i])'
                  ELSE /\ pc'[f] = "commit" /\ Inserts(f, pend[f][i])'
                       /\ \A j \in Ids : pend'[f][j] # None /\ rows'[j] = None => i = j
    <3>1. f # e /\ T(f)' = T(f) /\ pend[f][i] # None /\ pend'[f] = pend[f] /\ pc'[f] = pc[f] /\ req'[f] = req[f]
      BY <2>1, <1>4
    <3>2. rows[i] # None => Updates(pend[f][i], rows[i])'
      BY <1>1, <1>2, <3>1 DEF PendInv, Updates
    <3>3. rows[i] = None => Inserts(f, pend[f][i])'
      BY <1>1, <1>2, <3>1 DEF PendInv, Inserts, Living
    <3>4. QED BY <1>1, <1>2, <3>1, <3>2, <3>3 DEF PendInv
  <2>2. \A f, g \in Editors, i \in Ids : f # g => pend'[f][i] = None \/ pend'[g][i] = None
    BY <1>2, <1>4 DEF PendInv
  <2>3. QED BY <2>1, <2>2 DEF PendInv
<1>10. NameInv'
  <2>1. /\ \A f \in Editors, i, j \in Ids : ~Clash(pend[f][i], rows[j])'
        /\ \A f, g \in Editors, i, j \in Ids : f # g => ~Clash(pend[f][i], pend[g][j])'
    BY <1>1, <1>2, <1>4 DEF NameInv, Clash, Living
  <2>2. \A f \in Editors : f # e => View(f)' = View(f)
    BY <1>1, <1>4 DEF View
  <2>3. \A f \in Editors : Busy(f)' => f # e /\ Busy(f) /\ pc'[f] = pc[f]
    BY <1>4 DEF Busy
  <2>4. QED BY <2>1, <2>2, <2>3, <1>2, <1>4 DEF NameInv, Lineage
<1>11. RowsInv' /\ OneDraft' /\ NamesAreCoherent' /\ VersionsAreChained'
  BY <1>1, SameTable
<1>12. QED BY <1>3, <1>6, <1>7, <1>8, <1>9, <1>10, <1>11 DEF IInv

-----------------------------------------------------------------------------
(* Statements that write: what each of them has to show of the rows p that *)
(* its transaction has then written.                                       *)

Overlay(p) == [i \in Ids |-> IF p[i] # None THEN p[i] ELSE rows[i]]

WriteOk(e, p, s) ==
    /\ \A i \in Ids : p[i] # None =>
         /\ p[i].template = T(e) /\ p[i].rules \in Storable(p[i].type)
         /\ rows[i] # None => Updates(p[i], rows[i])
         /\ rows[i] = None =>
              /\ s = "commit" /\ Inserts(e, p[i])
              /\ \A f \in Editors : f # e => pend[f][i] = None
              /\ \A j \in Ids : p[j] # None /\ rows[j] = None => i = j
    /\ \A i, j \in Ids : ~Clash(p[i], rows[j])
    /\ \A f \in Editors, i, j \in Ids : f # e => ~Clash(p[i], pend[f][j])
    /\ \A i, j \in Lineage(Overlay(p), T(e)) : Overlay(p)[i].name = Overlay(p)[j].name
    /\ req[e].op = "patch" /\ req[e].name # None =>
         \A i \in Lineage(Overlay(p), T(e)) : Overlay(p)[i].name = req[e].name

LEMMA WriteStep ==
    ASSUME IInv, NEW e \in Editors, pc[e] \in {"insert", "rename", "edit"},
           NEW p \in Table, NEW s \in {"edit", "commit"},
           UNCHANGED <<rows, req, snap>>, lock' \in [Ids -> Editors \cup {None}],
           \A i \in Ids : lock[i] # None => lock'[i] = lock[i],
           pend' = [pend EXCEPT ![e] = p], pc' = [pc EXCEPT ![e] = s],
           s = "edit" => req[e].op = "patch" /\ req[e].rules # None /\ req[e].name # None,
           WriteOk(e, p, s)
    PROVE  IInv'
<1> USE NoneIsNone DEF WriteOk
<1>1. TypeOK /\ ReqInv /\ CreateInv /\ SnapInv /\ EditInv /\ PendInv /\ NameInv
  BY DEF IInv
<1>2. TypeOK'
  BY <1>1 DEF TypeOK, Steps, Table
<1>3. /\ pc'[e] = s /\ pend'[e] = p
      /\ \A f \in Editors : f # e => pc'[f] = pc[f] /\ pend'[f] = pend[f]
      /\ \A f \in Editors : T(f)' = T(f) /\ req'[f] = req[f] /\ snap'[f] = snap[f] /\ Busy(f)' = Busy(f)
      /\ \A f \in Editors, i \in Ids : lock[i] = f => lock'[i] = f
  BY <1>1 DEF TypeOK, T, Busy
<1>4. \A f \in Editors : snap[f] \subseteq Ids
  BY <1>1 DEF TypeOK
<1>5. ReqInv' /\ CreateInv'
  BY <1>1, <1>3 DEF ReqInv, CreateInv, Creating, Busy
<1>6. SnapInv'
  <2>1. Deciding(e)' => Deciding(e)
    BY <1>1, <1>3 DEF ReqInv, Deciding, Busy
  <2>2. QED BY <2>1, <1>1, <1>3, <1>4 DEF SnapInv, Patching, Deciding
<1>7. EditInv'
  <2>1. \A f \in Editors : Blocks(f) => Blocks(f)'
    BY <1>3, <1>4 DEF Blocks
  <2>2. QED BY <2>1, <1>1, <1>3 DEF EditInv, Editing, Patching
<1>8. Writer(e) /\ \A f \in Editors, i \in Ids : pend[f][i] # None => Writer(f)
  BY Writers
<1>9. PendInv'
  <2>1. ASSUME NEW f \in Editors, f # e, NEW i \in Ids, pend'[f][i] # None
        PROVE  /\ pc'[f] = "commit" \/ (pc'[f] = "edit" /\ req'[f].name # None)
               /\ pend'[f][i].template = T(f)'
               /\ pend'[f][i].rules \in Storable(pend'[f][i].type)
               /\ IF rows'[i] # None THEN Updates(pend[f][i], rows[i])'
                  ELSE /\ pc'[f] = "commit" /\ Inserts(f, pend[f][i])'
                       /\ \A j \in Ids : pend'[f][j] # None /\ rows'[j] = None => i = j
    <3>1. T(f)' = T(f) /\ pend[f][i] # None /\ pend'[f] = pend[f] /\ pc'[f] = pc[f] /\ req'[f] = req[f]
      BY <2>1, <1>3
    <3>2. rows[i] # None => Updates(pend[f][i], rows[i])'
      BY <1>1, <3>1 DEF PendInv, Updates
    <3>3. rows[i] = None => Inserts(f, pend[f][i])'
      BY <1>1, <3>1 DEF PendInv, Inserts, Living
    <3>4. QED BY <1>1, <3>1, <3>2, <3>3 DEF PendInv
  <2>2. ASSUME NEW i \in Ids, p[i] # None
        PROVE  /\ pc'[e] = "commit" \/ (pc'[e] = "edit" /\ req'[e].name # None)
               /\ pend'[e][i].template = T(e)'
               /\ pend'[e][i].rules \in Storable(pend'[e][i].type)
               /\ IF rows'[i] # None THEN Updates(pend[e][i], rows[i])'
                  ELSE /\ pc'[e] = "commit" /\ Inserts(e, pend[e][i])'
                       /\ \A j \in Ids : pend'[e][j] # None /\ rows'[j] = None => i = j
    <3>1. pend'[e][i] = p[i] /\ rows'[i] = rows[i]
      BY <1>3
    <3>2. rows[i] # None => Updates(pend[e][i], rows[i])'
      BY <3>1, <2>2 DEF Updates
    <3>3. rows[i] = None => Inserts(e, pend[e][i])'
      BY <3>1, <2>2, <1>3 DEF Inserts, Living
    <3>4. QED BY <3>1, <3>2, <3>3, <2>2, <1>3
  <2>3. ASSUME NEW f \in Editors, f # e, NEW i \in Ids, p[i] # None PROVE pend[f][i] = None
    <3>1. CASE rows[i] = None
      BY <3>1, <2>3
    <3>2. CASE rows[i] # None
      <4>1. rows[i].template = T(e)
        BY <3>2, <2>3 DEF Updates
      <4>2. pend[f][i] # None => rows[i].template = T(f) /\ Writer(f)
        BY <3>2, <1>1, <1>8 DEF PendInv, Updates
      <4>3. QED BY <4>1, <4>2, <1>8, <2>3, WritersDiffer
    <3>3. QED BY <3>1, <3>2
  <2>4. \A f, g \in Editors, i \in Ids : f # g => pend'[f][i] = None \/ pend'[g][i] = None
    BY <2>3, <1>1, <1>3 DEF PendInv
  <2>5. QED BY <2>1, <2>2, <2>4, <1>3 DEF PendInv
<1>10. NameInv'
  <2>1. \A f \in Editors, i, j \in Ids : ~Clash(pend[f][i], rows[j])'
    BY <1>1, <1>3 DEF NameInv, Clash, Living
  <2>2. ASSUME NEW f \in Editors, NEW g \in Editors, NEW i \in Ids, NEW j \in Ids, f # g
        PROVE  ~Clash(pend[f][i], pend[g][j])'
    <3>1. CASE f # e /\ g # e
      BY <3>1, <2>2, <1>1, <1>3 DEF NameInv, Clash, Living
    <3>2. CASE f = e
      BY <3>2, <2>2, <1>3 DEF Clash, Living
    <3>3. CASE g = e
      BY <3>3, <2>2, <1>3 DEF Clash, Living
    <3>4. QED BY <3>1, <3>2, <3>3
  <2>3. (\A f \in Editors : f # e => View(f)' = View(f)) /\ View(e)' = Overlay(p)
    BY <1>3 DEF View, Overlay
  <2>4. QED BY <2>1, <2>2, <2>3, <1>1, <1>3 DEF NameInv, Lineage
<1>11. RowsInv' /\ OneDraft' /\ NamesAreCoherent' /\ VersionsAreChained'
  BY SameTable
<1>12. QED BY <1>2, <1>5, <1>6, <1>7, <1>9, <1>10, <1>11 DEF IInv

\* A name that is neither taken nor in doubt is claimed by no other template.
LEMMA FreeName ==
    ASSUME NEW e \in Editors, NEW r, r # None, ~NameTaken(e, r.template, r.name), ~NameInDoubt(e, r.template, r.name)
    PROVE  /\ \A j \in Ids : ~Clash(r, rows[j])
           /\ \A f \in Editors, j \in Ids : f # e => ~Clash(r, pend[f][j])
BY DEF NameTaken, NameInDoubt, Excludes, Clash

LEMMA InsertStep ==
    ASSUME IInv, NEW e \in Editors, InsertFirstVersion(e)
    PROVE  IInv'
<1> USE NoneIsNone
<1> DEFINE r == req[e]
           new == [template |-> r.template, name |-> r.name, type |-> Bodies[r.rules].template_type,
                   status |-> "ACTIVE", seq |-> NextSeq(View(e), r.template), author |-> e,
                   rules |-> r.rules, predecessor |-> None]
           p == [pend[e] EXCEPT ![NewId] = new]
<1>1. /\ pc[e] = "insert" /\ FreeIds # {}
      /\ ~NameTaken(e, r.template, r.name) /\ ~NameInDoubt(e, r.template, r.name)
      /\ pend' = [pend EXCEPT ![e] = p] /\ pc' = [pc EXCEPT ![e] = "commit"]
      /\ UNCHANGED <<rows, lock, req, snap>>
  BY DEF InsertFirstVersion, Goto
<1>2. TypeOK /\ ReqInv /\ CreateInv /\ PendInv
  BY DEF IInv
<1>3. NewId \in FreeIds /\ NewId \in Ids /\ rows[NewId] = None /\ \A f \in Editors : pend[f][NewId] = None
  BY <1>1, NewIdIsFree DEF FreeIds
<1>4. r \in Request /\ r.op = "create" /\ r.name \in Names /\ r.rules \in DOMAIN Bodies /\ PostGate[r.rules]
      /\ Creating(e) /\ T(e) = r.template
  BY <1>1, <1>2 DEF ReqInv, Creating, Busy, T
<1>5. Lineage(rows, T(e)) = {}
  BY <1>2, <1>4 DEF CreateInv
<1>6. \A i \in Ids : pend[e][i] = None
  BY <1>1, <1>2 DEF PendInv
<1>7. View(e) = rows
  BY <1>2, <1>6 DEF View, TypeOK
<1>8. NextSeq(View(e), r.template) = 1 /\ Cardinality(Lineage(rows, T(e))) = 0 /\ 1 \in Ids
  <2>1. Cardinality(Lineage(rows, T(e))) = 0
    BY <1>5, FS_EmptySet
  <2>2. Cardinality(Lineage(rows, T(e))) + 1 \in Ids
    BY <1>3, <1>5, LineageIsFinite
  <2>3. QED BY <2>1, <2>2, <1>4, <1>5, <1>7 DEF NextSeq
<1>9. new.type \in TEMPLATE_TYPES /\ new.rules \in Storable(new.type)
  BY <1>4 DEF PostGate, body_accepted, require_template_type, Storable
<1>10. new \in SourceMappingRow
  BY <1>4, <1>8, <1>9 DEF SourceMappingRow, Request, Status
<1>11. p \in Table /\ p[NewId] = new /\ \A i \in Ids : i # NewId => p[i] = None
  BY <1>2, <1>3, <1>6, <1>10 DEF TypeOK, Table
<1>12. pc'[e] = "commit" /\ T(e)' = T(e) /\ req'[e] = r
  BY <1>1, <1>2 DEF TypeOK, T
<1> HIDE DEF p
<1>13. Inserts(e, new)
  <2>1. new.status = "ACTIVE" /\ new.predecessor = None /\ new.seq = 1
    BY <1>8
  <2> HIDE DEF new
  <2>2. QED BY <2>1, <1>4, <1>8 DEF Inserts
<1>14. /\ \A j \in Ids : ~Clash(new, rows[j])
       /\ \A f \in Editors, j \in Ids : f # e => ~Clash(new, pend[f][j])
  <2>1. new # None /\ ~NameTaken(e, new.template, new.name) /\ ~NameInDoubt(e, new.template, new.name)
    BY <1>1, <1>10
  <2> HIDE DEF new
  <2>2. QED BY <2>1, FreeName
<1>15. new.template = T(e) /\ new # None
  BY <1>4, <1>10
<1> HIDE DEF new
<1>16. Lineage(Overlay(p), T(e)) = {NewId}
  BY <1>3, <1>5, <1>11, <1>15 DEF Overlay, Lineage
<1>17. \A i, j \in Ids : ~Clash(p[i], rows[j])
  BY <1>11, <1>14 DEF Clash
<1>18. \A f \in Editors, i, j \in Ids : f # e => ~Clash(p[i], pend[f][j])
  BY <1>11, <1>14 DEF Clash
<1>19. WriteOk(e, p, "commit")
  <2>1. ASSUME NEW i \in Ids, p[i] # None
        PROVE  /\ p[i].template = T(e) /\ p[i].rules \in Storable(p[i].type)
               /\ rows[i] = None /\ Inserts(e, p[i])
               /\ \A f \in Editors : f # e => pend[f][i] = None
               /\ \A j \in Ids : p[j] # None => i = j
    <3>1. i = NewId /\ p[i] = new
      BY <2>1, <1>11
    <3>2. QED BY <3>1, <1>3, <1>9, <1>11, <1>13, <1>15
  <2>2. \A i, j \in Lineage(Overlay(p), T(e)) : Overlay(p)[i].name = Overlay(p)[j].name
    BY <1>16
  <2>3. r.op # "patch"
    BY <1>4
  <2>4. QED BY <2>1, <2>2, <2>3, <1>17, <1>18 DEF WriteOk
<1>20. lock' \in [Ids -> Editors \cup {None}] /\ \A i \in Ids : lock[i] # None => lock'[i] = lock[i]
  BY <1>1, <1>2 DEF TypeOK
<1>21. QED BY <1>1, <1>11, <1>19, <1>20, WriteStep

\* While it decides, a PATCH has inserted nothing and sees the lineage it is about.
LEMMA DecidingView ==
    ASSUME IInv, NEW e \in Editors, pc[e] \in {"rename", "edit"}
    PROVE  /\ Deciding(e) /\ req[e] \in Request /\ req[e].op = "patch"
           /\ snap[e] # {} /\ snap[e] \subseteq Lineage(rows, T(e))
           /\ \A i \in Ids : pend[e][i] # None => pc[e] = "edit" /\ req[e].name # None /\ rows[i] # None
           /\ View(e) \in Table
           /\ \A i \in Ids : rows[i] = None => View(e)[i] = None
           /\ \A i \in Ids : rows[i] # None => View(e)[i] # None /\ Updates(View(e)[i], rows[i])
           /\ Lineage(View(e), T(e)) = Lineage(rows, T(e))
<1> USE NoneIsNone
<1>1. TypeOK /\ ReqInv /\ SnapInv /\ PendInv
  BY DEF IInv
<1>2. Deciding(e) /\ req[e] \in Request /\ req[e].op = "patch"
  BY <1>1 DEF ReqInv, Deciding, Busy
<1>3. snap[e] # {} /\ snap[e] \subseteq Lineage(rows, T(e))
  BY <1>1, <1>2 DEF SnapInv
<1>4. \A i \in Ids : pend[e][i] # None => pc[e] = "edit" /\ req[e].name # None /\ rows[i] # None
  BY <1>1 DEF PendInv
<1>5. View(e) \in Table
  BY <1>1 DEF View, Table, TypeOK
<1>6. \A i \in Ids : rows[i] = None => View(e)[i] = None
  BY <1>4 DEF View
<1>7. \A i \in Ids : rows[i] # None => View(e)[i] # None /\ Updates(View(e)[i], rows[i])
  BY <1>1 DEF PendInv, View, Updates
<1>8. Lineage(View(e), T(e)) = Lineage(rows, T(e))
  BY <1>6, <1>7 DEF Lineage, Updates
<1>9. QED BY <1>2, <1>3, <1>4, <1>5, <1>6, <1>7, <1>8

LEMMA RenameStep ==
    ASSUME IInv, NEW e \in Editors, RenameLineage(e)
    PROVE  IInv'
<1> USE NoneIsNone
<1> DEFINE t == req[e].template
           n == req[e].name
           ids == Lineage(rows, t)
           p == [i \in Ids |-> IF i \in ids THEN [rows[i] EXCEPT !.name = n] ELSE pend[e][i]]
<1>1. /\ pc[e] = "rename" /\ pc' = [pc EXCEPT ![e] = AfterRename(e)]
      /\ \A i \in ids : lock[i] \in {None, e}
      /\ lock' = [i \in Ids |-> IF i \in ids THEN e ELSE lock[i]]
      /\ (NameTaken(e, t, n) \/ NameInDoubt(e, t, n)) => \A i \in ids : ~Living(rows[i])
      /\ pend' = [pend EXCEPT ![e] = p]
      /\ UNCHANGED <<rows, req, snap>>
  BY DEF RenameLineage, Goto
<1>2. TypeOK /\ ReqInv /\ RowsInv
  BY DEF IInv
<1>3. /\ Deciding(e) /\ req[e] \in Request /\ req[e].op = "patch"
      /\ \A i \in Ids : pend[e][i] = None
  BY <1>1, DecidingView
<1>4. n \in Names /\ T(e) = t /\ t \in Templates
  BY <1>1, <1>2, <1>3 DEF ReqInv, Busy, Request, T
<1>5. ASSUME NEW i \in ids
      PROVE  /\ rows[i] # None /\ rows[i].template = t /\ p[i] \in SourceMappingRow /\ p[i].name = n
             /\ Updates(p[i], rows[i]) /\ p[i].rules = rows[i].rules /\ i \in Ids
  <2>1. i \in Ids /\ rows[i] \in SourceMappingRow /\ rows[i].template = t
    BY <1>2 DEF Lineage, TypeOK
  <2>2. p[i] = [rows[i] EXCEPT !.name = n]
    BY <2>1
  <2> HIDE DEF p
  <2>3. QED BY <2>1, <2>2, <1>4 DEF SourceMappingRow, Updates
<1>6. \A i \in Ids : i \notin ids => p[i] = None
  BY <1>3
<1>7. p \in Table
  BY <1>5, <1>6 DEF Table
<1> HIDE DEF p
<1>8. ASSUME NEW i \in ids
      PROVE  /\ \A j \in Ids : ~Clash(p[i], rows[j])
             /\ \A f \in Editors, j \in Ids : f # e => ~Clash(p[i], pend[f][j])
  <2>1. CASE ~Living(rows[i])
    BY <2>1, <1>5 DEF Clash, Living, Updates
  <2>2. CASE Living(rows[i])
    <3>1. ~NameTaken(e, t, n) /\ ~NameInDoubt(e, t, n)
      BY <2>2, <1>1
    <3>2. p[i] # None /\ p[i].template = t /\ p[i].name = n
      BY <1>5 DEF Updates
    <3>3. QED BY <3>1, <3>2, FreeName
  <2>3. QED BY <2>1, <2>2
<1>9. \A i \in Lineage(Overlay(p), T(e)) : Overlay(p)[i].name = n
  <2>1. ASSUME NEW i \in Ids, Overlay(p)[i] # None, Overlay(p)[i].template = t PROVE i \in ids
    BY <2>1, <1>6 DEF Overlay, Lineage
  <2>2. \A i \in ids : Overlay(p)[i] = p[i]
    BY <1>5 DEF Overlay
  <2>3. QED BY <2>1, <2>2, <1>4, <1>5 DEF Lineage
<1>10. WriteOk(e, p, AfterRename(e))
  <2>1. ASSUME NEW i \in Ids, p[i] # None
        PROVE  /\ p[i].template = T(e) /\ p[i].rules \in Storable(p[i].type)
               /\ rows[i] # None /\ Updates(p[i], rows[i])
    BY <2>1, <1>2, <1>4, <1>5, <1>6 DEF RowsInv, Updates
  <2>2. /\ \A i, j \in Ids : ~Clash(p[i], rows[j])
        /\ \A f \in Editors, i, j \in Ids : f # e => ~Clash(p[i], pend[f][j])
    BY <1>6, <1>8 DEF Clash
  <2>3. QED BY <2>1, <2>2, <1>9 DEF WriteOk
<1>11. AfterRename(e) \in {"edit", "commit"} /\ (AfterRename(e) = "edit" => req[e].rules # None)
  BY DEF AfterRename
<1>12. lock' \in [Ids -> Editors \cup {None}] /\ \A i \in Ids : lock[i] # None => lock'[i] = lock[i]
  BY <1>1, <1>2 DEF TypeOK
<1>13. QED BY <1>1, <1>3, <1>4, <1>7, <1>10, <1>11, <1>12, WriteStep

LEMMA EditStep ==
    ASSUME IInv, NEW e \in Editors, EditDraft(e)
    PROVE  IInv'
<1> USE NoneIsNone
<1> DEFINE k == First(rows, Drafts(e))
           old == View(e)[k]
           new == [old EXCEPT !.author = e, !.rules = req[e].rules]
           p == [pend[e] EXCEPT ![k] = new]
<1>1. /\ pc[e] = "edit" /\ Drafts(e) # {} /\ pend' = [pend EXCEPT ![e] = p]
      /\ pc' = [pc EXCEPT ![e] = "commit"] /\ UNCHANGED <<rows, lock, req, snap>>
  BY DEF EditDraft, Goto
<1>2. TypeOK /\ ReqInv /\ EditInv /\ PendInv /\ NameInv /\ NamesAreCoherent
  BY DEF IInv
<1>3. /\ Deciding(e) /\ req[e] \in Request /\ req[e].op = "patch"
      /\ snap[e] # {} /\ snap[e] \subseteq Lineage(rows, T(e))
      /\ \A i \in Ids : pend[e][i] # None => rows[i] # None
      /\ View(e) \in Table
      /\ \A i \in Ids : rows[i] # None => View(e)[i] # None /\ Updates(View(e)[i], rows[i])
      /\ Lineage(View(e), T(e)) = Lineage(rows, T(e))
  BY <1>1, DecidingView
<1>4. k \in snap[e] /\ rows[k].status = "DRAFT" /\ k \in Ids /\ rows[k] # None /\ rows[k].template = T(e)
  <2>1. Drafts(e) \subseteq snap[e] /\ Drafts(e) \in SUBSET Ids /\ \A i \in Drafts(e) : rows[i] # None
    BY <1>3 DEF Drafts, Lineage
  <2>2. k \in Drafts(e)
    BY <2>1, <1>1, <1>2, FirstIsNewest DEF TypeOK, Table
  <2>3. QED BY <2>1, <2>2, <1>3 DEF Drafts, Lineage
<1>5. req[e].rules \in PatchGate[rows[k].type] /\ req[e].rules \in DOMAIN Documents
  <2>1. Editing(e) /\ req[e].rules \in DOMAIN Documents
    BY <1>1, <1>2, <1>3 DEF ReqInv, Editing, Patching, Busy
  <2>2. QED BY <2>1, <1>2, <1>4 DEF EditInv
<1>6. old \in SourceMappingRow /\ Updates(old, rows[k])
  BY <1>3, <1>4 DEF Table
<1> HIDE DEF old, k
<1>7. /\ new \in SourceMappingRow /\ new.template = T(e) /\ new.name = old.name /\ Updates(new, rows[k])
      /\ new.status = old.status /\ new.rules \in Storable(new.type)
  <2>1. new \in SourceMappingRow
    BY <1>5, <1>6 DEF SourceMappingRow
  <2>2. new.template = old.template /\ new.type = old.type /\ new.status = old.status /\ new.seq = old.seq
        /\ new.predecessor = old.predecessor /\ new.name = old.name /\ new.rules = req[e].rules
    BY <1>6 DEF SourceMappingRow
  <2> HIDE DEF new
  <2>3. Updates(new, rows[k])
    BY <2>2, <1>4, <1>6 DEF Updates
  <2>4. new.template = T(e) /\ new.rules \in Storable(new.type)
    BY <2>2, <1>4, <1>5, <1>6 DEF Updates, Storable
  <2>5. QED BY <2>1, <2>2, <2>3, <2>4
<1> HIDE DEF new
<1>8. p \in Table /\ p[k] = new /\ \A i \in Ids : i # k => p[i] = pend[e][i]
  BY <1>2, <1>4, <1>7 DEF TypeOK, Table
<1> HIDE DEF p
<1>9. /\ Overlay(p)[k] = new /\ View(e)[k] = old /\ new # None /\ old # None
      /\ \A i \in Ids : i # k => Overlay(p)[i] = View(e)[i]
  BY <1>4, <1>6, <1>7, <1>8 DEF Overlay, View, old
<1>10. Lineage(Overlay(p), T(e)) = Lineage(View(e), T(e))
       /\ \A i \in Lineage(View(e), T(e)) : Overlay(p)[i].name = View(e)[i].name
  <2>1. old.template = T(e)
    BY <1>4, <1>6 DEF Updates
  <2>2. QED BY <2>1, <1>4, <1>7, <1>9 DEF Lineage
<1>11. /\ \A j \in Ids : ~Clash(new, rows[j])
       /\ \A f \in Editors, j \in Ids : f # e => ~Clash(new, pend[f][j])
  <2>1. \A s : Clash(new, s) => Clash(old, s) /\ Clash(s, old)
    BY <1>4, <1>6, <1>7, <1>9 DEF Clash, Living, Updates
  <2>2. CASE pend[e][k] # None
    <3>1. old = pend[e][k]
      BY <2>2, <1>4, <1>9 DEF View
    <3>2. QED BY <3>1, <2>1, <1>2, <1>4 DEF NameInv
  <2>3. CASE pend[e][k] = None
    <3>1. old = rows[k]
      BY <2>3, <1>4, <1>9 DEF View
    <3>2. \A j \in Ids : ~Clash(old, rows[j])
      BY <3>1, <1>2, <1>4, CoherentNames
    <3>3. \A f \in Editors, j \in Ids : ~Clash(pend[f][j], old)
      BY <3>1, <1>2, <1>4 DEF NameInv
    <3>4. QED BY <3>2, <3>3, <2>1
  <2>4. QED BY <2>2, <2>3
<1>12. WriteOk(e, p, "commit")
  <2>1. ASSUME NEW i \in Ids, p[i] # None
        PROVE  /\ p[i].template = T(e) /\ p[i].rules \in Storable(p[i].type)
               /\ rows[i] # None /\ Updates(p[i], rows[i])
    <3>1. CASE i = k
      BY <3>1, <1>4, <1>7, <1>8
    <3>2. CASE i # k
      BY <3>2, <2>1, <1>2, <1>3, <1>8 DEF PendInv
    <3>3. QED BY <3>1, <3>2
  <2>2. \A i, j \in Ids : ~Clash(p[i], rows[j])
    BY <1>2, <1>8, <1>11 DEF NameInv
  <2>3. \A f \in Editors, i, j \in Ids : f # e => ~Clash(p[i], pend[f][j])
    BY <1>2, <1>8, <1>11 DEF NameInv
  <2>4. \A i, j \in Lineage(Overlay(p), T(e)) : Overlay(p)[i].name = Overlay(p)[j].name
    BY <1>1, <1>2, <1>10 DEF NameInv, Busy
  <2>5. req[e].name # None => \A i \in Lineage(Overlay(p), T(e)) : Overlay(p)[i].name = req[e].name
    BY <1>1, <1>2, <1>3, <1>10 DEF NameInv
  <2>6. QED BY <2>1, <2>2, <2>3, <2>4, <2>5 DEF WriteOk
<1>13. lock' \in [Ids -> Editors \cup {None}] /\ \A i \in Ids : lock[i] # None => lock'[i] = lock[i]
  BY <1>1, <1>2 DEF TypeOK
<1>14. QED BY <1>1, <1>8, <1>12, <1>13, WriteStep

LEMMA ChainStep ==
    ASSUME IInv, NEW e \in Editors, ChainDraft(e)
    PROVE  IInv'
<1> USE NoneIsNone
<1> DEFINE t == req[e].template
           h == HeadVersion(e)
           name == EffectiveName(e)
           new == [template |-> t, name |-> name, type |-> rows[h].type,
                   status |-> "DRAFT", seq |-> NextSeq(View(e), t), author |-> e,
                   rules |-> req[e].rules, predecessor |-> h]
           p == [pend[e] EXCEPT ![NewId] = new]
<1>1. /\ pc[e] = "edit" /\ Drafts(e) = {} /\ LivingVersions(e) # {} /\ FreeIds # {}
      /\ ~NameTaken(e, t, name) /\ ~NameInDoubt(e, t, name)
      /\ pend' = [pend EXCEPT ![e] = p]
      /\ pc' = [pc EXCEPT ![e] = "commit"] /\ UNCHANGED <<rows, lock, req, snap>>
  BY DEF ChainDraft, Goto
<1>2. TypeOK /\ ReqInv /\ EditInv /\ PendInv /\ NameInv /\ RowsInv /\ NamesAreCoherent /\ VersionsAreChained
  BY DEF IInv
<1>3. /\ Deciding(e) /\ req[e] \in Request /\ req[e].op = "patch"
      /\ snap[e] # {} /\ snap[e] \subseteq Lineage(rows, T(e))
      /\ \A i \in Ids : pend[e][i] # None => rows[i] # None /\ req[e].name # None
      /\ View(e) \in Table
      /\ \A i \in Ids : rows[i] # None => View(e)[i] # None /\ Updates(View(e)[i], rows[i])
      /\ Lineage(View(e), T(e)) = Lineage(rows, T(e))
      /\ T(e) = t
  BY <1>1, DecidingView DEF T
<1>4. Editing(e) /\ req[e].rules \in DOMAIN Documents /\ t \in Templates
  BY <1>1, <1>2, <1>3 DEF ReqInv, Editing, Patching, Busy, Request
<1>5. snap[e] = Lineage(rows, T(e)) /\ \A i \in snap[e] : req[e].rules \in PatchGate[rows[i].type]
  BY <1>1, <1>2, <1>4 DEF EditInv
<1>6. NewId \in Ids /\ rows[NewId] = None /\ \A f \in Editors : pend[f][NewId] = None
  BY <1>1, NewIdIsFree DEF FreeIds
<1>7. h \in snap[e] /\ Living(rows[h]) /\ h \in Ids /\ rows[h] # None /\ rows[h].template = t
  <2>1. LivingVersions(e) \in SUBSET Ids /\ \A i \in LivingVersions(e) : rows[i] # None
    BY <1>3 DEF LivingVersions, Lineage
  <2>2. h \in LivingVersions(e)
    BY <2>1, <1>1, <1>2, FirstIsNewest DEF TypeOK, Table, HeadVersion
  <2>3. QED BY <2>2, <1>3 DEF LivingVersions, Lineage
<1>8. \A i \in Lineage(rows, T(e)) : rows[i].status # "DRAFT" /\ rows[i].type = rows[h].type
  BY <1>1, <1>2, <1>3, <1>5, <1>7 DEF Drafts, RowsInv, Lineage
<1>9. \A i \in Lineage(View(e), T(e)) : View(e)[i].name = name
  <2>1. CASE req[e].name # None
    BY <2>1, <1>1, <1>2, <1>3 DEF NameInv, EffectiveName
  <2>2. CASE req[e].name = None
    <3>1. View(e) = rows
      BY <2>2, <1>2, <1>3 DEF View, TypeOK
    <3>2. First(rows, snap[e]) \in snap[e]
      BY <1>2, <1>3, FirstIsNewest DEF TypeOK, Table, Lineage
    <3>3. \A i \in Lineage(rows, T(e)) : rows[i].name = CurrentName(e)
      BY <3>2, <1>2, <1>3, CoherentNames DEF CurrentName, Lineage
    <3>4. QED BY <3>1, <3>3, <2>2 DEF EffectiveName
  <2>3. QED BY <2>1, <2>2
<1>10. name \in Names
  <2>1. h \in Lineage(View(e), T(e)) /\ View(e)[h] \in SourceMappingRow
    BY <1>3, <1>7 DEF Lineage, Table
  <2>2. QED BY <2>1, <1>9 DEF SourceMappingRow
<1>11. NextSeq(View(e), t) = Cardinality(Lineage(rows, T(e))) + 1 /\ NextSeq(View(e), t) \in Ids
  <2>1. {rows[i].seq : i \in Lineage(rows, t)} = 1..Cardinality(Lineage(rows, t))
    BY <1>2, <1>4 DEF VersionsAreChained
  <2>2. \A i \in Lineage(rows, t) : View(e)[i].seq = rows[i].seq
    BY <1>3 DEF Updates, Lineage
  <2>3. {View(e)[i].seq : i \in Lineage(View(e), t)} = 1..Cardinality(Lineage(View(e), t))
    BY <2>1, <2>2, <1>3
  <2>4. NextSeq(View(e), t) = Cardinality(Lineage(View(e), t)) + 1
    BY <2>3, <1>3, NextSeqIsNext
  <2>5. NewId \in Ids \ Lineage(rows, t)
    BY <1>6 DEF Lineage
  <2>6. Cardinality(Lineage(rows, t)) + 1 \in Ids
    BY <2>5, LineageIsFinite
  <2>7. QED BY <2>4, <2>6, <1>3
<1>12. rows[h].type \in TEMPLATE_TYPES
  BY <1>2, <1>7 DEF TypeOK, SourceMappingRow
<1> HIDE DEF h, name
<1>13. /\ new \in SourceMappingRow /\ new # None /\ new.template = t /\ new.name = name
       /\ new.type = rows[h].type /\ new.status = "DRAFT" /\ new.rules = req[e].rules
       /\ new.seq = Cardinality(Lineage(rows, T(e))) + 1 /\ new.predecessor = h
  BY <1>4, <1>7, <1>10, <1>11, <1>12 DEF SourceMappingRow, Status
<1> HIDE DEF new
<1>14. p \in Table /\ p[NewId] = new /\ \A i \in Ids : i # NewId => p[i] = pend[e][i]
  BY <1>2, <1>6, <1>13 DEF TypeOK, Table
<1> HIDE DEF p
<1>15. new.rules \in Storable(new.type)
  BY <1>5, <1>7, <1>13 DEF Storable
<1>16. Inserts(e, new)
  BY <1>3, <1>5, <1>7, <1>8, <1>13 DEF Inserts
<1>17. /\ \A j \in Ids : ~Clash(new, rows[j])
       /\ \A f \in Editors, j \in Ids : f # e => ~Clash(new, pend[f][j])
  BY <1>1, <1>13, FreeName
<1>18. \A i \in Lineage(Overlay(p), T(e)) : Overlay(p)[i].name = name
  <2>1. Overlay(p)[NewId] = new /\ \A i \in Ids : i # NewId => Overlay(p)[i] = View(e)[i]
    BY <1>6, <1>13, <1>14 DEF Overlay, View
  <2>2. QED BY <2>1, <1>9, <1>13 DEF Lineage
<1>19. WriteOk(e, p, "commit")
  <2>1. ASSUME NEW i \in Ids, p[i] # None
        PROVE  /\ p[i].template = T(e) /\ p[i].rules \in Storable(p[i].type)
               /\ rows[i] # None => Updates(p[i], rows[i])
               /\ rows[i] = None => i = NewId /\ Inserts(e, p[i])
    <3>1. CASE i = NewId
      BY <3>1, <1>3, <1>6, <1>13, <1>14, <1>15, <1>16
    <3>2. CASE i # NewId
      BY <3>2, <2>1, <1>2, <1>3, <1>14 DEF PendInv
    <3>3. QED BY <3>1, <3>2
  <2>2. \A i, j \in Ids : ~Clash(p[i], rows[j])
    BY <1>2, <1>14, <1>17 DEF NameInv
  <2>3. \A f \in Editors, i, j \in Ids : f # e => ~Clash(p[i], pend[f][j])
    BY <1>2, <1>14, <1>17 DEF NameInv
  <2>4. req[e].name # None => name = req[e].name
    BY DEF name, EffectiveName
  <2>5. QED BY <2>1, <2>2, <2>3, <2>4, <1>6, <1>18 DEF WriteOk
<1>20. lock' \in [Ids -> Editors \cup {None}] /\ \A i \in Ids : lock[i] # None => lock'[i] = lock[i]
  BY <1>1, <1>2 DEF TypeOK
<1>21. QED BY <1>1, <1>14, <1>19, <1>20, WriteStep

-----------------------------------------------------------------------------
(* The commit. *)

\* What a commit does to the table: it updates rows of one template and inserts at most
\* one row of it.
LEMMA CommitRows ==
    ASSUME IInv, NEW e \in Editors, Commit(e)
    PROVE  /\ Writer(e) /\ Busy(e) /\ rows' = View(e) /\ rows' \in Table
           /\ \A i \in Ids : rows[i] # None => rows'[i] # None /\ Updates(rows'[i], rows[i])
           /\ \A i \in Ids : rows'[i] = rows[i]
                               \/ (pend[e][i] # None /\ rows'[i] = pend[e][i] /\ rows'[i].template = T(e))
           /\ \A t : Lineage(rows, t) \subseteq Lineage(rows', t)
           /\ \A t : t # T(e) => /\ Lineage(rows', t) = Lineage(rows, t)
                                 /\ \A i \in Lineage(rows, t) : rows'[i] = rows[i]
<1> USE NoneIsNone
<1>1. TypeOK /\ PendInv
  BY DEF IInv
<1>2. pc[e] = "commit" /\ rows' = View(e)
  BY DEF Commit
<1>3. Writer(e) /\ Busy(e)
  BY <1>2, Writers DEF Busy
<1>4. rows' \in Table
  BY <1>1, <1>2 DEF View, Table, TypeOK
<1>5. \A i \in Ids : rows[i] # None => rows'[i] # None /\ Updates(rows'[i], rows[i])
  BY <1>1, <1>2 DEF View, PendInv, Updates
<1>6. \A i \in Ids : rows'[i] = rows[i]
                       \/ (pend[e][i] # None /\ rows'[i] = pend[e][i] /\ rows'[i].template = T(e))
  BY <1>1, <1>2 DEF View, PendInv
<1>7. \A t : Lineage(rows, t) \subseteq Lineage(rows', t)
  BY <1>5 DEF Lineage, Updates
<1>8. ASSUME NEW t, t # T(e)
      PROVE  Lineage(rows', t) = Lineage(rows, t) /\ \A i \in Lineage(rows, t) : rows'[i] = rows[i]
  BY <1>5, <1>6, <1>7, <1>8 DEF Lineage, Updates
<1>9. QED BY <1>2, <1>3, <1>4, <1>5, <1>6, <1>7, <1>8

\* The rows a commit leaves are in order.
LEMMA CommitTable ==
    ASSUME IInv, NEW e \in Editors, Commit(e)
    PROVE  RowsInv' /\ OneDraft' /\ NamesAreCoherent' /\ VersionsAreChained'
<1> USE NoneIsNone
<1> DEFINE L == Lineage(rows, T(e))
           New(k) == k \in Ids /\ rows[k] = None /\ rows'[k] # None
<1>1. TypeOK /\ ReqInv /\ CreateInv /\ PendInv /\ NameInv /\ RowsInv /\ OneDraft /\ NamesAreCoherent /\ VersionsAreChained
  BY DEF IInv
<1>2. /\ Writer(e) /\ Busy(e) /\ rows' = View(e) /\ rows' \in Table
      /\ \A i \in Ids : rows[i] # None => rows'[i] # None /\ Updates(rows'[i], rows[i])
      /\ \A i \in Ids : rows'[i] = rows[i]
                          \/ (pend[e][i] # None /\ rows'[i] = pend[e][i] /\ rows'[i].template = T(e))
      /\ \A t : Lineage(rows, t) \subseteq Lineage(rows', t)
      /\ \A t : t # T(e) => /\ Lineage(rows', t) = Lineage(rows, t)
                            /\ \A i \in Lineage(rows, t) : rows'[i] = rows[i]
  BY CommitRows
<1>3. T(e) \in Templates /\ req[e] \in Request /\ req[e].op \in {"create", "patch"}
  BY <1>1, <1>2 DEF ReqInv, Request, T
<1>4. ASSUME NEW k, New(k)
      PROVE  /\ k \in Ids /\ k \notin L /\ rows'[k].template = T(e) /\ Inserts(e, rows'[k])
             /\ rows'[k].rules \in Storable(rows'[k].type)
             /\ \A j \in Ids : rows[j] = None /\ rows'[j] # None => j = k
  <2>1. pend[e][k] # None /\ rows'[k] = pend[e][k] /\ rows'[k].template = T(e)
    BY <1>2, <1>4
  <2>2. \A j \in Ids : rows[j] = None /\ rows'[j] # None => pend[e][j] # None
    BY <1>2
  <2>3. QED BY <2>1, <2>2, <1>1, <1>4 DEF PendInv, Lineage
<1>5. {rows[i].seq : i \in L} = 1..Cardinality(L) /\ Cardinality(L) \in Nat
  BY <1>1, <1>3, LineageIsFinite DEF VersionsAreChained
<1>6. \A i \in L : rows[i].seq \in 1..Cardinality(L) /\ rows[i] # None /\ rows[i].template = T(e) /\ i \in Ids
  BY <1>5 DEF Lineage
<1> HIDE DEF L
<1>7. ASSUME NEW k, New(k), NEW i \in L
      PROVE  rows'[i].type = rows'[k].type /\ rows'[i].seq # rows'[k].seq /\ rows'[i].seq < rows'[k].seq
             /\ ~(rows'[i].status = "DRAFT" /\ rows'[k].status = "DRAFT")
  <2>1. rows'[i].type = rows[i].type /\ rows'[i].seq = rows[i].seq /\ rows'[i].status = rows[i].status
    BY <1>2, <1>6, <1>7 DEF Updates
  <2>2. Inserts(e, rows'[k])
    BY <1>4, <1>7
  <2>3. rows'[k].seq = Cardinality(L) + 1
    BY <2>2 DEF Inserts, L
  <2>4. rows'[i].seq < rows'[k].seq /\ rows'[i].seq # rows'[k].seq
    BY <2>1, <2>3, <1>5, <1>6, <1>7
  <2>5. req[e].op = "patch"
    BY <1>1, <1>2, <1>3, <1>7 DEF CreateInv, Creating, L
  <2>6. QED BY <2>1, <2>2, <2>4, <2>5, <1>7 DEF Inserts, L
<1>8. RowsInv'
  <2>1. ASSUME NEW i \in Ids, NEW j \in Ids, rows'[i] # None, rows'[j] # None, rows'[i].template = rows'[j].template
        PROVE  /\ rows'[i].type = rows'[j].type /\ (rows'[i].seq = rows'[j].seq => i = j)
               /\ rows'[i].status = "DRAFT" => rows'[j].seq <= rows'[i].seq
    <3>0. rows'[i].seq \in Nat /\ rows'[j].seq \in Nat
      BY <2>1, <1>2, RowType
    <3>1. CASE rows[i] # None /\ rows[j] # None
      BY <3>1, <2>1, <1>1, <1>2 DEF RowsInv, Updates
    <3>2. CASE rows[i] = None /\ rows[j] = None
      BY <3>0, <3>2, <2>1, <1>4
    <3>3. CASE rows[i] = None /\ rows[j] # None
      <4>1. j \in L
        BY <3>3, <2>1, <1>2, <1>4 DEF L, Lineage, Updates
      <4>2. QED BY <4>1, <3>0, <3>3, <2>1, <1>7
    <3>4. CASE rows[i] # None /\ rows[j] = None
      <4>1. i \in L
        BY <3>4, <2>1, <1>2, <1>4 DEF L, Lineage, Updates
      <4>2. rows'[i].status # "DRAFT"
        <5>1. New(j) /\ Inserts(e, rows'[j])
          BY <3>4, <2>1, <1>4
        <5>2. req[e].op = "patch"
          BY <4>1, <1>1, <1>2, <1>3 DEF CreateInv, Creating, L
        <5>3. rows[i].status # "DRAFT"
          BY <4>1, <5>1, <5>2 DEF Inserts, L
        <5>4. QED BY <5>3, <3>4, <1>2 DEF Updates
      <4>3. QED BY <4>1, <4>2, <3>4, <2>1, <1>7
    <3>5. QED BY <3>1, <3>2, <3>3, <3>4
  <2>2. \A i \in Ids : rows'[i] # None => rows'[i].rules \in Storable(rows'[i].type)
    BY <1>1, <1>2 DEF RowsInv, PendInv
  <2>3. QED BY <2>1, <2>2 DEF RowsInv
<1>9. OneDraft'
  <2>1. SUFFICES ASSUME NEW t \in Templates, NEW i \in Lineage(rows, t)', NEW j \in Lineage(rows, t)',
                        rows'[i].status = "DRAFT", rows'[j].status = "DRAFT"
                 PROVE  i = j
    BY DEF OneDraft
  <2>2. i \in Ids /\ j \in Ids /\ rows'[i] # None /\ rows'[j] # None /\ rows'[i].template = t /\ rows'[j].template = t
    BY <2>1 DEF Lineage
  <2>3. CASE rows[i] # None /\ rows[j] # None
    BY <2>1, <2>2, <2>3, <1>1, <1>2 DEF OneDraft, Updates, Lineage
  <2>4. CASE rows[i] = None /\ rows[j] = None
    BY <2>2, <2>4, <1>4
  <2>5. CASE rows[i] = None /\ rows[j] # None
    <3>1. j \in L
      BY <2>2, <2>5, <1>2, <1>4 DEF L, Lineage, Updates
    <3>2. QED BY <3>1, <2>1, <2>2, <2>5, <1>7
  <2>6. CASE rows[i] # None /\ rows[j] = None
    <3>1. i \in L
      BY <2>2, <2>6, <1>2, <1>4 DEF L, Lineage, Updates
    <3>2. QED BY <3>1, <2>1, <2>2, <2>6, <1>7
  <2>7. QED BY <2>3, <2>4, <2>5, <2>6
<1>10. NamesAreCoherent'
  <2>1. ASSUME NEW i \in Ids, NEW j \in Ids, rows'[i] # None, rows'[j] # None, rows'[i].template = rows'[j].template
        PROVE  rows'[i].name = rows'[j].name
    <3>1. CASE rows'[i].template = T(e)
      <4>1. i \in Lineage(View(e), T(e)) /\ j \in Lineage(View(e), T(e))
        BY <3>1, <2>1, <1>2 DEF Lineage
      <4>2. View(e)[i].name = View(e)[j].name
        BY <4>1, <1>1, <1>2 DEF NameInv
      <4>3. QED BY <4>2, <1>2
    <3>2. CASE rows'[i].template # T(e)
      <4>1. rows'[i] = rows[i] /\ rows'[j] = rows[j]
        BY <3>2, <2>1, <1>2
      <4>2. QED BY <4>1, <2>1, <1>1, CoherentNames
    <3>3. QED BY <3>1, <3>2
  <2>2. ASSUME NEW i \in Ids, NEW j \in Ids PROVE ~Clash(rows'[i], rows'[j])
    <3>1. \A r, s : Clash(r, s) => Clash(s, r) /\ r.template # s.template
      BY DEF Clash
    <3>2. CASE rows'[i] = rows[i] /\ rows'[j] = rows[j]
      BY <3>2, <1>1, CoherentNames
    <3>3. CASE pend[e][i] # None /\ rows'[i] = pend[e][i] /\ rows'[i].template = T(e)
      BY <3>1, <3>3, <1>1, <1>2 DEF NameInv
    <3>4. CASE pend[e][j] # None /\ rows'[j] = pend[e][j] /\ rows'[j].template = T(e)
      BY <3>1, <3>4, <1>1, <1>2 DEF NameInv
    <3>5. QED BY <3>2, <3>3, <3>4, <1>2
  <2>3. QED BY <2>1, <2>2 DEF NamesAreCoherent, Clash, Excludes
<1>11. VersionsAreChained'
  <2>1. ASSUME NEW t \in Templates, t # T(e)
        PROVE  /\ {rows'[i].seq : i \in Lineage(rows', t)} = 1..Cardinality(Lineage(rows', t))
               /\ \A i \in Lineage(rows', t) : rows'[i].predecessor # None /\ Seed[i] = None =>
                    /\ rows'[i].predecessor \in Lineage(rows', t)
                    /\ rows'[rows'[i].predecessor].seq < rows'[i].seq
                    /\ Living(rows'[rows'[i].predecessor])
    BY <2>1, <1>1, <1>2 DEF VersionsAreChained
  <2>2. {rows'[i].seq : i \in Lineage(rows', T(e))} = 1..Cardinality(Lineage(rows', T(e)))
    <3>1. \A i \in L : rows'[i].seq = rows[i].seq
      BY <1>2, <1>6 DEF Updates
    <3>2. CASE \E k : New(k)
      <4>1. PICK k : New(k)
        BY <3>2
      <4>2. Lineage(rows', T(e)) = L \cup {k}
        <5>1. \A i \in Lineage(rows', T(e)) : i = k \/ i \in L
          BY <4>1, <1>2, <1>4 DEF L, Lineage, Updates
        <5>2. QED BY <5>1, <4>1, <1>2, <1>4 DEF L, Lineage
      <4>3. Cardinality(L \cup {k}) = Cardinality(L) + 1
        BY <4>1, <1>4, LineageIsFinite DEF L
      <4>4. rows'[k].seq = Cardinality(L) + 1
        BY <4>1, <1>4 DEF Inserts, L
      <4>5. {rows'[i].seq : i \in L \cup {k}} = {rows[i].seq : i \in L} \cup {Cardinality(L) + 1}
        BY <3>1, <4>4
      <4>6. (1..Cardinality(L)) \cup {Cardinality(L) + 1} = 1..(Cardinality(L) + 1)
        BY <1>5
      <4>7. {rows'[i].seq : i \in L \cup {k}} = 1..(Cardinality(L) + 1)
        BY <4>5, <4>6, <1>5
      <4>8. QED BY <4>2, <4>3, <4>7
    <3>3. CASE ~\E k : New(k)
      <4>1. Lineage(rows', T(e)) = L
        <5>1. \A i \in Lineage(rows', T(e)) : i \in L
          BY <3>3, <1>2 DEF L, Lineage, Updates
        <5>2. QED BY <5>1, <1>2 DEF L
      <4>2. QED BY <4>1, <3>1, <1>5
    <3>4. QED BY <3>2, <3>3
  <2>3. ASSUME NEW i \in Lineage(rows', T(e)), rows'[i].predecessor # None, Seed[i] = None
        PROVE  /\ rows'[i].predecessor \in Lineage(rows', T(e))
               /\ rows'[rows'[i].predecessor].seq < rows'[i].seq
               /\ Living(rows'[rows'[i].predecessor])
    <3>1. i \in Ids /\ rows'[i] # None /\ rows'[i].template = T(e)
      BY <2>3 DEF Lineage
    <3> DEFINE q == rows'[i].predecessor
    <3>2. CASE rows[i] # None
      <4>1. q = rows[i].predecessor /\ rows'[i].seq = rows[i].seq /\ i \in L
        BY <3>1, <3>2, <1>2 DEF Updates, L, Lineage
      <4>2. q \in L /\ rows[q].seq < rows[i].seq /\ Living(rows[q])
        BY <4>1, <2>3, <1>1, <1>3 DEF VersionsAreChained, L
      <4>3. rows'[q].seq = rows[q].seq /\ rows'[q].status = rows[q].status /\ q \in Lineage(rows', T(e))
        BY <4>2, <1>2, <1>6 DEF Updates, L
      <4>4. QED BY <4>1, <4>2, <4>3 DEF Living
    <3>3. CASE rows[i] = None
      <4>1. New(i) /\ Inserts(e, rows'[i])
        BY <3>1, <3>3, <1>4
      <4>2. q \in L /\ Living(rows[q])
        BY <4>1, <2>3, <1>3 DEF Inserts, L
      <4>3. rows'[q].status = rows[q].status /\ q \in Lineage(rows', T(e)) /\ rows'[q].seq < rows'[i].seq
        BY <4>1, <4>2, <1>2, <1>6, <1>7 DEF Updates, L
      <4>4. QED BY <4>2, <4>3 DEF Living
    <3>4. QED BY <3>2, <3>3
  <2>4. QED BY <2>1, <2>2, <2>3 DEF VersionsAreChained
<1>12. QED BY <1>8, <1>9, <1>10, <1>11

LEMMA CommitStep ==
    ASSUME IInv, NEW e \in Editors, Commit(e)
    PROVE  IInv'
<1> USE NoneIsNone
<1>1. TypeOK /\ ReqInv /\ CreateInv /\ SnapInv /\ EditInv /\ PendInv /\ NameInv
  BY DEF IInv
<1>2. /\ Writer(e) /\ Busy(e) /\ rows' = View(e) /\ rows' \in Table
      /\ \A i \in Ids : rows[i] # None => rows'[i] # None /\ Updates(rows'[i], rows[i])
      /\ \A i \in Ids : rows'[i] = rows[i]
                          \/ (pend[e][i] # None /\ rows'[i] = pend[e][i] /\ rows'[i].template = T(e))
      /\ \A t : Lineage(rows, t) \subseteq Lineage(rows', t)
      /\ \A t : t # T(e) => /\ Lineage(rows', t) = Lineage(rows, t)
                            /\ \A i \in Lineage(rows, t) : rows'[i] = rows[i]
  BY CommitRows
<1>3. /\ pend' = [pend EXCEPT ![e] = NoWrites] /\ snap' = [snap EXCEPT ![e] = {}]
      /\ lock' = [i \in Ids |-> IF lock[i] = e THEN None ELSE lock[i]]
      /\ pc[e] = "commit" /\ pc' = [pc EXCEPT ![e] = "done"] /\ UNCHANGED req
  BY DEF Commit, EndTxn, Goto
<1>4. TypeOK'
  BY <1>1, <1>2, <1>3 DEF TypeOK, Table, NoWrites, Steps
<1>5. /\ pc'[e] = "done" /\ snap'[e] = {} /\ \A i \in Ids : pend'[e][i] = None
      /\ \A f \in Editors : f # e => pc'[f] = pc[f] /\ snap'[f] = snap[f] /\ pend'[f] = pend[f]
      /\ \A f \in Editors, i \in Ids : f # e /\ lock[i] = f => lock'[i] = f
      /\ \A f \in Editors : T(f)' = T(f) /\ req'[f] = req[f]
  BY <1>1, <1>3 DEF TypeOK, NoWrites, T
<1>6. \A f \in Editors : snap[f] \subseteq Ids
  BY <1>1 DEF TypeOK
<1>7. \A f \in Editors : Writer(f) /\ f # e => T(f) # T(e)
  BY <1>2, WritersDiffer
<1>8. ReqInv' /\ CreateInv'
  <2>1. ReqInv'
    BY <1>1, <1>3, <1>5 DEF ReqInv, Busy
  <2>2. \A f \in Editors : Creating(f)' => f # e /\ Creating(f) /\ T(f) # T(e) /\ T(f)' = T(f)
    BY <1>5, <1>7 DEF Creating, Busy, Writer
  <2>3. CreateInv'
    BY <2>2, <1>1, <1>2, <1>5 DEF CreateInv
  <2>4. QED BY <2>1, <2>3
<1>9. SnapInv'
  <2>1. \A f \in Editors : snap'[f] # {} => Patching(f)' /\ snap'[f] \subseteq Lineage(rows, T(f))'
    BY <1>1, <1>2, <1>5 DEF SnapInv, Patching, Busy
  <2>2. \A f, g \in Editors : snap'[f] # {} /\ snap'[g] # {} /\ T(f)' = T(g)' =>
            snap'[f] \subseteq snap'[g] \/ snap'[g] \subseteq snap'[f]
    BY <1>1, <1>5 DEF SnapInv
  <2>3. \A f \in Editors : Deciding(f)' => snap'[f] # {} /\ \A i \in snap'[f] : lock'[i] = f
    BY <1>1, <1>5, <1>6 DEF SnapInv, Deciding
  <2>4. QED BY <2>1, <2>2, <2>3 DEF SnapInv
<1>10. EditInv'
  <2>1. SUFFICES ASSUME NEW f \in Editors, Editing(f)'
                 PROVE  /\ snap'[f] # {}
                        /\ \A i \in snap'[f] : req'[f].rules \in PatchGate[rows'[i].type]
                        /\ pc'[f] # "lock" => snap'[f] = Lineage(rows, T(f))' /\ Blocks(f)'
    BY DEF EditInv
  <2>2. f # e /\ Editing(f) /\ pc'[f] = pc[f] /\ snap'[f] = snap[f] /\ T(f)' = T(f) /\ req'[f] = req[f]
    BY <2>1, <1>5 DEF Editing, Patching, Busy
  <2>3. snap[f] # {} /\ \A i \in snap[f] : req[f].rules \in PatchGate[rows[i].type]
    BY <2>2, <1>1 DEF EditInv
  <2>4. \A i \in snap[f] : rows'[i].type = rows[i].type
    BY <2>3, <1>1, <1>2 DEF SnapInv, Lineage, Updates
  <2>5. ASSUME pc[f] # "lock" PROVE snap[f] = Lineage(rows', T(f)) /\ Blocks(f)'
    <3>1. snap[f] = Lineage(rows, T(f)) /\ Blocks(f)
      BY <2>2, <2>5, <1>1 DEF EditInv
    <3>2. T(f) # T(e)
      <4>1. CASE Creating(e)
        BY <4>1, <3>1, <2>3, <1>1 DEF CreateInv
      <4>2. CASE Deciding(e)
        BY <4>2, <3>1, <2>2, <1>1 DEF SnapInv, Blocks
      <4>3. QED BY <4>1, <4>2, <1>2 DEF Writer
    <3>3. Blocks(f)'
      BY <3>1, <2>2, <1>5, <1>6 DEF Blocks
    <3>4. QED BY <3>1, <3>2, <3>3, <1>2
  <2>6. QED BY <2>2, <2>3, <2>4, <2>5
\* What the others have written is of other templates.
<1>11. ASSUME NEW f \in Editors, f # e, Writer(f)
       PROVE  /\ Lineage(rows', T(f)) = Lineage(rows, T(f))
              /\ \A i \in Lineage(rows, T(f)) : rows'[i] = rows[i]
              /\ T(f)' = T(f) /\ pend'[f] = pend[f] /\ pc'[f] = pc[f] /\ req'[f] = req[f]
  BY <1>11, <1>2, <1>5, <1>7
<1>12. PendInv'
  <2>1. ASSUME NEW f \in Editors, NEW i \in Ids, pend'[f][i] # None
        PROVE  /\ pc'[f] = "commit" \/ (pc'[f] = "edit" /\ req'[f].name # None)
               /\ pend'[f][i].template = T(f)'
               /\ pend'[f][i].rules \in Storable(pend'[f][i].type)
               /\ IF rows'[i] # None THEN Updates(pend[f][i], rows[i])'
                  ELSE /\ pc'[f] = "commit" /\ Inserts(f, pend[f][i])'
                       /\ \A j \in Ids : pend'[f][j] # None /\ rows'[j] = None => i = j
    <3>1. f # e /\ pend[f][i] # None /\ Writer(f)
      BY <2>1, <1>5, Writers
    <3>2. /\ Lineage(rows', T(f)) = Lineage(rows, T(f))
          /\ \A j \in Lineage(rows, T(f)) : rows'[j] = rows[j]
          /\ T(f)' = T(f) /\ pend'[f] = pend[f] /\ pc'[f] = pc[f] /\ req'[f] = req[f]
      BY <3>1, <1>11
    <3>3. \A j \in Ids : pend[f][j] # None => rows'[j] = rows[j]
      BY <3>1, <1>1, <1>2 DEF PendInv
    <3>4. rows[i] # None => Updates(pend[f][i], rows[i])'
      BY <1>1, <3>1, <3>2, <3>3 DEF PendInv, Updates
    <3>5. rows[i] = None => Inserts(f, pend[f][i])'
      <4>1. SUFFICES ASSUME rows[i] = None PROVE Inserts(f, pend[f][i])'
        OBVIOUS
      <4>2. Inserts(f, pend[f][i])
        BY <4>1, <3>1, <1>1 DEF PendInv
      <4>3. QED BY <4>2, <3>2 DEF Inserts, Living
    <3>6. QED BY <1>1, <3>1, <3>2, <3>3, <3>4, <3>5 DEF PendInv
  <2>2. \A f, g \in Editors, i \in Ids : f # g => pend'[f][i] = None \/ pend'[g][i] = None
    BY <1>1, <1>5 DEF PendInv
  <2>3. QED BY <2>1, <2>2 DEF PendInv
<1>13. RowsInv' /\ OneDraft' /\ NamesAreCoherent' /\ VersionsAreChained'
  BY CommitTable
<1>14. NameInv'
  <2>1. ASSUME NEW f \in Editors, NEW i \in Ids, NEW j \in Ids PROVE ~Clash(pend[f][i], rows[j])'
    <3>1. CASE f = e
      BY <3>1, <1>5 DEF Clash
    <3>2. CASE f # e
      <4>1. ~Clash(pend[f][i], rows'[j])
        BY <3>2, <1>1, <1>2 DEF NameInv
      <4>2. QED BY <4>1, <3>2, <1>5 DEF Clash, Living
    <3>3. QED BY <3>1, <3>2
  <2>2. \A f, g \in Editors, i, j \in Ids : f # g => ~Clash(pend[f][i], pend[g][j])'
    BY <1>1, <1>5 DEF NameInv, Clash, Living
  <2>3. ASSUME NEW f \in Editors, f # e, Writer(f)
        PROVE  /\ Lineage(View(f), T(f))' = Lineage(View(f), T(f))
               /\ \A i \in Lineage(View(f), T(f)) : View(f)'[i] = View(f)[i]
    <3>1. \A i \in Ids : rows'[i] = rows[i] \/ (/\ rows'[i] # None => rows'[i].template # T(f)
                                                /\ rows[i] # None => rows[i].template # T(f))
      BY <2>3, <1>2, <1>7 DEF Updates
    <3>2. T(f)' = T(f) /\ pend'[f] = pend[f]
      BY <2>3, <1>11
    <3>3. QED BY <3>1, <3>2 DEF Lineage, View
  <2>4. ASSUME NEW f \in Editors, Busy(f)'
        PROVE  \A i, j \in Lineage(View(f), T(f))' : View(f)'[i].name = View(f)'[j].name
    <3>1. f # e /\ Busy(f) /\ T(f)' = T(f)
      BY <2>4, <1>5 DEF Busy
    <3>2. CASE Writer(f)
      BY <3>1, <3>2, <2>3, <1>1 DEF NameInv
    <3>3. CASE ~Writer(f)
      <4>1. \A i \in Ids : pend'[f][i] = None
        BY <3>1, <3>3, <1>5, Writers
      <4>2. \A i \in Ids : View(f)'[i] = rows'[i]
        BY <4>1 DEF View
      <4>3. QED BY <4>2, <1>13 DEF NamesAreCoherent, Lineage
    <3>4. QED BY <3>2, <3>3
  <2>5. ASSUME NEW f \in Editors, pc'[f] \in {"edit", "commit"}, req'[f].op = "patch", req'[f].name # None
        PROVE  \A i \in Lineage(View(f), T(f))' : View(f)'[i].name = req'[f].name
    <3>1. f # e /\ pc[f] = pc'[f] /\ req[f] = req'[f] /\ Writer(f)
      BY <2>5, <1>5 DEF Writer, Deciding
    <3>2. QED BY <3>1, <2>3, <2>5, <1>1 DEF NameInv
  <2>6. QED BY <2>1, <2>2, <2>4, <2>5 DEF NameInv
<1>15. QED BY <1>4, <1>8, <1>9, <1>10, <1>12, <1>13, <1>14 DEF IInv

-----------------------------------------------------------------------------

LEMMA Step == IInv /\ [Next]_vars => IInv'
<1> SUFFICES ASSUME IInv, [Next]_vars PROVE IInv'
  OBVIOUS
<1>1. CASE UNCHANGED vars
  <2>1. UNCHANGED <<rows, lock, pend, req, snap, pc>>
    BY <1>1 DEF vars, table
  <2>2. TypeOK /\ ReqInv /\ CreateInv /\ SnapInv /\ EditInv /\ PendInv /\ NameInv
    BY DEF IInv
  <2>3. TypeOK' /\ ReqInv' /\ CreateInv'
    BY <2>1, <2>2 DEF TypeOK, ReqInv, CreateInv, Creating, Busy, T
  <2>4. SnapInv' /\ EditInv'
    BY <2>1, <2>2 DEF SnapInv, EditInv, Editing, Patching, Busy, Blocks, T, Deciding
  <2>5. PendInv' /\ NameInv'
    BY <2>1, <2>2 DEF PendInv, NameInv, Inserts, Updates, Clash, Living, Busy, T, View
  <2>6. QED BY <2>1, <2>3, <2>4, <2>5, SameTable DEF IInv
<1>2. CASE Next
  <2>1. PICK e \in Editors : EditorStep(e)
    BY <1>2 DEF Next
  <2>2. \A x \in {"insert", "rename", "reread", "edit"} : pc[e] = x => Busy(e)
    BY DEF Busy
  <2>3. CASE NameConflict(e) \/ TemplateNotFound(e) \/ LineageClosed(e) \/ Abort(e)
    BY <2>2, <2>3, RollbackStep DEF NameConflict, TemplateNotFound, LineageClosed, Abort, Busy
  <2>4. CASE CreateMappingTemplate(e)
    BY <2>4, CreateStep
  <2>5. CASE PatchMappingTemplate(e)
    BY <2>5, PatchStep
  <2>6. CASE RequestRefused(e)
    BY <2>6, RefusedStep
  <2>7. CASE InsertFirstVersion(e)
    BY <2>7, InsertStep
  <2>8. CASE LockRow(e)
    BY <2>8, LockStep
  <2>9. CASE Reread(e)
    BY <2>9, RereadStep
  <2>10. CASE Decide(e)
    BY <2>10, DecideStep
  <2>11. CASE RenameLineage(e)
    BY <2>11, RenameStep
  <2>12. CASE EditDraft(e)
    BY <2>12, EditStep
  <2>13. CASE ChainDraft(e)
    BY <2>13, ChainStep
  <2>14. CASE Commit(e)
    BY <2>14, CommitStep
  <2>15. QED BY <2>1, <2>3, <2>4, <2>5, <2>6, <2>7, <2>8, <2>9, <2>10, <2>11, <2>12, <2>13, <2>14 DEF EditorStep
<1>3. QED BY <1>1, <1>2

LEMMA Always == Spec => []IInv
BY InitIInv, Step, PTL DEF Spec

-----------------------------------------------------------------------------
(* What it gives. *)

\* The table, the locks and every transaction stay well typed: in particular the
\* version_seq_per_source the trigger computes never exceeds the number of rows.
THEOREM TemplatesAreTyped == Spec => []TypeOK
<1>1. IInv => TypeOK
  BY DEF IInv
<1>2. QED BY <1>1, Always, PTL

\* patch_template is serial per template: between its second read and its commit no
\* other PATCH has come to decide on the same lineage.
THEOREM PatchesTakeTurns == Spec => []PatchesAreSerial
<1>1. IInv => PatchesAreSerial
  BY Serial DEF IInv
<1>2. QED BY <1>1, Always, PTL

\* _apply_rules_edit never leaves a template with two DRAFTs.
THEOREM DraftsAreUnique == Spec => []OneDraft
<1>1. IInv => OneDraft
  BY DEF IInv
<1>2. QED BY <1>1, Always, PTL

\* Whatever creates and renames run side by side, the versions of a template share one
\* name, and no two templates with a living version share theirs.
THEOREM NamesStayCoherent == Spec => []NamesAreCoherent
<1>1. IInv => NamesAreCoherent
  BY DEF IInv
<1>2. QED BY <1>1, Always, PTL

\* The versions are numbered without gaps, and each chained one points at an older,
\* living version of its own template.
THEOREM VersionsStayChained == Spec => []VersionsAreChained
<1>1. IInv => VersionsAreChained
  BY DEF IInv
<1>2. QED BY <1>1, Always, PTL

\* What the gates let through for a type, load_active_mapping takes for it.
LEMMA ParseAgain ==
    ASSUME NEW raw, parse_mapping_rules(raw)
    PROVE  /\ with_defaults(with_defaults(raw)) = with_defaults(raw)
           /\ parse_mapping_rules(with_defaults(raw))
           /\ target_columns(with_defaults(raw)) # {}
<1>1. with_defaults(with_defaults(raw)) = with_defaults(raw) /\ DOMAIN with_defaults(raw) = SourceMappingFields
  BY DEF with_defaults
<1>2. "version" \in SourceMappingFields
  BY DEF SourceMappingFields
<1>3. validate_rules(with_defaults(raw))
  BY <1>1, <1>2 DEF parse_mapping_rules, validate_rules
<1>4. DOMAIN with_defaults(raw).rename # {}
  BY DEF parse_mapping_rules
<1>5. target_columns(with_defaults(raw)) # {}
  BY <1>4 DEF target_columns, rename_targets, SeqX!Range
<1>6. QED BY <1>1, <1>3, <1>4, <1>5 DEF parse_mapping_rules

LEMMA ModelsDiffer ==
    /\ StoreSkuSaleEvent # StoreSkuChangeEvent
    /\ StoreSkuSaleEvent # StoreSkuCurrentPosition
    /\ StoreSkuChangeEvent # StoreSkuCurrentPosition
<1>1. "source_sale_timestamp" \in DOMAIN StoreSkuSaleEvent.required
  BY DEF StoreSkuSaleEvent
<1>2. "source_event_timestamp" \in DOMAIN StoreSkuChangeEvent.required
  BY DEF StoreSkuChangeEvent
<1>3. /\ "source_sale_timestamp" \notin DOMAIN StoreSkuCurrentPosition.required
      /\ "source_event_timestamp" \notin DOMAIN StoreSkuCurrentPosition.required
  BY DEF StoreSkuCurrentPosition
<1>4. "source_sale_timestamp" \notin DOMAIN StoreSkuChangeEvent.required
  BY DEF StoreSkuChangeEvent
<1>5. QED BY <1>1, <1>2, <1>3, <1>4

LEMMA Provenances ==
    /\ PROVENANCE[StoreSkuSaleEvent] = SaleProvenance
    /\ PROVENANCE[StoreSkuChangeEvent] = ChangeProvenance
BY ModelsDiffer DEF PROVENANCE

\* A column only one of the two event models has, and requires.
LEMMA Discriminators ==
    /\ "source_sale_timestamp" \in DOMAIN StoreSkuSaleEvent.required
    /\ "source_sale_timestamp" \in SaleProvenance.mapping_produced
    /\ "source_sale_timestamp" \notin ChangeProvenance.mapping_produced
    /\ "source_event_timestamp" \in DOMAIN StoreSkuChangeEvent.required
    /\ "source_event_timestamp" \in ChangeProvenance.mapping_produced
    /\ "source_event_timestamp" \notin SaleProvenance.mapping_produced
<1>1. "source_sale_timestamp" \in DOMAIN StoreSkuSaleEvent.required
  BY DEF StoreSkuSaleEvent
<1>2. "source_event_timestamp" \in DOMAIN StoreSkuChangeEvent.required
  BY DEF StoreSkuChangeEvent
<1>3. /\ "source_sale_timestamp" \in SaleProvenance.mapping_produced
      /\ "source_event_timestamp" \notin SaleProvenance.mapping_produced
  BY DEF SaleProvenance
<1>4. /\ "source_sale_timestamp" \notin ChangeProvenance.mapping_produced
      /\ "source_event_timestamp" \in ChangeProvenance.mapping_produced
  BY DEF ChangeProvenance
<1>5. QED BY <1>1, <1>2, <1>3, <1>4

LEMMA EnrichedFields == \A model : enrichment_fields(model) \subseteq {"currency", "tax_treatment"}
BY DEF enrichment_fields, ENRICHMENT_REGISTRY

\* The columns a gated document produces fit the model of its type and not the other.
LEMMA OneModelFits ==
    ASSUME NEW source, NEW model \in EVENT_MODELS, target_columns(source) # {},
           check_target_legality(source, model), check_mandatory_coverage(source, model)
    PROVE  fitting_models(source) = {model}
<1>1. target_columns(source) \subseteq mapping_produced_columns(model) /\ no_drift(model)
  BY DEF check_target_legality, mapping_produced_columns
<1>2. mapping_produced_columns(model) = PROVENANCE[model].mapping_produced
  BY <1>1 DEF mapping_produced_columns
<1>3. \A c \in DOMAIN model.required : c \in mapping_produced_columns(model) /\ c \notin {"currency", "tax_treatment"}
                                          => c \in target_columns(source)
  BY EnrichedFields DEF check_mandatory_coverage, mandatory_mapping_produced, enrichment_guaranteed_for
<1>4. \A m : mapping_produced_columns(m) \subseteq PROVENANCE[m].mapping_produced
  BY DEF mapping_produced_columns
<1>5. CASE model = StoreSkuSaleEvent
  <2>1. "source_sale_timestamp" \in target_columns(source)
    BY <1>2, <1>3, <1>5, Provenances, Discriminators
  <2>2. ~ (target_columns(source) \subseteq mapping_produced_columns(StoreSkuChangeEvent))
    BY <2>1, <1>4, Provenances, Discriminators
  <2>3. QED BY <1>1, <1>5, <2>2 DEF fitting_models, EVENT_MODELS
<1>6. CASE model = StoreSkuChangeEvent
  <2>1. "source_event_timestamp" \in target_columns(source)
    BY <1>2, <1>3, <1>6, Provenances, Discriminators
  <2>2. ~ (target_columns(source) \subseteq mapping_produced_columns(StoreSkuSaleEvent))
    BY <2>1, <1>4, Provenances, Discriminators
  <2>3. QED BY <1>1, <1>6, <2>2 DEF fitting_models, EVENT_MODELS
<1>7. QED BY <1>5, <1>6 DEF EVENT_MODELS

\* The gate of a catalogue asks for what a new hot row needs.
LEMMA SnapshotIsComplete ==
    ASSUME NEW source, check_target_legality(source, StoreSkuCurrentPosition),
           check_mandatory_coverage(source, StoreSkuCurrentPosition), check_presence_pairings(source)
    PROVE  classify_hot_completeness(source, StoreSkuCurrentPosition)
<1> DEFINE guaranteed == guaranteed_hot_columns(source, StoreSkuCurrentPosition)
<1>1. target_columns(source) \subseteq mapping_produced_columns(StoreSkuCurrentPosition)
  BY DEF check_target_legality
<1>2. guaranteed = target_columns(source) \cup enrichment_fields(StoreSkuCurrentPosition)
  BY <1>1 DEF guaranteed_hot_columns
<1>3. HOT_REQUIRED_FROM_PROJECTION \subseteq target_columns(source)
  BY DEF HOT_REQUIRED_FROM_PROJECTION, check_mandatory_coverage, enrichment_guaranteed_for
<1> HIDE DEF guaranteed
<1>4. ASSUME NEW p \in CATALOGUE_PRESENCE_PAIRINGS, p.trigger \cap guaranteed # {}
      PROVE  p.companion \subseteq guaranteed
  <2>1. "currency" \notin p.trigger /\ "tax_treatment" \notin p.trigger
    BY <1>4 DEF CATALOGUE_PRESENCE_PAIRINGS, ExpiryTriple
  <2>2. p.trigger \cap target_columns(source) # {}
    BY <2>1, <1>2, <1>4, EnrichedFields
  <2>3. QED BY <2>2, <1>2, <1>4 DEF check_presence_pairings
<1>5. QED BY <1>2, <1>3, <1>4 DEF classify_hot_completeness, guaranteed, HOT_CHECK_IMPLICATIONS

LEMMA GatedLoads ==
    ASSUME NEW raw, NEW type \in TEMPLATE_TYPES, validate_mapping_rules_for_type(raw, type)
    PROVE  LET stored == with_defaults(raw)
               loaded == load_active_mapping(stored, type)
           IN  /\ loadable(stored, type)
               /\ loaded.target_model = MODEL_BY_TYPE[type]
               /\ type = "snapshot" => loaded.hot_complete
<1> DEFINE source == with_defaults(raw)
           loaded == load_active_mapping(source, type)
<1>1. /\ with_defaults(source) = source /\ parse_mapping_rules(source)
      /\ target_columns(source) # {}
  BY ParseAgain DEF validate_mapping_rules_for_type
<1>2. /\ check_target_legality(source, MODEL_BY_TYPE[type])
      /\ check_mandatory_coverage(source, MODEL_BY_TYPE[type])
      /\ MODEL_BY_TYPE[type] = StoreSkuCurrentPosition => check_presence_pairings(source)
  BY DEF validate_mapping_rules_for_type
<1> HIDE DEF source
<1>3. /\ loaded.target_model = route_target_model(source, type)
      /\ loaded.hot_complete = classify_hot_completeness(source, route_target_model(source, type))
  BY <1>1 DEF load_active_mapping
<1> HIDE DEF loaded
<1>4. CASE type = "snapshot"
  <2>1. MODEL_BY_TYPE[type] = StoreSkuCurrentPosition /\ route_target_model(source, type) = StoreSkuCurrentPosition
    BY <1>4 DEF MODEL_BY_TYPE, route_target_model
  <2>2. classify_hot_completeness(source, StoreSkuCurrentPosition)
    BY <2>1, <1>2, SnapshotIsComplete
  <2>3. QED BY <1>1, <1>3, <1>4, <2>1, <2>2 DEF loadable, source, loaded
<1>5. CASE type # "snapshot"
  <2>1. MODEL_BY_TYPE[type] \in EVENT_MODELS
    BY <1>5 DEF TEMPLATE_TYPES, MODEL_BY_TYPE, EVENT_MODELS
  <2>2. fitting_models(source) = {MODEL_BY_TYPE[type]}
    BY <1>1, <1>2, <2>1, OneModelFits
  <2>3. Cardinality(fitting_models(source)) = 1
    BY <2>2, FS_Singleton
  <2>4. route_target_model(source, type) = MODEL_BY_TYPE[type]
    BY <2>2, <1>5 DEF route_target_model
  <2>5. QED BY <1>1, <1>3, <1>5, <2>3, <2>4 DEF loadable, source, loaded
<1>6. QED BY <1>4, <1>5

LEMMA StorableLoads == \A type \in TEMPLATE_TYPES : Storable(type) \subseteq Loadable[type]
<1> SUFFICES ASSUME NEW type \in TEMPLATE_TYPES, NEW r \in Storable(type) PROVE r \in Loadable[type]
  OBVIOUS
<1>1. \E raw : mapping_rules(r) = with_defaults(raw) /\ validate_mapping_rules_for_type(raw, type)
  <2>1. CASE r \in DOMAIN Bodies
    <3>1. PostGate[r] /\ Bodies[r].template_type = type
      BY <2>1, MappingTemplatesAssumption DEF Storable, PatchGate
    <3>2. validate_mapping_rules_for_type(translate_columns_to_mapping_rules(Bodies[r]), type)
      BY <2>1, <3>1 DEF PostGate, body_accepted
    <3>3. QED BY <2>1, <3>2 DEF mapping_rules
  <2>2. CASE r \notin DOMAIN Bodies
    <3>1. validate_mapping_rules_for_type(Documents[r], type)
      BY <2>2 DEF Storable, PatchGate
    <3>2. QED BY <2>2, <3>1 DEF mapping_rules
  <2>3. QED BY <2>1, <2>2
<1>2. PICK raw : mapping_rules(r) = with_defaults(raw) /\ validate_mapping_rules_for_type(raw, type)
  BY <1>1
<1>3. LET loaded == load_active_mapping(mapping_rules(r), type)
      IN  /\ loadable(mapping_rules(r), type)
          /\ loaded.target_model = MODEL_BY_TYPE[type]
          /\ type = "snapshot" => loaded.hot_complete
  BY <1>2, GatedLoads
<1>4. QED BY <1>3 DEF Loadable

\* load_active_mapping takes every stored version, whatever the requests were: the gate
\* checks rules against the model of the template's type, the consumer infers the model
\* from the columns, and the two cannot come apart; and no order of edits brings the
\* rules of one type to a template of another.
THEOREM StoredVersionsLoad == Spec => []StoredRulesLoad
<1>1. ASSUME IInv PROVE StoredRulesLoad
  <2>1. \A i \in Ids : rows[i] # None => rows[i].type \in TEMPLATE_TYPES /\ rows[i].rules \in Storable(rows[i].type)
    BY <1>1 DEF IInv, RowsInv, TypeOK, SourceMappingRow
  <2>2. QED BY <2>1, StorableLoads DEF StoredRulesLoad
<1>2. QED BY <1>1, Always, PTL

\* An edit never changes the content of a version that is or was live, nor which
\* versions uploads are mapped with.
THEOREM LiveVersionsStayFrozen == Spec => LiveVersionsAreFrozen
<1> DEFINE Frozen ==
        /\ \A i \in Ids : rows[i] # None /\ rows[i].status # "DRAFT" =>
             /\ rows'[i] # None
             /\ [rows'[i] EXCEPT !.name = rows[i].name] = rows[i]
        /\ \A t \in Templates : resolve_active_template(t) # {} =>
             resolve_active_template(t)' = resolve_active_template(t)
<1>1. ASSUME IInv, [Next]_vars PROVE [Frozen]_vars
  <2>1. CASE rows' = rows
    <3>1. ASSUME NEW i \in Ids, rows[i] # None PROVE [rows'[i] EXCEPT !.name = rows[i].name] = rows[i]
      <4>1. rows[i] \in SourceMappingRow
        BY <1>1, <3>1 DEF IInv, TypeOK
      <4>2. QED BY <4>1, <2>1 DEF SourceMappingRow
    <3>2. \A t \in Templates : resolve_active_template(t)' = resolve_active_template(t)
      BY <2>1 DEF resolve_active_template, Lineage
    <3>3. QED BY <3>1, <3>2, <2>1
  <2>2. ASSUME NEW e \in Editors, Commit(e) PROVE Frozen
    <3>1. /\ Writer(e) /\ Busy(e) /\ rows' \in Table
          /\ \A i \in Ids : rows[i] # None => rows'[i] # None /\ Updates(rows'[i], rows[i])
          /\ \A i \in Ids : rows'[i] = rows[i]
                              \/ (pend[e][i] # None /\ rows'[i] = pend[e][i] /\ rows'[i].template = T(e))
      BY <1>1, <2>2, CommitRows
    <3>2. ASSUME NEW i \in Ids, rows[i] # None, rows[i].status # "DRAFT"
          PROVE  rows'[i] # None /\ [rows'[i] EXCEPT !.name = rows[i].name] = rows[i]
      <4>1. rows[i] \in SourceMappingRow /\ rows'[i] \in SourceMappingRow /\ Updates(rows'[i], rows[i])
        BY <3>1, <3>2, <1>1 DEF IInv, TypeOK, Table
      <4>2. QED BY <4>1, <3>1, <3>2 DEF Updates, SourceMappingRow
    <3>3. ASSUME NEW t \in Templates, resolve_active_template(t) # {}
          PROVE  resolve_active_template(t)' = resolve_active_template(t)
      <4>1. PICK k \in Lineage(rows, t) : rows[k].status = "ACTIVE"
        BY <3>3 DEF resolve_active_template
      <4>2. ASSUME NEW i \in Ids, rows[i] = None, rows'[i] # None, rows'[i].template = t
            PROVE  rows'[i].status # "ACTIVE"
        <5>1. pend[e][i] # None /\ rows'[i] = pend[e][i] /\ t = T(e)
          BY <4>2, <3>1
        <5>2. req[e].op = "patch"
          BY <5>1, <4>1, <3>1, <1>1 DEF IInv, CreateInv, Creating, ReqInv, Request
        <5>3. Inserts(e, pend[e][i])
          BY <5>1, <4>2, <1>1 DEF IInv, PendInv
        <5>4. QED BY <5>1, <5>2, <5>3 DEF Inserts
      <4>3. \A i \in Ids : rows[i] # None => /\ rows'[i] # None
                                             /\ rows'[i].template = rows[i].template
                                             /\ rows'[i].status = rows[i].status
        BY <3>1 DEF Updates
      <4>4. QED BY <4>2, <4>3 DEF resolve_active_template, Lineage
    <3>4. QED BY <3>2, <3>3
  <2>3. rows' = rows \/ \E e \in Editors : Commit(e)
    BY <1>1 DEF Next, EditorStep, vars, table, CreateMappingTemplate, InsertFirstVersion, NameConflict,
       PatchMappingTemplate, RequestRefused, LockRow, Reread, TemplateNotFound, Decide, RenameLineage,
       EditDraft, ChainDraft, LineageClosed, Abort, Rollback
  <2>4. QED BY <2>1, <2>2, <2>3
<1>2. QED BY <1>1, Always, PTL DEF Spec, LiveVersionsAreFrozen

-----------------------------------------------------------------------------
(* The screens. *)

\* What a token gives its bearer.
LEMMA TokenScopes ==
    ASSUME NEW claims \in Claims
    PROVE  LET good == /\ claims.genuine /\ claims.user_type \in UserType
                       /\ (claims.user_type = "PLATFORM") <=> (claims.tenant_id = NoTenant)
               platform == good /\ claims.user_type = "PLATFORM" /\ OPS_ROLE \in claims.roles
               tenant == good /\ claims.user_type = "TENANT" /\ claims.tenant_id \in Tenants
           IN  /\ ReadersScope(claims) =
                    IF platform THEN [is_platform |-> TRUE, tenant_id |-> NoTenant]
                    ELSE IF tenant THEN Pinned(claims.tenant_id) ELSE NoTenant
               /\ \A t \in Tenants \cup {NoTenant} : WritersTenant(claims, t) =
                    IF platform THEN t
                    ELSE IF tenant /\ t = NoTenant THEN claims.tenant_id ELSE NoTenant
               /\ ~(platform /\ tenant)
<1> DEFINE identity == [user_type |-> claims.user_type, tenant_id |-> claims.tenant_id, roles |-> claims.roles]
           good == /\ claims.genuine /\ claims.user_type \in UserType
                   /\ (claims.user_type = "PLATFORM") <=> (claims.tenant_id = NoTenant)
           ops == OPS_ROLE \in claims.roles
           platform == good /\ claims.user_type = "PLATFORM" /\ ops
           tenant == good /\ claims.user_type = "TENANT" /\ claims.tenant_id \in Tenants
<1>1. /\ claims # NoTenant /\ NoTenant \notin Tenants
      /\ claims.tenant_id \in Tenants \cup {NoTenant, "malformed"}
      /\ claims.roles \in SUBSET {OPS_ROLE, "viewer"}
  BY TokenAssumption DEF Claims
<1>2. good => identity \in Identity /\ identity # NoTenant
  BY <1>1, TokenAssumption DEF Identity
<1>3. get_current_identity(claims) = IF good THEN identity ELSE NoTenant
  BY <1>1 DEF get_current_identity, verify, user_type_claim
<1>4. /\ identity.user_type = claims.user_type /\ identity.tenant_id = claims.tenant_id
      /\ identity.roles = claims.roles
  OBVIOUS
<1> HIDE DEF identity
<1>5. ReadersScope(claims) =
          IF platform THEN [is_platform |-> TRUE, tenant_id |-> NoTenant]
          ELSE IF tenant THEN Pinned(claims.tenant_id) ELSE NoTenant
  BY <1>1, <1>2, <1>3, <1>4 DEF ReadersScope, require_read_scope, tenant_uuid_of, UserType
<1> DEFINE scope == [user_type |-> claims.user_type,
                     token_tenant |-> IF claims.user_type = "TENANT" THEN tenant_uuid_of(identity) ELSE NoTenant,
                     has_ops |-> ops]
<1>6. ASSUME NEW t \in Tenants \cup {NoTenant}
      PROVE  WritersTenant(claims, t) =
                 IF platform THEN t ELSE IF tenant /\ t = NoTenant THEN claims.tenant_id ELSE NoTenant
  <2>1. CASE ~good
    BY <2>1, <1>3 DEF WritersTenant
  <2>2. CASE good /\ claims.user_type = "TENANT" /\ claims.tenant_id \notin Tenants
    BY <2>2, <1>2, <1>3, <1>4 DEF WritersTenant, require_write_scope, tenant_uuid_of
  <2>3. CASE good /\ ~(claims.user_type = "TENANT" /\ claims.tenant_id \notin Tenants)
    <3>1. tenant_uuid_of(identity) \in Tenants \cup {NoTenant}
      BY <1>4 DEF tenant_uuid_of
    <3>2. scope \in WriteScope
      BY <2>3, <3>1 DEF WriteScope, UserType
    <3>3. scope # NoTenant
      BY <3>2, TokenAssumption
    <3>4. require_write_scope(identity) = scope
      BY <2>3, <1>1, <1>4 DEF require_write_scope, tenant_uuid_of
    <3>5. WritersTenant(claims, t) = resolve_acted_for(scope, t)
      BY <2>3, <3>3, <3>4, <1>2, <1>3 DEF WritersTenant
    <3>6. /\ scope.user_type = claims.user_type /\ scope.has_ops = ops
          /\ claims.user_type = "TENANT" => scope.token_tenant = claims.tenant_id
      BY <2>3, <1>4 DEF tenant_uuid_of
    <3> HIDE DEF scope
    <3>7. QED BY <3>5, <3>6, <2>3 DEF resolve_acted_for, UserType
  <2>4. QED BY <2>1, <2>2, <2>3
<1>7. QED BY <1>5, <1>6

\* Every token may write for exactly the tenants it reads.
LEMMA TokensAreFair == ReadersAreWriters
<1> SUFFICES ASSUME NEW claims \in Claims
             PROVE  LET scope == ReadersScope(claims)
                        seen == IF scope = NoTenant THEN {} ELSE {t \in Tenants : read_session(scope, t)}
                        edited == {WritersTenant(claims, t) : t \in Tenants \cup {NoTenant}} \ {NoTenant}
                    IN  /\ seen = edited
                        /\ ~(seen \subseteq {claims.tenant_id}) =>
                             claims.genuine /\ claims.user_type = "PLATFORM" /\ OPS_ROLE \in claims.roles
  BY DEF ReadersAreWriters
<1> DEFINE good == /\ claims.genuine /\ claims.user_type \in UserType
                   /\ (claims.user_type = "PLATFORM") <=> (claims.tenant_id = NoTenant)
           platform == good /\ claims.user_type = "PLATFORM" /\ OPS_ROLE \in claims.roles
           tenant == good /\ claims.user_type = "TENANT" /\ claims.tenant_id \in Tenants
           edited == {WritersTenant(claims, t) : t \in Tenants \cup {NoTenant}} \ {NoTenant}
           scope == ReadersScope(claims)
           seen == IF scope = NoTenant THEN {} ELSE {t \in Tenants : read_session(scope, t)}
<1>1. /\ scope = IF platform THEN [is_platform |-> TRUE, tenant_id |-> NoTenant]
                 ELSE IF tenant THEN Pinned(claims.tenant_id) ELSE NoTenant
      /\ \A t \in Tenants \cup {NoTenant} : WritersTenant(claims, t) =
           IF platform THEN t ELSE IF tenant /\ t = NoTenant THEN claims.tenant_id ELSE NoTenant
      /\ ~(platform /\ tenant)
  BY TokenScopes
<1>2. NoTenant \notin Tenants
  BY TokenAssumption
<1>3. CASE platform
  <2>1. scope \in ReadScope /\ scope # NoTenant
    <3>1. [is_platform |-> TRUE, tenant_id |-> NoTenant] \in ReadScope
      BY DEF ReadScope
    <3>2. QED BY <3>1, <1>1, <1>3, TokenAssumption
  <2>2. seen = Tenants
    BY <2>1, <1>1, <1>3 DEF read_session
  <2>3. edited = Tenants
    BY <1>1, <1>2, <1>3
  <2>4. QED BY <2>2, <2>3, <1>3
<1>4. CASE tenant
  <2>1. scope \in ReadScope /\ scope # NoTenant /\ scope = Pinned(claims.tenant_id)
    <3>1. Pinned(claims.tenant_id) \in ReadScope
      BY <1>4 DEF ReadScope, Pinned
    <3>2. QED BY <3>1, <1>1, <1>4, TokenAssumption
  <2>2. seen = {claims.tenant_id}
    BY <2>1, <1>4 DEF read_session, Pinned
  <2>3. edited = {claims.tenant_id}
    <3>1. \A t \in Tenants : WritersTenant(claims, t) = NoTenant
      BY <1>1, <1>2, <1>4
    <3>2. WritersTenant(claims, NoTenant) = claims.tenant_id /\ claims.tenant_id # NoTenant
      BY <1>1, <1>2, <1>4
    <3>3. QED BY <3>1, <3>2
  <2>4. QED BY <2>2, <2>3
<1>5. CASE ~platform /\ ~tenant
  <2>1. seen = {}
    BY <1>1, <1>5
  <2>2. edited = {}
    <3>1. \A t \in Tenants \cup {NoTenant} : WritersTenant(claims, t) = NoTenant
      BY <1>1, <1>5
    <3>2. QED BY <3>1
  <2>3. QED BY <2>1, <2>2
<1>6. QED BY <1>3, <1>4, <1>5

\* A caller of the screens reads the owner's rows or none.
LEMMA CallersScope ==
    ASSUME NEW caller \in Callers
    PROVE  read_session(caller.scope, Owner) <=> (caller.user_type = "PLATFORM" \/ caller.tenant_id = Owner)
<1>1. PICK claims \in Claims : /\ caller.user_type = claims.user_type /\ caller.tenant_id = claims.tenant_id
                               /\ caller.scope = ReadersScope(claims) /\ ReadersScope(claims) # NoTenant
  BY DEF Callers
<1>2. Owner \in Tenants /\ NoTenant \notin Tenants
  BY TokenAssumption, TemplateReadsAssumption
<1> DEFINE good == /\ claims.genuine /\ claims.user_type \in UserType
                   /\ (claims.user_type = "PLATFORM") <=> (claims.tenant_id = NoTenant)
           platform == good /\ claims.user_type = "PLATFORM" /\ OPS_ROLE \in claims.roles
           tenant == good /\ claims.user_type = "TENANT" /\ claims.tenant_id \in Tenants
<1>3. ReadersScope(claims) =
          IF platform THEN [is_platform |-> TRUE, tenant_id |-> NoTenant]
          ELSE IF tenant THEN Pinned(claims.tenant_id) ELSE NoTenant
  BY TokenScopes
<1>4. CASE platform
  BY <1>4, <1>1, <1>3 DEF read_session
<1>5. CASE ~platform
  <2>1. tenant
    BY <1>5, <1>1, <1>3
  <2>2. caller.scope = Pinned(claims.tenant_id)
    BY <2>1, <1>5, <1>1, <1>3
  <2>3. QED BY <2>1, <2>2, <1>1 DEF read_session, Pinned
<1>6. QED BY <1>4, <1>5

\* The newest version first: of n versions, the one numbered s has n - s before it.
LEMMA VersionsAreRanked ==
    ASSUME IInv, NEW t \in Templates, NEW i \in Lineage(rows, t)
    PROVE  LET ids == Lineage(rows, t)
           IN  Cardinality({j \in ids : rows[j].seq > rows[i].seq}) = Cardinality(ids) - rows[i].seq
<1> DEFINE ids == Lineage(rows, t)
           n == Cardinality(ids)
           s == rows[i].seq
           Above == {j \in ids : rows[j].seq > s}
           f == [j \in Above |-> rows[j].seq]
<1>1. n \in Nat /\ {rows[j].seq : j \in ids} = 1..n
  BY LineageIsFinite DEF IInv, VersionsAreChained
<1>2. \A j \in ids : rows[j].seq \in 1..n
  BY <1>1
<1>3. \A j, k \in ids : rows[j].seq = rows[k].seq => j = k
  BY DEF IInv, RowsInv, Lineage
<1>4. s \in 1..n
  BY <1>2
<1>5. f \in Bijection(Above, (s + 1)..n)
  <2>1. \A j \in Above : j \in ids /\ rows[j].seq \in (s + 1)..n
    BY <1>1, <1>2, <1>4
  <2>2. f \in [Above -> (s + 1)..n]
    BY <2>1
  <2>3. \A j, k \in Above : f[j] = f[k] => j = k
    BY <1>3
  <2>4. ASSUME NEW x \in (s + 1)..n PROVE \E j \in Above : f[j] = x
    <3>1. x \in 1..n /\ x > s
      BY <2>4, <1>1, <1>4
    <3>2. PICK j \in ids : rows[j].seq = x
      BY <3>1, <1>1
    <3>3. j \in Above
      BY <3>1, <3>2
    <3>4. QED BY <3>2, <3>3
  <2> HIDE DEF f, Above
  <2>5. QED BY <2>2, <2>3, <2>4 DEF Bijection, Injection, Surjection, IsInjective
<1>6. IsFiniteSet(Above)
  <2>1. IsFiniteSet(ids) /\ Above \subseteq ids
    BY LineageIsFinite
  <2> HIDE DEF Above
  <2>2. QED BY <2>1, FS_Subset
<1>7. Cardinality(Above) = Cardinality((s + 1)..n)
  <2>1. ExistsBijection(Above, (s + 1)..n)
    BY <1>5 DEF ExistsBijection
  <2> HIDE DEF Above
  <2>2. QED BY <2>1, <1>6, FS_Bijection
<1>8. Cardinality((s + 1)..n) = n - s
  <2>1. s + 1 \in Int /\ n \in Int /\ s <= n
    BY <1>1, <1>4
  <2> HIDE DEF s, n
  <2>2. Cardinality((s + 1)..n) = IF s + 1 > n THEN 0 ELSE n - (s + 1) + 1
    BY <2>1, FS_Interval
  <2>3. s \in Int
    BY <1>1, <1>4
  <2>4. QED BY <2>1, <2>2, <2>3
<1>9. QED BY <1>7, <1>8

\* What a version's page is built from: the k-th version shown is the one numbered n + 1 - k.
LEMMA VersionShown ==
    ASSUME IInv, NEW t \in Templates, NEW k \in 1..Cardinality(Lineage(rows, t))
    PROVE  LET ids == Lineage(rows, t)
               i == CHOOSE i \in ids : Cardinality({j \in ids : rows[j].seq > rows[i].seq}) = k - 1
           IN  i \in ids /\ rows[i].seq = Cardinality(ids) + 1 - k
<1> DEFINE ids == Lineage(rows, t)
           n == Cardinality(ids)
           P(i) == Cardinality({j \in ids : rows[j].seq > rows[i].seq}) = k - 1
<1>1. n \in Nat /\ {rows[j].seq : j \in ids} = 1..n
  BY LineageIsFinite DEF IInv, VersionsAreChained
<1>2. k \in Nat /\ 1 <= k /\ k <= n
  BY <1>1
<1>3. n + 1 - k \in 1..n
  BY <1>1, <1>2
<1>4. PICK m \in ids : rows[m].seq = n + 1 - k
  BY <1>1, <1>3
<1>5. \A i \in ids : Cardinality({j \in ids : rows[j].seq > rows[i].seq}) = n - rows[i].seq /\ rows[i].seq \in Nat
  <2>1. ASSUME NEW i \in ids
        PROVE  Cardinality({j \in ids : rows[j].seq > rows[i].seq}) = n - rows[i].seq
    BY VersionsAreRanked
  <2>2. \A i \in ids : rows[i].seq \in 1..n
    BY <1>1
  <2>3. QED BY <2>1, <2>2, <1>1
<1> HIDE DEF n, ids
<1>6. P(m)
  BY <1>1, <1>2, <1>4, <1>5
<1>7. \A i \in ids : P(i) => rows[i].seq = n + 1 - k
  BY <1>1, <1>2, <1>5
<1>8. LET i == CHOOSE i \in ids : P(i) IN i \in ids /\ P(i)
  <2> HIDE DEF P
  <2>1. QED BY <1>4, <1>6
<1>9. QED BY <1>7, <1>8 DEF n, ids

LEMMA RulesMapSomething ==
    ASSUME IInv, NEW i \in Ids, rows[i] # None
    PROVE  FieldCount[rows[i].rules] > 0
<1> DEFINE r == rows[i].rules
           fields == DOMAIN mapping_rules(r).rename
<1>1. rows[i].type \in TEMPLATE_TYPES /\ r \in Storable(rows[i].type)
  BY DEF IInv, RowsInv, TypeOK, SourceMappingRow
<1>2. IsFiniteSet(fields)
  BY <1>1, RulesAssumption
<1>3. fields # {}
  <2>1. CASE r \in DOMAIN Bodies
    <3>1. PostGate[r]
      BY <1>1, <2>1, MappingTemplatesAssumption DEF Storable, PatchGate
    <3>2. body_accepted(Bodies[r])
      BY <2>1, <3>1 DEF PostGate
    <3>3. QED BY <2>1, <3>2 DEF body_accepted, validate_mapping_rules_for_type, parse_mapping_rules, mapping_rules
  <2>2. CASE r \notin DOMAIN Bodies
    <3>1. r \in PatchGate[rows[i].type]
      BY <1>1, <2>2 DEF Storable
    <3>2. validate_mapping_rules_for_type(Documents[r], rows[i].type)
      BY <1>1, <3>1 DEF PatchGate
    <3>3. QED BY <2>2, <3>2 DEF validate_mapping_rules_for_type, parse_mapping_rules, mapping_rules
  <2>3. QED BY <2>1, <2>2
<1>4. Cardinality(fields) > 0
  <2> HIDE DEF fields
  <2>1. Cardinality(fields) \in Nat /\ Cardinality(fields) # 0
    BY <1>2, <1>3, FS_CardinalityType, FS_EmptySet
  <2>2. QED BY <2>1
<1>5. r \in UNION {Storable(type) : type \in TEMPLATE_TYPES}
  BY <1>1
<1>6. FieldCount[r] = Cardinality(fields)
  BY <1>5 DEF FieldCount
<1>7. QED BY <1>4, <1>6

\* One template's screens.
LEMMA DetailsAreRight ==
    ASSUME IInv, NEW t \in Templates, Lineage(rows, t) # {}
    PROVE  DetailIsRight(t, to_detail(Lineage(rows, t)))
<1> DEFINE ids == Lineage(rows, t)
           n == Cardinality(ids)
           detail == to_detail(ids)
           At(k) == CHOOSE i \in ids : Cardinality({j \in ids : rows[j].seq > rows[i].seq}) = k - 1
           newest == First(rows, ids)
<1>1. /\ ids \in SUBSET Ids /\ n \in Nat /\ {rows[j].seq : j \in ids} = 1..n
      /\ \A i \in ids : rows[i] # None /\ rows[i] \in SourceMappingRow /\ rows[i].template = t
  <2>1. ids \in SUBSET Ids /\ n \in Nat /\ {rows[j].seq : j \in ids} = 1..n
    BY LineageIsFinite DEF IInv, VersionsAreChained
  <2>2. \A i \in ids : rows[i] # None /\ rows[i] \in SourceMappingRow /\ rows[i].template = t
    BY DEF IInv, TypeOK, Lineage
  <2>3. QED BY <2>1, <2>2
<1>2. \A k \in 1..n : At(k) \in ids /\ rows[At(k)].seq = n + 1 - k
  BY VersionShown
<1>3. \A i \in ids : At(n + 1 - rows[i].seq) = i /\ n + 1 - rows[i].seq \in 1..n
  <2>1. SUFFICES ASSUME NEW i \in ids PROVE At(n + 1 - rows[i].seq) = i /\ n + 1 - rows[i].seq \in 1..n
    OBVIOUS
  <2>2. rows[i].seq \in 1..n
    BY <1>1
  <2>3. n + 1 - rows[i].seq \in 1..n
    BY <2>2, <1>1
  <2>4. At(n + 1 - rows[i].seq) \in ids /\ rows[At(n + 1 - rows[i].seq)].seq = n + 1 - (n + 1 - rows[i].seq)
    BY <2>3, <1>2
  <2> HIDE DEF At, n
  <2>5. rows[At(n + 1 - rows[i].seq)].seq = rows[i].seq
    BY <2>2, <2>4, <1>1
  <2>6. \A j \in ids : rows[j].seq = rows[i].seq => j = i
    BY DEF IInv, RowsInv, Lineage
  <2>7. QED BY <2>3, <2>4, <2>5, <2>6
<1>4. newest \in ids /\ rows[newest].seq = n
  <2>1. newest \in ids /\ \A j \in ids : rows[j].seq <= rows[newest].seq
    BY <1>1, FirstIsNewest DEF IInv, TypeOK, Table
  <2>2. n # 0
    BY <1>1, LineageIsFinite, FS_EmptySet
  <2>3. PICK j \in ids : rows[j].seq = n
    BY <2>2, <1>1
  <2>4. rows[newest].seq \in 1..n
    BY <2>1, <1>1
  <2>5. n <= rows[newest].seq
    BY <2>1, <2>3
  <2> HIDE DEF newest, n
  <2>6. QED BY <2>1, <2>4, <2>5, <1>1
<1>5. detail = [summary |-> summary_fields(ids), versions |-> [k \in 1..n |-> to_version(At(k))]]
  BY DEF to_detail
<1>6. /\ summary_fields(ids).latest_version = rows[newest].seq
      /\ summary_fields(ids).versions_count = n
      /\ summary_fields(ids).active_version = version_seq_for(ids, "ACTIVE")
      /\ summary_fields(ids).draft_version = version_seq_for(ids, "DRAFT")
  BY DEF summary_fields
<1> DEFINE s == detail.summary
<1>7. /\ s.latest_version = n /\ s.versions_count = n
      /\ s.active_version = version_seq_for(ids, "ACTIVE") /\ s.draft_version = version_seq_for(ids, "DRAFT")
      /\ \A k \in 1..n : detail.versions[k] = to_version(At(k))
  BY <1>4, <1>5, <1>6
<1> HIDE DEF detail, At, n, newest
<1>8. \A k \in 1..n : /\ detail.versions[k].version = n + 1 - k
                      /\ detail.versions[k].field_count > 0
                      /\ detail.versions[k].mapping_version_id = At(k)
                      /\ detail.versions[k].status = STATUS_WIRE[rows[At(k)].status]
  <2>1. SUFFICES ASSUME NEW k \in 1..n
                 PROVE  /\ detail.versions[k].version = n + 1 - k
                        /\ detail.versions[k].field_count > 0
                        /\ detail.versions[k].mapping_version_id = At(k)
                        /\ detail.versions[k].status = STATUS_WIRE[rows[At(k)].status]
    OBVIOUS
  <2>2. /\ to_version(At(k)).version = rows[At(k)].seq
        /\ to_version(At(k)).field_count = FieldCount[rows[At(k)].rules]
        /\ to_version(At(k)).mapping_version_id = At(k)
        /\ to_version(At(k)).status = STATUS_WIRE[rows[At(k)].status]
    BY DEF to_version
  <2>3. FieldCount[rows[At(k)].rules] > 0
    BY <1>1, <1>2, RulesMapSomething
  <2>4. QED BY <2>2, <2>3, <1>2, <1>7
<1> DEFINE active == resolve_active_template(t)
           shown == {v.mapping_version_id : v \in {detail.versions[k] : k \in {k \in 1..n : detail.versions[k].status = "active"}}}
<1>9. \A i \in ids : STATUS_WIRE[rows[i].status] = "active" <=> rows[i].status = "ACTIVE"
  BY <1>1 DEF STATUS_WIRE, SourceMappingRow, Status
<1>10. active = {i \in ids : rows[i].status = "ACTIVE"}
  BY DEF resolve_active_template
<1>11. active = shown
  <2>1. ASSUME NEW i \in active PROVE i \in shown
    <3>1. i \in ids /\ rows[i].status = "ACTIVE"
      BY <1>10, <2>1
    <3> DEFINE k == n + 1 - rows[i].seq
    <3>2. k \in 1..n /\ At(k) = i
      BY <3>1, <1>3
    <3> HIDE DEF k
    <3>3. detail.versions[k].status = "active" /\ detail.versions[k].mapping_version_id = i
      BY <3>1, <3>2, <1>8, <1>9
    <3>4. QED BY <3>2, <3>3
  <2>2. ASSUME NEW i \in shown PROVE i \in active
    <3>1. PICK k \in 1..n : detail.versions[k].status = "active" /\ detail.versions[k].mapping_version_id = i
      BY <2>2
    <3>2. i = At(k) /\ i \in ids /\ rows[i].status = "ACTIVE"
      BY <3>1, <1>2, <1>8, <1>9
    <3>3. QED BY <3>2, <1>10
  <2>3. QED BY <2>1, <2>2
<1>12. s.active_version = None => active = {}
  <2>1. SUFFICES ASSUME active # {} PROVE version_seq_for(ids, "ACTIVE") # None
    BY <1>7
  <2>2. First(rows, active) \in active
    BY <2>1, <1>1, <1>10, FirstIsNewest DEF IInv, TypeOK, Table
  <2>3. rows[First(rows, active)].seq \in Ids
    BY <2>2, <1>1, <1>10 DEF SourceMappingRow
  <2>4. version_seq_for(ids, "ACTIVE") = rows[First(rows, active)].seq
    BY <2>1, <1>10 DEF version_seq_for
  <2>5. QED BY <2>3, <2>4, NoneIsNone
<1>13. s.draft_version \in {None, n}
  <2> DEFINE drafts == {i \in ids : rows[i].status = "DRAFT"}
  <2>1. CASE drafts = {}
    BY <2>1, <1>7 DEF version_seq_for
  <2>2. CASE drafts # {}
    <3>1. First(rows, drafts) \in drafts
      BY <2>2, <1>1, FirstIsNewest DEF IInv, TypeOK, Table
    <3> DEFINE d == First(rows, drafts)
    <3>2. version_seq_for(ids, "DRAFT") = rows[d].seq
      BY <2>2 DEF version_seq_for
    <3>3. rows[newest].seq <= rows[d].seq /\ rows[d].seq \in 1..n
      <4>1. d \in ids /\ rows[d].status = "DRAFT"
        BY <3>1
      <4> HIDE DEF d
      <4>2. QED BY <4>1, <1>1, <1>4 DEF IInv, RowsInv
    <3> HIDE DEF d
    <3>4. rows[d].seq = n
      BY <3>3, <1>1, <1>4
    <3>5. QED BY <3>2, <3>4, <1>7
  <2>3. QED BY <2>1, <2>2
<1>14. active = IF s.active_version = None THEN {} ELSE shown
  BY <1>11, <1>12
<1> HIDE DEF s, active
<1>15. QED
  <2>1. s.latest_version = s.versions_count /\ 1..s.versions_count = 1..n
    BY <1>7
  <2>2. \A k \in 1..s.versions_count :
             /\ detail.versions[k].version = s.versions_count + 1 - k
             /\ detail.versions[k].field_count > 0
    BY <1>7, <1>8
  <2>3. active = IF s.active_version = None THEN {}
                 ELSE {v.mapping_version_id : v \in
                         {detail.versions[k] : k \in {k \in 1..s.versions_count :
                                                         detail.versions[k].status = "active"}}}
    BY <1>7, <1>14
  <2>4. s.draft_version \in {None, s.latest_version}
    BY <1>7, <1>13
  <2>5. QED BY <2>1, <2>2, <2>3, <2>4 DEF DetailIsRight, s, active, detail

\* The lists and the pages of every caller.
LEMMA ScreensFollowTables ==
    ASSUME IInv
    PROVE  ScreensAreRight
<1> DEFINE S(t) == summary_fields(Lineage(rows, t))
           There == {t \in Templates : Lineage(rows, t) # {}}
<1>1. \A i \in Ids : rows[i] # None => rows[i] \in SourceMappingRow /\ rows[i].template \in Templates
  BY DEF IInv, TypeOK, SourceMappingRow
<1>2. ASSUME NEW t \in There
      PROVE  /\ S(t).template_id = t
             /\ \E i \in Ids : rows[i] # None /\ rows[i].template = t /\ S(t).template_name = rows[i].name
             /\ ~Dead(S(t)) => \E i \in Ids : rows[i] # None /\ rows[i].template = t /\ Living(rows[i])
  <2> DEFINE ids == Lineage(rows, t)
             m == First(rows, ids)
  <2>1. m \in ids
    BY <1>2, FirstIsNewest DEF Lineage, IInv, TypeOK, Table
  <2>2. m \in Ids /\ rows[m] # None /\ rows[m].template = t
    BY <2>1 DEF Lineage
  <2>3. /\ S(t).template_id = rows[m].template /\ S(t).template_name = rows[m].name
        /\ S(t).active_version = version_seq_for(ids, "ACTIVE")
        /\ S(t).staged_version = version_seq_for(ids, "STAGED")
        /\ S(t).draft_version = version_seq_for(ids, "DRAFT")
    BY DEF summary_fields
  <2>4. ASSUME NEW st \in {"ACTIVE", "STAGED", "DRAFT"}, version_seq_for(ids, st) # None
        PROVE  \E i \in Ids : rows[i] # None /\ rows[i].template = t /\ Living(rows[i])
    <3>1. PICK i \in ids : rows[i].status = st
      BY <2>4 DEF version_seq_for
    <3>2. QED BY <3>1, <2>4 DEF Living, Lineage
  <2> HIDE DEF m, S
  <2>5. QED BY <2>2, <2>3, <2>4 DEF Dead
<1>3. ASSUME NEW t \in There, NEW u \in There, S(t).template_name = S(u).template_name,
             ~Dead(S(t)), ~Dead(S(u))
      PROVE  t = u
  <2>1. PICK i \in Ids : rows[i] # None /\ rows[i].template = t /\ S(t).template_name = rows[i].name
    BY <1>2
  <2>2. PICK j \in Ids : rows[j] # None /\ rows[j].template = u /\ S(u).template_name = rows[j].name
    BY <1>2
  <2>3. PICK k \in Ids : rows[k] # None /\ rows[k].template = t /\ Living(rows[k])
    BY <1>2, <1>3
  <2>4. PICK l \in Ids : rows[l] # None /\ rows[l].template = u /\ Living(rows[l])
    BY <1>2, <1>3
  <2>5. NamesAreCoherent
    BY DEF IInv
  <2>6. rows[k].name = rows[i].name /\ rows[l].name = rows[j].name
    BY <2>1, <2>2, <2>3, <2>4, <2>5 DEF NamesAreCoherent
  <2>7. ~Excludes(rows[k], rows[l].template, rows[l].name)
    BY <2>3, <2>4, <2>5 DEF NamesAreCoherent
  <2>8. QED BY <2>1, <2>2, <2>3, <2>4, <2>6, <2>7, <1>3 DEF Excludes
<1> SUFFICES ASSUME NEW caller \in Callers
             PROVE  LET listed == list_mapping_templates(caller.scope)
                        details == [t \in Templates |-> get_mapping_template(caller.scope, t)]
                    IN  IF caller.user_type = "PLATFORM" \/ caller.tenant_id = Owner
                        THEN /\ \A t \in Templates :
                                  /\ details[t] = {} <=> Lineage(rows, t) = {}
                                  /\ \A detail \in details[t] :
                                       DetailIsRight(t, detail) /\ detail.summary \in listed
                             /\ \A s, u \in listed :
                                  /\ s.template_id = u.template_id => s = u
                                  /\ s.template_name = u.template_name => s = u \/ Dead(s) \/ Dead(u)
                        ELSE listed = {} /\ \A t \in Templates : details[t] = {}
  BY TokensAreFair DEF ScreensAreRight
<1> DEFINE theirs == caller.user_type = "PLATFORM" \/ caller.tenant_id = Owner
           listed == list_mapping_templates(caller.scope)
           details == [t \in Templates |-> get_mapping_template(caller.scope, t)]
<1>4. read_session(caller.scope, Owner) <=> theirs
  BY CallersScope
<1>5. CASE theirs
  <2>1. list_template_rows(caller.scope) = {i \in Ids : rows[i] # None}
    BY <1>4, <1>5 DEF list_template_rows
  <2>2. \A t \in Templates : get_template_rows(caller.scope, t) = Lineage(rows, t)
    BY <2>1 DEF get_template_rows, Lineage
  <2>3. \A t \in Templates : details[t] = IF Lineage(rows, t) = {} THEN {} ELSE {to_detail(Lineage(rows, t))}
    BY <2>2 DEF get_mapping_template
  <2>4. listed = {S(t) : t \in There}
    <3> DEFINE found == list_template_rows(caller.scope)
    <3>1. \A t : {i \in found : rows[i].template = t} = Lineage(rows, t)
      BY <2>1 DEF Lineage
    <3>2. {rows[i].template : i \in found} = There
      BY <2>1, <1>1 DEF Lineage
    <3>3. listed = {summary_fields({i \in found : rows[i].template = t}) : t \in {rows[i].template : i \in found}}
      BY DEF list_mapping_templates
    <3> HIDE DEF found, listed, There
    <3>4. QED BY <3>1, <3>2, <3>3
  <2>5. ASSUME NEW t \in Templates
        PROVE  /\ details[t] = {} <=> Lineage(rows, t) = {}
               /\ \A detail \in details[t] : DetailIsRight(t, detail) /\ detail.summary \in listed
    <3>1. CASE Lineage(rows, t) = {}
      BY <2>3, <3>1
    <3>2. CASE Lineage(rows, t) # {}
      <4>1. details[t] = {to_detail(Lineage(rows, t))}
        BY <2>3, <3>2
      <4>2. DetailIsRight(t, to_detail(Lineage(rows, t)))
        BY <3>2, DetailsAreRight
      <4>3. to_detail(Lineage(rows, t)).summary = S(t)
        BY DEF to_detail
      <4>4. S(t) \in listed
        BY <2>4, <3>2
      <4> HIDE DEF details, listed, S
      <4>5. QED BY <4>1, <4>2, <4>3, <4>4, <3>2
    <3>3. QED BY <3>1, <3>2
  <2>6. ASSUME NEW s \in listed, NEW u \in listed
        PROVE  /\ s.template_id = u.template_id => s = u
               /\ s.template_name = u.template_name => s = u \/ Dead(s) \/ Dead(u)
    <3>1. PICK t \in There : s = S(t)
      BY <2>4
    <3>2. PICK v \in There : u = S(v)
      BY <2>4
    <3>3. S(t).template_id = t /\ S(v).template_id = v
      BY <1>2
    <3> HIDE DEF S, There
    <3>4. QED BY <3>1, <3>2, <3>3, <1>3
  <2>7. QED BY <1>5, <2>5, <2>6
<1>6. CASE ~theirs
  <2>1. list_template_rows(caller.scope) = {}
    BY <1>4, <1>6 DEF list_template_rows
  <2>2. listed = {}
    BY <2>1 DEF list_mapping_templates
  <2>3. \A t \in Templates : details[t] = {}
    BY <2>1 DEF get_mapping_template, get_template_rows
  <2>4. QED BY <1>6, <2>2, <2>3
<1>7. QED BY <1>5, <1>6

\* Whatever the editors do, the versions of a template form a chain and the template
\* screens show it: to the owner and to a platform operator every template once, its
\* versions without a gap, its DRAFT the newest, its active version the one uploads are
\* mapped with, under a name no other usable template bears; to anybody else nothing.
THEOREM ChainStaysSound == Spec => []ChainIsSound
<1>1. IInv => ChainIsSound
  BY ScreensFollowTables DEF IInv, ChainIsSound
<1>2. QED BY <1>1, Always, PTL
=============================================================================
