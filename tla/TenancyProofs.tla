---------------------------- MODULE TenancyProofs ---------------------------
(***************************************************************************)
(* Proofs about TenancyController: no server serves a tenancy under a path *)
(* it does not have, tenancies are kept apart, and the caches converge,    *)
(* for any tenancies, pools, administrators and servers, however their     *)
(* steps interleave.                                                       *)
(***************************************************************************)
EXTENDS TenancyController, SequenceTheorems, TLAPS

-----------------------------------------------------------------------------
(* Types.                                                                  *)

Fields ==
    [path : Path] \cup [shadow : Path] \cup [attr : Attr] \cup [active : BOOLEAN]
      \cup [pool : Pool, db : Database]
Note == [pool : Pool, msg : Notification]
Notes == {notes \in Seq(Note) : notes # <<>>}
NotesAbout(t) == {notes \in Notes : \A i \in DOMAIN notes : notes[i].msg.id = t}
AdminState ==
    {NoOp}
      \cup [at : {"update"}, id : Tenancy, fields : Fields, queries : Seq(Query), notes : Notes]
      \cup [at : {"metas", "claim", "create"}, id : Tenancy, fields : Row, queries : Seq(Query),
            notes : Notes]
      \cup [at : {"delete", "add_ip", "delete_ip"}, id : Tenancy, queries : {<<>>}, notes : Notes]
      \cup [at : {"publish"}, id : Tenancy, notes : Notes]

DatabaseOK ==
    /\ DOMAIN rows \subseteq Tenancy
    /\ rows \in [DOMAIN rows -> Row]
    /\ metas \in [Database -> SUBSET Tenancy]
AdminOK ==
    /\ admin \in [Admin -> AdminState]
    /\ used \subseteq Tenancy
    /\ DOMAIN rows \subseteq used
    /\ \A a \in Admin : admin[a].at # "idle" =>
          admin[a].id \in used /\ admin[a].notes \in NotesAbout(admin[a].id)
ServersOK ==
    /\ stage \in [Server -> {"down", "subscribed", "loading", "up"}]
    /\ channel \in [Server -> [Pool -> Seq(Notification)]]
    /\ todo \in [Server -> SUBSET Object]
    /\ loader \in [Server -> [Loader -> LoaderState]]
    /\ tenanciesById \in [Server -> [Tenancy -> Object \cup {None}]]
    /\ tenanciesByPath \in [Server -> [Path -> Object \cup {None}]]
    /\ tenanciesByShadowPath \in [Server -> [Path -> Object \cup {None}]]
    /\ failed \in [Server -> SUBSET Tenancy]
HistoryOK ==
    /\ overlapped \subseteq Tenancy /\ byName \subseteq Tenancy
    /\ missed \in [Server -> SUBSET Tenancy]
    /\ crossed \in [Server -> SUBSET Tenancy]
TypeOK == DatabaseOK /\ AdminOK /\ ServersOK /\ HistoryOK

(* What is announced and where a tenancy is.                               *)
NotesOf(t, pool, after) ==
    IF after = pool THEN <<Notify(t, pool)>> ELSE <<NotifyDelete(t, pool), Notify(t, after)>>
After(fields, pool) == IF "pool" \in DOMAIN fields THEN fields.pool ELSE pool

-----------------------------------------------------------------------------
(* The operations, by what they are about to do.                           *)

Asked(t, fields) ==
    IF "path" \in DOMAIN fields THEN CheckDuplicatePath(rows[t].pool, fields.path)
    ELSE IF "shadow" \in DOMAIN fields THEN CheckDuplicatePath(rows[t].pool, fields.shadow)
    ELSE IF "pool" \in DOMAIN fields /\ fields.pool # rows[t].pool
    THEN CheckDuplicatePath(fields.pool, rows[t].path) \o CheckDuplicatePath(fields.pool, rows[t].shadow)
    ELSE <<>>

BeginsUpdate(a, t) ==
    \E fields \in Fields :
       Update(a, t, fields, Asked(t, fields), NotesOf(t, rows[t].pool, After(fields, rows[t].pool)))
BeginsEffect(a, t) ==
    \/ Effect(a, t, "delete", <<NotifyDelete(t, rows[t].pool)>>)
    \/ \E kind \in {"add_ip", "delete_ip"} : Effect(a, t, kind, <<Notify(t, rows[t].pool)>>)

LEMMA OperationIs ==
    ASSUME NEW a \in Admin, NEW t \in Tenancy, Operation(a, t)
    PROVE  t \in DOMAIN rows /\ (BeginsUpdate(a, t) \/ BeginsEffect(a, t))
<1>1. ASSUME NEW p \in Path, SetPath(a, t, p)
      PROVE  t \in DOMAIN rows /\ BeginsUpdate(a, t)
  <2> DEFINE fields == [path |-> p]
  <2>1. fields \in Fields /\ DOMAIN fields = {"path"} /\ fields.path = p
    BY DEF Fields
  <2>2. Asked(t, fields) = CheckDuplicatePath(rows[t].pool, p)
    BY <2>1 DEF Asked
  <2>3. NotesOf(t, rows[t].pool, After(fields, rows[t].pool)) = <<Notify(t, rows[t].pool)>>
    BY <2>1 DEF NotesOf, After
  <2> HIDE DEF fields
  <2>4. Update(a, t, fields, Asked(t, fields), NotesOf(t, rows[t].pool, After(fields, rows[t].pool)))
    BY <1>1, <2>2, <2>3 DEF SetPath, fields
  <2> QED
    BY <1>1, <2>1, <2>4 DEF SetPath, BeginsUpdate
<1>2. ASSUME NEW p \in Path, SetShadowPath(a, t, p)
      PROVE  t \in DOMAIN rows /\ BeginsUpdate(a, t)
  <2> DEFINE fields == [shadow |-> p]
  <2>1. fields \in Fields /\ DOMAIN fields = {"shadow"} /\ fields.shadow = p
    BY DEF Fields
  <2>2. Asked(t, fields) = CheckDuplicatePath(rows[t].pool, p)
    BY <2>1 DEF Asked
  <2>3. NotesOf(t, rows[t].pool, After(fields, rows[t].pool)) = <<Notify(t, rows[t].pool)>>
    BY <2>1 DEF NotesOf, After
  <2> HIDE DEF fields
  <2>4. Update(a, t, fields, Asked(t, fields), NotesOf(t, rows[t].pool, After(fields, rows[t].pool)))
    BY <1>2, <2>2, <2>3 DEF SetShadowPath, fields
  <2> QED
    BY <1>2, <2>1, <2>4 DEF SetShadowPath, BeginsUpdate
<1>3. ASSUME t \in DOMAIN rows, NEW f, DOMAIN f \cap {"path", "shadow", "pool"} = {}, f \in Fields,
             Update(a, t, f, <<>>, <<Notify(t, rows[t].pool)>>)
      PROVE  BeginsUpdate(a, t)
  <2>1. Asked(t, f) = <<>>
    BY <1>3 DEF Asked
  <2>2. NotesOf(t, rows[t].pool, After(f, rows[t].pool)) = <<Notify(t, rows[t].pool)>>
    BY <1>3 DEF NotesOf, After
  <2>3. Update(a, t, f, Asked(t, f), NotesOf(t, rows[t].pool, After(f, rows[t].pool)))
    BY <1>3, <2>1, <2>2
  <2> QED
    BY <1>3, <2>3 DEF BeginsUpdate
<1>4. ASSUME NEW v \in Attr,
             SetRole(a, t, v) \/ SetCustomer(a, t, v) \/ SetPathBlocked(a, t, v) \/ SetDbRole(a, t, v)
      PROVE  t \in DOMAIN rows /\ BeginsUpdate(a, t)
  <2>1. [attr |-> v] \in Fields /\ DOMAIN [attr |-> v] \cap {"path", "shadow", "pool"} = {}
    BY DEF Fields
  <2>2. t \in DOMAIN rows /\ Update(a, t, [attr |-> v], <<>>, <<Notify(t, rows[t].pool)>>)
    BY <1>4 DEF SetRole, SetCustomer, SetPathBlocked, SetDbRole
  <2> QED
    BY <1>3, <2>1, <2>2
<1>5. ASSUME Activate(a, t) \/ Deactivate(a, t)
      PROVE  t \in DOMAIN rows /\ BeginsUpdate(a, t)
  <2>1. PICK b \in BOOLEAN :
          t \in DOMAIN rows /\ Update(a, t, [active |-> b], <<>>, <<Notify(t, rows[t].pool)>>)
    BY <1>5 DEF Activate, Deactivate
  <2>2. [active |-> b] \in Fields /\ DOMAIN [active |-> b] \cap {"path", "shadow", "pool"} = {}
    BY DEF Fields
  <2> QED
    BY <1>3, <2>1, <2>2
<1>6. ASSUME NEW p \in Pool, NEW d \in Database, ChangePoolOrDb(a, t, p, d)
      PROVE  t \in DOMAIN rows /\ BeginsUpdate(a, t)
  <2> DEFINE fields == [pool |-> p, db |-> d]
  <2>1. fields \in Fields /\ DOMAIN fields = {"pool", "db"} /\ fields.pool = p
    BY DEF Fields
  <2>2. Asked(t, fields) = IF p = rows[t].pool THEN <<>>
                           ELSE CheckDuplicatePath(p, rows[t].path) \o CheckDuplicatePath(p, rows[t].shadow)
    BY <2>1 DEF Asked
  <2>3. NotesOf(t, rows[t].pool, After(fields, rows[t].pool)) =
          IF p = rows[t].pool THEN <<Notify(t, p)>> ELSE <<NotifyDelete(t, rows[t].pool), Notify(t, p)>>
    BY <2>1 DEF NotesOf, After
  <2> HIDE DEF fields
  <2>4. Update(a, t, fields, Asked(t, fields), NotesOf(t, rows[t].pool, After(fields, rows[t].pool)))
    BY <1>6, <2>2, <2>3 DEF ChangePoolOrDb, fields
  <2> QED
    BY <1>6, <2>1, <2>4 DEF ChangePoolOrDb, BeginsUpdate
<1>7. ASSUME Delete(a, t) \/ AddIpAddress(a, t) \/ DeleteIpAddress(a, t)
      PROVE  t \in DOMAIN rows /\ BeginsEffect(a, t)
  BY <1>7 DEF Delete, AddIpAddress, DeleteIpAddress, BeginsEffect
<1> QED
  BY <1>1, <1>2, <1>4, <1>5, <1>6, <1>7 DEF Operation

-----------------------------------------------------------------------------
(* Types are kept.                                                         *)

LEMMA QueriesType ==
    ASSUME NEW pool \in Pool \cup {AnyPool}, NEW p \in Path, NEW q \in Path
    PROVE  /\ CheckDuplicatePath(pool, p) \in Seq(Query)
           /\ CheckDuplicatePath(pool, p) \o CheckDuplicatePath(pool, q) \in Seq(Query)
<1>1. CheckDuplicatePath(pool, p) \in Seq(Query) /\ CheckDuplicatePath(pool, q) \in Seq(Query)
  BY DEF CheckDuplicatePath, Query
<1> QED
  BY <1>1, ConcatProperties

LEMMA NotesType ==
    ASSUME NEW t \in Tenancy, NEW p \in Pool, NEW q \in Pool
    PROVE  /\ <<Notify(t, p)>> \in NotesAbout(t) /\ <<NotifyDelete(t, p)>> \in NotesAbout(t)
           /\ <<NotifyDelete(t, p), Notify(t, q)>> \in NotesAbout(t)
           /\ NotesOf(t, p, q) \in NotesAbout(t)
<1>1. /\ Notify(t, p) \in Note /\ Notify(t, q) \in Note /\ NotifyDelete(t, p) \in Note
      /\ Notify(t, p).msg.id = t /\ Notify(t, q).msg.id = t /\ NotifyDelete(t, p).msg.id = t
  BY DEF Notify, NotifyDelete, Note, Notification
<1>2. \A x, y \in Note : x.msg.id = t /\ y.msg.id = t => <<x>> \in NotesAbout(t) /\ <<x, y>> \in NotesAbout(t)
  BY DEF Notes, NotesAbout
<1> QED
  BY <1>1, <1>2 DEF NotesOf

LEMMA AfterType ==
    ASSUME NEW fields \in Fields, NEW p \in Pool
    PROVE  After(fields, p) \in Pool
BY DEF Fields, After

LEMMA AskedType ==
    ASSUME DatabaseOK, NEW t \in DOMAIN rows, NEW fields \in Fields
    PROVE  Asked(t, fields) \in Seq(Query)
<1>1. rows[t] \in Row
  BY DEF DatabaseOK
<1>2. rows[t].pool \in Pool /\ rows[t].path \in Path /\ rows[t].shadow \in Path
  BY <1>1 DEF Row
<1>3. CASE fields \in [path : Path]
  <2>1. "path" \in DOMAIN fields /\ fields.path \in Path
    BY <1>3
  <2> QED
    BY <1>2, <2>1, QueriesType DEF Asked
<1>4. CASE fields \in [shadow : Path]
  <2>1. DOMAIN fields = {"shadow"} /\ fields.shadow \in Path
    BY <1>4
  <2> QED
    BY <1>2, <2>1, QueriesType DEF Asked
<1>5. CASE fields \in [attr : Attr] \cup [active : BOOLEAN]
  <2>1. "path" \notin DOMAIN fields /\ "shadow" \notin DOMAIN fields /\ "pool" \notin DOMAIN fields
    BY <1>5
  <2> QED
    BY <2>1 DEF Asked
<1>6. CASE fields \in [pool : Pool, db : Database]
  <2>1. DOMAIN fields = {"pool", "db"} /\ fields.pool \in Pool
    BY <1>6
  <2>2. <<>> \in Seq(Query)
    OBVIOUS
  <2> QED
    BY <1>2, <2>1, <2>2, QueriesType DEF Asked
<1> QED
  BY <1>3, <1>4, <1>5, <1>6 DEF Fields

(* The administrator's record after a first step.                          *)
LEMMA BeginsUpdateType ==
    ASSUME DatabaseOK, AdminOK, NEW a \in Admin, NEW t \in Tenancy, t \in DOMAIN rows, BeginsUpdate(a, t)
    PROVE  AdminOK'
<1>1. PICK fields \in Fields :
        Update(a, t, fields, Asked(t, fields), NotesOf(t, rows[t].pool, After(fields, rows[t].pool)))
  BY DEF BeginsUpdate
<1> DEFINE queries == Asked(t, fields)
           notes == NotesOf(t, rows[t].pool, After(fields, rows[t].pool))
           x == [at |-> "update", id |-> t, fields |-> fields, queries |-> queries, notes |-> notes]
<1>2. rows[t].pool \in Pool
  BY DEF DatabaseOK, Row
<1>3. queries \in Seq(Query) /\ notes \in NotesAbout(t) /\ notes \in Notes
  BY <1>2, AskedType, AfterType, NotesType DEF NotesAbout
<1> HIDE DEF queries, notes
<1>4. x \in AdminState /\ x.at = "update" /\ x.id = t /\ x.notes \in NotesAbout(t)
  BY <1>3 DEF AdminState
<1>5. admin' = [admin EXCEPT ![a] = x] /\ UNCHANGED <<rows, used>>
  BY <1>1 DEF Update, queries, notes, tables
<1> HIDE DEF x
<1> QED
  BY <1>4, <1>5 DEF AdminOK

LEMMA BeginsEffectType ==
    ASSUME DatabaseOK, AdminOK, NEW a \in Admin, NEW t \in Tenancy, t \in DOMAIN rows, BeginsEffect(a, t)
    PROVE  AdminOK'
<1>1. rows[t].pool \in Pool
  BY DEF DatabaseOK, Row
<1>2. PICK kind \in {"delete", "add_ip", "delete_ip"}, notes \in NotesAbout(t) : Effect(a, t, kind, notes)
  BY <1>1, NotesType DEF BeginsEffect
<1> DEFINE x == [at |-> kind, id |-> t, queries |-> <<>>, notes |-> notes]
<1>3. x \in AdminState /\ x.at = kind /\ x.id = t /\ x.notes \in NotesAbout(t)
  BY DEF AdminState, NotesAbout
<1>4. admin' = [admin EXCEPT ![a] = x] /\ UNCHANGED <<rows, used>>
  BY <1>2 DEF Effect, tables
<1> HIDE DEF x
<1> QED
  BY <1>3, <1>4 DEF AdminOK

LEMMA AddType ==
    ASSUME DatabaseOK, AdminOK, NEW a \in Admin, NEW row \in NewRow, NEW by \in {"id", "name"}, Add(a, row, by)
    PROVE  AdminOK'
<1> DEFINE asked == IF by = "id" THEN row.pool ELSE AnyPool
           queries == CheckDuplicatePath(asked, row.path) \o CheckDuplicatePath(asked, row.shadow)
<1>1. PICK t \in Tenancy \ used :
        /\ used' = used \cup {t}
        /\ admin' = [admin EXCEPT ![a] =
             [at |-> "metas", id |-> t, fields |-> row, queries |-> queries,
              notes |-> <<Notify(t, row.pool)>>]]
        /\ UNCHANGED rows
  BY DEF Add, tables
<1> DEFINE x == [at |-> "metas", id |-> t, fields |-> row, queries |-> queries,
                 notes |-> <<Notify(t, row.pool)>>]
<1>2. row \in Row
  BY NamesAssumption DEF NewRow, Row
<1>3. row.pool \in Pool /\ row.path \in Path /\ row.shadow \in Path
  BY <1>2 DEF Row
<1>4. queries \in Seq(Query) /\ <<Notify(t, row.pool)>> \in NotesAbout(t) /\ <<Notify(t, row.pool)>> \in Notes
  BY <1>3, QueriesType, NotesType DEF NotesAbout
<1> HIDE DEF queries
<1>5. x \in AdminState /\ x.id = t /\ x.at = "metas" /\ x.notes \in NotesAbout(t)
  BY <1>2, <1>4 DEF AdminState
<1> HIDE DEF x
<1>6. admin' = [admin EXCEPT ![a] = x]
  BY <1>1 DEF x
<1> QED
  BY <1>1, <1>5, <1>6 DEF AdminOK

UpdateState == [at : {"update"}, id : Tenancy, fields : Fields, queries : Seq(Query), notes : Notes]
AddState ==
    [at : {"metas", "claim", "create"}, id : Tenancy, fields : Row, queries : Seq(Query), notes : Notes]
EffectState == [at : {"delete", "add_ip", "delete_ip"}, id : Tenancy, queries : {<<>>}, notes : Notes]
PublishState == [at : {"publish"}, id : Tenancy, notes : Notes]

LEMMA AdminRecord ==
    ASSUME AdminOK, NEW a \in Admin
    PROVE  /\ admin[a].at \in {"idle", "update", "metas", "claim", "create", "delete", "add_ip",
                               "delete_ip", "publish"}
           /\ admin[a].at = "idle" => admin[a] = NoOp
           /\ admin[a].at = "update" => admin[a] \in UpdateState
           /\ admin[a].at \in {"metas", "claim", "create"} => admin[a] \in AddState
           /\ admin[a].at \in {"delete", "add_ip", "delete_ip"} => admin[a] \in EffectState
           /\ admin[a].at = "publish" => admin[a] \in PublishState
<1>1. admin[a] \in {NoOp} \cup UpdateState \cup AddState \cup EffectState \cup PublishState
  BY DEF AdminOK, AdminState, UpdateState, AddState, EffectState, PublishState
<1>2. NoOp.at = "idle"
  BY DEF NoOp
<1>3. \A x \in UpdateState : x.at = "update"
  BY DEF UpdateState
<1>4. \A x \in AddState : x.at \in {"metas", "claim", "create"}
  BY DEF AddState
<1>5. \A x \in EffectState : x.at \in {"delete", "add_ip", "delete_ip"}
  BY DEF EffectState
<1>6. \A x \in PublishState : x.at = "publish"
  BY DEF PublishState
<1> QED
  BY <1>1, <1>2, <1>3, <1>4, <1>5, <1>6

LEMMA StatesAre ==
    AdminState = {NoOp} \cup UpdateState \cup AddState \cup EffectState \cup PublishState
BY DEF AdminState, UpdateState, AddState, EffectState, PublishState

(* An administrator goes on with a record of the right form.               *)
LEMMA AdminMoves ==
    ASSUME AdminOK, NEW a \in Admin, NEW x \in AdminState,
           x.at = "idle" \/ (admin[a].at # "idle" /\ x.id = admin[a].id /\ x.notes = admin[a].notes),
           admin' = [admin EXCEPT ![a] = x], DOMAIN rows' \subseteq used, UNCHANGED used
    PROVE  AdminOK'
BY DEF AdminOK

LEMMA RunQueryType ==
    ASSUME AdminOK, NEW a \in Admin, RunQuery(a)
    PROVE  AdminOK'
<1> DEFINE y == [admin[a] EXCEPT !.queries = Tail(admin[a].queries)]
           x == IF \E t \in DOMAIN rows : Matches(t, Head(admin[a].queries)) THEN NoOp ELSE y
<1>1. admin' = [admin EXCEPT ![a] = x] /\ UNCHANGED <<rows, used>>
  BY DEF RunQuery, tables
<1>2. admin[a].at \in {"update", "metas"} /\ admin[a].queries # <<>>
  BY DEF RunQuery
<1>3. admin[a] \in UpdateState \cup AddState
  BY <1>2, AdminRecord
<1>4. admin[a].queries \in Seq(Query)
  BY <1>3 DEF UpdateState, AddState
<1>5. Tail(admin[a].queries) \in Seq(Query)
  BY <1>2, <1>4
<1>6. y \in UpdateState \cup AddState /\ y.id = admin[a].id /\ y.notes = admin[a].notes
  BY <1>3, <1>5 DEF UpdateState, AddState
<1>7. DOMAIN rows' \subseteq used
  BY <1>1, <1>2 DEF AdminOK
<1> HIDE DEF y
<1>8. x \in AdminState /\ (x.at = "idle" \/ (x.id = admin[a].id /\ x.notes = admin[a].notes))
  BY <1>6, StatesAre DEF NoOp
<1> HIDE DEF x
<1> QED
  BY <1>1, <1>2, <1>7, <1>8, AdminMoves

LEMMA ReadMetasType ==
    ASSUME AdminOK, NEW a \in Admin, ReadMetas(a)
    PROVE  AdminOK'
<1> DEFINE y == [admin[a] EXCEPT !.at = "claim"]
           x == IF metas[admin[a].fields.db] = {} THEN y ELSE NoOp
<1>1. admin' = [admin EXCEPT ![a] = x] /\ UNCHANGED <<rows, used>> /\ admin[a].at = "metas"
  BY DEF ReadMetas, tables
<1>2. admin[a] \in AddState
  BY <1>1, AdminRecord
<1>3. y \in AddState /\ y.id = admin[a].id /\ y.notes = admin[a].notes
  BY <1>2 DEF AddState
<1>4. DOMAIN rows' \subseteq used
  BY <1>1 DEF AdminOK
<1> HIDE DEF y
<1>5. x \in AdminState /\ (x.at = "idle" \/ (x.id = admin[a].id /\ x.notes = admin[a].notes))
  BY <1>3, StatesAre DEF NoOp
<1> HIDE DEF x
<1> QED
  BY <1>1, <1>4, <1>5, AdminMoves

LEMMA ClaimDatabaseType ==
    ASSUME DatabaseOK, AdminOK, NEW a \in Admin, ClaimDatabase(a)
    PROVE  AdminOK' /\ DatabaseOK'
<1> DEFINE x == [admin[a] EXCEPT !.at = "create"]
<1>1. admin' = [admin EXCEPT ![a] = x] /\ UNCHANGED <<rows, used>> /\ admin[a].at = "claim"
  BY DEF ClaimDatabase
<1>2. admin[a] \in AddState
  BY <1>1, AdminRecord
<1>3. /\ x \in AddState /\ x.id = admin[a].id /\ x.notes = admin[a].notes
      /\ admin[a].id \in Tenancy /\ admin[a].fields \in Row
  BY <1>2 DEF AddState
<1>4. DOMAIN rows' \subseteq used
  BY <1>1 DEF AdminOK
<1> HIDE DEF x
<1>5. x \in AdminState
  BY <1>3, StatesAre
<1>6. admin[a].fields.db \in Database
  BY <1>3 DEF Row
<1>7. metas' \in [Database -> SUBSET Tenancy]
  BY <1>3, <1>6 DEF ClaimDatabase, DatabaseOK
<1> QED
  BY <1>1, <1>3, <1>4, <1>5, <1>7, AdminMoves DEF DatabaseOK

(* The record of an administrator who has written and is about to publish. *)
LEMMA ToPublishType ==
    ASSUME AdminOK, NEW a \in Admin, admin[a].at # "idle", admin[a].at # "publish",
           ToPublish(a), DOMAIN rows' \subseteq used, UNCHANGED used
    PROVE  AdminOK'
<1> DEFINE x == [at |-> "publish", id |-> admin[a].id, notes |-> admin[a].notes]
<1>1. admin[a].notes \in Notes /\ admin[a].id \in Tenancy
  BY AdminRecord DEF UpdateState, AddState, EffectState
<1>2. x \in PublishState /\ x.at = "publish" /\ x.id = admin[a].id /\ x.notes = admin[a].notes
  BY <1>1 DEF PublishState
<1>3. admin' = [admin EXCEPT ![a] = x]
  BY DEF ToPublish
<1> HIDE DEF x
<1>4. x \in AdminState
  BY <1>2, StatesAre
<1> QED
  BY <1>2, <1>3, <1>4, AdminMoves

LEMMA GivesUp ==
    ASSUME AdminOK, NEW a \in Admin, admin' = [admin EXCEPT ![a] = NoOp], UNCHANGED <<rows, used>>
    PROVE  AdminOK'
<1>1. NoOp \in AdminState /\ NoOp.at = "idle"
  BY StatesAre DEF NoOp
<1> QED
  BY <1>1 DEF AdminOK

(* Fields that are written over a row give a row.                          *)
LEMMA RowUpdated ==
    ASSUME NEW row \in Row, NEW fields \in Fields
    PROVE  Updated(row, fields) \in Row
<1> DEFINE C == {"pool", "path", "shadow", "active", "db", "attr"}
           new == Updated(row, fields)
<1>1. DOMAIN row = C /\ row = [c \in C |-> row[c]] /\ row.pool \in Pool /\ row.path \in Path
        /\ row.shadow \in Path /\ row.active \in BOOLEAN /\ row.db \in Database /\ row.attr \in Attr
  BY DEF Row
<1>2. new = [c \in C |-> IF c \in DOMAIN fields THEN fields[c] ELSE row[c]]
  BY <1>1 DEF Updated
<1> HIDE DEF new
<1>3. new.pool \in Pool
  BY <1>1, <1>2 DEF Fields
<1>4. new.path \in Path
  BY <1>1, <1>2 DEF Fields
<1>5. new.shadow \in Path
  BY <1>1, <1>2 DEF Fields
<1>6. new.active \in BOOLEAN
  BY <1>1, <1>2 DEF Fields
<1>7. new.db \in Database
  BY <1>1, <1>2 DEF Fields
<1>8. new.attr \in Attr
  BY <1>1, <1>2 DEF Fields
<1> DEFINE r == [pool |-> new.pool, path |-> new.path, shadow |-> new.shadow, active |-> new.active,
                 db |-> new.db, attr |-> new.attr]
<1>9. r \in Row
  BY <1>3, <1>4, <1>5, <1>6, <1>7, <1>8 DEF Row
<1>10. r = [c \in C |-> r[c]] /\ \A c \in C : r[c] = new[c]
  OBVIOUS
<1> HIDE DEF r
<1>11. new = [c \in C |-> new[c]]
  BY <1>2
<1>12. new = r
  BY <1>10, <1>11
<1> QED
  BY <1>9, <1>12 DEF new

(* An administrator does not touch the servers, but for their channels.    *)
ServersKept == UNCHANGED <<stage, todo, loader, tenanciesById, tenanciesByPath,
                           tenanciesByShadowPath, failed>>

LEMMA UpdateRowType ==
    ASSUME DatabaseOK, AdminOK, NEW a \in Admin, UpdateRow(a)
    PROVE  /\ DatabaseOK' /\ AdminOK'
           /\ DOMAIN rows' = DOMAIN rows
<1> DEFINE t == admin[a].id  fields == admin[a].fields
<1>1. admin[a] \in UpdateState /\ admin[a].at = "update" /\ UNCHANGED <<metas, used>>
  BY AdminRecord DEF UpdateRow
<1>2. fields \in Fields
  BY <1>1 DEF UpdateState
<1>3. CASE rows' = [u \in DOMAIN rows |-> IF u = t THEN Updated(rows[u], fields) ELSE rows[u]] /\ ToPublish(a)
  <2>1. \A u \in DOMAIN rows : rows[u] \in Row /\ Updated(rows[u], fields) \in Row
    BY <1>2, RowUpdated DEF DatabaseOK
  <2> HIDE DEF fields
  <2>2. DOMAIN rows' = DOMAIN rows /\ \A u \in DOMAIN rows : rows'[u] \in Row
    BY <1>3, <2>1
  <2>3. rows' \in [DOMAIN rows' -> Row]
    BY <1>3, <2>1
  <2>4. DatabaseOK'
    BY <1>1, <2>2, <2>3 DEF DatabaseOK
  <2>5. DOMAIN rows' \subseteq used
    BY <2>2 DEF AdminOK
  <2> QED
    BY <1>1, <1>3, <2>2, <2>4, <2>5, ToPublishType
<1>4. CASE admin' = [admin EXCEPT ![a] = NoOp] /\ UNCHANGED rows
  BY <1>1, <1>4, GivesUp DEF DatabaseOK
<1> QED
  BY <1>3, <1>4 DEF UpdateRow

LEMMA CreateRowType ==
    ASSUME DatabaseOK, AdminOK, NEW a \in Admin, CreateRow(a)
    PROVE  DatabaseOK' /\ AdminOK'
<1> DEFINE t == admin[a].id  row == admin[a].fields
<1>1. admin[a] \in AddState /\ admin[a].at = "create" /\ UNCHANGED <<metas, used>>
  BY AdminRecord DEF CreateRow
<1>2. row \in Row /\ t \in used /\ t \in Tenancy
  BY <1>1 DEF AddState, AdminOK
<1>3. CASE rows' = [u \in DOMAIN rows \cup {t} |-> IF u = t THEN row ELSE rows[u]] /\ ToPublish(a)
  <2>1. DOMAIN rows' = DOMAIN rows \cup {t} /\ rows' \in [DOMAIN rows' -> Row]
    BY <1>2, <1>3 DEF DatabaseOK
  <2>2. DOMAIN rows' \subseteq used
    BY <1>2, <2>1 DEF AdminOK
  <2> QED
    BY <1>1, <1>2, <1>3, <2>1, <2>2, ToPublishType DEF DatabaseOK
<1>4. CASE admin' = [admin EXCEPT ![a] = NoOp] /\ UNCHANGED rows
  BY <1>1, <1>4, GivesUp DEF DatabaseOK
<1> QED
  BY <1>3, <1>4 DEF CreateRow

LEMMA DeleteRowType ==
    ASSUME DatabaseOK, AdminOK, NEW a \in Admin, DeleteRow(a)
    PROVE  DatabaseOK' /\ AdminOK'
<1>1. admin[a].at = "delete" /\ UNCHANGED <<metas, used>> /\ ToPublish(a)
  BY DEF DeleteRow
<1>2. DOMAIN rows' = DOMAIN rows \ {admin[a].id} /\ rows' \in [DOMAIN rows' -> Row]
  BY DEF DeleteRow, DatabaseOK
<1>3. DOMAIN rows' \subseteq used
  BY <1>2 DEF AdminOK
<1> QED
  BY <1>1, <1>2, <1>3, ToPublishType DEF DatabaseOK

LEMMA IpType ==
    ASSUME DatabaseOK, AdminOK, NEW a \in Admin, CreateIp(a) \/ DeleteIp(a)
    PROVE  DatabaseOK' /\ AdminOK'
<1>1. admin[a].at # "idle" /\ admin[a].at # "publish" /\ UNCHANGED <<rows, metas, used>> /\ ToPublish(a)
  BY DEF CreateIp, DeleteIp
<1>2. DOMAIN rows' \subseteq used
  BY <1>1 DEF AdminOK
<1> QED
  BY <1>1, <1>2, ToPublishType DEF DatabaseOK

(* A server is told, and may be crossed by it, or it misses what it is to  *)
(* be told.                                                                *)
Tells(s, note) ==
    /\ stage[s] # "down" /\ note.pool \in Subs[s]
    /\ channel'[s] = [channel[s] EXCEPT ![note.pool] = Append(channel[s][note.pool], note.msg)]
Crosses(s, note) ==
    crossed'[s] = IF \E p \in Pool \ {note.pool} : Works(s, p, note.msg.id)
                  THEN crossed[s] \cup {note.msg.id} ELSE crossed[s]
Publishes(a, note) ==
    \A s \in Server :
       \/ Tells(s, note) /\ missed'[s] = missed[s] /\ Crosses(s, note)
       \/ /\ channel'[s] = channel[s] /\ crossed[s] \subseteq crossed'[s] /\ missed[s] \subseteq missed'[s]
          /\ stage[s] # "down" /\ note.pool \in Subs[s] => note.msg.id \in missed'[s]

(* What a publication leaves: the rest of the notes, and longer channels.  *)
LEMMA PublishOpIs ==
    ASSUME TypeOK, NEW a \in Admin, PublishOp(a)
    PROVE  /\ admin[a] \in PublishState /\ Head(admin[a].notes) \in Note
           /\ Head(admin[a].notes).msg.id = admin[a].id
           /\ admin' = [admin EXCEPT ![a] = IF Len(admin[a].notes) = 1 THEN NoOp
                        ELSE [at |-> "publish", id |-> admin[a].id, notes |-> Tail(admin[a].notes)]]
           /\ Len(admin[a].notes) # 1 => Tail(admin[a].notes) \in Notes
           /\ Publishes(a, Head(admin[a].notes))
           /\ channel' \in [Server -> [Pool -> Seq(Notification)]]
           /\ ServersKept /\ UNCHANGED <<rows, metas, used>>
           /\ AdminOK' /\ HistoryOK'
<1> DEFINE t == admin[a].id  notes == admin[a].notes  note == Head(notes)
<1>1. admin[a] \in PublishState /\ admin[a].at = "publish"
  BY AdminRecord DEF PublishOp, TypeOK
<1>2. notes \in Seq(Note) /\ notes # <<>> /\ t \in Tenancy /\ t \in used
        /\ \A i \in DOMAIN notes : notes[i].msg.id = t
  BY <1>1 DEF PublishState, Notes, NotesAbout, TypeOK, AdminOK
<1>3. note \in Note /\ Len(notes) \in Nat /\ Len(notes) # 0 /\ note = notes[1] /\ 1 \in DOMAIN notes
  BY <1>2
<1>4. Len(notes) # 1 => Tail(notes) \in NotesAbout(t) /\ Tail(notes) \in Notes
  <2>1. ASSUME Len(notes) # 1
        PROVE  /\ Tail(notes) \in Seq(Note) /\ Len(Tail(notes)) = Len(notes) - 1 /\ Len(Tail(notes)) # 0
               /\ \A i \in DOMAIN Tail(notes) : i + 1 \in DOMAIN notes /\ Tail(notes)[i] = notes[i + 1]
    BY <1>2, <1>3, <2>1
  <2>2. Len(<<>>) = 0
    OBVIOUS
  <2> HIDE DEF notes, t
  <2> QED
    BY <1>2, <2>1, <2>2 DEF Notes, NotesAbout
<1> DEFINE y == [at |-> "publish", id |-> t, notes |-> Tail(notes)]
           x == IF Len(notes) = 1 THEN NoOp ELSE y
<1>5. admin' = [admin EXCEPT ![a] = x]
  BY DEF PublishOp
<1>6. Len(notes) # 1 => y \in PublishState /\ y.id = t /\ y.notes \in NotesAbout(t)
  BY <1>2, <1>4 DEF PublishState
<1>7. PICK lost \in SUBSET Server :
        /\ Publish(note.pool, note.msg, lost)
        /\ \A s \in lost : Subscribed(s, note.pool)
        /\ missed' = [s \in Server |->
             IF s \in lost \/ (Follows(s, note.pool) /\ note.pool \notin ActivePool)
             THEN missed[s] \cup {t} ELSE missed[s]]
  BY DEF PublishOp
<1>8. crossed' = [s \in Server |->
        IF Subscribed(s, note.pool) /\ \E p \in Pool \ {note.pool} : Works(s, p, t)
        THEN crossed[s] \cup {t} ELSE crossed[s]] /\ UNCHANGED <<overlapped, byName>>
  BY DEF PublishOp
<1>9. ServersKept /\ UNCHANGED <<rows, metas, used>>
  BY DEF PublishOp, ServersKept, indexes, tables
<1>10. note.msg \in Notification /\ note.pool \in Pool /\ note.msg.id = t
  BY <1>2, <1>3 DEF Note
<1> HIDE DEF note, notes, t
<1>11. channel' = [s \in Server |-> IF Subscribed(s, note.pool) /\ s \notin lost
                                    THEN [channel[s] EXCEPT ![note.pool] = Append(channel[s][note.pool], note.msg)]
                                    ELSE channel[s]]
  BY <1>7 DEF Publish
<1>12. channel' \in [Server -> [Pool -> Seq(Notification)]]
  <2>1. \A s \in Server : \A p \in Pool : Append(channel[s][p], note.msg) \in Seq(Notification)
    BY <1>10 DEF TypeOK, ServersOK
  <2> QED
    BY <1>11, <2>1 DEF TypeOK, ServersOK
<1>13. HistoryOK'
  BY <1>2, <1>7, <1>8 DEF TypeOK, HistoryOK
<1>14. Publishes(a, note)
  <2> SUFFICES ASSUME NEW s \in Server
               PROVE  \/ Tells(s, note) /\ missed'[s] = missed[s] /\ Crosses(s, note)
                      \/ /\ channel'[s] = channel[s] /\ crossed[s] \subseteq crossed'[s] /\ missed[s] \subseteq missed'[s]
                         /\ stage[s] # "down" /\ note.pool \in Subs[s] => note.msg.id \in missed'[s]
    BY DEF Publishes
  <2>1. CASE Subscribed(s, note.pool) /\ s \notin lost
    <3>1. channel'[s] = [channel[s] EXCEPT ![note.pool] = Append(channel[s][note.pool], note.msg)]
      BY <1>11, <2>1
    <3>2. missed'[s] = missed[s]
      BY <1>7, <2>1 DEF Subscribed
    <3>3. Crosses(s, note)
      BY <1>8, <1>10, <2>1 DEF Crosses
    <3>4. stage[s] # "down" /\ note.pool \in Subs[s]
      BY <2>1 DEF Subscribed, Follows
    <3> QED
      BY <3>1, <3>2, <3>3, <3>4 DEF Tells
  <2>2. CASE ~(Subscribed(s, note.pool) /\ s \notin lost)
    <3>1. channel'[s] = channel[s]
      BY <1>11, <2>2
    <3>2. crossed[s] \subseteq crossed'[s] /\ missed[s] \subseteq missed'[s]
      BY <1>7, <1>8
    <3>3. stage[s] # "down" /\ note.pool \in Subs[s] => note.msg.id \in missed'[s]
      BY <1>7, <1>10, <2>2 DEF Subscribed, Follows
    <3> QED
      BY <3>1, <3>2, <3>3
  <2> QED
    BY <2>1, <2>2
<1> HIDE DEF y
<1>15. x \in AdminState /\ (x.at = "idle" \/ (x.id = t /\ x.notes \in NotesAbout(t)))
  BY <1>6, StatesAre DEF NoOp, PublishState
<1> HIDE DEF x
<1>16. AdminOK'
  BY <1>2, <1>5, <1>9, <1>15 DEF AdminOK, TypeOK
<1> QED
  BY <1>1, <1>3, <1>4, <1>5, <1>9, <1>10, <1>12, <1>13, <1>14, <1>16 DEF x, y, note, notes, t

(* What an administrator does: begin an operation, go on with one that has *)
(* yet to write, or publish.                                               *)
OtherAdmins(a) == \A b \in Admin \ {a} : admin'[b] = admin[b]
Begins(a, t) ==
    /\ Begin(a, t) /\ OtherAdmins(a)
    /\ admin'[a].at \notin {"idle", "publish"} /\ admin'[a].id = t
    /\ UNCHANGED <<rows, metas, channel>>
GoesOn(a) ==
    /\ admin[a].at \notin {"idle", "publish"} /\ OtherAdmins(a)
    /\ admin'[a] = NoOp \/ (admin'[a].at # "idle" /\ admin'[a].id = admin[a].id)
    /\ UNCHANGED <<channel, overlapped, byName, missed, crossed>>

LEMMA BeginHistory ==
    ASSUME TypeOK, NEW a \in Admin, NEW t \in Tenancy, Begin(a, t), byName' \subseteq Tenancy
    PROVE  HistoryOK'
<1>1. \A b \in Writers : admin[b].id \in Tenancy
  BY DEF Writers, TypeOK, AdminOK
<1> QED
  BY <1>1 DEF Begin, TypeOK, HistoryOK

LEMMA OperationBegins ==
    ASSUME TypeOK, NEW a \in Admin, NEW t \in Tenancy, Operation(a, t)
    PROVE  Begins(a, t) /\ AdminOK' /\ ServersKept /\ HistoryOK' /\ UNCHANGED <<used, byName>>
<1>1. t \in DOMAIN rows /\ (BeginsUpdate(a, t) \/ BeginsEffect(a, t))
  BY OperationIs
<1>2. /\ Begin(a, t) /\ ServersKept /\ UNCHANGED <<rows, metas, channel, byName, used>>
      /\ \E x : /\ x.at \in {"update", "delete", "add_ip", "delete_ip"} /\ x.id = t
                /\ admin' = [admin EXCEPT ![a] = x]
  <2>1. ASSUME NEW f, NEW q, NEW n, Update(a, t, f, q, n)
        PROVE  /\ Begin(a, t) /\ ServersKept /\ UNCHANGED <<rows, metas, channel, byName, used>>
               /\ \E x : /\ x.at \in {"update", "delete", "add_ip", "delete_ip"} /\ x.id = t
                         /\ admin' = [admin EXCEPT ![a] = x]
    <3> DEFINE x == [at |-> "update", id |-> t, fields |-> f, queries |-> q, notes |-> n]
    <3>1. admin' = [admin EXCEPT ![a] = x]
      BY <2>1 DEF Update
    <3>2. x.at = "update" /\ x.id = t
      OBVIOUS
    <3> HIDE DEF x
    <3>3. Begin(a, t) /\ ServersKept /\ UNCHANGED <<rows, metas, channel, byName, used>>
      BY <2>1 DEF Update, tables, managerVars, indexes, ServersKept
    <3> QED
      BY <3>1, <3>2, <3>3
  <2>2. ASSUME NEW kind \in {"delete", "add_ip", "delete_ip"}, NEW n, Effect(a, t, kind, n)
        PROVE  /\ Begin(a, t) /\ ServersKept /\ UNCHANGED <<rows, metas, channel, byName, used>>
               /\ \E x : /\ x.at \in {"update", "delete", "add_ip", "delete_ip"} /\ x.id = t
                         /\ admin' = [admin EXCEPT ![a] = x]
    <3> DEFINE x == [at |-> kind, id |-> t, queries |-> <<>>, notes |-> n]
    <3>1. admin' = [admin EXCEPT ![a] = x]
      BY <2>2 DEF Effect
    <3>2. x.at = kind /\ x.id = t
      OBVIOUS
    <3> HIDE DEF x
    <3>3. Begin(a, t) /\ ServersKept /\ UNCHANGED <<rows, metas, channel, byName, used>>
      BY <2>2 DEF Effect, tables, managerVars, indexes, ServersKept
    <3> QED
      BY <3>1, <3>2, <3>3
  <2> QED
    BY <1>1, <2>1, <2>2 DEF BeginsUpdate, BeginsEffect
<1>3. OtherAdmins(a) /\ admin'[a].at \notin {"idle", "publish"} /\ admin'[a].id = t
  BY <1>2 DEF OtherAdmins, TypeOK, AdminOK
<1>4. HistoryOK'
  BY <1>2, BeginHistory DEF TypeOK, HistoryOK
<1> QED
  BY <1>1, <1>2, <1>3, <1>4, BeginsUpdateType, BeginsEffectType DEF Begins, TypeOK

LEMMA AddBegins ==
    ASSUME TypeOK, NEW a \in Admin, NEW row \in NewRow, NEW by \in {"id", "name"}, Add(a, row, by)
    PROVE  /\ (\E t \in Tenancy : Begins(a, t)) /\ AdminOK' /\ ServersKept /\ HistoryOK'
<1> DEFINE asked == IF by = "id" THEN row.pool ELSE AnyPool
           queries == CheckDuplicatePath(asked, row.path) \o CheckDuplicatePath(asked, row.shadow)
<1>1. PICK t \in Tenancy \ used :
        /\ Begin(a, t)
        /\ byName' = IF by = "id" THEN byName ELSE byName \cup {t}
        /\ admin' = [admin EXCEPT ![a] =
             [at |-> "metas", id |-> t, fields |-> row, queries |-> queries,
              notes |-> <<Notify(t, row.pool)>>]]
  BY DEF Add
<1> HIDE DEF queries
<1> DEFINE x == [at |-> "metas", id |-> t, fields |-> row, queries |-> queries,
                 notes |-> <<Notify(t, row.pool)>>]
<1>2. x.at = "metas" /\ x.id = t
  OBVIOUS
<1> HIDE DEF x
<1>3. admin' = [admin EXCEPT ![a] = x]
  BY <1>1 DEF x
<1>4. OtherAdmins(a) /\ admin'[a].at \notin {"idle", "publish"} /\ admin'[a].id = t
  BY <1>2, <1>3 DEF OtherAdmins, TypeOK, AdminOK
<1>5. ServersKept /\ UNCHANGED <<rows, metas, channel>>
  BY DEF Add, tables, managerVars, indexes, ServersKept
<1>6. byName' \subseteq Tenancy
  BY <1>1 DEF TypeOK, HistoryOK
<1> QED
  BY <1>1, <1>4, <1>5, <1>6, AddType, BeginHistory DEF Begins, TypeOK

(* The steps between the first and the publication.                        *)
Writing(a) ==
    \/ RunQuery(a) \/ ReadMetas(a) \/ ClaimDatabase(a) \/ UpdateRow(a) \/ CreateRow(a)
    \/ DeleteRow(a) \/ CreateIp(a) \/ DeleteIp(a)

LEMMA WritingIs ==
    ASSUME TypeOK, NEW a \in Admin, Writing(a)
    PROVE  DatabaseOK' /\ AdminOK' /\ ServersKept /\ HistoryOK' /\ GoesOn(a) /\ UNCHANGED used
<1> DEFINE X == {x \in AdminState : x = NoOp \/ (x.at # "idle" /\ x.id = admin[a].id)}
<1>1. /\ ServersKept /\ UNCHANGED <<channel, used, overlapped, byName, missed, crossed>>
      /\ admin[a].at \notin {"idle", "publish"}
  BY DEF Writing, RunQuery, ReadMetas, ClaimDatabase, UpdateRow, CreateRow, DeleteRow, CreateIp, DeleteIp,
         history, managerVars, indexes, ServersKept
<1>2. AdminOK' /\ DatabaseOK'
  <2>1. CASE RunQuery(a) \/ ReadMetas(a)
    BY <2>1, RunQueryType, ReadMetasType DEF RunQuery, ReadMetas, tables, DatabaseOK, TypeOK
  <2>2. CASE ~(RunQuery(a) \/ ReadMetas(a))
    BY <2>2, ClaimDatabaseType, UpdateRowType, CreateRowType, DeleteRowType, IpType DEF Writing, TypeOK
  <2> QED
    BY <2>1, <2>2
<1>3. \E x : admin' = [admin EXCEPT ![a] = x]
  BY DEF Writing, RunQuery, ReadMetas, ClaimDatabase, UpdateRow, CreateRow, DeleteRow, CreateIp, DeleteIp,
         ToPublish
<1>4. admin'[a] = NoOp \/ (admin'[a].at # "idle" /\ admin'[a].id = admin[a].id)
  <2>1. admin[a] \in UpdateState \cup AddState \cup EffectState
    BY <1>1, AdminRecord DEF TypeOK
  <2>2. admin \in [Admin -> AdminState]
    BY DEF TypeOK, AdminOK
  <2>3. CASE RunQuery(a)
    <3> DEFINE y == [admin[a] EXCEPT !.queries = Tail(admin[a].queries)]
    <3>1. y.at = admin[a].at /\ y.id = admin[a].id
      BY <2>1 DEF UpdateState, AddState, EffectState
    <3> HIDE DEF y
    <3>2. admin'[a] = NoOp \/ admin'[a] = y
      BY <2>2, <2>3 DEF RunQuery, y
    <3> QED
      BY <1>1, <3>1, <3>2
  <2>4. CASE ReadMetas(a)
    <3> DEFINE y == [admin[a] EXCEPT !.at = "claim"]
    <3>1. y.at = "claim" /\ y.id = admin[a].id
      BY <2>1 DEF UpdateState, AddState, EffectState
    <3> HIDE DEF y
    <3>2. admin'[a] = NoOp \/ admin'[a] = y
      BY <2>2, <2>4 DEF ReadMetas, y
    <3> QED
      BY <3>1, <3>2
  <2>5. CASE ClaimDatabase(a)
    <3> DEFINE y == [admin[a] EXCEPT !.at = "create"]
    <3>1. y.at = "create" /\ y.id = admin[a].id
      BY <2>1 DEF UpdateState, AddState, EffectState
    <3> HIDE DEF y
    <3>2. admin'[a] = y
      BY <2>2, <2>5 DEF ClaimDatabase, y
    <3> QED
      BY <3>1, <3>2
  <2>6. ASSUME ToPublish(a) PROVE admin'[a].at = "publish" /\ admin'[a].id = admin[a].id
    BY <2>2, <2>6 DEF ToPublish
  <2>7. CASE UpdateRow(a) \/ CreateRow(a) \/ DeleteRow(a) \/ CreateIp(a) \/ DeleteIp(a)
    <3>1. ToPublish(a) \/ admin' = [admin EXCEPT ![a] = NoOp]
      BY <2>7 DEF UpdateRow, CreateRow, DeleteRow, CreateIp, DeleteIp
    <3> QED
      BY <2>2, <2>6, <3>1
  <2> QED
    BY <2>3, <2>4, <2>5, <2>7 DEF Writing
<1>5. OtherAdmins(a)
  BY <1>3 DEF OtherAdmins, TypeOK, AdminOK
<1>6. HistoryOK'
  BY <1>1 DEF TypeOK, HistoryOK
<1> QED
  BY <1>1, <1>2, <1>4, <1>5, <1>6 DEF GoesOn

LEMMA AdminStepType ==
    ASSUME TypeOK, NEW a \in Admin, AdminStep(a)
    PROVE  /\ TypeOK' /\ ServersKept
           /\ (\E t \in Tenancy : Begins(a, t)) \/ GoesOn(a) \/ PublishOp(a)
<1>1. AdminOK' /\ DatabaseOK' /\ HistoryOK' /\ ServersKept
        /\ channel' \in [Server -> [Pool -> Seq(Notification)]]
        /\ ((\E t \in Tenancy : Begins(a, t)) \/ GoesOn(a) \/ PublishOp(a))
  <2>1. ASSUME NEW t \in Tenancy, Begins(a, t)
        PROVE  DatabaseOK' /\ channel' \in [Server -> [Pool -> Seq(Notification)]]
    BY <2>1 DEF Begins, TypeOK, DatabaseOK, ServersOK
  <2>2. ASSUME NEW t \in Tenancy, Operation(a, t)
        PROVE  AdminOK' /\ HistoryOK' /\ ServersKept /\ Begins(a, t)
    BY <2>2, OperationBegins
  <2>3. ASSUME NEW row \in NewRow, NEW by \in {"id", "name"}, Add(a, row, by)
        PROVE  AdminOK' /\ HistoryOK' /\ ServersKept /\ \E t \in Tenancy : Begins(a, t)
    BY <2>3, AddBegins
  <2>4. CASE Writing(a)
    <3>1. channel' \in [Server -> [Pool -> Seq(Notification)]]
      BY <2>4, WritingIs DEF GoesOn, TypeOK, ServersOK
    <3> QED
      BY <2>4, <3>1, WritingIs
  <2>5. CASE PublishOp(a)
    <3>1. DatabaseOK'
      BY <2>5, PublishOpIs DEF TypeOK, DatabaseOK
    <3> QED
      BY <2>5, <3>1, PublishOpIs
  <2> QED
    BY <2>1, <2>2, <2>3, <2>4, <2>5 DEF AdminStep, Writing
<1>2. ServersOK'
  BY <1>1 DEF TypeOK, ServersOK, ServersKept
<1> QED
  BY <1>1, <1>2 DEF TypeOK

-----------------------------------------------------------------------------
(* The steps of a server, by what they leave of it.                        *)

SameServer(u) ==
    /\ stage'[u] = stage[u] /\ channel'[u] = channel[u] /\ todo'[u] = todo[u]
    /\ loader'[u] = loader[u] /\ tenanciesById'[u] = tenanciesById[u]
    /\ tenanciesByPath'[u] = tenanciesByPath[u]
    /\ tenanciesByShadowPath'[u] = tenanciesByShadowPath[u] /\ failed'[u] = failed[u]
OthersKept(s) == \A u \in Server \ {s} : SameServer(u)

LEMMA LoaderRecord ==
    ASSUME ServersOK, NEW s \in Server, NEW l \in Loader
    PROVE  /\ loader[s][l].at \in {"idle", "find", "init", "store"}
           /\ loader[s][l].at = "idle" => loader[s][l] = Idle
           /\ loader[s][l].at = "find" => loader[s][l].id \in Tenancy
           /\ loader[s][l].at \in {"init", "store"} =>
                loader[s][l].tenancy \in Object /\ loader[s][l].tenancy.id \in Tenancy
           /\ loader[s][l].at # "idle" => LoadedId(s, l) \in Tenancy
<1>1. loader[s][l] \in LoaderState
  BY DEF ServersOK
<1>2. \A x \in LoaderState : /\ x.at \in {"idle", "find", "init", "store"}
                             /\ x.at = "idle" => x = Idle
                             /\ x.at = "find" => x.id \in Tenancy
                             /\ x.at \in {"init", "store"} => x.tenancy \in Object
  BY DEF LoaderState, Idle
<1>3. \A o \in Object : o.id \in Tenancy
  BY DEF Object
<1> QED
  BY <1>1, <1>2, <1>3 DEF LoadedId

LEMMA LoaderForms ==
    /\ Idle \in LoaderState /\ Idle.at = "idle"
    /\ \A t \in Tenancy : [at |-> "find", id |-> t] \in LoaderState
    /\ \A o \in Object : [at |-> "init", tenancy |-> o] \in LoaderState
    /\ \A o \in Object, b \in BOOLEAN : [at |-> "store", tenancy |-> o, ip |-> b] \in LoaderState
BY DEF LoaderState, Idle

LEMMA ObjectOf ==
    ASSUME DatabaseOK, NEW t \in DOMAIN rows
    PROVE  [id |-> t, row |-> rows[t]] \in Object
BY DEF DatabaseOK, Object

LEMMA ObjectParts ==
    ASSUME NEW o \in Object
    PROVE  /\ o # None /\ o.id \in Tenancy /\ o.row.path \in Path /\ o.row.shadow \in Path
           /\ o.row.db \in Database /\ o.row.pool \in Pool /\ o.row.active \in BOOLEAN
<1>1. o.id \in Tenancy /\ o.row \in Row
  BY DEF Object
<1> QED
  BY <1>1, NamesAssumption DEF Row

(* One load goes on; nothing else changes.                                 *)
LEMMA FindTenancyIs ==
    ASSUME TypeOK, NEW s \in Server, NEW l \in Loader, FindTenancy(s, l)
    PROVE  /\ ServersOK' /\ OthersKept(s)
           /\ loader[s][l].at = "find" /\ loader[s][l].id \in DOMAIN rows
           /\ loader'[s] = [loader[s] EXCEPT ![l] = [at |-> "init", tenancy |->
                              [id |-> loader[s][l].id, row |-> rows[loader[s][l].id]]]]
           /\ UNCHANGED <<stage, channel, todo, tenanciesById, tenanciesByPath,
                          tenanciesByShadowPath, failed>>
<1> DEFINE x == [at |-> "init", tenancy |-> [id |-> loader[s][l].id, row |-> rows[loader[s][l].id]]]
<1>1. loader[s][l].id \in DOMAIN rows /\ loader' = [loader EXCEPT ![s][l] = x]
        /\ UNCHANGED <<stage, channel, todo, indexes, failed>>
  BY DEF FindTenancy
<1>2. x \in LoaderState
  BY <1>1, ObjectOf, LoaderForms DEF TypeOK
<1> HIDE DEF x
<1>3. loader' \in [Server -> [Loader -> LoaderState]] /\ loader'[s] = [loader[s] EXCEPT ![l] = x]
        /\ \A u \in Server \ {s} : loader'[u] = loader[u]
  BY <1>1, <1>2 DEF TypeOK, ServersOK
<1> QED
  BY <1>1, <1>3 DEF TypeOK, ServersOK, OthersKept, SameServer, indexes, FindTenancy, x

LEMMA InitLoadedIs ==
    ASSUME TypeOK, NEW s \in Server, NEW l \in Loader, InitLoaded(s, l)
    PROVE  /\ ServersOK' /\ OthersKept(s)
           /\ loader[s][l].at = "init" /\ InitTenancy(loader[s][l].tenancy)
           /\ \E b \in BOOLEAN : loader'[s] =
                [loader[s] EXCEPT ![l] = [at |-> "store", tenancy |-> loader[s][l].tenancy, ip |-> b]]
           /\ UNCHANGED <<stage, channel, todo, tenanciesById, tenanciesByPath,
                          tenanciesByShadowPath, failed>>
<1>1. HasAddress(loader[s][l].tenancy.id) \in BOOLEAN
  BY DEF HasAddress
<1>2. PICK b \in {HasAddress(loader[s][l].tenancy.id), FALSE} :
        loader' = [loader EXCEPT ![s][l] = [at |-> "store", tenancy |-> loader[s][l].tenancy, ip |-> b]]
  BY Zenon DEF InitLoaded
<1> DEFINE x == [at |-> "store", tenancy |-> loader[s][l].tenancy, ip |-> b]
<1>3. x \in LoaderState
  <2>1. loader[s][l].tenancy \in Object /\ b \in BOOLEAN
    BY <1>1, <1>2, LoaderRecord DEF TypeOK, InitLoaded
  <2> QED
    BY <2>1, LoaderForms
<1> HIDE DEF x
<1>4. loader' \in [Server -> [Loader -> LoaderState]] /\ loader'[s] = [loader[s] EXCEPT ![l] = x]
        /\ \A u \in Server \ {s} : loader'[u] = loader[u]
  BY <1>2, <1>3 DEF TypeOK, ServersOK, x
<1>5. UNCHANGED <<stage, channel, todo, tenanciesById, tenanciesByPath, tenanciesByShadowPath, failed>>
        /\ loader[s][l].at = "init" /\ InitTenancy(loader[s][l].tenancy)
  BY DEF InitLoaded, indexes
<1>6. ServersOK' /\ OthersKept(s)
  BY <1>4, <1>5 DEF TypeOK, ServersOK, OthersKept, SameServer
<1> QED
  BY <1>1, <1>2, <1>4, <1>5, <1>6 DEF x

LEMMA FindMissingIs ==
    ASSUME TypeOK, NEW s \in Server, NEW l \in Loader, FindMissing(s, l)
    PROVE  /\ ServersOK' /\ OthersKept(s)
           /\ loader[s][l].at = "find" /\ loader[s][l].id \notin DOMAIN rows
           /\ loader'[s] = [loader[s] EXCEPT ![l] = Idle]
           /\ UNCHANGED <<stage, channel, todo, tenanciesById, tenanciesByPath,
                          tenanciesByShadowPath, failed>>
<1>1. loader' = [loader EXCEPT ![s][l] = Idle]
        /\ UNCHANGED <<stage, channel, todo, indexes, failed>>
  BY DEF FindMissing
<1>2. loader' \in [Server -> [Loader -> LoaderState]] /\ loader'[s] = [loader[s] EXCEPT ![l] = Idle]
        /\ \A u \in Server \ {s} : loader'[u] = loader[u]
  BY <1>1, LoaderForms DEF TypeOK, ServersOK
<1> QED
  BY <1>1, <1>2 DEF TypeOK, ServersOK, OthersKept, SameServer, indexes, FindMissing

LEMMA StoreLoadedIs ==
    ASSUME TypeOK, NEW s \in Server, NEW l \in Loader, StoreLoaded(s, l)
    PROVE  /\ ServersOK' /\ OthersKept(s)
           /\ loader[s][l].at = "store" /\ loader[s][l].tenancy \in Object
           /\ loader'[s] = [loader[s] EXCEPT ![l] = Idle]
           /\ tenanciesById'[s] = [tenanciesById[s] EXCEPT ![loader[s][l].tenancy.id] = loader[s][l].tenancy]
           /\ tenanciesByPath'[s] =
                [tenanciesByPath[s] EXCEPT ![loader[s][l].tenancy.row.path] = loader[s][l].tenancy]
           /\ tenanciesByShadowPath'[s] =
                [tenanciesByShadowPath[s] EXCEPT ![loader[s][l].tenancy.row.shadow] = loader[s][l].tenancy]
           /\ failed'[s] = failed[s] \ {loader[s][l].tenancy.id}
           /\ UNCHANGED <<stage, channel, todo>>
<1> DEFINE o == loader[s][l].tenancy
<1>1. loader[s][l].at = "store" /\ o \in Object
  BY LoaderRecord DEF TypeOK, StoreLoaded
<1>2. o.id \in Tenancy /\ o.row.path \in Path /\ o.row.shadow \in Path
  BY <1>1, ObjectParts
<1>3. /\ loader' = [loader EXCEPT ![s][l] = Idle]
      /\ failed' = [failed EXCEPT ![s] = failed[s] \ {o.id}]
      /\ tenanciesById' = [tenanciesById EXCEPT ![s][o.id] = o]
      /\ tenanciesByPath' = [tenanciesByPath EXCEPT ![s][o.row.path] = o]
      /\ tenanciesByShadowPath' = [tenanciesByShadowPath EXCEPT ![s][o.row.shadow] = o]
      /\ UNCHANGED <<stage, channel, todo>>
  BY DEF StoreLoaded, KeepTenancy
<1> HIDE DEF o
<1>4. loader' \in [Server -> [Loader -> LoaderState]] /\ loader'[s] = [loader[s] EXCEPT ![l] = Idle]
        /\ \A u \in Server \ {s} : loader'[u] = loader[u]
  BY <1>3, LoaderForms DEF TypeOK, ServersOK
<1>5. tenanciesById' \in [Server -> [Tenancy -> Object \cup {None}]]
        /\ tenanciesById'[s] = [tenanciesById[s] EXCEPT ![o.id] = o]
        /\ \A u \in Server \ {s} : tenanciesById'[u] = tenanciesById[u]
  BY <1>1, <1>2, <1>3 DEF TypeOK, ServersOK
<1>6. tenanciesByPath' \in [Server -> [Path -> Object \cup {None}]]
        /\ tenanciesByPath'[s] = [tenanciesByPath[s] EXCEPT ![o.row.path] = o]
        /\ \A u \in Server \ {s} : tenanciesByPath'[u] = tenanciesByPath[u]
  BY <1>1, <1>2, <1>3 DEF TypeOK, ServersOK
<1>7. tenanciesByShadowPath' \in [Server -> [Path -> Object \cup {None}]]
        /\ tenanciesByShadowPath'[s] = [tenanciesByShadowPath[s] EXCEPT ![o.row.shadow] = o]
        /\ \A u \in Server \ {s} : tenanciesByShadowPath'[u] = tenanciesByShadowPath[u]
  BY <1>1, <1>2, <1>3 DEF TypeOK, ServersOK
<1>8. failed' \in [Server -> SUBSET Tenancy] /\ failed'[s] = failed[s] \ {o.id}
        /\ \A u \in Server \ {s} : failed'[u] = failed[u]
  BY <1>3 DEF TypeOK, ServersOK
<1>9. ServersOK'
  BY <1>3, <1>4, <1>5, <1>6, <1>7, <1>8 DEF TypeOK, ServersOK
<1>10. OthersKept(s)
  BY <1>3, <1>4, <1>5, <1>6, <1>7, <1>8 DEF OthersKept, SameServer
<1> QED
  BY <1>1, <1>3, <1>4, <1>5, <1>6, <1>7, <1>8, <1>9, <1>10 DEF o

LEMMA LoadFailsIs ==
    ASSUME TypeOK, NEW s \in Server, NEW l \in Pool, LoadFails(s, l)
    PROVE  /\ ServersOK' /\ OthersKept(s)
           /\ loader[s][l].at = "init" /\ loader[s][l].tenancy.id \in Tenancy
           /\ loader'[s] = [loader[s] EXCEPT ![l] = Idle]
           /\ failed'[s] = failed[s] \cup {loader[s][l].tenancy.id}
           /\ UNCHANGED <<stage, channel, todo, tenanciesById, tenanciesByPath, tenanciesByShadowPath>>
<1>1. loader[s][l].at = "init" /\ loader[s][l].tenancy.id \in Tenancy /\ l \in Loader
  BY LoaderRecord DEF TypeOK, LoadFails, InitFails, Loader
<1>2. loader' \in [Server -> [Loader -> LoaderState]] /\ loader'[s] = [loader[s] EXCEPT ![l] = Idle]
        /\ \A u \in Server \ {s} : loader'[u] = loader[u]
  BY <1>1, LoaderForms DEF LoadFails, TypeOK, ServersOK
<1>3. failed' \in [Server -> SUBSET Tenancy] /\ failed'[s] = failed[s] \cup {loader[s][l].tenancy.id}
        /\ \A u \in Server \ {s} : failed'[u] = failed[u]
  BY <1>1 DEF LoadFails, TypeOK, ServersOK
<1>4. UNCHANGED <<stage, channel, todo, tenanciesById, tenanciesByPath, tenanciesByShadowPath>>
  BY DEF LoadFails, indexes
<1>5. ServersOK'
  BY <1>2, <1>3, <1>4 DEF TypeOK, ServersOK
<1>6. OthersKept(s)
  BY <1>2, <1>3, <1>4 DEF OthersKept, SameServer
<1> QED
  BY <1>1, <1>2, <1>3, <1>4, <1>5, <1>6

(* An unloaded tenancy is gone, with the entries of its object.            *)
LEMMA UnloadTenancyIs ==
    ASSUME ServersOK, NEW s \in Server, NEW t \in Tenancy, UnloadTenancy(s, t)
    PROVE  /\ tenanciesById' \in [Server -> [Tenancy -> Object \cup {None}]]
           /\ tenanciesByPath' \in [Server -> [Path -> Object \cup {None}]]
           /\ tenanciesByShadowPath' \in [Server -> [Path -> Object \cup {None}]]
           /\ \A u \in Server \ {s} : /\ tenanciesById'[u] = tenanciesById[u]
                                      /\ tenanciesByPath'[u] = tenanciesByPath[u]
                                      /\ tenanciesByShadowPath'[u] = tenanciesByShadowPath[u]
           /\ \A x \in Tenancy : tenanciesById'[s][x] = IF x = t THEN None ELSE tenanciesById[s][x]
           /\ \A p \in Path :
                /\ tenanciesByPath'[s][p] =
                     IF tenanciesById[s][t] # None /\ p = tenanciesById[s][t].row.path THEN None
                     ELSE tenanciesByPath[s][p]
                /\ tenanciesByShadowPath'[s][p] =
                     IF tenanciesById[s][t] # None /\ p = tenanciesById[s][t].row.shadow THEN None
                     ELSE tenanciesByShadowPath[s][p]
<1> DEFINE o == tenanciesById[s][t]
<1>1. CASE o = None
  BY <1>1 DEF UnloadTenancy, indexes, ServersOK
<1>2. CASE o # None
  <2>1. o \in Object
    BY <1>2 DEF ServersOK
  <2>2. o.row.path \in Path /\ o.row.shadow \in Path
    BY <2>1, ObjectParts
  <2>3. /\ tenanciesById' = [tenanciesById EXCEPT ![s][t] = None]
        /\ tenanciesByPath' = [tenanciesByPath EXCEPT ![s][o.row.path] = None]
        /\ tenanciesByShadowPath' = [tenanciesByShadowPath EXCEPT ![s][o.row.shadow] = None]
    BY <1>2 DEF UnloadTenancy
  <2> QED
    BY <1>2, <2>2, <2>3 DEF ServersOK
<1> QED
  BY <1>1, <1>2

LEMMA HandleIs ==
    ASSUME TypeOK, NEW s \in Server, NEW p \in Pool, Handle(s, p)
    PROVE  /\ ServersOK' /\ OthersKept(s)
           /\ loader[s][p] = Idle /\ channel[s][p] # <<>> /\ Head(channel[s][p]) \in Notification
           /\ channel'[s] = [channel[s] EXCEPT ![p] = Tail(channel[s][p])]
           /\ UnloadTenancy(s, Head(channel[s][p]).id)
           /\ loader'[s] = [loader[s] EXCEPT ![p] = IF Head(channel[s][p]).delete THEN Idle
                              ELSE [at |-> "find", id |-> Head(channel[s][p]).id]]
           /\ failed'[s] = failed[s] \ {Head(channel[s][p]).id}
           /\ UNCHANGED <<stage, todo>>
<1> DEFINE msg == Head(channel[s][p])
<1>1. p \in Loader /\ channel[s][p] \in Seq(Notification) /\ channel[s][p] # <<>> /\ loader[s][p] = Idle
  BY DEF Handle, TypeOK, ServersOK, Loader
<1>2. msg \in Notification /\ Tail(channel[s][p]) \in Seq(Notification)
  BY <1>1
<1>3. msg.id \in Tenancy
  BY <1>2 DEF Notification
<1> DEFINE x == IF msg.delete THEN Idle ELSE [at |-> "find", id |-> msg.id]
<1>4. x \in LoaderState
  BY <1>3, LoaderForms
<1>5. /\ loader' = [loader EXCEPT ![s][p] = x]
      /\ channel' = [channel EXCEPT ![s][p] = Tail(channel[s][p])]
      /\ failed' = [failed EXCEPT ![s] = failed[s] \ {msg.id}]
      /\ UnloadTenancy(s, msg.id)
      /\ UNCHANGED <<stage, todo>>
  BY DEF Handle
<1> HIDE DEF x, msg
<1>6. loader' \in [Server -> [Loader -> LoaderState]] /\ loader'[s] = [loader[s] EXCEPT ![p] = x]
        /\ \A u \in Server \ {s} : loader'[u] = loader[u]
  BY <1>1, <1>4, <1>5 DEF TypeOK, ServersOK
<1>7. channel' \in [Server -> [Pool -> Seq(Notification)]]
        /\ channel'[s] = [channel[s] EXCEPT ![p] = Tail(channel[s][p])]
        /\ \A u \in Server \ {s} : channel'[u] = channel[u]
  BY <1>2, <1>5 DEF TypeOK, ServersOK
<1>8. failed' \in [Server -> SUBSET Tenancy] /\ failed'[s] = failed[s] \ {msg.id}
        /\ \A u \in Server \ {s} : failed'[u] = failed[u]
  BY <1>5 DEF TypeOK, ServersOK
<1>9. /\ tenanciesById' \in [Server -> [Tenancy -> Object \cup {None}]]
      /\ tenanciesByPath' \in [Server -> [Path -> Object \cup {None}]]
      /\ tenanciesByShadowPath' \in [Server -> [Path -> Object \cup {None}]]
      /\ \A u \in Server \ {s} : /\ tenanciesById'[u] = tenanciesById[u]
                                 /\ tenanciesByPath'[u] = tenanciesByPath[u]
                                 /\ tenanciesByShadowPath'[u] = tenanciesByShadowPath[u]
  BY <1>3, <1>5, UnloadTenancyIs DEF TypeOK
<1>10. ServersOK'
  BY <1>5, <1>6, <1>7, <1>8, <1>9 DEF TypeOK, ServersOK
<1>11. OthersKept(s)
  BY <1>5, <1>6, <1>7, <1>8, <1>9 DEF OthersKept, SameServer
<1> QED
  BY <1>1, <1>2, <1>5, <1>6, <1>7, <1>8, <1>10, <1>11 DEF x, msg

LEMMA EmptyIndexesIs ==
    ASSUME ServersOK, NEW s \in Server, EmptyIndexes(s)
    PROVE  /\ tenanciesById' \in [Server -> [Tenancy -> Object \cup {None}]]
           /\ tenanciesByPath' \in [Server -> [Path -> Object \cup {None}]]
           /\ tenanciesByShadowPath' \in [Server -> [Path -> Object \cup {None}]]
           /\ \A u \in Server \ {s} : /\ tenanciesById'[u] = tenanciesById[u]
                                      /\ tenanciesByPath'[u] = tenanciesByPath[u]
                                      /\ tenanciesByShadowPath'[u] = tenanciesByShadowPath[u]
           /\ \A t \in Tenancy : tenanciesById'[s][t] = None
           /\ \A p \in Path : tenanciesByPath'[s][p] = None /\ tenanciesByShadowPath'[s][p] = None
BY DEF EmptyIndexes, ServersOK

LEMMA StartIs ==
    ASSUME TypeOK, NEW s \in Server, Start(s)
    PROVE  /\ ServersOK' /\ OthersKept(s)
           /\ stage[s] = "down" /\ stage'[s] = "subscribed"
           /\ crossed'[s] = {t \in Tenancy : About(t) # {}} /\ missed'[s] = missed[s]
           /\ \A l \in Loader : loader'[s][l] = Idle
           /\ \A t \in Tenancy : tenanciesById'[s][t] = None
           /\ \A p \in Path : tenanciesByPath'[s][p] = None /\ tenanciesByShadowPath'[s][p] = None
           /\ UNCHANGED <<channel, todo>>
<1>1. /\ stage[s] = "down" /\ stage' = [stage EXCEPT ![s] = "subscribed"]
      /\ EmptyIndexes(s)
      /\ loader' = [loader EXCEPT ![s] = [l \in Loader |-> Idle]]
      /\ failed' = [failed EXCEPT ![s] = {}]
      /\ UNCHANGED <<channel, todo>>
  BY DEF Start, Subscribe
<1>2. /\ stage' \in [Server -> {"down", "subscribed", "loading", "up"}]
      /\ loader' \in [Server -> [Loader -> LoaderState]]
      /\ failed' \in [Server -> SUBSET Tenancy]
  BY <1>1, LoaderForms DEF TypeOK, ServersOK
<1>3. stage'[s] = "subscribed" /\ \A l \in Loader : loader'[s][l] = Idle
  BY <1>1 DEF TypeOK, ServersOK
<1>4. \A u \in Server \ {s} : stage'[u] = stage[u] /\ loader'[u] = loader[u] /\ failed'[u] = failed[u]
  BY <1>1 DEF TypeOK, ServersOK
<1>5. /\ tenanciesById' \in [Server -> [Tenancy -> Object \cup {None}]]
      /\ tenanciesByPath' \in [Server -> [Path -> Object \cup {None}]]
      /\ tenanciesByShadowPath' \in [Server -> [Path -> Object \cup {None}]]
      /\ \A u \in Server \ {s} : /\ tenanciesById'[u] = tenanciesById[u]
                                 /\ tenanciesByPath'[u] = tenanciesByPath[u]
                                 /\ tenanciesByShadowPath'[u] = tenanciesByShadowPath[u]
      /\ \A t \in Tenancy : tenanciesById'[s][t] = None
      /\ \A p \in Path : tenanciesByPath'[s][p] = None /\ tenanciesByShadowPath'[s][p] = None
  BY <1>1, EmptyIndexesIs DEF TypeOK
<1>6. ServersOK'
  BY <1>1, <1>2, <1>5 DEF TypeOK, ServersOK
<1>7. OthersKept(s)
  BY <1>1, <1>4, <1>5 DEF OthersKept, SameServer
<1>8. crossed'[s] = {t \in Tenancy : About(t) # {}} /\ missed'[s] = missed[s]
  BY DEF Start, TypeOK, HistoryOK
<1> QED
  BY <1>1, <1>3, <1>5, <1>6, <1>7, <1>8

LEMMA ListTenanciesIs ==
    ASSUME TypeOK, NEW s \in Server, ListTenancies(s)
    PROVE  /\ ServersOK' /\ OthersKept(s)
           /\ stage[s] = "subscribed" /\ stage'[s] = "loading"
           /\ todo'[s] = {[id |-> t, row |-> rows[t]] : t \in {u \in DOMAIN rows : rows[u].pool \in Subs[s]}}
           /\ UNCHANGED <<channel, loader, tenanciesById, tenanciesByPath, tenanciesByShadowPath, failed>>
<1> DEFINE x == {[id |-> t, row |-> rows[t]] : t \in {u \in DOMAIN rows : rows[u].pool \in Subs[s]}}
<1>1. stage[s] = "subscribed" /\ stage' = [stage EXCEPT ![s] = "loading"]
        /\ todo' = [todo EXCEPT ![s] = x] /\ UNCHANGED <<channel, loader, indexes, failed>>
  BY DEF ListTenancies
<1>2. x \in SUBSET Object
  BY ObjectOf DEF TypeOK
<1> HIDE DEF x
<1>3. /\ stage' \in [Server -> {"down", "subscribed", "loading", "up"}]
      /\ todo' \in [Server -> SUBSET Object]
      /\ stage'[s] = "loading" /\ todo'[s] = x
      /\ \A u \in Server \ {s} : stage'[u] = stage[u] /\ todo'[u] = todo[u]
  BY <1>1, <1>2 DEF TypeOK, ServersOK
<1> QED
  BY <1>1, <1>3 DEF TypeOK, ServersOK, OthersKept, SameServer, indexes, x

LEMMA LoadNextIs ==
    ASSUME TypeOK, NEW s \in Server, LoadNext(s)
    PROVE  /\ ServersOK' /\ OthersKept(s)
           /\ stage[s] = "loading" /\ loader[s][Boot] = Idle
           /\ \E o \in todo[s] : /\ o \in Object
                                 /\ todo'[s] = todo[s] \ {o}
                                 /\ loader'[s] = [loader[s] EXCEPT ![Boot] = [at |-> "init", tenancy |-> o]]
           /\ UNCHANGED <<channel, stage, tenanciesById, tenanciesByPath, tenanciesByShadowPath, failed>>
<1>1. PICK o \in todo[s] : /\ todo' = [todo EXCEPT ![s] = todo[s] \ {o}]
                           /\ loader' = [loader EXCEPT ![s][Boot] = [at |-> "init", tenancy |-> o]]
  BY DEF LoadNext
<1>2. o \in Object /\ Boot \in Loader
  BY DEF TypeOK, ServersOK, Loader
<1> DEFINE x == [at |-> "init", tenancy |-> o]
<1>3. x \in LoaderState
  BY <1>2, LoaderForms
<1> HIDE DEF x
<1>4. /\ loader' \in [Server -> [Loader -> LoaderState]]
      /\ todo' \in [Server -> SUBSET Object]
      /\ loader'[s] = [loader[s] EXCEPT ![Boot] = x] /\ todo'[s] = todo[s] \ {o}
      /\ \A u \in Server \ {s} : loader'[u] = loader[u] /\ todo'[u] = todo[u]
  BY <1>1, <1>2, <1>3 DEF TypeOK, ServersOK, x
<1>5. /\ stage[s] = "loading" /\ loader[s][Boot] = Idle
      /\ UNCHANGED <<channel, stage, tenanciesById, tenanciesByPath, tenanciesByShadowPath, failed>>
  BY DEF LoadNext, indexes
<1>6. ServersOK' /\ OthersKept(s)
  BY <1>4, <1>5 DEF TypeOK, ServersOK, OthersKept, SameServer
<1> QED
  BY <1>2, <1>4, <1>5, <1>6 DEF x

LEMMA InitDoneIs ==
    ASSUME TypeOK, NEW s \in Server, InitDone(s)
    PROVE  /\ ServersOK' /\ OthersKept(s)
           /\ stage[s] = "loading" /\ todo[s] = {} /\ loader[s][Boot] = Idle /\ stage'[s] = "up"
           /\ UNCHANGED <<channel, todo, loader, tenanciesById, tenanciesByPath,
                          tenanciesByShadowPath, failed>>
BY DEF InitDone, indexes, TypeOK, ServersOK, OthersKept, SameServer

(* A server that stops has nothing left but loads that nobody waits for.   *)
LEMMA StopIs ==
    ASSUME TypeOK, NEW s \in Server, Stop(s)
    PROVE  /\ ServersOK' /\ OthersKept(s)
           /\ stage'[s] = "down"
           /\ missed'[s] = {} /\ crossed'[s] = {}
           /\ \A p \in Pool : channel'[s][p] = <<>>
           /\ \A t \in Tenancy : tenanciesById'[s][t] = None
           /\ \A p \in Path : tenanciesByPath'[s][p] = None /\ tenanciesByShadowPath'[s][p] = None
           /\ \/ stage[s] = "up" /\ loader'[s] = loader[s] /\ todo'[s] = todo[s]
              \/ todo'[s] = {} /\ \A l \in Loader : loader'[s][l] = Idle
<1>1. /\ stage' = [stage EXCEPT ![s] = "down"]
      /\ EmptyIndexes(s)
      /\ channel' = [channel EXCEPT ![s] = [p \in Pool |-> <<>>]]
      /\ \/ stage[s] = "up" /\ UNCHANGED <<todo, loader, failed>>
         \/ /\ todo' = [todo EXCEPT ![s] = {}]
            /\ loader' = [loader EXCEPT ![s] = [l \in Loader |-> Idle]]
            /\ failed' = [failed EXCEPT ![s] = {}]
  BY DEF Stop, Close, BootFails
<1>2. [p \in Pool |-> <<>>] \in [Pool -> Seq(Notification)]
  OBVIOUS
<1>3. /\ stage' \in [Server -> {"down", "subscribed", "loading", "up"}]
      /\ channel' \in [Server -> [Pool -> Seq(Notification)]]
      /\ stage'[s] = "down" /\ \A p \in Pool : channel'[s][p] = <<>>
      /\ \A u \in Server \ {s} : stage'[u] = stage[u] /\ channel'[u] = channel[u]
  BY <1>1, <1>2 DEF TypeOK, ServersOK
<1>4. /\ tenanciesById' \in [Server -> [Tenancy -> Object \cup {None}]]
      /\ tenanciesByPath' \in [Server -> [Path -> Object \cup {None}]]
      /\ tenanciesByShadowPath' \in [Server -> [Path -> Object \cup {None}]]
      /\ \A u \in Server \ {s} : /\ tenanciesById'[u] = tenanciesById[u]
                                 /\ tenanciesByPath'[u] = tenanciesByPath[u]
                                 /\ tenanciesByShadowPath'[u] = tenanciesByShadowPath[u]
      /\ \A t \in Tenancy : tenanciesById'[s][t] = None
      /\ \A p \in Path : tenanciesByPath'[s][p] = None /\ tenanciesByShadowPath'[s][p] = None
  BY <1>1, EmptyIndexesIs DEF TypeOK
<1>5. /\ todo' \in [Server -> SUBSET Object]
      /\ loader' \in [Server -> [Loader -> LoaderState]]
      /\ failed' \in [Server -> SUBSET Tenancy]
      /\ \A u \in Server \ {s} : todo'[u] = todo[u] /\ loader'[u] = loader[u] /\ failed'[u] = failed[u]
      /\ \/ stage[s] = "up" /\ loader'[s] = loader[s] /\ todo'[s] = todo[s]
         \/ todo'[s] = {} /\ \A l \in Loader : loader'[s][l] = Idle
  <2>1. CASE stage[s] = "up" /\ UNCHANGED <<todo, loader, failed>>
    BY <2>1 DEF TypeOK, ServersOK
  <2>2. CASE /\ todo' = [todo EXCEPT ![s] = {}]
             /\ loader' = [loader EXCEPT ![s] = [l \in Loader |-> Idle]]
             /\ failed' = [failed EXCEPT ![s] = {}]
    BY <2>2, LoaderForms DEF TypeOK, ServersOK
  <2> QED
    BY <1>1, <2>1, <2>2
<1>6. ServersOK'
  BY <1>3, <1>4, <1>5 DEF TypeOK, ServersOK
<1>7. OthersKept(s)
  BY <1>3, <1>4, <1>5 DEF OthersKept, SameServer
<1>8. missed'[s] = {} /\ crossed'[s] = {}
  BY DEF Stop, TypeOK, HistoryOK
<1> QED
  BY <1>3, <1>4, <1>5, <1>6, <1>7, <1>8

HistoryElsewhere(s) ==
    /\ UNCHANGED <<overlapped, byName>>
    /\ \A u \in Server \ {s} : missed'[u] = missed[u] /\ crossed'[u] = crossed[u]

LEMMA ServerStepType ==
    ASSUME TypeOK, NEW s \in Server, ServerStep(s), UNCHANGED <<tables, adminVars>>
    PROVE  /\ TypeOK' /\ OthersKept(s) /\ HistoryElsewhere(s) /\ UNCHANGED <<rows, metas, admin, used>>
           /\ Run(s) => UNCHANGED <<missed, crossed>>
<1>1. UNCHANGED <<rows, metas, admin, used>>
  BY DEF tables, adminVars
<1>2. DatabaseOK' /\ AdminOK'
  BY <1>1 DEF TypeOK, DatabaseOK, AdminOK
<1>3. ServersOK' /\ OthersKept(s)
  <2>1. ASSUME NEW l \in Loader, LoaderStep(s, l) PROVE ServersOK' /\ OthersKept(s)
    BY <2>1, FindTenancyIs, FindMissingIs, InitLoadedIs, StoreLoadedIs DEF LoaderStep
  <2>2. ASSUME NEW p \in Pool, LoadFails(s, p) \/ Handle(s, p) PROVE ServersOK' /\ OthersKept(s)
    BY <2>2, HandleIs, LoadFailsIs
  <2> QED
    BY <2>1, <2>2, StartIs, ListTenanciesIs, LoadNextIs, InitDoneIs, StopIs DEF ServerStep, Run
<1>4. HistoryOK' /\ HistoryElsewhere(s)
  <2>1. CASE Start(s)
    BY <2>1 DEF Start, TypeOK, HistoryOK, HistoryElsewhere
  <2>2. CASE Stop(s)
    BY <2>2 DEF Stop, TypeOK, HistoryOK, HistoryElsewhere
  <2>3. CASE Run(s)
    BY <2>3 DEF Run, history, TypeOK, HistoryOK, HistoryElsewhere
  <2> QED
    BY <2>1, <2>2, <2>3 DEF ServerStep
<1>5. Run(s) => UNCHANGED <<missed, crossed>>
  BY DEF Run, history
<1> QED
  BY <1>1, <1>2, <1>3, <1>4, <1>5 DEF TypeOK

LEMMA NewRowsAreRows == NewRow \subseteq Row
BY NamesAssumption DEF NewRow, Row

LEMMA InitType == Init => TypeOK
<1> SUFFICES ASSUME Init PROVE TypeOK
  OBVIOUS
<1>1. rows \in [Existing -> NewRow] /\ Existing \subseteq Tenancy
  BY ControllerAssumption DEF Init
<1>2. DOMAIN rows = Existing /\ rows \in [Existing -> Row]
  BY <1>1, NewRowsAreRows
<1>3. DatabaseOK
  BY <1>1, <1>2 DEF DatabaseOK, Init
<1>4. NoOp \in AdminState /\ NoOp.at = "idle"
  BY StatesAre DEF NoOp
<1>5. AdminOK
  BY <1>1, <1>2, <1>4 DEF AdminOK, Init
<1>6. [p \in Pool |-> <<>>] \in [Pool -> Seq(Notification)]
  OBVIOUS
<1>7. ServersOK
  BY <1>6, LoaderForms DEF ServersOK, Init, ManagerInit
<1>8. HistoryOK
  BY DEF HistoryOK, Init
<1> QED
  BY <1>3, <1>5, <1>7, <1>8 DEF TypeOK

LEMMA StutterType ==
    ASSUME TypeOK, UNCHANGED vars
    PROVE  TypeOK'
BY DEF TypeOK, vars, tables, managerVars, indexes, adminVars, history, DatabaseOK, AdminOK, ServersOK,
       HistoryOK

(* The tables, the operations in progress and the servers are well formed. *)
THEOREM TenancyTypes == Spec => []TypeOK
<1>1. TypeOK /\ [Next]_vars => TypeOK'
  BY AdminStepType, ServerStepType, StutterType DEF Next
<1> QED
  BY InitType, <1>1, PTL DEF Spec

-----------------------------------------------------------------------------
(* The indexes refer to cached objects.                                    *)

(* What holds whatever is under way.                                       *)
ServerOK(s) ==
    /\ stage[s] = "down" => \A p \in Pool : channel[s][p] = <<>>
    /\ stage[s] # "loading" => loader[s][Boot] = Idle
    /\ stage[s] = "loading" => \A o, q \in todo[s] : o.id = q.id => o = q
CachedById(s) ==
    \A t \in Tenancy : tenanciesById[s][t] # None => tenanciesById[s][t].id = t

(* A tenancy that is not crossed is the business of Init alone while the   *)
(* server starts, and then of one reader at a time.                        *)
OneReader(s, t) ==
    /\ stage[s] \in {"subscribed", "loading"} =>
         About(t) = {} /\ \A p \in Pool : ~Works(s, p, t)
    /\ \A p, q \in Pool : Works(s, p, t) /\ Works(s, q, t) => p = q

(* What is listed or being loaded is not in the indexes.                   *)
LoadsAbsent(s, t) ==
    /\ stage[s] = "subscribed" => tenanciesById[s][t] = None
    /\ stage[s] = "loading" => \A o \in todo[s] : o.id = t =>
         tenanciesById[s][t] = None /\ ~Loading(s, Boot, t)
    /\ \A l \in Loader : Loading(s, l, t) => tenanciesById[s][t] = None

(* The indexes refer to the object that is cached by id.                   *)
IndexOK(s, t) ==
    \A p \in Path :
       /\ LET object == tenanciesByPath[s][p] IN
          object # None /\ object.id = t => object.row.path = p /\ tenanciesById[s][t] = object
       /\ LET object == tenanciesByShadowPath[s][p] IN
          object # None /\ object.id = t => object.row.shadow = p /\ tenanciesById[s][t] = object

PathOK(s, t) == OneReader(s, t) /\ LoadsAbsent(s, t) /\ IndexOK(s, t)
PathInv ==
    \A s \in Server :
       /\ ServerOK(s) /\ CachedById(s)
       /\ stage[s] # "down" => \A t \in Tenancy \ crossed[s] : PathOK(s, t)

(* Only a beginning operation is new to its tenancy.                       *)
LEMMA AboutShrinks ==
    ASSUME TypeOK, NEW a \in Admin, NEW t \in Tenancy,
           OtherAdmins(a), admin'[a] = NoOp \/ admin'[a].id # t \/ (admin[a] # NoOp /\ admin[a].id = t)
    PROVE  About(t)' \subseteq About(t)
BY DEF About, OtherAdmins

LEMMA PublishKeepsId ==
    ASSUME TypeOK, NEW a \in Admin, PublishOp(a)
    PROVE  /\ OtherAdmins(a) /\ admin[a].at = "publish" /\ admin[a] # NoOp
           /\ admin[a].id \in Tenancy
           /\ \/ Len(admin[a].notes) = 1 /\ admin'[a] = NoOp
              \/ /\ admin'[a].at = "publish" /\ admin'[a].id = admin[a].id
                 /\ Len(admin[a].notes) # 1 /\ admin'[a].notes = Tail(admin[a].notes)
<1>1. admin[a] \in PublishState
      /\ admin' = [admin EXCEPT ![a] = IF Len(admin[a].notes) = 1 THEN NoOp
                     ELSE [at |-> "publish", id |-> admin[a].id, notes |-> Tail(admin[a].notes)]]
  BY PublishOpIs
<1>2. admin \in [Admin -> AdminState]
  BY DEF TypeOK, AdminOK
<1>3. admin'[a] = IF Len(admin[a].notes) = 1 THEN NoOp
                  ELSE [at |-> "publish", id |-> admin[a].id, notes |-> Tail(admin[a].notes)]
  BY <1>1, <1>2
<1>4. OtherAdmins(a)
  BY <1>1, <1>2 DEF OtherAdmins
<1>5. admin[a].at = "publish" /\ admin[a].id \in Tenancy /\ admin[a] # NoOp
  BY <1>1 DEF PublishState, NoOp
<1> QED
  BY <1>3, <1>4, <1>5

(* What a publication gives a server's readers to do.                      *)
LEMMA TellsWork ==
    ASSUME TypeOK, NEW s \in Server, NEW note \in Note, Tells(s, note), ServersKept,
           NEW t \in Tenancy, NEW p \in Pool, Works(s, p, t)'
    PROVE  Works(s, p, t) \/ (p = note.pool /\ t = note.msg.id)
<1>1. note.pool \in Pool /\ note.msg \in Notification
  BY DEF Note
<1>2. channel[s] \in [Pool -> Seq(Notification)]
  BY DEF TypeOK, ServersOK
<1>3. channel'[s][p] = IF p = note.pool THEN Append(channel[s][p], note.msg) ELSE channel[s][p]
  BY <1>2 DEF Tells
<1>4. Loading(s, p, t)' <=> Loading(s, p, t)
  BY DEF ServersKept, Loading, LoadedId
<1>5. \A i \in DOMAIN Append(channel[s][p], note.msg) :
        \/ i \in DOMAIN channel[s][p] /\ Append(channel[s][p], note.msg)[i] = channel[s][p][i]
        \/ Append(channel[s][p], note.msg)[i] = note.msg
  BY <1>1, <1>2
<1> QED
  BY <1>3, <1>4, <1>5 DEF Works

LEMMA PathAdmin ==
    ASSUME TypeOK, PathInv, NEW a \in Admin, AdminStep(a)
    PROVE  PathInv'
<1> SUFFICES ASSUME NEW s \in Server
             PROVE  /\ ServerOK(s)' /\ CachedById(s)'
                    /\ stage'[s] # "down" => \A t \in Tenancy \ crossed'[s] : PathOK(s, t)'
  BY DEF PathInv
<1>1. ServersKept /\ ((\E t \in Tenancy : Begins(a, t)) \/ GoesOn(a) \/ PublishOp(a))
  BY AdminStepType
<1>2. CachedById(s)' /\ (stage'[s] # "down" <=> stage[s] # "down")
  BY <1>1 DEF PathInv, ServersKept, CachedById
<1>3. ServerOK(s)'
  <2>1. stage[s] = "down" => channel'[s] = channel[s]
    BY <1>1, PublishOpIs DEF Begins, GoesOn, Publishes, Tells
  <2> QED
    BY <1>1, <2>1 DEF PathInv, ServerOK, ServersKept
<1> SUFFICES ASSUME stage[s] # "down", NEW t \in Tenancy, t \notin crossed'[s]
             PROVE  PathOK(s, t)'
  BY <1>2, <1>3
<1>4. ASSUME PathOK(s, t), About(t)' \subseteq About(t) \/ stage[s] = "up",
             \A p \in Pool : Works(s, p, t)' => Works(s, p, t)
      PROVE  PathOK(s, t)'
  <2>1. OneReader(s, t)'
    BY <1>1, <1>4 DEF PathOK, OneReader, ServersKept
  <2>2. LoadsAbsent(s, t)' /\ IndexOK(s, t)'
    BY <1>1, <1>4 DEF PathOK, ServersKept, LoadsAbsent, IndexOK, Loading, LoadedId
  <2> QED
    BY <2>1, <2>2 DEF PathOK
<1>5. ASSUME channel'[s] = channel[s] PROVE \A p \in Pool : Works(s, p, t)' => Works(s, p, t)
  BY <1>1, <1>5 DEF ServersKept, Works, Loading, LoadedId
<1>6. ASSUME NEW u \in Tenancy, Begins(a, u) PROVE PathOK(s, t)'
  <2>1. crossed[s] \subseteq crossed'[s] /\ (stage[s] \in {"subscribed", "loading"} => u \in crossed'[s])
    BY <1>6 DEF Begins, Begin
  <2>2. PathOK(s, t)
    BY <2>1 DEF PathInv
  <2>3. About(t)' \subseteq About(t) \/ stage[s] = "up"
    <3>1. CASE t = u
      BY <2>1, <3>1 DEF TypeOK, ServersOK
    <3>2. CASE t # u
      BY <1>6, <3>2, AboutShrinks DEF Begins
    <3> QED
      BY <3>1, <3>2
  <2> QED
    BY <1>4, <1>5, <1>6, <2>2, <2>3 DEF Begins
<1>7. CASE GoesOn(a)
  <2>1. PathOK(s, t) /\ channel'[s] = channel[s]
    BY <1>7 DEF PathInv, GoesOn
  <2>2. admin[a] # NoOp
    BY <1>7 DEF GoesOn, NoOp
  <2>3. About(t)' \subseteq About(t)
    BY <1>7, <2>2, AboutShrinks DEF GoesOn
  <2> QED
    BY <1>4, <1>5, <2>1, <2>3
<1>8. CASE PublishOp(a)
  <2> DEFINE note == Head(admin[a].notes)
  <2>1. note \in Note /\ note.msg.id = admin[a].id /\ Publishes(a, note)
    BY <1>8, PublishOpIs
  <2> HIDE DEF note
  <2>2. About(t)' \subseteq About(t)
    BY <1>8, PublishKeepsId, AboutShrinks
  <2>3. CASE channel'[s] = channel[s] /\ crossed[s] \subseteq crossed'[s]
    <3>1. PathOK(s, t)
      BY <2>3 DEF PathInv
    <3> QED
      BY <1>4, <1>5, <2>2, <2>3, <3>1
  <2>4. CASE Tells(s, note) /\ Crosses(s, note)
    <3>1. crossed[s] \subseteq crossed'[s]
      BY <2>4 DEF Crosses
    <3>2. PathOK(s, t)
      BY <3>1 DEF PathInv
    <3>3. \A p \in Pool : Works(s, p, t)' => Works(s, p, t) \/ (p = note.pool /\ t = note.msg.id)
      BY <1>1, <2>1, <2>4, TellsWork
    <3>4. CASE t # note.msg.id
      BY <1>4, <2>2, <3>2, <3>3, <3>4
    <3>5. CASE t = note.msg.id
      <4>1. \A p \in Pool : Works(s, p, t) => p = note.pool
        BY <2>4, <3>5 DEF Crosses
      <4>2. a \in About(t)
        BY <1>8, <2>1, <3>5, PublishKeepsId DEF About
      <4>3. OneReader(s, t)'
        BY <1>1, <3>2, <3>3, <4>1, <4>2 DEF PathOK, OneReader, ServersKept
      <4>4. LoadsAbsent(s, t)' /\ IndexOK(s, t)'
        BY <1>1, <3>2 DEF PathOK, ServersKept, LoadsAbsent, IndexOK, Loading, LoadedId
      <4> QED
        BY <4>3, <4>4 DEF PathOK
    <3> QED
      BY <3>4, <3>5
  <2> QED
    BY <2>1, <2>3, <2>4 DEF Publishes
<1> QED
  BY <1>1, <1>6, <1>7, <1>8

LEMMA PathKept ==
    ASSUME NEW u \in Server, SameServer(u), UNCHANGED admin
    PROVE  /\ ServerOK(u)' <=> ServerOK(u)
           /\ CachedById(u)' <=> CachedById(u)
           /\ \A t \in Tenancy : PathOK(u, t) => PathOK(u, t)'
<1>1. \A t \in Tenancy : \A p \in Pool : Works(u, p, t)' <=> Works(u, p, t)
  BY DEF SameServer, Works, Loading, LoadedId
<1>2. \A t \in Tenancy : \A l \in Loader : Loading(u, l, t)' <=> Loading(u, l, t)
  BY DEF SameServer, Loading, LoadedId
<1>3. \A t \in Tenancy : About(t)' = About(t)
  BY DEF About
<1>4. ServerOK(u)' <=> ServerOK(u)
  BY DEF SameServer, ServerOK
<1>5. CachedById(u)' <=> CachedById(u)
  BY DEF SameServer, CachedById
<1>6. ASSUME NEW t \in Tenancy, PathOK(u, t) PROVE PathOK(u, t)'
  <2>1. OneReader(u, t)'
    BY <1>1, <1>3, <1>6 DEF PathOK, SameServer, OneReader
  <2>2. Boot \in Loader
    BY DEF Loader
  <2>3. LoadsAbsent(u, t)'
    BY <1>2, <1>6, <2>2 DEF PathOK, SameServer, LoadsAbsent
  <2>4. IndexOK(u, t)'
    BY <1>6 DEF PathOK, SameServer, IndexOK
  <2> QED
    BY <2>1, <2>3, <2>4 DEF PathOK
<1> QED
  BY <1>4, <1>5, <1>6

(* A load goes on with the same tenancy, or ends without an effect.        *)
LoadsOn(s, l, x) ==
    /\ loader'[s] = [loader[s] EXCEPT ![l] = x]
    /\ x = Idle \/ (loader[s][l].at # "idle" /\ x.at # "idle" /\ LoadedId(s, l)' = LoadedId(s, l))
    /\ UNCHANGED <<stage, channel, todo, tenanciesById, tenanciesByPath, tenanciesByShadowPath>>

LEMMA LoaderStepIs ==
    ASSUME TypeOK, NEW s \in Server, NEW l \in Loader, LoaderStep(s, l)
    PROVE  StoreLoaded(s, l) \/ \E x : LoadsOn(s, l, x)
<1>1. CASE FindTenancy(s, l)
  <2> DEFINE t == loader[s][l].id
             x == [at |-> "init", tenancy |-> [id |-> t, row |-> rows[t]]]
  <2>1. /\ loader[s][l].at = "find" /\ loader'[s] = [loader[s] EXCEPT ![l] = x]
        /\ UNCHANGED <<stage, channel, todo, tenanciesById, tenanciesByPath, tenanciesByShadowPath>>
    BY <1>1, FindTenancyIs
  <2>2. LoadedId(s, l)' = LoadedId(s, l) /\ x.at # "idle"
    BY <2>1 DEF LoadedId, TypeOK, ServersOK
  <2> HIDE DEF x
  <2>3. LoadsOn(s, l, x)
    BY <2>1, <2>2 DEF LoadsOn
  <2> QED
    BY <2>3
<1>2. CASE InitLoaded(s, l)
  <2>1. PICK b \in BOOLEAN : loader'[s] =
          [loader[s] EXCEPT ![l] = [at |-> "store", tenancy |-> loader[s][l].tenancy, ip |-> b]]
    BY <1>2, InitLoadedIs
  <2> DEFINE x == [at |-> "store", tenancy |-> loader[s][l].tenancy, ip |-> b]
  <2>2. /\ loader[s][l].at = "init"
        /\ UNCHANGED <<stage, channel, todo, tenanciesById, tenanciesByPath, tenanciesByShadowPath>>
    BY <1>2, InitLoadedIs
  <2>3. LoadedId(s, l)' = LoadedId(s, l) /\ x.at # "idle"
    BY <2>1, <2>2 DEF LoadedId, TypeOK, ServersOK
  <2>4. loader'[s] = [loader[s] EXCEPT ![l] = x]
    BY <2>1
  <2> HIDE DEF x
  <2>5. LoadsOn(s, l, x)
    BY <2>2, <2>3, <2>4 DEF LoadsOn
  <2> QED
    BY <2>5
<1>3. CASE FindMissing(s, l)
  <2>1. LoadsOn(s, l, Idle)
    BY <1>3, FindMissingIs DEF LoadsOn
  <2> QED
    BY <2>1
<1> QED
  BY <1>1, <1>2, <1>3 DEF LoaderStep

LEMMA PathLoading ==
    ASSUME TypeOK, NEW s \in Server, ServerOK(s), CachedById(s), NEW l \in Loader, NEW x, LoadsOn(s, l, x),
           UNCHANGED admin
    PROVE  /\ ServerOK(s)' /\ CachedById(s)'
           /\ \A t \in Tenancy : PathOK(s, t) => PathOK(s, t)'
<1>1. loader[s] \in [Loader -> LoaderState] /\ Idle.at = "idle" /\ Boot \in Loader
  BY DEF TypeOK, ServersOK, Idle, Loader
<1>2. \A k \in Loader, t \in Tenancy : Loading(s, k, t)' => Loading(s, k, t)
  BY <1>1 DEF LoadsOn, Loading, LoadedId
<1>3. \A p \in Pool, t \in Tenancy : Works(s, p, t)' => Works(s, p, t)
  BY <1>2 DEF LoadsOn, Works, Loader
<1>4. ServerOK(s)'
  BY <1>1 DEF ServerOK, LoadsOn
<1>5. CachedById(s)'
  BY DEF CachedById, LoadsOn
<1>6. ASSUME NEW t \in Tenancy, PathOK(s, t) PROVE PathOK(s, t)'
  <2>1. About(t)' = About(t)
    BY DEF About
  <2>2. OneReader(s, t)'
    BY <1>3, <1>6, <2>1 DEF PathOK, OneReader, LoadsOn
  <2>3. LoadsAbsent(s, t)'
    BY <1>1, <1>2, <1>6 DEF PathOK, LoadsAbsent, LoadsOn
  <2>4. IndexOK(s, t)'
    BY <1>6 DEF PathOK, IndexOK, LoadsOn
  <2> QED
    BY <2>2, <2>3, <2>4 DEF PathOK
<1> QED
  BY <1>4, <1>5, <1>6

(* No two loads of a tenancy that is not crossed overlap.                  *)
LEMMA OneLoader ==
    ASSUME TypeOK, NEW s \in Server, ServerOK(s), stage[s] # "down", NEW t \in Tenancy, PathOK(s, t),
           NEW k \in Loader, NEW l \in Loader, Loading(s, k, t), Loading(s, l, t)
    PROVE  k = l
<1>1. k = Boot \/ l = Boot => stage[s] = "loading"
  BY DEF ServerOK, Loading, Idle
<1>2. k \in Pool => Works(s, k, t)
  BY DEF Works
<1>3. l \in Pool => Works(s, l, t)
  BY DEF Works
<1> QED
  BY <1>1, <1>2, <1>3 DEF PathOK, OneReader, Loader

LEMMA PathStore ==
    ASSUME TypeOK, NEW s \in Server, ServerOK(s), CachedById(s), NEW l \in Loader, StoreLoaded(s, l),
           UNCHANGED admin
    PROVE  /\ ServerOK(s)' /\ CachedById(s)'
           /\ \A t \in Tenancy : stage[s] # "down" /\ PathOK(s, t) => PathOK(s, t)'
<1> DEFINE o == loader[s][l].tenancy
<1>1. o \in Object /\ o # None /\ o.id \in Tenancy /\ o.row.path \in Path /\ o.row.shadow \in Path
  BY StoreLoadedIs, ObjectParts
<1>2. /\ loader[s][l].at = "store"
      /\ loader'[s] = [loader[s] EXCEPT ![l] = Idle]
      /\ tenanciesById'[s] = [tenanciesById[s] EXCEPT ![o.id] = o]
      /\ tenanciesByPath'[s] = [tenanciesByPath[s] EXCEPT ![o.row.path] = o]
      /\ tenanciesByShadowPath'[s] = [tenanciesByShadowPath[s] EXCEPT ![o.row.shadow] = o]
      /\ UNCHANGED <<stage, channel, todo>>
  BY StoreLoadedIs
<1>3. Loading(s, l, o.id)
  BY <1>2 DEF Loading, LoadedId
<1> HIDE DEF o
<1>4. loader[s] \in [Loader -> LoaderState] /\ Idle.at = "idle" /\ Boot \in Loader
  BY DEF TypeOK, ServersOK, Idle, Loader
<1>5. \A k \in Loader, t \in Tenancy : Loading(s, k, t)' => Loading(s, k, t) /\ k # l
  BY <1>2, <1>4 DEF Loading, LoadedId
<1>6. \A p \in Pool, t \in Tenancy : Works(s, p, t)' => Works(s, p, t)
  BY <1>2, <1>5 DEF Works, Loader
<1>7. ServerOK(s)'
  BY <1>2, <1>4 DEF ServerOK
<1>8. \A t \in Tenancy : tenanciesById'[s][t] = IF t = o.id THEN o ELSE tenanciesById[s][t]
  BY <1>2 DEF TypeOK, ServersOK
<1>9. CachedById(s)'
  BY <1>1, <1>8 DEF CachedById
<1>10. ASSUME NEW t \in Tenancy, stage[s] # "down", PathOK(s, t) PROVE PathOK(s, t)'
  <2>1. About(t)' = About(t)
    BY DEF About
  <2>2. OneReader(s, t)'
    BY <1>2, <1>6, <1>10, <2>1 DEF PathOK, OneReader
  <2>3. LoadsAbsent(s, t)'
    <3>1. CASE t # o.id
      BY <1>2, <1>4, <1>5, <1>8, <1>10, <3>1 DEF PathOK, LoadsAbsent
    <3>2. CASE t = o.id
      <4>1. \A k \in Loader : ~Loading(s, k, t)'
        BY <1>3, <1>5, <1>10, <3>2, OneLoader
      <4>2. stage[s] \in {"subscribed", "loading"} => l = Boot
        BY <1>3, <1>10, <3>2 DEF PathOK, OneReader, Works, Loader
      <4>3. stage[s] # "subscribed"
        BY <1>2, <1>4, <4>2 DEF ServerOK
      <4>4. stage[s] = "loading" => \A q \in todo[s] : q.id # t
        BY <1>3, <1>10, <3>2, <4>2 DEF PathOK, LoadsAbsent
      <4> QED
        BY <1>2, <4>1, <4>3, <4>4 DEF LoadsAbsent
    <3> QED
      BY <3>1, <3>2
  <2>4. IndexOK(s, t)'
    <3> SUFFICES ASSUME NEW p \in Path
                 PROVE  /\ tenanciesByPath'[s][p] # None /\ tenanciesByPath'[s][p].id = t =>
                             /\ tenanciesByPath'[s][p].row.path = p
                             /\ tenanciesById'[s][t] = tenanciesByPath'[s][p]
                        /\ tenanciesByShadowPath'[s][p] # None /\ tenanciesByShadowPath'[s][p].id = t =>
                             /\ tenanciesByShadowPath'[s][p].row.shadow = p
                             /\ tenanciesById'[s][t] = tenanciesByShadowPath'[s][p]
      BY DEF IndexOK
    <3>1. t = o.id => tenanciesById[s][t] = None
      BY <1>3, <1>10 DEF PathOK, LoadsAbsent
    <3>2. /\ tenanciesByPath'[s][p] = IF p = o.row.path THEN o ELSE tenanciesByPath[s][p]
          /\ tenanciesByShadowPath'[s][p] = IF p = o.row.shadow THEN o ELSE tenanciesByShadowPath[s][p]
      BY <1>2 DEF TypeOK, ServersOK
    <3>3. /\ tenanciesByPath[s][p] # None /\ tenanciesByPath[s][p].id = t =>
               /\ tenanciesByPath[s][p].row.path = p /\ tenanciesById[s][t] = tenanciesByPath[s][p]
          /\ tenanciesByShadowPath[s][p] # None /\ tenanciesByShadowPath[s][p].id = t =>
               /\ tenanciesByShadowPath[s][p].row.shadow = p /\ tenanciesById[s][t] = tenanciesByShadowPath[s][p]
      BY <1>10 DEF PathOK, IndexOK
    <3> QED
      BY <1>1, <1>8, <3>1, <3>2, <3>3
  <2> QED
    BY <2>2, <2>3, <2>4 DEF PathOK
<1> QED
  BY <1>7, <1>9, <1>10

LEMMA PathHandle ==
    ASSUME TypeOK, NEW s \in Server, ServerOK(s), CachedById(s), NEW p \in Pool, Handle(s, p), UNCHANGED admin
    PROVE  /\ ServerOK(s)' /\ CachedById(s)'
           /\ \A t \in Tenancy : stage[s] # "down" /\ PathOK(s, t) => PathOK(s, t)'
<1> DEFINE msg == Head(channel[s][p])  m == msg.id
           x == IF msg.delete THEN Idle ELSE [at |-> "find", id |-> m]
<1>1. m \in Tenancy /\ channel[s] \in [Pool -> Seq(Notification)]
  BY HandleIs DEF Notification, TypeOK, ServersOK
<1>2. /\ loader[s][p] = Idle /\ channel[s][p] # <<>>
      /\ channel'[s] = [channel[s] EXCEPT ![p] = Tail(channel[s][p])]
      /\ UnloadTenancy(s, m)
      /\ loader'[s] = [loader[s] EXCEPT ![p] = x]
      /\ UNCHANGED <<stage, todo>>
  BY HandleIs
<1>3. x.at # "idle" => x.at = "find" /\ x.id = m
  BY DEF Idle
<1>4. Works(s, p, m)
  <2>1. 1 \in DOMAIN channel[s][p] /\ channel[s][p][1] = msg
    BY <1>1, <1>2
  <2> HIDE DEF msg
  <2> QED
    BY <2>1 DEF Works
<1> HIDE DEF x, msg, m
<1>5. stage[s] # "down"
  BY <1>2 DEF ServerOK
<1>6. loader[s] \in [Loader -> LoaderState] /\ Idle.at = "idle" /\ Boot \in Loader /\ p \in Loader /\ p # Boot
  BY NamesAssumption DEF TypeOK, ServersOK, Idle, Loader
<1>7. \A k \in Loader, t \in Tenancy : Loading(s, k, t)' => Loading(s, k, t) \/ (k = p /\ t = m)
  BY <1>2, <1>3, <1>6 DEF Loading, LoadedId
<1>8. \A q \in Pool, t \in Tenancy : Works(s, q, t)' => Works(s, q, t)
  <2>1. \A i \in DOMAIN Tail(channel[s][p]) :
          i + 1 \in DOMAIN channel[s][p] /\ Tail(channel[s][p])[i] = channel[s][p][i + 1]
    BY <1>1, <1>2
  <2>2. \A q \in Pool : channel'[s][q] = IF q = p THEN Tail(channel[s][p]) ELSE channel[s][q]
    BY <1>1, <1>2
  <2>3. \A q \in Pool, t \in Tenancy : Loading(s, q, t)' => Works(s, q, t)
    BY <1>4, <1>7 DEF Works, Loader
  <2> QED
    BY <2>1, <2>2, <2>3 DEF Works
<1>9. /\ \A y \in Tenancy : tenanciesById'[s][y] = IF y = m THEN None ELSE tenanciesById[s][y]
      /\ \A q \in Path :
           /\ tenanciesByPath'[s][q] =
                IF tenanciesById[s][m] # None /\ q = tenanciesById[s][m].row.path THEN None
                ELSE tenanciesByPath[s][q]
           /\ tenanciesByShadowPath'[s][q] =
                IF tenanciesById[s][m] # None /\ q = tenanciesById[s][m].row.shadow THEN None
                ELSE tenanciesByShadowPath[s][q]
  BY <1>1, <1>2, UnloadTenancyIs DEF TypeOK
<1>10. ServerOK(s)'
  <2>1. loader'[s][Boot] = loader[s][Boot]
    BY <1>2, <1>6
  <2> QED
    BY <1>2, <1>5, <2>1 DEF ServerOK
<1>11. CachedById(s)'
  BY <1>9 DEF CachedById
<1>12. ASSUME NEW t \in Tenancy, PathOK(s, t) PROVE PathOK(s, t)'
  <2>1. About(t)' = About(t)
    BY DEF About
  <2>2. OneReader(s, t)'
    BY <1>2, <1>8, <1>12, <2>1 DEF PathOK, OneReader
  <2>3. t = m => stage[s] = "up"
    BY <1>4, <1>5, <1>12 DEF PathOK, OneReader, TypeOK, ServersOK
  <2>4. LoadsAbsent(s, t)'
    BY <1>2, <1>6, <1>7, <1>9, <1>12, <2>3 DEF PathOK, LoadsAbsent
  <2>5. IndexOK(s, t)'
    <3> SUFFICES ASSUME NEW q \in Path
                 PROVE  /\ tenanciesByPath'[s][q] # None /\ tenanciesByPath'[s][q].id = t =>
                             /\ tenanciesByPath'[s][q].row.path = q
                             /\ tenanciesById'[s][t] = tenanciesByPath'[s][q]
                        /\ tenanciesByShadowPath'[s][q] # None /\ tenanciesByShadowPath'[s][q].id = t =>
                             /\ tenanciesByShadowPath'[s][q].row.shadow = q
                             /\ tenanciesById'[s][t] = tenanciesByShadowPath'[s][q]
      BY DEF IndexOK
    <3>1. /\ tenanciesByPath[s][q] # None /\ tenanciesByPath[s][q].id = t =>
               /\ tenanciesByPath[s][q].row.path = q /\ tenanciesById[s][t] = tenanciesByPath[s][q]
          /\ tenanciesByShadowPath[s][q] # None /\ tenanciesByShadowPath[s][q].id = t =>
               /\ tenanciesByShadowPath[s][q].row.shadow = q /\ tenanciesById[s][t] = tenanciesByShadowPath[s][q]
      BY <1>12 DEF PathOK, IndexOK
    <3> QED
      BY <1>9, <3>1
  <2> QED
    BY <2>2, <2>4, <2>5 DEF PathOK
<1> QED
  BY <1>5, <1>10, <1>11, <1>12

LEMMA PathStart ==
    ASSUME TypeOK, NEW s \in Server, ServerOK(s), Start(s), UNCHANGED admin
    PROVE  /\ ServerOK(s)' /\ CachedById(s)'
           /\ \A t \in Tenancy \ crossed'[s] : PathOK(s, t)'
<1>1. /\ stage[s] = "down" /\ stage'[s] = "subscribed"
      /\ crossed'[s] = {t \in Tenancy : About(t) # {}}
      /\ \A l \in Loader : loader'[s][l] = Idle
      /\ \A t \in Tenancy : tenanciesById'[s][t] = None
      /\ \A p \in Path : tenanciesByPath'[s][p] = None /\ tenanciesByShadowPath'[s][p] = None
      /\ UNCHANGED <<channel, todo>>
  BY StartIs
<1>2. \A l \in Loader, t \in Tenancy : ~Loading(s, l, t)'
  BY <1>1 DEF Loading, Idle
<1>3. \A p \in Pool, t \in Tenancy : ~Works(s, p, t)'
  <2>1. \A p \in Pool : channel'[s][p] = <<>>
    BY <1>1 DEF ServerOK
  <2>2. DOMAIN <<>> = {}
    OBVIOUS
  <2> QED
    BY <1>2, <2>1, <2>2 DEF Works, Loader
<1>4. ServerOK(s)'
  BY <1>1 DEF ServerOK, Loader
<1>5. ASSUME NEW t \in Tenancy, t \notin crossed'[s] PROVE PathOK(s, t)'
  <2>1. About(t)' = {}
    BY <1>1, <1>5 DEF About
  <2>2. OneReader(s, t)'
    BY <1>3, <2>1 DEF OneReader
  <2>3. LoadsAbsent(s, t)' /\ IndexOK(s, t)'
    BY <1>1, <1>2 DEF LoadsAbsent, IndexOK
  <2> QED
    BY <2>2, <2>3 DEF PathOK
<1> QED
  BY <1>1, <1>4, <1>5 DEF CachedById

LEMMA PathStop ==
    ASSUME TypeOK, NEW s \in Server, ServerOK(s), Stop(s)
    PROVE  ServerOK(s)' /\ CachedById(s)'
<1>1. loader'[s][Boot] = Idle
  BY StopIs DEF ServerOK, Loader
<1> QED
  BY <1>1, StopIs DEF ServerOK, CachedById

(* The steps of Init, which leave the indexes alone.                       *)
LEMMA PathInits ==
    ASSUME TypeOK, NEW s \in Server, ServerOK(s), CachedById(s), UNCHANGED admin,
           ListTenancies(s) \/ LoadNext(s) \/ InitDone(s)
    PROVE  /\ ServerOK(s)' /\ CachedById(s)'
           /\ \A t \in Tenancy : PathOK(s, t) => PathOK(s, t)'
<1>1. UNCHANGED <<channel, tenanciesById, tenanciesByPath, tenanciesByShadowPath>>
  BY ListTenanciesIs, LoadNextIs, InitDoneIs
<1>2. CachedById(s)' /\ \A t \in Tenancy : IndexOK(s, t) => IndexOK(s, t)'
  BY <1>1 DEF CachedById, IndexOK
<1>3. \A t \in Tenancy : About(t)' = About(t)
  BY DEF About
<1>4. Boot \in Loader /\ Boot \notin Pool /\ Idle.at = "idle" /\ loader[s] \in [Loader -> LoaderState]
  BY NamesAssumption DEF Loader, Idle, TypeOK, ServersOK
<1>5. \A p \in Pool, t \in Tenancy : Works(s, p, t)' <=> Works(s, p, t)
  <2>1. \A p \in Pool : loader'[s][p] = loader[s][p]
    BY <1>4, ListTenanciesIs, LoadNextIs, InitDoneIs DEF Loader
  <2> QED
    BY <1>1, <2>1 DEF Works, Loading, LoadedId
<1>6. \A t \in Tenancy : OneReader(s, t) => OneReader(s, t)'
  <2>1. stage'[s] \in {"subscribed", "loading"} => stage[s] \in {"subscribed", "loading"}
    BY ListTenanciesIs, LoadNextIs, InitDoneIs
  <2> QED
    BY <1>3, <1>5, <2>1 DEF OneReader
<1>7. CASE ListTenancies(s)
  <2>1. /\ stage[s] = "subscribed" /\ stage'[s] = "loading"
        /\ todo'[s] = {[id |-> t, row |-> rows[t]] : t \in {u \in DOMAIN rows : rows[u].pool \in Subs[s]}}
        /\ UNCHANGED loader
    BY <1>7, ListTenanciesIs
  <2>2. \A o \in todo'[s] : o = [id |-> o.id, row |-> rows[o.id]]
    BY <2>1
  <2>3. ServerOK(s)'
    BY <2>1, <2>2 DEF ServerOK
  <2>4. \A l \in Loader, t \in Tenancy : Loading(s, l, t)' <=> Loading(s, l, t)
    BY <2>1 DEF Loading, LoadedId
  <2>5. \A t \in Tenancy : ~Loading(s, Boot, t)
    BY <1>4, <2>1 DEF ServerOK, Loading
  <2>6. \A t \in Tenancy : LoadsAbsent(s, t) => LoadsAbsent(s, t)'
    BY <1>1, <1>4, <2>1, <2>4, <2>5 DEF LoadsAbsent
  <2> QED
    BY <1>2, <1>6, <2>3, <2>6 DEF PathOK
<1>8. CASE LoadNext(s)
  <2>1. PICK o \in todo[s] : /\ o \in Object
                             /\ todo'[s] = todo[s] \ {o}
                             /\ loader'[s] = [loader[s] EXCEPT ![Boot] = [at |-> "init", tenancy |-> o]]
    BY <1>8, LoadNextIs
  <2>2. stage[s] = "loading" /\ UNCHANGED stage
    BY <1>8, LoadNextIs
  <2>3. ServerOK(s)'
    BY <2>1, <2>2 DEF ServerOK
  <2>4. \A t \in Tenancy : Loading(s, Boot, t)' => t = o.id
    BY <1>4, <2>1 DEF Loading, LoadedId
  <2>5. \A l \in Pool, t \in Tenancy : Loading(s, l, t)' <=> Loading(s, l, t)
    BY <1>4, <2>1 DEF Loading, LoadedId, Loader
  <2>6. \A q \in todo'[s] : q \in todo[s] /\ q.id # o.id
    BY <2>1, <2>2 DEF ServerOK
  <2>7. \A t \in Tenancy : LoadsAbsent(s, t) => LoadsAbsent(s, t)'
    BY <1>1, <2>1, <2>2, <2>4, <2>5, <2>6 DEF LoadsAbsent, Loader
  <2> QED
    BY <1>2, <1>6, <2>3, <2>7 DEF PathOK
<1>9. CASE InitDone(s)
  <2>1. /\ stage[s] = "loading" /\ stage'[s] = "up" /\ loader[s][Boot] = Idle
        /\ UNCHANGED loader
    BY <1>9, InitDoneIs
  <2>2. ServerOK(s)'
    BY <2>1 DEF ServerOK
  <2>3. \A t \in Tenancy : LoadsAbsent(s, t) => LoadsAbsent(s, t)'
    BY <1>1, <2>1 DEF LoadsAbsent, Loading, LoadedId
  <2> QED
    BY <1>2, <1>6, <2>2, <2>3 DEF PathOK
<1> QED
  BY <1>7, <1>8, <1>9

LEMMA PathRun ==
    ASSUME TypeOK, NEW s \in Server, ServerOK(s), CachedById(s), Run(s), UNCHANGED admin
    PROVE  /\ ServerOK(s)' /\ CachedById(s)'
           /\ stage'[s] # "down" => stage[s] # "down"
           /\ \A t \in Tenancy : stage[s] # "down" /\ PathOK(s, t) => PathOK(s, t)'
<1>1. CASE ListTenancies(s) \/ LoadNext(s) \/ InitDone(s)
  <2>1. stage[s] # "down"
    BY <1>1, ListTenanciesIs, LoadNextIs, InitDoneIs
  <2> QED
    BY <1>1, <2>1, PathInits
<1>2. ASSUME NEW l \in Loader, LoaderStep(s, l)
      PROVE  /\ ServerOK(s)' /\ CachedById(s)' /\ UNCHANGED stage
             /\ \A t \in Tenancy : stage[s] # "down" /\ PathOK(s, t) => PathOK(s, t)'
  <2>1. CASE StoreLoaded(s, l)
    BY <2>1, PathStore, StoreLoadedIs
  <2>2. ASSUME NEW x, LoadsOn(s, l, x)
        PROVE  /\ ServerOK(s)' /\ CachedById(s)' /\ UNCHANGED stage
               /\ \A t \in Tenancy : stage[s] # "down" /\ PathOK(s, t) => PathOK(s, t)'
    BY <2>2, PathLoading DEF LoadsOn
  <2> QED
    BY <1>2, <2>1, <2>2, LoaderStepIs
<1>3. ASSUME NEW p \in Pool, LoadFails(s, p)
      PROVE  /\ ServerOK(s)' /\ CachedById(s)' /\ UNCHANGED stage
             /\ \A t \in Tenancy : stage[s] # "down" /\ PathOK(s, t) => PathOK(s, t)'
  <2>1. LoadsOn(s, p, Idle) /\ p \in Loader
    BY <1>3, LoadFailsIs DEF LoadsOn, Loader
  <2> QED
    BY <2>1, PathLoading DEF LoadsOn
<1>4. ASSUME NEW p \in Pool, Handle(s, p)
      PROVE  /\ ServerOK(s)' /\ CachedById(s)' /\ UNCHANGED stage
             /\ \A t \in Tenancy : stage[s] # "down" /\ PathOK(s, t) => PathOK(s, t)'
  BY <1>4, PathHandle, HandleIs
<1> QED
  BY <1>1, <1>2, <1>3, <1>4 DEF Run

LEMMA PathServer ==
    ASSUME TypeOK, PathInv, NEW s \in Server, ServerStep(s), UNCHANGED <<tables, adminVars>>
    PROVE  PathInv'
<1>1. UNCHANGED admin /\ OthersKept(s) /\ HistoryElsewhere(s) /\ (Run(s) => UNCHANGED crossed)
  BY ServerStepType
<1>2. ASSUME NEW u \in Server, u # s
      PROVE  /\ ServerOK(u)' /\ CachedById(u)'
             /\ stage'[u] # "down" => \A t \in Tenancy \ crossed'[u] : PathOK(u, t)'
  <2>1. SameServer(u) /\ crossed'[u] = crossed[u]
    BY <1>1, <1>2 DEF OthersKept, HistoryElsewhere
  <2>2. stage'[u] = stage[u]
    BY <2>1 DEF SameServer
  <2> QED
    BY <1>1, <2>1, <2>2, PathKept DEF PathInv
<1>3. /\ ServerOK(s)' /\ CachedById(s)'
      /\ stage'[s] # "down" => \A t \in Tenancy \ crossed'[s] : PathOK(s, t)'
  <2>1. CASE Start(s)
    BY <1>1, <2>1, PathStart DEF PathInv
  <2>2. CASE Stop(s)
    BY <2>2, PathStop, StopIs DEF PathInv
  <2>3. CASE Run(s)
    BY <1>1, <2>3, PathRun DEF PathInv
  <2> QED
    BY <2>1, <2>2, <2>3 DEF ServerStep
<1> QED
  BY <1>2, <1>3 DEF PathInv

LEMMA PathInit == Init => PathInv
BY DEF Init, ManagerInit, PathInv, ServerOK, CachedById, Loader

LEMMA PathInduction == Spec => []PathInv
<1>1. TypeOK /\ PathInv /\ [Next]_vars => PathInv'
  <2>1. ASSUME PathInv, UNCHANGED vars PROVE PathInv'
    <3>1. \A s \in Server : SameServer(s) /\ crossed'[s] = crossed[s] /\ stage'[s] = stage[s]
      BY <2>1 DEF vars, managerVars, indexes, history, SameServer
    <3>2. UNCHANGED admin
      BY <2>1 DEF vars, adminVars
    <3> QED
      BY <2>1, <3>1, <3>2, PathKept DEF PathInv
  <2> QED
    BY <2>1, PathAdmin, PathServer DEF Next
<1> QED
  BY PathInit, <1>1, TenancyTypes, PTL DEF Spec

(* However operations and loads interleave, a tenancy that was renamed,    *)
(* moved or deleted is not served under its old path: the path indexes     *)
(* hold only what is cached under an id, at the path it was loaded with.   *)
(* For any number of administrators and servers, with one pool or more,    *)
(* restarts, failures and lost notifications; but for a tenancy that a     *)
(* server may load twice at the same time.                                 *)
THEOREM PathsFollowObjects == Spec => []NoDanglingPath
<1>1. TypeOK /\ PathInv => NoDanglingPath
  <2> SUFFICES ASSUME TypeOK, PathInv, NEW s \in Server, stage[s] # "down", NEW p \in Path
               PROVE  /\ LET object == tenanciesByPath[s][p] IN
                         object # None /\ object.id \notin crossed[s]
                         => object.row.path = p /\ tenanciesById[s][object.id] = object
                      /\ LET object == tenanciesByShadowPath[s][p] IN
                         object # None /\ object.id \notin crossed[s]
                         => object.row.shadow = p /\ tenanciesById[s][object.id] = object
    BY DEF NoDanglingPath
  <2>1. /\ tenanciesByPath[s][p] # None => tenanciesByPath[s][p].id \in Tenancy
        /\ tenanciesByShadowPath[s][p] # None => tenanciesByShadowPath[s][p].id \in Tenancy
    BY ObjectParts DEF TypeOK, ServersOK
  <2>2. \A t \in Tenancy \ crossed[s] : IndexOK(s, t)
    BY DEF PathInv, PathOK
  <2> QED
    BY <2>1, <2>2 DEF IndexOK
<1> QED
  BY <1>1, PathInduction, TenancyTypes, PTL

-----------------------------------------------------------------------------
(* Tenancies are apart.                                                    *)

(* A query that is still to be made, or found nothing.                     *)
Lists(queries, pool, column, p) ==
    \E i \in DOMAIN queries : queries[i] = [pool |-> pool, column |-> column, value |-> p]
Unmatched(a, pool, column, p) ==
    \/ Lists(admin[a].queries, pool, column, p)
    \/ \A t \in DOMAIN rows : rows[t].pool = pool => rows[t][column] # p
Free(a, pool, p) == Unmatched(a, pool, "path", p) /\ Unmatched(a, pool, "shadow", p)

(* Operations that have yet to write overlap, or there is one.             *)
IsWriting(a) == admin[a].at \notin {"idle", "publish"}
Alone ==
    \A a, b \in Admin : IsWriting(a) /\ IsWriting(b) /\ a # b => admin[a].id \in overlapped

(* What the only operation has checked is still so when it writes.         *)
CheckedUpdate(a) ==
    LET t == admin[a].id  fields == admin[a].fields
    IN  /\ t \in DOMAIN rows
        /\ fields \in [path : Path] => Free(a, rows[t].pool, fields.path)
        /\ fields \in [shadow : Path] => Free(a, rows[t].pool, fields.shadow)
        /\ fields \in [pool : Pool, db : Database] =>
             \/ fields.pool = rows[t].pool
             \/ Free(a, fields.pool, rows[t].path) /\ Free(a, fields.pool, rows[t].shadow)
CheckedAdd(a) ==
    LET row == admin[a].fields
    IN  /\ admin[a].id \notin byName => Free(a, row.pool, row.path) /\ Free(a, row.pool, row.shadow)
        /\ admin[a].at \in {"claim", "create"} => admin[a].queries = <<>>
        /\ admin[a].at = "claim" => metas[row.db] = {}
Checked(a) ==
    admin[a].id \notin overlapped =>
      /\ admin[a].at = "update" => CheckedUpdate(a)
      /\ admin[a].at \in {"metas", "claim", "create"} => CheckedAdd(a)

(* A database has one owner, and who is connected to it is the owner.      *)
OneOwner ==
    \A d \in Database : \A t, u \in metas[d] : t = u \/ t \in overlapped \/ u \in overlapped
Owns(object) == Connected(object) => object.id \in metas[object.row.db]
Owners(s) ==
    /\ \A l \in Loader : loader[s][l].at = "store" => Owns(loader[s][l].tenancy)
    /\ \A t \in Tenancy : tenanciesById[s][t] # None => Owns(tenanciesById[s][t])

ApartInv ==
    /\ PathsApart(rows, overlapped \cup byName) /\ OneOwner
    /\ Alone /\ \A a \in Admin : Checked(a)
    /\ \A s \in Server : Owners(s) /\ CachedById(s)

AsksBoth(queries, pool, p) == Lists(queries, pool, "path", p) /\ Lists(queries, pool, "shadow", p)

LEMMA AskedFinds ==
    ASSUME NEW pool \in Pool, NEW p \in Path, NEW q \in Path
    PROVE  /\ AsksBoth(CheckDuplicatePath(pool, p), pool, p)
           /\ AsksBoth(CheckDuplicatePath(pool, p) \o CheckDuplicatePath(pool, q), pool, p)
           /\ AsksBoth(CheckDuplicatePath(pool, p) \o CheckDuplicatePath(pool, q), pool, q)
<1>1. ASSUME NEW v \in Path PROVE AsksBoth(CheckDuplicatePath(pool, v), pool, v)
  <2> DEFINE c == CheckDuplicatePath(pool, v)
  <2>1. /\ 1 \in DOMAIN c /\ c[1] = [pool |-> pool, column |-> "path", value |-> v]
        /\ 2 \in DOMAIN c /\ c[2] = [pool |-> pool, column |-> "shadow", value |-> v]
    BY DEF CheckDuplicatePath
  <2> HIDE DEF c
  <2>2. AsksBoth(c, pool, v)
    BY <2>1 DEF AsksBoth, Lists
  <2> QED
    BY <2>2 DEF c
<1>2. ASSUME NEW c \in Seq(Query), NEW d \in Seq(Query), NEW v
      PROVE  AsksBoth(c, pool, v) \/ AsksBoth(d, pool, v) => AsksBoth(c \o d, pool, v)
  <2>1. /\ DOMAIN c = 1..Len(c) /\ DOMAIN d = 1..Len(d) /\ DOMAIN (c \o d) = 1..(Len(c) + Len(d))
        /\ Len(c) \in Nat /\ Len(d) \in Nat
        /\ \A i \in 1..(Len(c) + Len(d)) : (c \o d)[i] = IF i <= Len(c) THEN c[i] ELSE d[i - Len(c)]
    OBVIOUS
  <2>2. ASSUME NEW i \in DOMAIN c PROVE \E j \in DOMAIN (c \o d) : (c \o d)[j] = c[i]
    BY <2>1
  <2>3. ASSUME NEW i \in DOMAIN d PROVE \E j \in DOMAIN (c \o d) : (c \o d)[j] = d[i]
    <3>1. /\ i + Len(c) \in 1..(Len(c) + Len(d)) /\ ~(i + Len(c) <= Len(c))
          /\ i + Len(c) - Len(c) = i
      BY <2>1, <2>3
    <3> QED
      BY <2>1, <3>1
  <2> DEFINE e == c \o d
  <2> HIDE DEF e
  <2>4. \A column : Lists(c, pool, column, v) \/ Lists(d, pool, column, v) => Lists(e, pool, column, v)
    BY <2>2, <2>3 DEF Lists, e
  <2>5. AsksBoth(c, pool, v) \/ AsksBoth(d, pool, v) => AsksBoth(e, pool, v)
    BY <2>4 DEF AsksBoth
  <2> QED
    BY <2>5 DEF e
<1>3. CheckDuplicatePath(pool, p) \in Seq(Query) /\ CheckDuplicatePath(pool, q) \in Seq(Query)
  BY QueriesType
<1> QED
  BY <1>1, <1>2, <1>3

LEMMA AskedIsFree ==
    ASSUME NEW a, NEW pool, NEW p, AsksBoth(admin[a].queries, pool, p)'
    PROVE  Free(a, pool, p)'
BY DEF AsksBoth, Free, Unmatched

(* Only the operation that goes on has written; one that begins makes the  *)
(* others overlap.                                                         *)
LEMMA AloneKept ==
    ASSUME TypeOK, Alone, NEW a \in Admin, (\E t \in Tenancy : Begins(a, t)) \/ GoesOn(a) \/ PublishOp(a)
    PROVE  Alone' /\ overlapped \subseteq overlapped'
<1>1. ASSUME NEW t \in Tenancy, Begins(a, t) PROVE Alone' /\ overlapped \subseteq overlapped'
  <2>1. overlapped' = IF Writers = {} THEN overlapped
                      ELSE overlapped \cup {t} \cup {admin[b].id : b \in Writers}
    BY <1>1 DEF Begins, Begin
  <2>2. ~IsWriting(a) /\ admin'[a].id = t /\ \A b \in Admin \ {a} : admin'[b] = admin[b]
    BY <1>1 DEF Begins, Begin, IsWriting, OtherAdmins, NoOp
  <2>3. \A b \in Admin : IsWriting(b) <=> b \in Writers
    BY DEF IsWriting, Writers
  <2>4. \A b \in Admin \ {a} : IsWriting(b)' <=> b \in Writers
    BY <2>2, <2>3 DEF IsWriting
  <2>5. \A b \in Admin \ {a} : IsWriting(b)' => admin'[b].id \in overlapped' /\ t \in overlapped'
    BY <2>1, <2>2, <2>4
  <2> QED
    BY <2>1, <2>2, <2>5 DEF Alone
<1>2. CASE GoesOn(a)
  <2>1. \A b \in Admin : IsWriting(b)' => IsWriting(b) /\ admin'[b].id = admin[b].id
    BY <1>2 DEF GoesOn, OtherAdmins, IsWriting, NoOp
  <2> QED
    BY <1>2, <2>1 DEF GoesOn, Alone
<1>3. CASE PublishOp(a)
  <2>1. \A b \in Admin : IsWriting(b)' => IsWriting(b) /\ admin'[b] = admin[b]
    BY <1>3, PublishKeepsId DEF OtherAdmins, IsWriting, NoOp
  <2>2. UNCHANGED overlapped
    BY <1>3 DEF PublishOp
  <2> QED
    BY <2>1, <2>2 DEF Alone
<1> QED
  BY <1>1, <1>2, <1>3

LEMMA CheckedKept ==
    ASSUME NEW b \in Admin, Checked(b), admin'[b] = admin[b], UNCHANGED <<rows, metas>>,
           overlapped \subseteq overlapped', byName \subseteq byName'
    PROVE  Checked(b)'
<1>1. \A pool, p : Free(b, pool, p)' <=> Free(b, pool, p)
  BY DEF Free, Unmatched
<1>2. CheckedUpdate(b) => CheckedUpdate(b)'
  BY <1>1 DEF CheckedUpdate
<1>3. CheckedAdd(b) => CheckedAdd(b)'
  BY <1>1 DEF CheckedAdd
<1> QED
  BY <1>2, <1>3 DEF Checked

(* A step of one administrator leaves what another has checked.            *)
LEMMA OthersChecked ==
    ASSUME TypeOK, Alone, NEW a \in Admin, (\E t \in Tenancy : Begins(a, t)) \/ GoesOn(a) \/ PublishOp(a),
           byName \subseteq byName', NEW b \in Admin, b # a, Checked(b)
    PROVE  Checked(b)'
<1>1. overlapped \subseteq overlapped'
  BY AloneKept
<1>2. admin'[b] = admin[b]
  BY PublishKeepsId DEF Begins, GoesOn, OtherAdmins
<1>3. CASE ~IsWriting(b)
  BY <1>2, <1>3 DEF IsWriting, Checked
<1>4. CASE IsWriting(b) /\ GoesOn(a)
  <2>1. admin[b].id \in overlapped
    BY <1>4 DEF GoesOn, Alone, IsWriting
  <2> QED
    BY <1>1, <1>2, <2>1 DEF Checked
<1>5. CASE ~GoesOn(a)
  <2>1. UNCHANGED <<rows, metas>>
    BY <1>5, PublishOpIs DEF Begins
  <2> QED
    BY <1>1, <1>2, <2>1, CheckedKept
<1> QED
  BY <1>3, <1>4, <1>5

LEMMA CheckedWhenDone ==
    ASSUME NEW a \in Admin, admin'[a].at \notin {"update", "metas", "claim", "create"}
    PROVE  Checked(a)'
BY DEF Checked

LEMMA ApartBeginsUpdate ==
    ASSUME TypeOK, NEW a \in Admin, NEW t \in Tenancy, t \in DOMAIN rows, BeginsUpdate(a, t)
    PROVE  Checked(a)'
<1>1. PICK fields \in Fields :
        Update(a, t, fields, Asked(t, fields), NotesOf(t, rows[t].pool, After(fields, rows[t].pool)))
  BY DEF BeginsUpdate
<1> DEFINE queries == Asked(t, fields)
           notes == NotesOf(t, rows[t].pool, After(fields, rows[t].pool))
<1> HIDE DEF queries, notes
<1>2. /\ admin'[a].at = "update" /\ admin'[a].id = t /\ admin'[a].fields = fields
      /\ admin'[a].queries = queries /\ UNCHANGED rows
  BY <1>1 DEF Update, TypeOK, AdminOK, tables, queries, notes
<1>3. rows[t].pool \in Pool /\ rows[t].path \in Path /\ rows[t].shadow \in Path
  BY DEF TypeOK, DatabaseOK, Row
<1>4. fields \in [path : Path] => Free(a, rows[t].pool, fields.path)'
  <2> SUFFICES ASSUME fields \in [path : Path] PROVE Free(a, rows[t].pool, fields.path)'
    OBVIOUS
  <2>1. queries = CheckDuplicatePath(rows[t].pool, fields.path)
    BY DEF queries, Asked
  <2>2. AsksBoth(queries, rows[t].pool, fields.path)
    BY <1>3, <2>1, AskedFinds
  <2> QED
    BY <1>2, <2>2, AskedIsFree
<1>5. fields \in [shadow : Path] => Free(a, rows[t].pool, fields.shadow)'
  <2> SUFFICES ASSUME fields \in [shadow : Path] PROVE Free(a, rows[t].pool, fields.shadow)'
    OBVIOUS
  <2>1. queries = CheckDuplicatePath(rows[t].pool, fields.shadow)
    BY DEF queries, Asked
  <2>2. AsksBoth(queries, rows[t].pool, fields.shadow)
    BY <1>3, <2>1, AskedFinds
  <2> QED
    BY <1>2, <2>2, AskedIsFree
<1>6. fields \in [pool : Pool, db : Database] /\ fields.pool # rows[t].pool =>
        Free(a, fields.pool, rows[t].path)' /\ Free(a, fields.pool, rows[t].shadow)'
  <2> SUFFICES ASSUME fields \in [pool : Pool, db : Database], fields.pool # rows[t].pool
               PROVE  Free(a, fields.pool, rows[t].path)' /\ Free(a, fields.pool, rows[t].shadow)'
    OBVIOUS
  <2>1. queries = CheckDuplicatePath(fields.pool, rows[t].path) \o CheckDuplicatePath(fields.pool, rows[t].shadow)
    BY DEF queries, Asked
  <2>2. AsksBoth(queries, fields.pool, rows[t].path) /\ AsksBoth(queries, fields.pool, rows[t].shadow)
    BY <1>3, <2>1, AskedFinds
  <2> QED
    BY <1>2, <2>2, AskedIsFree
<1> QED
  BY <1>2, <1>4, <1>5, <1>6 DEF Checked, CheckedUpdate

LEMMA ApartBeginsEffect ==
    ASSUME TypeOK, NEW a \in Admin, NEW t \in Tenancy, BeginsEffect(a, t)
    PROVE  Checked(a)'
<1>1. admin'[a].at \in {"delete", "add_ip", "delete_ip"}
  BY DEF BeginsEffect, Effect, TypeOK, AdminOK
<1> QED
  BY <1>1, CheckedWhenDone

LEMMA ApartAdd ==
    ASSUME TypeOK, NEW a \in Admin, NEW row \in NewRow, NEW by \in {"id", "name"}, Add(a, row, by)
    PROVE  Checked(a)' /\ UNCHANGED <<rows, metas>> /\ byName \subseteq byName'
<1> DEFINE asked == IF by = "id" THEN row.pool ELSE AnyPool
           queries == CheckDuplicatePath(asked, row.path) \o CheckDuplicatePath(asked, row.shadow)
<1>1. PICK t \in Tenancy \ used :
        /\ byName' = IF by = "id" THEN byName ELSE byName \cup {t}
        /\ admin' = [admin EXCEPT ![a] =
             [at |-> "metas", id |-> t, fields |-> row, queries |-> queries,
              notes |-> <<Notify(t, row.pool)>>]]
        /\ UNCHANGED <<rows, metas>>
  BY DEF Add, tables
<1>2. by = "id" => queries = CheckDuplicatePath(row.pool, row.path) \o CheckDuplicatePath(row.pool, row.shadow)
  OBVIOUS
<1> HIDE DEF queries
<1>3. /\ admin'[a].at = "metas" /\ admin'[a].id = t /\ admin'[a].fields = row /\ admin'[a].queries = queries
  BY <1>1 DEF TypeOK, AdminOK
<1>4. row.pool \in Pool /\ row.path \in Path /\ row.shadow \in Path
  BY DEF NewRow
<1>5. by = "id" => AsksBoth(queries, row.pool, row.path) /\ AsksBoth(queries, row.pool, row.shadow)
  BY <1>2, <1>4, AskedFinds
<1>6. by = "id" => Free(a, row.pool, row.path)' /\ Free(a, row.pool, row.shadow)'
  BY <1>3, <1>5, AskedIsFree
<1>7. by = "id" \/ t \in byName'
  BY <1>1
<1> QED
  BY <1>1, <1>3, <1>6, <1>7 DEF Checked, CheckedAdd

LEMMA ApartRunQuery ==
    ASSUME TypeOK, NEW a \in Admin, Checked(a), RunQuery(a)
    PROVE  Checked(a)' /\ UNCHANGED <<rows, metas>>
<1> DEFINE q == Head(admin[a].queries)  y == [admin[a] EXCEPT !.queries = Tail(admin[a].queries)]
<1>1. /\ admin[a].at \in {"update", "metas"} /\ admin[a].queries # <<>>
      /\ UNCHANGED <<rows, metas, overlapped, byName>>
      /\ admin' = [admin EXCEPT ![a] = IF \E t \in DOMAIN rows : Matches(t, q) THEN NoOp ELSE y]
  BY DEF RunQuery, tables, history
<1>2. CASE \E t \in DOMAIN rows : Matches(t, q)
  <2>1. admin'[a].at = "idle"
    BY <1>1, <1>2 DEF TypeOK, AdminOK, NoOp
  <2> QED
    BY <1>1, <2>1, CheckedWhenDone
<1>3. CASE ~ \E t \in DOMAIN rows : Matches(t, q)
  <2>1. admin[a] \in UpdateState \cup AddState
    BY <1>1, AdminRecord DEF TypeOK
  <2>2. admin[a].queries \in Seq(Query)
    BY <2>1 DEF UpdateState, AddState
  <2>3. /\ y.at = admin[a].at /\ y.id = admin[a].id /\ y.fields = admin[a].fields
        /\ y.queries = Tail(admin[a].queries)
    BY <2>1 DEF UpdateState, AddState
  <2> HIDE DEF y
  <2>4. admin'[a] = y
    BY <1>1, <1>3 DEF TypeOK, AdminOK
  <2>5. \A i \in DOMAIN admin[a].queries :
          \/ admin[a].queries[i] = q
          \/ \E j \in DOMAIN Tail(admin[a].queries) : Tail(admin[a].queries)[j] = admin[a].queries[i]
    <3> SUFFICES ASSUME NEW i \in DOMAIN admin[a].queries, i # 1
                 PROVE  \E j \in DOMAIN Tail(admin[a].queries) : Tail(admin[a].queries)[j] = admin[a].queries[i]
      BY <2>2
    <3>1. i \in 2..Len(admin[a].queries) /\ Len(admin[a].queries) \in Nat
      BY <2>2
    <3>2. i - 1 \in DOMAIN Tail(admin[a].queries) /\ Tail(admin[a].queries)[i - 1] = admin[a].queries[i]
      BY <1>1, <2>2, <3>1
    <3> QED
      BY <3>2
  <2>6. ASSUME NEW pool, NEW column, NEW p, Unmatched(a, pool, column, p)
        PROVE  Unmatched(a, pool, column, p)'
    <3>1. CASE q = [pool |-> pool, column |-> column, value |-> p]
      <4>1. q.pool = pool /\ q.column = column /\ q.value = p
        BY <3>1
      <4> HIDE DEF q
      <4> QED
        BY <1>1, <1>3, <4>1 DEF Unmatched, Matches
    <3>2. CASE q # [pool |-> pool, column |-> column, value |-> p]
      <4> HIDE DEF q
      <4>1. Lists(admin[a].queries, pool, column, p) => Lists(admin'[a].queries, pool, column, p)
        BY <2>3, <2>4, <2>5, <3>2 DEF Lists
      <4> QED
        BY <1>1, <2>6, <4>1 DEF Unmatched
    <3> QED
      BY <3>1, <3>2
  <2>7. \A pool, p : Free(a, pool, p) => Free(a, pool, p)'
    BY <2>6 DEF Free
  <2> QED
    BY <1>1, <2>3, <2>4, <2>7 DEF Checked, CheckedUpdate, CheckedAdd
<1> QED
  BY <1>2, <1>3

LEMMA ApartMetas ==
    ASSUME TypeOK, NEW a \in Admin, Checked(a), OneOwner, ReadMetas(a) \/ ClaimDatabase(a)
    PROVE  Checked(a)' /\ OneOwner' /\ UNCHANGED rows /\ \A d \in Database : metas[d] \subseteq metas'[d]
<1>1. admin[a].at \in {"metas", "claim"} /\ UNCHANGED <<rows, overlapped, byName>>
  BY DEF ReadMetas, ClaimDatabase, tables, history
<1>2. admin[a] \in AddState
  BY <1>1, AdminRecord DEF TypeOK
<1>3. admin[a].fields \in Row /\ admin[a].id \in Tenancy
  BY <1>2 DEF AddState
<1>4. admin[a].fields.db \in Database
  BY <1>3 DEF Row
<1>5. ASSUME NEW at \in {"claim", "create"}, admin' = [admin EXCEPT ![a] = [admin[a] EXCEPT !.at = at]],
             admin[a].id \notin overlapped => admin[a].queries = <<>>,
             at = "claim" => metas'[admin[a].fields.db] = {}
      PROVE  Checked(a)'
  <2> DEFINE y == [admin[a] EXCEPT !.at = at]
  <2>1. y.at = at /\ y.id = admin[a].id /\ y.fields = admin[a].fields /\ y.queries = admin[a].queries
    BY <1>2 DEF AddState
  <2>2. admin' = [admin EXCEPT ![a] = y]
    BY <1>5
  <2> HIDE DEF y
  <2>3. admin'[a] = y
    BY <2>2 DEF TypeOK, AdminOK
  <2>4. \A pool, column, p : Unmatched(a, pool, column, p) => Unmatched(a, pool, column, p)'
    BY <1>1, <2>1, <2>3 DEF Unmatched
  <2>5. \A pool, p : Free(a, pool, p) => Free(a, pool, p)'
    BY <2>4 DEF Free
  <2> QED
    BY <1>1, <1>5, <2>1, <2>3, <2>5 DEF Checked, CheckedAdd
<1>6. CASE ReadMetas(a)
  <2>1. UNCHANGED metas /\ admin[a].queries = <<>>
    BY <1>6 DEF ReadMetas, tables
  <2>2. CASE metas[admin[a].fields.db] = {}
    <3>1. admin' = [admin EXCEPT ![a] = [admin[a] EXCEPT !.at = "claim"]]
      BY <1>6, <2>2 DEF ReadMetas
    <3> QED
      BY <1>1, <1>5, <2>1, <2>2, <3>1 DEF OneOwner
  <2>3. CASE metas[admin[a].fields.db] # {}
    <3>1. admin'[a].at = "idle"
      BY <1>6, <2>3 DEF ReadMetas, NoOp, TypeOK, AdminOK
    <3> QED
      BY <1>1, <2>1, <3>1, CheckedWhenDone DEF OneOwner
  <2> QED
    BY <2>2, <2>3
<1>7. CASE ClaimDatabase(a)
  <2>1. /\ admin[a].at = "claim"
        /\ metas' = [metas EXCEPT ![admin[a].fields.db] = metas[admin[a].fields.db] \cup {admin[a].id}]
        /\ admin' = [admin EXCEPT ![a] = [admin[a] EXCEPT !.at = "create"]]
    BY <1>7 DEF ClaimDatabase
  <2>2. admin[a].id \notin overlapped => admin[a].queries = <<>> /\ metas[admin[a].fields.db] = {}
    BY <2>1 DEF Checked, CheckedAdd
  <2>3. Checked(a)'
    BY <1>5, <2>1, <2>2
  <2>4. \A d \in Database :
          metas'[d] = IF d = admin[a].fields.db THEN metas[d] \cup {admin[a].id} ELSE metas[d]
    BY <1>4, <2>1 DEF TypeOK, DatabaseOK
  <2>5. \A d \in Database : metas[d] \subseteq metas'[d]
    BY <2>4
  <2>6. OneOwner'
    BY <1>1, <2>2, <2>4 DEF OneOwner
  <2> QED
    BY <1>1, <2>3, <2>5, <2>6
<1> QED
  BY <1>6, <1>7

(* What is written over a row replaces its paths and its pool, or keeps them. *)
LEMMA UpdatedParts ==
    ASSUME NEW row \in Row, NEW fields \in Fields
    PROVE  LET new == Updated(row, fields)
           IN  /\ new.path = IF fields \in [path : Path] THEN fields.path ELSE row.path
               /\ new.shadow = IF fields \in [shadow : Path] THEN fields.shadow ELSE row.shadow
               /\ new.pool = IF fields \in [pool : Pool, db : Database] THEN fields.pool ELSE row.pool
<1>1. {"pool", "path", "shadow"} \subseteq DOMAIN row
  BY DEF Row
<1>2. /\ "path" \in DOMAIN fields <=> fields \in [path : Path]
      /\ "shadow" \in DOMAIN fields <=> fields \in [shadow : Path]
      /\ "pool" \in DOMAIN fields <=> fields \in [pool : Pool, db : Database]
  BY DEF Fields
<1>3. \A c \in {"pool", "path", "shadow"} :
        Updated(row, fields)[c] = IF c \in DOMAIN fields THEN fields[c] ELSE row[c]
  BY <1>1 DEF Updated
<1> QED
  BY <1>2, <1>3

(* A path that nobody in the pool has.                                     *)
NobodyHas(pool, p) ==
    \A u \in DOMAIN rows : rows[u].pool = pool => rows[u].path # p /\ rows[u].shadow # p

LEMMA FreeMeans ==
    ASSUME NEW a, NEW pool, NEW p, Free(a, pool, p), admin[a].queries = <<>>
    PROVE  NobodyHas(pool, p)
<1>1. DOMAIN <<>> = {}
  OBVIOUS
<1> QED
  BY <1>1 DEF Free, Unmatched, Lists, NobodyHas

(* A row is written: its paths are free where it goes, or it is excepted.  *)
LEMMA ApartWrite ==
    ASSUME TypeOK, NEW a \in Admin, Checked(a), PathsApart(rows, overlapped \cup byName),
           UpdateRow(a) \/ CreateRow(a)
    PROVE  PathsApart(rows', overlapped \cup byName)
<1> DEFINE t == admin[a].id  fields == admin[a].fields  E == overlapped \cup byName
<1>1. CASE UNCHANGED rows
  BY <1>1
<1>2. CASE UpdateRow(a) /\ rows' # rows
  <2> DEFINE new == Updated(rows[t], fields)
  <2>1. /\ admin[a].at = "update" /\ admin[a].queries = <<>>
        /\ rows' = [u \in DOMAIN rows |-> IF u = t THEN Updated(rows[u], fields) ELSE rows[u]]
    BY <1>2 DEF UpdateRow
  <2>2. t \in DOMAIN rows
    <3> SUFFICES ASSUME t \notin DOMAIN rows PROVE rows' = rows
      BY <1>2
    <3>1. rows = [u \in DOMAIN rows |-> rows[u]]
      BY DEF TypeOK, DatabaseOK
    <3>2. rows' = [u \in DOMAIN rows |-> rows[u]]
      BY <2>1
    <3> QED
      BY <3>1, <3>2
  <2>3. fields \in Fields /\ rows[t] \in Row
    BY <2>1, <2>2, AdminRecord DEF UpdateState, TypeOK, DatabaseOK
  <2>4. rows' = [u \in DOMAIN rows \cup {t} |-> IF u = t THEN new ELSE rows[u]]
    BY <2>1, <2>2
  <2>5. ASSUME t \notin overlapped
        PROVE  \A u \in DOMAIN rows \ {t} : rows[u].pool = new.pool =>
                 t \in E \/ u \in E \/ {new.path, new.shadow} \cap {rows[u].path, rows[u].shadow} = {}
    <3>1. /\ new.path = IF fields \in [path : Path] THEN fields.path ELSE rows[t].path
          /\ new.shadow = IF fields \in [shadow : Path] THEN fields.shadow ELSE rows[t].shadow
          /\ new.pool = IF fields \in [pool : Pool, db : Database] THEN fields.pool ELSE rows[t].pool
      BY <2>3, UpdatedParts
    <3>2. /\ fields \in [path : Path] => NobodyHas(rows[t].pool, fields.path)
          /\ fields \in [shadow : Path] => NobodyHas(rows[t].pool, fields.shadow)
          /\ fields \in [pool : Pool, db : Database] =>
               \/ fields.pool = rows[t].pool
               \/ NobodyHas(fields.pool, rows[t].path) /\ NobodyHas(fields.pool, rows[t].shadow)
      BY <2>1, <2>5, FreeMeans DEF Checked, CheckedUpdate
    <3>3. \A u \in DOMAIN rows \ {t} : rows[u].pool = rows[t].pool =>
            t \in E \/ u \in E \/ {rows[t].path, rows[t].shadow} \cap {rows[u].path, rows[u].shadow} = {}
      BY <2>2 DEF PathsApart
    <3>4. /\ fields \in [path : Path] => fields \notin [shadow : Path] /\ fields \notin [pool : Pool, db : Database]
          /\ fields \in [shadow : Path] => fields \notin [pool : Pool, db : Database]
      OBVIOUS
    <3> HIDE DEF new, t, fields, E
    <3> QED
      BY <3>1, <3>2, <3>3, <3>4 DEF NobodyHas
  <2>6. t \notin overlapped \/ t \in E
    OBVIOUS
  <2> HIDE DEF new, t, fields, E
  <2>7. DOMAIN rows' = DOMAIN rows /\ \A u \in DOMAIN rows : rows'[u] = IF u = t THEN new ELSE rows[u]
    BY <2>2, <2>4
  <2>8. PathsApart(rows, E)
    BY DEF E
  <2>9. PathsApart(rows', E)
    BY <2>5, <2>6, <2>7, <2>8 DEF PathsApart
  <2> QED
    BY <2>9 DEF E
<1>3. CASE CreateRow(a) /\ rows' # rows
  <2>1. admin[a].at = "create" /\ rows' = [u \in DOMAIN rows \cup {t} |-> IF u = t THEN fields ELSE rows[u]]
    BY <1>3 DEF CreateRow
  <2>2. t \in E \/ (NobodyHas(fields.pool, fields.path) /\ NobodyHas(fields.pool, fields.shadow))
    BY <2>1, FreeMeans DEF Checked, CheckedAdd
  <2>3. t \in E \/ \A u \in DOMAIN rows \ {t} : rows[u].pool = fields.pool =>
          {fields.path, fields.shadow} \cap {rows[u].path, rows[u].shadow} = {}
    BY <2>2 DEF NobodyHas
  <2>4. PathsApart(rows, E)
    OBVIOUS
  <2> HIDE DEF t, fields, E
  <2>5. /\ DOMAIN rows' = DOMAIN rows \cup {t}
        /\ \A u \in DOMAIN rows' : rows'[u] = IF u = t THEN fields ELSE rows[u]
    BY <2>1
  <2>6. PathsApart(rows', E)
    BY <2>3, <2>4, <2>5 DEF PathsApart
  <2> QED
    BY <2>6 DEF E
<1> QED
  BY <1>1, <1>2, <1>3

LEMMA ApartAdmin ==
    ASSUME TypeOK, ApartInv, NEW a \in Admin, AdminStep(a)
    PROVE  ApartInv'
<1>1. ServersKept /\ ((\E t \in Tenancy : Begins(a, t)) \/ GoesOn(a) \/ PublishOp(a))
  BY AdminStepType
<1>2. Alone' /\ overlapped \subseteq overlapped'
  BY <1>1, AloneKept DEF ApartInv
<1>3. ASSUME UNCHANGED rows, byName \subseteq byName' PROVE PathsApart(rows, overlapped \cup byName)'
  BY <1>2, <1>3 DEF ApartInv, PathsApart
<1>4. ASSUME UNCHANGED metas PROVE OneOwner' /\ \A d \in Database : metas[d] \subseteq metas'[d]
  BY <1>2, <1>4 DEF ApartInv, OneOwner
<1>5. /\ PathsApart(rows, overlapped \cup byName)' /\ Checked(a)' /\ OneOwner'
      /\ byName \subseteq byName' /\ \A d \in Database : metas[d] \subseteq metas'[d]
  <2>1. CASE \E t \in Tenancy : Operation(a, t)
    <3>1. PICK t \in Tenancy : Operation(a, t)
      BY <2>1
    <3>2. t \in DOMAIN rows /\ (BeginsUpdate(a, t) \/ BeginsEffect(a, t))
      BY <3>1, OperationIs
    <3>3. UNCHANGED <<rows, metas, byName>>
      BY <3>1, OperationBegins DEF Begins
    <3> QED
      BY <1>3, <1>4, <3>2, <3>3, ApartBeginsUpdate, ApartBeginsEffect
  <2>2. CASE \E row \in NewRow, by \in {"id", "name"} : Add(a, row, by)
    BY <1>3, <1>4, <2>2, ApartAdd
  <2>3. CASE RunQuery(a)
    <3>1. UNCHANGED byName
      BY <2>3 DEF RunQuery, history
    <3> QED
      BY <1>3, <1>4, <2>3, <3>1, ApartRunQuery DEF ApartInv
  <2>4. CASE ReadMetas(a) \/ ClaimDatabase(a)
    <3>1. UNCHANGED byName
      BY <2>4 DEF ReadMetas, ClaimDatabase, history
    <3> QED
      BY <1>3, <2>4, <3>1, ApartMetas DEF ApartInv
  <2>5. CASE UpdateRow(a) \/ CreateRow(a)
    <3>1. UNCHANGED <<metas, overlapped, byName>>
      BY <2>5 DEF UpdateRow, CreateRow, history
    <3>2. PathsApart(rows', overlapped \cup byName)
      BY <2>5, ApartWrite DEF ApartInv
    <3>3. PathsApart(rows, overlapped \cup byName)'
      BY <3>1, <3>2 DEF PathsApart
    <3>4. admin'[a].at \in {"idle", "publish"}
      BY <2>5 DEF UpdateRow, CreateRow, ToPublish, NoOp, TypeOK, AdminOK
    <3> QED
      BY <1>4, <3>1, <3>3, <3>4, CheckedWhenDone
  <2>6. CASE DeleteRow(a) \/ CreateIp(a) \/ DeleteIp(a) \/ PublishOp(a)
    <3>1. UNCHANGED <<metas, overlapped, byName>>
      BY <2>6 DEF DeleteRow, CreateIp, DeleteIp, PublishOp, history, tables
    <3>2. admin'[a].at \in {"idle", "publish"}
      BY <2>6 DEF DeleteRow, CreateIp, DeleteIp, PublishOp, ToPublish, NoOp, TypeOK, AdminOK
    <3>3. UNCHANGED rows \/ rows' = [u \in DOMAIN rows \ {admin[a].id} |-> rows[u]]
      BY <2>6 DEF DeleteRow, CreateIp, DeleteIp, PublishOp, tables
    <3>4. PathsApart(rows, overlapped \cup byName)'
      BY <1>3, <3>1, <3>3 DEF ApartInv, PathsApart
    <3> QED
      BY <1>4, <3>1, <3>2, <3>4, CheckedWhenDone
  <2> QED
    BY <2>1, <2>2, <2>3, <2>4, <2>5, <2>6 DEF AdminStep
<1>6. \A b \in Admin : Checked(b)'
  BY <1>1, <1>5, OthersChecked DEF ApartInv
<1>7. ASSUME NEW s \in Server PROVE Owners(s)' /\ CachedById(s)'
  <2>1. \A o \in Object : Owns(o) => Owns(o)'
    BY <1>5, ObjectParts DEF Owns, Connected
  <2>2. \A l \in Loader : loader[s][l].at = "store" => loader[s][l].tenancy \in Object
    BY LoaderRecord DEF TypeOK
  <2>3. Owners(s)'
    BY <1>1, <2>1, <2>2 DEF ApartInv, Owners, ServersKept, TypeOK, ServersOK
  <2> QED
    BY <1>1, <2>3 DEF ApartInv, CachedById, ServersKept
<1> QED
  BY <1>2, <1>5, <1>6, <1>7 DEF ApartInv

LEMMA ApartServer ==
    ASSUME TypeOK, ApartInv, NEW s \in Server, ServerStep(s), UNCHANGED <<tables, adminVars>>
    PROVE  ApartInv'
<1>1. UNCHANGED <<rows, metas, admin, overlapped, byName>> /\ OthersKept(s)
  BY ServerStepType DEF HistoryElsewhere
<1>2. PathsApart(rows, overlapped \cup byName)' /\ OneOwner' /\ Alone' /\ \A a \in Admin : Checked(a)'
  <2>1. \A a \in Admin : Checked(a)'
    BY <1>1, CheckedKept DEF ApartInv
  <2> QED
    BY <1>1, <2>1 DEF ApartInv, PathsApart, OneOwner, Alone, IsWriting
<1>3. \A u \in Server \ {s} : Owners(u)' /\ CachedById(u)'
  BY <1>1 DEF ApartInv, OthersKept, SameServer, Owners, Owns, Connected, CachedById
<1>4. \A o : Owns(o)' <=> Owns(o)
  BY <1>1 DEF Owns, Connected
<1>5. Owners(s) /\ CachedById(s)
  BY DEF ApartInv
<1>6. ASSUME UNCHANGED tenanciesById, NEW l \in Loader, NEW x, x.at # "store",
             loader'[s] = [loader[s] EXCEPT ![l] = x]
      PROVE  Owners(s)' /\ CachedById(s)'
  BY <1>4, <1>5, <1>6 DEF Owners, CachedById, TypeOK, ServersOK
<1>7. ASSUME NEW l \in Loader, LoaderStep(s, l) PROVE Owners(s)' /\ CachedById(s)'
  <2>1. CASE FindTenancy(s, l)
    <3> DEFINE x == [at |-> "init", tenancy |-> [id |-> loader[s][l].id, row |-> rows[loader[s][l].id]]]
    <3>1. UNCHANGED tenanciesById /\ loader'[s] = [loader[s] EXCEPT ![l] = x] /\ x.at # "store"
      BY <2>1, FindTenancyIs
    <3> HIDE DEF x
    <3> QED
      BY <1>6, <3>1
  <2>2. CASE FindMissing(s, l)
    BY <1>6, <2>2, FindMissingIs, LoaderForms
  <2>3. CASE InitLoaded(s, l)
    <3>1. PICK b \in BOOLEAN : loader'[s] =
            [loader[s] EXCEPT ![l] = [at |-> "store", tenancy |-> loader[s][l].tenancy, ip |-> b]]
      BY <2>3, InitLoadedIs
    <3>2. UNCHANGED tenanciesById /\ Owns(loader[s][l].tenancy)
      BY <2>3, InitLoadedIs DEF InitTenancy, Owns, Connected
    <3> QED
      BY <1>4, <1>5, <3>1, <3>2 DEF Owners, CachedById, TypeOK, ServersOK
  <2>4. CASE StoreLoaded(s, l)
    <3> DEFINE o == loader[s][l].tenancy
    <3>1. Owns(o)
      BY <1>5, <2>4, StoreLoadedIs DEF Owners
    <3>2. /\ loader'[s] = [loader[s] EXCEPT ![l] = Idle]
          /\ tenanciesById'[s] = [tenanciesById[s] EXCEPT ![o.id] = o]
      BY <2>4, StoreLoadedIs
    <3> HIDE DEF o
    <3> QED
      BY <1>4, <1>5, <3>1, <3>2, LoaderForms DEF Owners, CachedById, TypeOK, ServersOK
  <2> QED
    BY <1>7, <2>1, <2>2, <2>3, <2>4 DEF LoaderStep
<1>8. ASSUME NEW p \in Pool, Handle(s, p) PROVE Owners(s)' /\ CachedById(s)'
  <2> DEFINE msg == Head(channel[s][p])
             x == IF msg.delete THEN Idle ELSE [at |-> "find", id |-> msg.id]
  <2>1. x.at # "store" /\ loader'[s] = [loader[s] EXCEPT ![p] = x]
    BY <1>8, HandleIs DEF Idle
  <2>2. msg.id \in Tenancy /\ UnloadTenancy(s, msg.id)
    BY <1>8, HandleIs DEF Notification
  <2> HIDE DEF x, msg
  <2>3. \A y \in Tenancy : tenanciesById'[s][y] = IF y = msg.id THEN None ELSE tenanciesById[s][y]
    BY <2>2, UnloadTenancyIs DEF TypeOK
  <2>4. \A l \in Loader : loader'[s][l].at = "store" => loader'[s][l] = loader[s][l]
    BY <2>1 DEF TypeOK, ServersOK
  <2> QED
    BY <1>4, <1>5, <2>3, <2>4 DEF Owners, CachedById
<1>13. ASSUME NEW p \in Pool, LoadFails(s, p) PROVE Owners(s)' /\ CachedById(s)'
  BY <1>6, <1>13, LoadFailsIs, LoaderForms DEF Loader
<1>9. ASSUME Start(s) \/ Stop(s) PROVE Owners(s)' /\ CachedById(s)'
  <2>1. \A t \in Tenancy : tenanciesById'[s][t] = None
    BY <1>9, StartIs, StopIs
  <2>2. \A l \in Loader : loader'[s][l] = Idle \/ loader'[s][l] = loader[s][l]
    BY <1>9, StartIs, StopIs
  <2> QED
    BY <1>4, <1>5, <2>1, <2>2, LoaderForms DEF Owners, CachedById
<1>10. ASSUME ListTenancies(s) \/ InitDone(s) PROVE Owners(s)' /\ CachedById(s)'
  BY <1>4, <1>5, <1>10, ListTenanciesIs, InitDoneIs DEF Owners, CachedById
<1>11. ASSUME LoadNext(s) PROVE Owners(s)' /\ CachedById(s)'
  <2>1. PICK o \in todo[s] : loader'[s] = [loader[s] EXCEPT ![Boot] = [at |-> "init", tenancy |-> o]]
    BY <1>11, LoadNextIs
  <2> DEFINE x == [at |-> "init", tenancy |-> o]
  <2>2. x.at # "store" /\ loader'[s] = [loader[s] EXCEPT ![Boot] = x] /\ Boot \in Loader
    BY <2>1 DEF Loader
  <2> HIDE DEF x
  <2> QED
    BY <1>6, <1>11, <2>2, LoadNextIs
<1>12. Owners(s)' /\ CachedById(s)'
  BY <1>7, <1>8, <1>9, <1>10, <1>11, <1>13 DEF ServerStep, Run
<1> QED
  BY <1>2, <1>3, <1>12 DEF ApartInv

LEMMA ApartInit == Init => ApartInv
<1> SUFFICES ASSUME Init PROVE ApartInv
  OBVIOUS
<1>1. PathsApart(rows, overlapped \cup byName)
  BY DEF Init, PathsApart
<1>2. \A a \in Admin : admin[a].at = "idle"
  BY DEF Init, NoOp
<1>3. OneOwner
  <2>1. \A t, u \in Existing : t # u => rows[t].db # rows[u].db
    BY DEF Init
  <2>2. metas = [d \in Database |-> {t \in Existing : rows[t].db = d}]
    BY DEF Init
  <2> QED
    BY <2>1, <2>2 DEF OneOwner
<1>4. \A s \in Server : Owners(s) /\ CachedById(s)
  BY LoaderForms DEF Init, ManagerInit, Owners, CachedById
<1>5. Alone /\ \A a \in Admin : Checked(a)
  BY <1>2 DEF Alone, IsWriting, Checked
<1> QED
  BY <1>1, <1>3, <1>4, <1>5 DEF ApartInv

LEMMA ApartInduction == Spec => []ApartInv
<1>1. TypeOK /\ ApartInv /\ [Next]_vars => ApartInv'
  <2>1. ASSUME ApartInv, UNCHANGED vars PROVE ApartInv'
    <3>1. \A a \in Admin : Checked(a)'
      BY <2>1, CheckedKept DEF ApartInv, vars, tables, adminVars, history
    <3>2. \A s \in Server : Owners(s)' /\ CachedById(s)'
      BY <2>1 DEF ApartInv, vars, tables, managerVars, indexes, Owners, CachedById, Owns, Connected
    <3>3. PathsApart(rows, overlapped \cup byName)' /\ OneOwner' /\ Alone'
      BY <2>1 DEF ApartInv, vars, tables, adminVars, history, PathsApart, OneOwner, Alone, IsWriting
    <3> QED
      BY <3>1, <3>2, <3>3 DEF ApartInv
  <2> QED
    BY <2>1, ApartAdmin, ApartServer DEF Next
<1> QED
  BY ApartInit, <1>1, TenancyTypes, PTL DEF Spec

(* No path leads to two tenancies of a pool, and no two tenancies are      *)
(* served from one database, for any number of administrators and servers. *)
(* The checks and the writes are separate statements: what is excepted are *)
(* the tenancies whose operation met another before both had written, and  *)
(* for the paths those added with the name of their pool, for which the    *)
(* duplicate check finds nothing.                                          *)
THEOREM TenanciesKeptApart == Spec => []TenanciesApart
<1>1. TypeOK /\ ApartInv => TenanciesApart
  <2> SUFFICES ASSUME TypeOK, ApartInv, NEW s \in Server, NEW t \in Tenancy, tenanciesById[s][t] # None,
                      Connected(tenanciesById[s][t])
               PROVE  /\ t \in metas[tenanciesById[s][t].row.db]
                      /\ t \notin overlapped => metas[tenanciesById[s][t].row.db] \subseteq {t} \cup overlapped
    BY DEF TenanciesApart, ApartInv
  <2> DEFINE o == tenanciesById[s][t]
  <2>1. o \in Object /\ o.id = t
    BY DEF TypeOK, ServersOK, ApartInv, CachedById
  <2>2. t \in metas[o.row.db] /\ o.row.db \in Database
    BY <2>1, ObjectParts DEF ApartInv, Owners, Owns
  <2> QED
    BY <2>2 DEF ApartInv, OneOwner
<1> QED
  BY <1>1, ApartInduction, TenancyTypes, PTL


-----------------------------------------------------------------------------
(* What a server has yet to learn of a tenancy.                            *)

Here(s, t) == t \in DOMAIN rows /\ rows[t].pool \in Subs[s]
Expected(s, t) == IF Here(s, t) THEN [id |-> t, row |-> rows[t]] ELSE None

(* The notes of an operation say where its tenancy is after its write: who *)
(* is told to unload it, though it exists, is not the last to be told.     *)
Truthful(t, notes) ==
    \A i \in DOMAIN notes :
       /\ notes[i].msg.delete /\ t \in DOMAIN rows =>
            \E j \in DOMAIN notes : j > i /\ notes[j].pool = rows[t].pool
       /\ ~notes[i].msg.delete => t \in DOMAIN rows /\ rows[t].pool = notes[i].pool
NotesTrue(a) ==
    /\ admin[a].at \in {"update", "delete", "add_ip", "delete_ip"} => admin[a].id \in DOMAIN rows
    /\ admin[a].at = "update" =>
         admin[a].notes = NotesOf(admin[a].id, rows[admin[a].id].pool,
                                  After(admin[a].fields, rows[admin[a].id].pool))
    /\ admin[a].at = "delete" => admin[a].notes = <<NotifyDelete(admin[a].id, rows[admin[a].id].pool)>>
    /\ admin[a].at \in {"add_ip", "delete_ip"} =>
         admin[a].notes = <<Notify(admin[a].id, rows[admin[a].id].pool)>>
    /\ admin[a].at \in {"metas", "claim", "create"} =>
         admin[a].id \notin DOMAIN rows /\ admin[a].notes = <<Notify(admin[a].id, admin[a].fields.pool)>>
    /\ admin[a].at = "publish" => Truthful(admin[a].id, admin[a].notes)

(* One administrator is about the tenancy, and tells the truth.            *)
OneTeller(t) ==
    /\ \A a, b \in About(t) : a = b
    /\ \A a \in About(t) : NotesTrue(a)

(* Notifications about a tenancy that the server is to get, or has got.    *)
Announced(s, t) ==
    \E a \in About(t) : admin[a].at = "publish"
                        /\ \E i \in DOMAIN admin[a].notes : admin[a].notes[i].pool \in Subs[s]
Received(s, t) ==
    \E p \in Pool : \E i \in DOMAIN channel[s][p] : channel[s][p][i].id = t

(* The last one that it has got is true, when no more are to come.         *)
LastIsTrue(s, t) ==
    ~Announced(s, t) =>
       \A p \in Pool : \A i \in DOMAIN channel[s][p] :
          channel[s][p][i].id = t /\ (\A j \in DOMAIN channel[s][p] : j > i => channel[s][p][j].id # t)
          => (channel[s][p][i].delete <=> ~Here(s, t))

(* Who knows of the tenancy, if it is up to date.                          *)
LoadFresh(s, l, t) ==
    IF loader[s][l].at = "find" THEN Here(s, t) ELSE loader[s][l].tenancy = Expected(s, t)
Fresh(s, t) ==
    /\ \A l \in Loader : Loading(s, l, t) => LoadFresh(s, l, t)
    /\ stage[s] = "loading" => \A o \in todo[s] : o.id = t => o = Expected(s, t)
    /\ \/ \E l \in Loader : Loading(s, l, t)
       \/ stage[s] = "loading" /\ \E o \in todo[s] : o.id = t
       \/ t \in failed[s]
       \/ tenanciesById[s][t] = Expected(s, t)
AllFresh(s, t) ==
    stage[s] \in {"loading", "up"} => Announced(s, t) \/ Received(s, t) \/ Fresh(s, t)

ServerFresh(s, t) == LastIsTrue(s, t) /\ AllFresh(s, t)
FreshInv ==
    \A s \in Server : stage[s] # "down" =>
       \A t \in Tenancy \ (missed[s] \cup crossed[s]) : OneTeller(t) /\ ServerFresh(s, t)

-----------------------------------------------------------------------------
(* What the administrator announces is true.                               *)

RowKept(x) == (x \in DOMAIN rows' <=> x \in DOMAIN rows) /\ (x \in DOMAIN rows => rows'[x] = rows[x])

(* A write: the notes that remain to be published are true of the new      *)
(* tables, and reach every server that had the tenancy or is to have it.   *)
Wrote(a, t) ==
    /\ admin'[a].at = "publish" /\ admin'[a].id = t
    /\ Truthful(t, admin[a].notes)'
    /\ \A s \in Server : Here(s, t) \/ Here(s, t)' =>
          \E i \in DOMAIN admin'[a].notes : admin'[a].notes[i].pool \in Subs[s]

LEMMA ToPublishIs ==
    ASSUME TypeOK, NEW a \in Admin, ToPublish(a)
    PROVE  admin'[a].at = "publish" /\ admin'[a].id = admin[a].id /\ admin'[a].notes = admin[a].notes
BY DEF ToPublish, TypeOK, AdminOK

LEMMA UpdatedPool ==
    ASSUME NEW row \in Row, NEW fields \in Fields
    PROVE  Updated(row, fields).pool = After(fields, row.pool)
<1>1. "pool" \in DOMAIN fields <=> fields \in [pool : Pool, db : Database]
  BY DEF Fields
<1> QED
  BY <1>1, UpdatedParts DEF After

LEMMA UpdateWrites ==
    ASSUME TypeOK, NEW a \in Admin, NotesTrue(a), UpdateRow(a), ToPublish(a)
    PROVE  Wrote(a, admin[a].id)
<1>1. PICK t \in Tenancy : t = admin[a].id
  BY AdminRecord DEF UpdateRow, UpdateState, TypeOK
<1> DEFINE fields == admin[a].fields  notes == admin[a].notes
           old == rows[t].pool  new == rows'[t].pool
<1>2. /\ admin[a].at = "update" /\ t \in DOMAIN rows /\ fields \in Fields
      /\ notes = NotesOf(t, old, After(fields, old))
  BY <1>1, AdminRecord DEF UpdateRow, NotesTrue, UpdateState, TypeOK
<1>3. admin'[a].at = "publish" /\ admin'[a].notes = notes /\ admin'[a].id = t
  BY <1>1, ToPublishIs
<1>4. rows' = [u \in DOMAIN rows |-> IF u = t THEN Updated(rows[u], fields) ELSE rows[u]]
  <2>1. admin'[a].at # NoOp.at
    BY <1>3 DEF NoOp
  <2>2. admin' # [admin EXCEPT ![a] = NoOp]
    BY <2>1 DEF TypeOK, AdminOK
  <2> QED
    BY <1>1, <2>2 DEF UpdateRow
<1>5. new = After(fields, old) /\ t \in DOMAIN rows'
  <2>1. rows'[t] = Updated(rows[t], fields)
    BY <1>2, <1>4
  <2>2. rows[t] \in Row
    BY <1>2 DEF TypeOK, DatabaseOK
  <2> QED
    BY <1>2, <1>4, <2>1, <2>2, UpdatedPool
<1>6. notes = NotesOf(t, old, new)
  BY <1>2, <1>5
<1>7. /\ Notify(t, new).pool = new /\ ~Notify(t, new).msg.delete
      /\ NotifyDelete(t, old).pool = old /\ NotifyDelete(t, old).msg.delete = TRUE
  BY DEF Notify, NotifyDelete
<1> DEFINE Told(n) == \A i \in DOMAIN n :
             /\ n[i].msg.delete => \E j \in DOMAIN n : j > i /\ n[j].pool = new
             /\ ~n[i].msg.delete => new = n[i].pool
<1>8. Told(notes) /\ \A p \in {old, new} : \E i \in DOMAIN notes : notes[i].pool = p
  <2> HIDE DEF notes, old, new
  <2>1. CASE old = new
    <3>1. notes = <<Notify(t, new)>>
      BY <1>6, <2>1 DEF NotesOf
    <3>2. DOMAIN notes = {1} /\ notes[1] = Notify(t, new)
      BY <3>1
    <3> QED
      BY <1>7, <2>1, <3>2
  <2>2. CASE old # new
    <3>1. notes = <<NotifyDelete(t, old), Notify(t, new)>>
      BY <1>6, <2>2 DEF NotesOf
    <3>2. DOMAIN notes = {1, 2} /\ notes[1] = NotifyDelete(t, old) /\ notes[2] = Notify(t, new)
      BY <3>1
    <3>3. 2 > 1
      OBVIOUS
    <3> QED
      BY <1>7, <2>2, <3>2, <3>3
  <2> QED
    BY <2>1, <2>2
<1>9. Truthful(t, admin[a].notes)'
  BY <1>3, <1>5, <1>8 DEF Truthful
<1>10. \A s \in Server : Here(s, t) \/ Here(s, t)' => old \in Subs[s] \/ new \in Subs[s]
  BY DEF Here
<1> HIDE DEF notes, old, new
<1>11. \A s \in Server : Here(s, t) \/ Here(s, t)' => \E i \in DOMAIN notes : notes[i].pool \in Subs[s]
  BY <1>8, <1>10
<1>12. Wrote(a, t)
  BY <1>3, <1>9, <1>11 DEF Wrote
<1> QED
  BY <1>1, <1>12

(* The other writes announce one thing.                                    *)
LEMMA SingleWrites ==
    ASSUME TypeOK, NEW a \in Admin, ToPublish(a), NEW t \in Tenancy, t = admin[a].id, NEW note,
           admin[a].notes = <<note>>,
           note.msg.delete => t \notin DOMAIN rows',
           ~note.msg.delete => t \in DOMAIN rows' /\ rows'[t].pool = note.pool,
           t \in DOMAIN rows => rows[t].pool = note.pool
    PROVE  Wrote(a, t)
<1>1. admin'[a].at = "publish" /\ admin'[a].notes = <<note>> /\ admin'[a].id = t
  BY ToPublishIs
<1>2. DOMAIN admin'[a].notes = {1} /\ admin'[a].notes[1] = note
  BY <1>1
<1>3. \A s \in Server : Here(s, t) \/ Here(s, t)' => note.pool \in Subs[s]
  BY DEF Here
<1>4. Truthful(t, admin[a].notes)'
  BY <1>2 DEF Truthful
<1> QED
  BY <1>1, <1>2, <1>3, <1>4 DEF Wrote

LEMMA NoteParts ==
    ASSUME NEW t, NEW p
    PROVE  /\ Notify(t, p).pool = p /\ ~Notify(t, p).msg.delete
           /\ NotifyDelete(t, p).pool = p /\ NotifyDelete(t, p).msg.delete = TRUE
BY DEF Notify, NotifyDelete

LEMMA CreateWrites ==
    ASSUME TypeOK, NEW a \in Admin, NotesTrue(a), CreateRow(a), ToPublish(a)
    PROVE  Wrote(a, admin[a].id)
<1>1. PICK t \in Tenancy : t = admin[a].id
  BY AdminRecord DEF CreateRow, AddState, TypeOK
<1> DEFINE row == admin[a].fields
<1>2. t \notin DOMAIN rows /\ admin[a].notes = <<Notify(t, row.pool)>>
  BY <1>1 DEF CreateRow, NotesTrue
<1>3. PICK note : note = Notify(t, row.pool) /\ note.pool = row.pool /\ ~note.msg.delete
  BY NoteParts
<1>4. rows' = [u \in DOMAIN rows \cup {t} |-> IF u = t THEN row ELSE rows[u]]
  <2>1. admin'[a].at # NoOp.at
    BY ToPublishIs DEF NoOp
  <2>2. admin' # [admin EXCEPT ![a] = NoOp]
    BY <2>1 DEF TypeOK, AdminOK
  <2> QED
    BY <1>1, <2>2 DEF CreateRow
<1> HIDE DEF row
<1>5. t \in DOMAIN rows' /\ rows'[t] = row
  BY <1>4
<1>6. Wrote(a, t)
  BY <1>1, <1>2, <1>3, <1>5, SingleWrites
<1> QED
  BY <1>1, <1>6

LEMMA EffectWrites ==
    ASSUME TypeOK, NEW a \in Admin, NotesTrue(a), DeleteRow(a) \/ CreateIp(a) \/ DeleteIp(a)
    PROVE  Wrote(a, admin[a].id)
<1>1. PICK t \in Tenancy : t = admin[a].id
  BY AdminRecord DEF DeleteRow, CreateIp, DeleteIp, EffectState, TypeOK
<1>2. t \in DOMAIN rows /\ ToPublish(a)
  BY <1>1 DEF DeleteRow, CreateIp, DeleteIp, NotesTrue
<1>3. CASE DeleteRow(a)
  <2>1. PICK note :
          note = NotifyDelete(t, rows[t].pool) /\ note.pool = rows[t].pool /\ note.msg.delete = TRUE
    BY NoteParts
  <2>2. admin[a].notes = <<note>> /\ rows' = [u \in DOMAIN rows \ {t} |-> rows[u]]
    BY <1>1, <1>3, <2>1 DEF DeleteRow, NotesTrue
  <2>3. t \notin DOMAIN rows'
    BY <2>2
  <2>4. Wrote(a, t)
    BY <1>1, <1>2, <2>1, <2>2, <2>3, SingleWrites
  <2> QED
    BY <1>1, <2>4
<1>4. CASE CreateIp(a) \/ DeleteIp(a)
  <2>1. PICK note :
          note = Notify(t, rows[t].pool) /\ note.pool = rows[t].pool /\ ~note.msg.delete
    BY NoteParts
  <2>2. admin[a].notes = <<note>> /\ UNCHANGED rows
    BY <1>1, <1>4, <2>1 DEF CreateIp, DeleteIp, NotesTrue
  <2>3. Wrote(a, t)
    BY <1>1, <1>2, <2>1, <2>2, SingleWrites
  <2> QED
    BY <1>1, <2>3
<1> QED
  BY <1>3, <1>4

(* A write changes the row of its own tenancy.                             *)
LEMMA RowsAside ==
    ASSUME TypeOK, NEW a \in Admin, Writing(a), NEW x \in Tenancy, x # admin[a].id
    PROVE  RowKept(x)
<1>1. CASE UpdateRow(a)
  BY <1>1 DEF UpdateRow, RowKept
<1>2. CASE CreateRow(a)
  BY <1>2 DEF CreateRow, RowKept
<1>3. CASE DeleteRow(a)
  BY <1>3 DEF DeleteRow, RowKept
<1>4. CASE RunQuery(a) \/ ReadMetas(a) \/ ClaimDatabase(a) \/ CreateIp(a) \/ DeleteIp(a)
  BY <1>4 DEF RunQuery, ReadMetas, ClaimDatabase, CreateIp, DeleteIp, tables, RowKept
<1> QED
  BY <1>1, <1>2, <1>3, <1>4 DEF Writing

LEMMA NotesBegin ==
    ASSUME TypeOK, NEW a \in Admin, NEW t \in Tenancy, t \in DOMAIN rows, BeginsUpdate(a, t) \/ BeginsEffect(a, t)
    PROVE  NotesTrue(a)'
<1>1. UNCHANGED rows
  BY DEF BeginsUpdate, BeginsEffect, Update, Effect, tables
<1>2. CASE BeginsUpdate(a, t)
  <2>1. PICK fields \in Fields :
          Update(a, t, fields, Asked(t, fields), NotesOf(t, rows[t].pool, After(fields, rows[t].pool)))
    BY <1>2 DEF BeginsUpdate
  <2>2. /\ admin'[a].at = "update" /\ admin'[a].id = t /\ admin'[a].fields = fields
        /\ admin'[a].notes = NotesOf(t, rows[t].pool, After(fields, rows[t].pool))
    BY <2>1 DEF Update, TypeOK, AdminOK
  <2>3. \A p, q, f : NotesOf(t, p, q)' = NotesOf(t, p, q) /\ After(f, p)' = After(f, p)
    BY DEF NotesOf, After, Notify, NotifyDelete
  <2> QED
    BY <1>1, <2>2, <2>3 DEF NotesTrue
<1>3. CASE BeginsEffect(a, t)
  <2>1. /\ admin'[a].at \in {"delete", "add_ip", "delete_ip"} /\ admin'[a].id = t
        /\ admin'[a].at = "delete" => admin'[a].notes = <<NotifyDelete(t, rows[t].pool)>>
        /\ admin'[a].at # "delete" => admin'[a].notes = <<Notify(t, rows[t].pool)>>
    BY <1>3 DEF BeginsEffect, Effect, TypeOK, AdminOK
  <2> QED
    BY <1>1, <2>1 DEF NotesTrue, Notify, NotifyDelete
<1> QED
  BY <1>2, <1>3

LEMMA NotesAdd ==
    ASSUME TypeOK, NEW a \in Admin, NEW row \in NewRow, NEW by \in {"id", "name"}, Add(a, row, by)
    PROVE  NotesTrue(a)'
<1>1. UNCHANGED rows
  BY DEF Add, tables
<1>2. PICK t \in Tenancy \ used :
        admin'[a].at = "metas" /\ admin'[a].id = t /\ admin'[a].fields = row /\ admin'[a].notes = <<Notify(t, row.pool)>>
  BY DEF Add, TypeOK, AdminOK
<1>3. t \notin DOMAIN rows'
  BY <1>1 DEF TypeOK, AdminOK
<1> QED
  BY <1>1, <1>2, <1>3 DEF NotesTrue, Notify

LEMMA NotesGoOn ==
    ASSUME TypeOK, NEW a \in Admin, NotesTrue(a), RunQuery(a) \/ ReadMetas(a) \/ ClaimDatabase(a)
    PROVE  /\ UNCHANGED rows /\ admin'[a].at # "publish"
           /\ admin'[a] = NoOp \/ NotesTrue(a)'
<1>1. admin[a].at \in {"update", "metas", "claim"} /\ UNCHANGED rows
  BY DEF RunQuery, ReadMetas, ClaimDatabase, tables
<1>2. admin[a] \in UpdateState \cup AddState
  BY <1>1, AdminRecord DEF TypeOK
<1>3. /\ \A v : LET y == [admin[a] EXCEPT !.queries = v]
                IN  y.at = admin[a].at /\ y.id = admin[a].id /\ y.fields = admin[a].fields /\ y.notes = admin[a].notes
      /\ \A v : LET y == [admin[a] EXCEPT !.at = v]
                IN  y.at = v /\ y.id = admin[a].id /\ y.fields = admin[a].fields /\ y.notes = admin[a].notes
  BY <1>2 DEF UpdateState, AddState
<1>4. \/ admin'[a] = NoOp
      \/ /\ \/ admin'[a].at = admin[a].at
            \/ admin[a].at \in {"metas", "claim"} /\ admin'[a].at \in {"claim", "create"}
         /\ admin'[a].id = admin[a].id /\ admin'[a].fields = admin[a].fields /\ admin'[a].notes = admin[a].notes
  <2>1. CASE RunQuery(a)
    <3> DEFINE y == [admin[a] EXCEPT !.queries = Tail(admin[a].queries)]
    <3>1. admin'[a] = NoOp \/ admin'[a] = y
      BY <2>1 DEF RunQuery, TypeOK, AdminOK
    <3>2. y.at = admin[a].at /\ y.id = admin[a].id /\ y.fields = admin[a].fields /\ y.notes = admin[a].notes
      BY <1>3
    <3> HIDE DEF y
    <3> QED
      BY <3>1, <3>2
  <2>2. CASE ReadMetas(a)
    <3> DEFINE y == [admin[a] EXCEPT !.at = "claim"]
    <3>1. admin[a].at = "metas" /\ (admin'[a] = NoOp \/ admin'[a] = y)
      BY <2>2 DEF ReadMetas, TypeOK, AdminOK
    <3>2. y.at = "claim" /\ y.id = admin[a].id /\ y.fields = admin[a].fields /\ y.notes = admin[a].notes
      BY <1>3
    <3> HIDE DEF y
    <3> QED
      BY <3>1, <3>2
  <2>3. CASE ClaimDatabase(a)
    <3>1. admin[a].at = "claim" /\ admin'[a] = [admin[a] EXCEPT !.at = "create"]
      BY <2>3 DEF ClaimDatabase, TypeOK, AdminOK
    <3> QED
      BY <1>3, <3>1
  <2> QED
    BY <2>1, <2>2, <2>3
<1>5. \A t, p, q, f : /\ NotesOf(t, p, q)' = NotesOf(t, p, q) /\ After(f, p)' = After(f, p)
                      /\ Notify(t, p)' = Notify(t, p)
  BY DEF NotesOf, After, Notify, NotifyDelete
<1>6. admin'[a].at # "publish"
  BY <1>1, <1>4 DEF NoOp
<1>7. CASE admin'[a].at = "update"
  BY <1>1, <1>4, <1>5, <1>6, <1>7 DEF NotesTrue
<1>8. CASE admin'[a].at \in {"metas", "claim", "create"}
  BY <1>1, <1>4, <1>5, <1>6, <1>8 DEF NotesTrue
<1> QED
  BY <1>1, <1>4, <1>6, <1>7, <1>8

(* A step before the publication keeps the notes, gives up, or writes.     *)
LEMMA NotesWriting ==
    ASSUME TypeOK, NEW a \in Admin, NotesTrue(a), Writing(a)
    PROVE  \/ /\ UNCHANGED rows /\ admin'[a].at # "publish"
              /\ admin'[a] = NoOp \/ NotesTrue(a)'
           \/ Wrote(a, admin[a].id)
<1>1. CASE RunQuery(a) \/ ReadMetas(a) \/ ClaimDatabase(a)
  BY <1>1, NotesGoOn
<1>2. CASE UpdateRow(a) \/ CreateRow(a) \/ DeleteRow(a) \/ CreateIp(a) \/ DeleteIp(a)
  <2>1. CASE ToPublish(a)
    BY <1>2, <2>1, UpdateWrites, CreateWrites, EffectWrites
  <2>2. CASE ~ToPublish(a)
    <3>1. UNCHANGED rows /\ admin' = [admin EXCEPT ![a] = NoOp]
      BY <1>2, <2>2 DEF UpdateRow, CreateRow, DeleteRow, CreateIp, DeleteIp
    <3>2. admin'[a] = NoOp /\ NoOp.at # "publish"
      BY <3>1 DEF TypeOK, AdminOK, NoOp
    <3> QED
      BY <3>1, <3>2
  <2> QED
    BY <2>1, <2>2
<1> QED
  BY <1>1, <1>2 DEF Writing

LEMMA NotesKept ==
    ASSUME NEW b \in Admin, admin'[b] = admin[b], RowKept(admin[b].id), NotesTrue(b)
    PROVE  NotesTrue(b)'
<1>1. \A t, p, q, f : /\ NotesOf(t, p, q)' = NotesOf(t, p, q) /\ After(f, p)' = After(f, p)
                      /\ Notify(t, p)' = Notify(t, p) /\ NotifyDelete(t, p)' = NotifyDelete(t, p)
  BY DEF NotesOf, After, Notify, NotifyDelete
<1>2. Truthful(admin[b].id, admin[b].notes) => Truthful(admin[b].id, admin[b].notes)'
  BY DEF Truthful, RowKept
<1> QED
  BY <1>1, <1>2 DEF NotesTrue, RowKept

(* The administrators about other tenancies than that of a step.           *)
LEMMA AboutAside ==
    ASSUME NEW a \in Admin, OtherAdmins(a), NEW x, a \notin About(x), a \notin About(x)'
    PROVE  About(x)' = About(x) /\ \A b \in About(x) : admin'[b] = admin[b]
BY DEF About, OtherAdmins

LEMMA TellerAside ==
    ASSUME NEW x, About(x)' = About(x), \A b \in About(x) : admin'[b] = admin[b], RowKept(x)
    PROVE  /\ OneTeller(x) => OneTeller(x)'
           /\ \A s \in Server : Announced(s, x)' <=> Announced(s, x)
<1>1. \A b \in About(x) : b \in Admin /\ admin[b].id = x
  BY DEF About
<1>2. \A b \in About(x) : NotesTrue(b) => NotesTrue(b)'
  BY <1>1, NotesKept
<1> QED
  BY <1>2 DEF OneTeller, Announced

(* A server is as up to date as before if the tenancy is where it was.     *)
LEMMA FreshSame ==
    ASSUME ServersKept, NEW s \in Server, NEW t \in Tenancy,
           Here(s, t)' <=> Here(s, t), Here(s, t) => rows'[t] = rows[t], Fresh(s, t)
    PROVE  Fresh(s, t)'
<1>1. Expected(s, t)' = Expected(s, t)
  BY DEF Expected
<1>2. \A l \in Loader : /\ Loading(s, l, t)' <=> Loading(s, l, t)
                        /\ LoadFresh(s, l, t)' <=> LoadFresh(s, l, t)
  BY <1>1 DEF ServersKept, Loading, LoadedId, LoadFresh
<1> QED
  BY <1>1, <1>2 DEF ServersKept, Fresh

(* Nothing about t is added to the channels of s.                          *)
NothingNew(s, t) ==
    \A p \in Pool :
       /\ \A i \in DOMAIN channel[s][p] : i \in DOMAIN channel'[s][p] /\ channel'[s][p][i] = channel[s][p][i]
       /\ \A i \in DOMAIN channel'[s][p] : channel'[s][p][i].id = t => i \in DOMAIN channel[s][p]

LEMMA FreshKept ==
    ASSUME ServersKept, NEW s \in Server, NEW t \in Tenancy, NothingNew(s, t), ServerFresh(s, t),
           Announced(s, t) => Announced(s, t)',
           ~Announced(s, t)' => (Here(s, t)' <=> Here(s, t)) /\ (Here(s, t) => rows'[t] = rows[t])
    PROVE  ServerFresh(s, t)'
<1>1. LastIsTrue(s, t)'
  <2> SUFFICES ASSUME ~Announced(s, t)', NEW p \in Pool, NEW i \in DOMAIN channel'[s][p],
                      channel'[s][p][i].id = t,
                      \A j \in DOMAIN channel'[s][p] : j > i => channel'[s][p][j].id # t
               PROVE  channel'[s][p][i].delete <=> ~Here(s, t)'
    BY DEF LastIsTrue
  <2>1. i \in DOMAIN channel[s][p] /\ channel[s][p][i] = channel'[s][p][i]
    BY DEF NothingNew
  <2>2. \A j \in DOMAIN channel[s][p] : j > i => channel[s][p][j].id # t
    BY DEF NothingNew
  <2>3. channel[s][p][i].delete <=> ~Here(s, t)
    BY <2>1, <2>2 DEF ServerFresh, LastIsTrue
  <2> QED
    BY <2>1, <2>3
<1>2. AllFresh(s, t)'
  <2> SUFFICES ASSUME stage[s] \in {"loading", "up"}, ~Announced(s, t)', ~Received(s, t)'
               PROVE  Fresh(s, t)'
    BY DEF AllFresh, ServersKept
  <2>1. ~Received(s, t)
    BY DEF Received, NothingNew
  <2>2. Fresh(s, t)
    BY <2>1 DEF ServerFresh, AllFresh
  <2> QED
    BY <2>2, FreshSame
<1> QED
  BY <1>1, <1>2 DEF ServerFresh

LEMMA SameChannels ==
    ASSUME NEW s \in Server, NEW t, channel'[s] = channel[s]
    PROVE  NothingNew(s, t)
BY DEF NothingNew

(* A publication about another tenancy.                                    *)
LEMMA PublishAside ==
    ASSUME TypeOK, NEW a \in Admin, PublishOp(a), NEW s \in Server,
           NEW x \in Tenancy, x # admin[a].id, OneTeller(x), ServerFresh(s, x)
    PROVE  OneTeller(x)' /\ ServerFresh(s, x)'
<1> DEFINE note == Head(admin[a].notes)
<1>1. note \in Note /\ note.msg.id = admin[a].id /\ Publishes(a, note) /\ ServersKept /\ UNCHANGED rows
  BY PublishOpIs
<1> HIDE DEF note
<1>2. OtherAdmins(a) /\ a \notin About(x) /\ a \notin About(x)'
  BY PublishKeepsId DEF About
<1>3. RowKept(x)
  BY <1>1 DEF RowKept
<1>4. (OneTeller(x) => OneTeller(x)') /\ (Announced(s, x)' <=> Announced(s, x))
  BY <1>2, <1>3, AboutAside, TellerAside
<1>5. NothingNew(s, x)
  <2>1. CASE channel'[s] = channel[s]
    BY <2>1, SameChannels
  <2>2. CASE Tells(s, note)
    <3>1. note.pool \in Pool /\ note.msg \in Notification /\ note.msg.id # x
      BY <1>1 DEF Note
    <3>2. channel[s] \in [Pool -> Seq(Notification)]
      BY DEF TypeOK, ServersOK
    <3>3. \A p \in Pool :
            channel'[s][p] = IF p = note.pool THEN Append(channel[s][p], note.msg) ELSE channel[s][p]
      BY <2>2, <3>2 DEF Tells
    <3>4. ASSUME NEW p \in Pool
          PROVE  /\ \A i \in DOMAIN channel[s][p] : i \in DOMAIN channel'[s][p] /\ channel'[s][p][i] = channel[s][p][i]
                 /\ \A i \in DOMAIN channel'[s][p] : channel'[s][p][i].id = x => i \in DOMAIN channel[s][p]
      <4> DEFINE c == channel[s][p]  d == Append(c, note.msg)
      <4>1. c \in Seq(Notification)
        BY <3>2
      <4>2. /\ \A i \in DOMAIN c : i \in DOMAIN d /\ d[i] = c[i]
            /\ \A i \in DOMAIN d : i \in DOMAIN c \/ d[i] = note.msg
        BY <3>1, <4>1
      <4>3. channel'[s][p] = IF p = note.pool THEN d ELSE c
        BY <3>3
      <4> HIDE DEF d
      <4> QED
        BY <3>1, <4>2, <4>3
    <3> QED
      BY <3>4 DEF NothingNew
  <2> QED
    BY <1>1, <2>1, <2>2 DEF Publishes
<1> QED
  BY <1>1, <1>3, <1>4, <1>5, FreshKept DEF RowKept, Here

(* What remains to be announced after a publication.                       *)
LEMMA PublishTeller ==
    ASSUME TypeOK, NEW a \in Admin, PublishOp(a), NEW t \in Tenancy, t = admin[a].id, OneTeller(t)
    PROVE  /\ OneTeller(t)' /\ Truthful(t, admin[a].notes)
           /\ 1 \in DOMAIN admin[a].notes /\ admin[a].notes[1] = Head(admin[a].notes)
           /\ \A s \in Server :
                /\ Announced(s, t) <=> \E i \in DOMAIN admin[a].notes : admin[a].notes[i].pool \in Subs[s]
                /\ Announced(s, t)' <=> \E i \in DOMAIN admin[a].notes : i > 1 /\ admin[a].notes[i].pool \in Subs[s]
<1> DEFINE notes == admin[a].notes
<1>1. notes \in Seq(Note) /\ notes # <<>> /\ Len(notes) \in Nat
  BY PublishOpIs DEF PublishState, Notes
<1>2. /\ OtherAdmins(a) /\ admin[a].at = "publish" /\ admin[a] # NoOp
      /\ \/ Len(notes) = 1 /\ admin'[a] = NoOp
         \/ /\ admin'[a].at = "publish" /\ admin'[a].id = t
            /\ Len(notes) # 1 /\ admin'[a].notes = Tail(notes)
  BY PublishKeepsId
<1>3. UNCHANGED rows
  BY PublishOpIs
<1>4. a \in About(t) /\ \A b \in About(t) : b = a
  BY <1>2 DEF About, OneTeller
<1>5. \A b \in About(t)' : b = a
  BY <1>2, <1>4 DEF About, OtherAdmins
<1>6. Truthful(t, notes)
  BY <1>2, <1>4 DEF OneTeller, NotesTrue
<1> HIDE DEF notes
<1>7. /\ DOMAIN Tail(notes) = 1..(Len(notes) - 1) /\ DOMAIN notes = 1..Len(notes)
      /\ 1 \in DOMAIN notes /\ notes[1] = Head(notes)
      /\ \A i \in DOMAIN Tail(notes) : i \in Nat /\ i + 1 > 1 /\ i + 1 \in DOMAIN notes /\ Tail(notes)[i] = notes[i + 1]
      /\ \A i \in DOMAIN notes : i \in Nat /\ (i > 1 => i - 1 \in DOMAIN Tail(notes) /\ Tail(notes)[i - 1] = notes[i])
  BY <1>1
<1>8. \A s \in Server : Announced(s, t) <=> \E i \in DOMAIN notes : notes[i].pool \in Subs[s]
  BY <1>2, <1>4 DEF Announced, notes
<1>9. CASE admin'[a] = NoOp
  <2>1. About(t)' = {}
    BY <1>5, <1>9 DEF About
  <2>2. \A s \in Server : ~Announced(s, t)'
    BY <2>1 DEF Announced
  <2>3. \A i \in DOMAIN notes : ~(i > 1)
    <3>1. Len(notes) = 1
      BY <1>2, <1>9 DEF NoOp
    <3> QED
      BY <1>7, <3>1
  <2>4. OneTeller(t)'
    BY <2>1 DEF OneTeller
  <2> QED
    BY <1>6, <1>7, <1>8, <2>2, <2>3, <2>4 DEF notes
<1>10. CASE admin'[a].at = "publish" /\ admin'[a].id = t /\ admin'[a].notes = Tail(notes)
  <2>1. \A i \in DOMAIN Tail(notes) :
          /\ Tail(notes)[i].msg.delete /\ t \in DOMAIN rows =>
               \E j \in DOMAIN Tail(notes) : j > i /\ Tail(notes)[j].pool = rows[t].pool
          /\ ~Tail(notes)[i].msg.delete => t \in DOMAIN rows /\ rows[t].pool = Tail(notes)[i].pool
    <3> SUFFICES ASSUME NEW i \in DOMAIN Tail(notes)
                 PROVE  /\ Tail(notes)[i].msg.delete /\ t \in DOMAIN rows =>
                             \E j \in DOMAIN Tail(notes) : j > i /\ Tail(notes)[j].pool = rows[t].pool
                        /\ ~Tail(notes)[i].msg.delete => t \in DOMAIN rows /\ rows[t].pool = Tail(notes)[i].pool
      OBVIOUS
    <3>1. i \in Nat /\ i + 1 \in DOMAIN notes /\ Tail(notes)[i] = notes[i + 1]
      BY <1>7
    <3>2. ASSUME notes[i + 1].msg.delete, t \in DOMAIN rows
          PROVE  \E j \in DOMAIN Tail(notes) : j > i /\ Tail(notes)[j].pool = rows[t].pool
      <4>1. PICK k \in DOMAIN notes : k > i + 1 /\ notes[k].pool = rows[t].pool
        BY <1>6, <3>1, <3>2 DEF Truthful
      <4>2. k \in Nat /\ k > 1 /\ k - 1 > i
        BY <1>7, <3>1, <4>1
      <4>3. k - 1 \in DOMAIN Tail(notes) /\ Tail(notes)[k - 1].pool = rows[t].pool
        BY <1>7, <4>1, <4>2
      <4> QED
        BY <4>2, <4>3
    <3> QED
      BY <1>6, <3>1, <3>2 DEF Truthful
  <2>2. Truthful(t, admin[a].notes)'
    BY <1>3, <1>10, <2>1 DEF Truthful
  <2>3. NotesTrue(a)'
    BY <1>10, <2>2 DEF NotesTrue
  <2>4. OneTeller(t)'
    BY <1>5, <2>3 DEF OneTeller
  <2>5. a \in About(t)'
    BY <1>10 DEF About, NoOp
  <2>6. \A s \in Server : Announced(s, t)' <=> \E i \in DOMAIN Tail(notes) : Tail(notes)[i].pool \in Subs[s]
    BY <1>5, <1>10, <2>5 DEF Announced
  <2>7. \A s \in Server : Announced(s, t)' <=> \E i \in DOMAIN notes : i > 1 /\ notes[i].pool \in Subs[s]
    BY <1>7, <2>6
  <2> QED
    BY <1>6, <1>7, <1>8, <2>4, <2>7 DEF notes
<1> QED
  BY <1>2, <1>9, <1>10

(* A publication about the tenancy, to this server or to others.           *)
LEMMA PublishFresh ==
    ASSUME TypeOK, NEW a \in Admin, PublishOp(a), NEW s \in Server, stage[s] # "down",
           NEW t \in Tenancy, t = admin[a].id, t \notin missed'[s], t \notin crossed'[s],
           OneTeller(t), ServerFresh(s, t)
    PROVE  OneTeller(t)' /\ ServerFresh(s, t)'
<1> DEFINE notes == admin[a].notes  note == Head(notes)
<1>1. note \in Note /\ note.msg.id = t /\ Publishes(a, note) /\ ServersKept /\ UNCHANGED rows
  BY PublishOpIs
<1>2. /\ OneTeller(t)' /\ Truthful(t, notes) /\ 1 \in DOMAIN notes /\ notes[1] = note
      /\ Announced(s, t) <=> \E i \in DOMAIN notes : notes[i].pool \in Subs[s]
      /\ Announced(s, t)' <=> \E i \in DOMAIN notes : i > 1 /\ notes[i].pool \in Subs[s]
  BY PublishTeller
<1>3. Here(s, t)' <=> Here(s, t)
  BY <1>1 DEF Here
<1>4. \A i \in DOMAIN notes : i = 1 \/ i > 1
  <2>1. notes \in Seq(Note)
    BY PublishOpIs DEF PublishState, Notes
  <2> QED
    BY <2>1
<1> HIDE DEF notes, note
<1>5. CASE ~Tells(s, note)
  <2>1. channel'[s] = channel[s] /\ note.pool \notin Subs[s]
    BY <1>1, <1>5 DEF Publishes
  <2>2. Announced(s, t) => Announced(s, t)'
    BY <1>2, <1>4, <2>1
  <2>3. ServerFresh(s, t)'
    BY <1>1, <1>3, <2>1, <2>2, SameChannels, FreshKept
  <2> QED
    BY <1>2, <2>3
<1>6. CASE Tells(s, note)
  <2> DEFINE p == note.pool  c == channel[s][p]  d == channel'[s][p]
  <2>1. p \in Pool /\ p \in Subs[s] /\ note.msg \in Notification
    BY <1>1, <1>6 DEF Note, Tells
  <2>2. channel[s] \in [Pool -> Seq(Notification)]
    BY DEF TypeOK, ServersOK
  <2>3. c \in Seq(Notification) /\ d = Append(c, note.msg) /\ \A q \in Pool \ {p} : channel'[s][q] = channel[s][q]
    BY <1>6, <2>1, <2>2 DEF Tells
  <2>4. /\ Len(c) + 1 \in DOMAIN d /\ d[Len(c) + 1] = note.msg
        /\ \A i \in DOMAIN d : i = Len(c) + 1 \/ Len(c) + 1 > i
    BY <2>1, <2>3
  <2>5. \A q \in Pool \ {p} : ~Works(s, q, t)
    <3>1. Crosses(s, note)
      <4>1. stage[s] # "down" /\ note.pool \in Subs[s] /\ note.msg.id = t
        BY <1>1, <2>1
      <4> QED
        BY <1>1, <4>1 DEF Publishes
    <3> QED
      BY <1>1, <3>1 DEF Crosses
  <2>6. LastIsTrue(s, t)'
    <3> SUFFICES ASSUME ~Announced(s, t)', NEW q \in Pool, NEW i \in DOMAIN channel'[s][q],
                        channel'[s][q][i].id = t,
                        \A j \in DOMAIN channel'[s][q] : j > i => channel'[s][q][j].id # t
                 PROVE  channel'[s][q][i].delete <=> ~Here(s, t)'
      BY DEF LastIsTrue
    <3>1. q = p
      BY <2>3, <2>5 DEF Works
    <3>2. i = Len(c) + 1
      BY <1>1, <2>4, <3>1
    <3>3. channel'[s][q][i] = note.msg
      BY <2>4, <3>1, <3>2
    <3>4. note.msg.delete <=> ~Here(s, t)
      <4>1. CASE note.msg.delete
        <5>1. ASSUME Here(s, t) PROVE FALSE
          <6>1. PICK j \in DOMAIN notes : j > 1 /\ notes[j].pool = rows[t].pool
            BY <1>2, <4>1, <5>1 DEF Truthful, Here
          <6>2. Announced(s, t)'
            BY <1>2, <5>1, <6>1 DEF Here
          <6> QED
            BY <6>2
        <5> QED
          BY <4>1, <5>1
      <4>2. CASE ~note.msg.delete
        <5>1. t \in DOMAIN rows /\ rows[t].pool = p
          BY <1>2, <4>2 DEF Truthful
        <5> QED
          BY <2>1, <4>2, <5>1 DEF Here
      <4> QED
        BY <4>1, <4>2
    <3> QED
      BY <1>3, <3>3, <3>4
  <2>7. Received(s, t)'
    <3>1. Len(c) + 1 \in DOMAIN channel'[s][p] /\ channel'[s][p][Len(c) + 1].id = t
      BY <1>1, <2>4
    <3> QED
      BY <2>1, <3>1 DEF Received
  <2> QED
    BY <1>2, <2>6, <2>7 DEF ServerFresh, AllFresh
<1> QED
  BY <1>5, <1>6

(* The first step of an operation, and those up to the write.              *)
LEMMA BeginFresh ==
    ASSUME TypeOK, NEW a \in Admin, NEW u \in Tenancy, Begins(a, u), NotesTrue(a)', ServersKept,
           NEW s \in Server, stage[s] # "down", NEW t \in Tenancy, t \notin missed'[s],
           OneTeller(t), ServerFresh(s, t)
    PROVE  OneTeller(t)' /\ ServerFresh(s, t)'
<1>1. /\ OtherAdmins(a) /\ admin[a] = NoOp /\ admin'[a].id = u /\ admin'[a].at # "publish"
      /\ UNCHANGED <<rows, channel>>
      /\ About(u) # {} => u \in missed'[s]
  BY DEF Begins, Begin
<1>2. RowKept(t) /\ NothingNew(s, t) /\ (Here(s, t)' <=> Here(s, t))
  BY <1>1, SameChannels DEF RowKept, Here
<1>3. a \notin About(t)
  BY <1>1 DEF About
<1>4. OneTeller(t)' /\ (Announced(s, t) => Announced(s, t)')
  <2>1. CASE t # u
    <3>1. a \notin About(t)'
      BY <1>1, <2>1 DEF About
    <3> QED
      BY <1>1, <1>2, <1>3, <3>1, AboutAside, TellerAside
  <2>2. CASE t = u
    <3>1. About(t) = {}
      BY <1>1, <2>2
    <3>2. \A b \in About(t)' : b = a
      BY <1>1, <3>1 DEF About, OtherAdmins
    <3>3. ~Announced(s, t)
      BY <3>1 DEF Announced
    <3> QED
      BY <3>2, <3>3 DEF OneTeller
  <2> QED
    BY <2>1, <2>2
<1> QED
  BY <1>1, <1>2, <1>4, FreshKept

LEMMA WritingFresh ==
    ASSUME TypeOK, NEW a \in Admin, Writing(a), NEW s \in Server, NEW t \in Tenancy,
           OneTeller(t), ServerFresh(s, t)
    PROVE  OneTeller(t)' /\ ServerFresh(s, t)'
<1>1. /\ ServersKept /\ OtherAdmins(a) /\ admin[a].at \notin {"idle", "publish"} /\ UNCHANGED channel
      /\ admin'[a] = NoOp \/ (admin'[a].at # "idle" /\ admin'[a].id = admin[a].id)
  BY WritingIs DEF GoesOn
<1>2. NothingNew(s, t)
  BY <1>1, SameChannels
<1>3. CASE t # admin[a].id
  <2>1. a \notin About(t) /\ a \notin About(t)'
    BY <1>1, <1>3 DEF About
  <2>2. RowKept(t)
    BY <1>3, RowsAside
  <2>3. OneTeller(t)' /\ (Announced(s, t) => Announced(s, t)')
    BY <1>1, <2>1, <2>2, AboutAside, TellerAside
  <2>4. (Here(s, t)' <=> Here(s, t)) /\ (Here(s, t) => rows'[t] = rows[t])
    BY <2>2 DEF RowKept, Here
  <2> QED
    BY <1>1, <1>2, <2>3, <2>4, FreshKept
<1>4. CASE t = admin[a].id
  <2>1. a \in About(t) /\ \A b \in About(t) : b = a
    BY <1>1, <1>4 DEF About, OneTeller, NoOp
  <2>2. NotesTrue(a) /\ ~Announced(s, t)
    BY <1>1, <2>1 DEF OneTeller, Announced
  <2>3. \A b \in About(t)' : b = a
    BY <1>1, <2>1 DEF About, OtherAdmins
  <2>4. CASE UNCHANGED rows /\ admin'[a].at # "publish" /\ (admin'[a] = NoOp \/ NotesTrue(a)')
    <3>1. OneTeller(t)'
      BY <2>3, <2>4 DEF OneTeller, About
    <3>2. Here(s, t)' <=> Here(s, t)
      BY <2>4 DEF Here
    <3> QED
      BY <1>1, <1>2, <2>2, <2>4, <3>1, <3>2, FreshKept
  <2>5. CASE Wrote(a, t)
    <3>1. /\ admin'[a].at = "publish" /\ admin'[a].id = t
          /\ Truthful(t, admin[a].notes)'
          /\ Here(s, t) \/ Here(s, t)' =>
               \E i \in DOMAIN admin'[a].notes : admin'[a].notes[i].pool \in Subs[s]
      BY <2>5 DEF Wrote
    <3>2. NotesTrue(a)'
      BY <3>1 DEF NotesTrue
    <3>3. OneTeller(t)' /\ a \in About(t)'
      BY <2>3, <3>1, <3>2 DEF OneTeller, About, NoOp
    <3>4. Here(s, t) \/ Here(s, t)' => Announced(s, t)'
      BY <3>1, <3>3 DEF Announced
    <3> QED
      BY <1>1, <1>2, <2>2, <3>3, <3>4, FreshKept
  <2> QED
    BY <1>4, <2>2, <2>4, <2>5, NotesWriting
<1> QED
  BY <1>3, <1>4

LEMMA FreshAdmin ==
    ASSUME TypeOK, FreshInv, NEW a \in Admin, AdminStep(a)
    PROVE  FreshInv'
<1>1. ServersKept
  BY AdminStepType
<1> SUFFICES ASSUME NEW s \in Server, stage[s] # "down", NEW t \in Tenancy, t \notin missed'[s], t \notin crossed'[s]
             PROVE  OneTeller(t)' /\ ServerFresh(s, t)'
  BY <1>1 DEF FreshInv, ServersKept
<1>2. ASSUME missed[s] \subseteq missed'[s], crossed[s] \subseteq crossed'[s]
      PROVE  OneTeller(t) /\ ServerFresh(s, t)
  BY <1>2 DEF FreshInv
<1>3. ASSUME NEW u \in Tenancy, Begins(a, u), NotesTrue(a)' PROVE OneTeller(t)' /\ ServerFresh(s, t)'
  <2>1. missed[s] \subseteq missed'[s] /\ crossed[s] \subseteq crossed'[s]
    BY <1>3 DEF Begins, Begin
  <2> QED
    BY <1>1, <1>2, <1>3, <2>1, BeginFresh
<1>4. CASE \E u \in Tenancy : Operation(a, u)
  <2>1. PICK u \in Tenancy : Operation(a, u)
    BY <1>4
  <2> QED
    BY <1>3, <2>1, OperationIs, OperationBegins, NotesBegin
<1>5. CASE \E row \in NewRow, by \in {"id", "name"} : Add(a, row, by)
  BY <1>3, <1>5, AddBegins, NotesAdd
<1>6. CASE Writing(a)
  <2>1. UNCHANGED <<missed, crossed>>
    BY <1>6, WritingIs DEF GoesOn
  <2> QED
    BY <1>2, <1>6, <2>1, WritingFresh
<1>7. CASE PublishOp(a)
  <2> DEFINE note == Head(admin[a].notes)
  <2>1. Publishes(a, note)
    BY <1>7, PublishOpIs
  <2> HIDE DEF note
  <2>2. missed[s] \subseteq missed'[s] /\ crossed[s] \subseteq crossed'[s]
    BY <2>1 DEF Publishes, Crosses
  <2> QED
    BY <1>2, <1>7, <2>2, PublishAside, PublishFresh
<1> QED
  BY <1>4, <1>5, <1>6, <1>7 DEF AdminStep, Writing

-----------------------------------------------------------------------------
(* What a server makes of the notifications.                               *)

(* Tenancies that a step of the server is not about.                       *)
LEMMA FreshAside ==
    ASSUME NEW s \in Server, NEW x \in Tenancy, Fresh(s, x), UNCHANGED rows,
           stage'[s] = stage[s], todo'[s] = todo[s], x \in failed[s] => x \in failed'[s],
           tenanciesById'[s][x] = tenanciesById[s][x],
           \A l \in Loader : /\ Loading(s, l, x)' <=> Loading(s, l, x)
                             /\ Loading(s, l, x) => loader'[s][l] = loader[s][l]
    PROVE  Fresh(s, x)'
<1>1. Expected(s, x)' = Expected(s, x) /\ (Here(s, x)' <=> Here(s, x))
  BY DEF Expected, Here
<1>2. \A l \in Loader : Loading(s, l, x) => (LoadFresh(s, l, x)' <=> LoadFresh(s, l, x))
  BY <1>1 DEF LoadFresh
<1> QED
  BY <1>1, <1>2 DEF Fresh

(* What is announced is the administrators' business.                      *)
LEMMA AdminsKept ==
    ASSUME UNCHANGED <<rows, admin>>, NEW t \in Tenancy
    PROVE  /\ OneTeller(t) => OneTeller(t)'
           /\ \A s \in Server : /\ Announced(s, t)' <=> Announced(s, t)
                                /\ Here(s, t)' <=> Here(s, t)
                                /\ Expected(s, t)' = Expected(s, t)
<1>1. About(t)' = About(t) /\ RowKept(t)
  BY DEF About, RowKept
<1>2. \A s \in Server : (Here(s, t)' <=> Here(s, t)) /\ Expected(s, t)' = Expected(s, t)
  BY DEF Here, Expected
<1> QED
  BY <1>1, <1>2, TellerAside

(* Steps that change no channel: it is enough to look at what is fresh.    *)
LEMMA FreshIf ==
    ASSUME NEW s \in Server, NEW x \in Tenancy, ServerFresh(s, x), UNCHANGED <<rows, admin>>,
           channel'[s] = channel[s], stage'[s] = stage[s],
           stage[s] \in {"loading", "up"} /\ Fresh(s, x) => Fresh(s, x)'
    PROVE  ServerFresh(s, x)'
<1>1. (Announced(s, x)' <=> Announced(s, x)) /\ (Here(s, x)' <=> Here(s, x))
  BY AdminsKept
<1>2. Received(s, x)' <=> Received(s, x)
  BY DEF Received
<1>3. LastIsTrue(s, x)'
  BY <1>1 DEF ServerFresh, LastIsTrue
<1> QED
  BY <1>1, <1>2, <1>3 DEF ServerFresh, AllFresh

(* A load goes on, or ends: only its tenancy is concerned.                 *)
LEMMA FreshLoad ==
    ASSUME TypeOK, NEW s \in Server, NEW x \in Tenancy, ServerFresh(s, x),
           NEW l \in Loader, NEW y, NEW t \in Tenancy,
           Loading(s, l, t), loader'[s] = [loader[s] EXCEPT ![l] = y],
           y.at # "idle" => LoadedId(s, l)' = t,
           UNCHANGED <<rows, admin>>, stage'[s] = stage[s], channel'[s] = channel[s], todo'[s] = todo[s],
           \A z \in Tenancy \ {t} : /\ z \in failed[s] => z \in failed'[s]
                                    /\ tenanciesById'[s][z] = tenanciesById[s][z],
           Fresh(s, t) => Fresh(s, t)'
    PROVE  ServerFresh(s, x)'
<1>1. ASSUME x # t, Fresh(s, x) PROVE Fresh(s, x)'
  <2>1. \A k \in Loader : /\ Loading(s, k, x)' <=> Loading(s, k, x)
                          /\ Loading(s, k, x) => loader'[s][k] = loader[s][k]
    <3> SUFFICES ASSUME NEW k \in Loader
                 PROVE  /\ Loading(s, k, x)' <=> Loading(s, k, x)
                        /\ Loading(s, k, x) => loader'[s][k] = loader[s][k]
      OBVIOUS
    <3>1. CASE k = l
      <4>1. loader'[s][k] = y
        BY <3>1 DEF TypeOK, ServersOK
      <4> QED
        BY <1>1, <3>1, <4>1 DEF Loading
    <3>2. CASE k # l
      <4>1. loader'[s][k] = loader[s][k]
        BY <3>2 DEF TypeOK, ServersOK
      <4> QED
        BY <4>1 DEF Loading, LoadedId
    <3> QED
      BY <3>1, <3>2
  <2> QED
    BY <1>1, <2>1, FreshAside
<1> QED
  BY <1>1, FreshIf

LEMMA FreshFind ==
    ASSUME TypeOK, NEW s \in Server, NEW x \in Tenancy, ServerFresh(s, x), NEW l \in Loader, FindTenancy(s, l),
           UNCHANGED <<rows, admin>>
    PROVE  ServerFresh(s, x)'
<1>1. PICK t \in Tenancy : t = loader[s][l].id
  BY LoaderRecord, FindTenancyIs DEF TypeOK
<1>2. PICK y : y = [at |-> "init", tenancy |-> [id |-> t, row |-> rows[t]]]
  OBVIOUS
<1>3. /\ loader[s][l].at = "find" /\ t \in DOMAIN rows
      /\ loader'[s] = [loader[s] EXCEPT ![l] = y]
      /\ UNCHANGED <<stage, channel, todo, tenanciesById, failed>>
  BY <1>1, <1>2, FindTenancyIs
<1>4. y.at = "init" /\ y.tenancy = [id |-> t, row |-> rows[t]] /\ y.tenancy.id = t
  BY <1>2
<1>5. loader'[s][l] = y /\ \A k \in Loader \ {l} : loader'[s][k] = loader[s][k]
  BY <1>3 DEF TypeOK, ServersOK
<1>6. Loading(s, l, t) /\ Loading(s, l, t)' /\ LoadedId(s, l)' = t
  BY <1>1, <1>3, <1>4, <1>5 DEF Loading, LoadedId
<1>7. Fresh(s, t) => Fresh(s, t)'
  <2> SUFFICES ASSUME Fresh(s, t) PROVE Fresh(s, t)'
    OBVIOUS
  <2>1. Here(s, t)
    BY <1>3, <1>6 DEF Fresh, LoadFresh
  <2>2. Expected(s, t) = y.tenancy /\ Expected(s, t)' = Expected(s, t) /\ Here(s, t)'
    BY <1>4, <2>1 DEF Expected, Here
  <2>3. \A k \in Loader : Loading(s, k, t)' => LoadFresh(s, k, t)'
    <3> SUFFICES ASSUME NEW k \in Loader, Loading(s, k, t)' PROVE LoadFresh(s, k, t)'
      OBVIOUS
    <3>1. CASE k = l
      BY <1>4, <1>5, <2>2, <3>1 DEF LoadFresh
    <3>2. CASE k # l
      <4>1. Loading(s, k, t)
        BY <1>5, <3>2 DEF Loading, LoadedId
      <4>2. LoadFresh(s, k, t)
        BY <4>1 DEF Fresh
      <4> QED
        BY <1>5, <2>1, <2>2, <3>2, <4>2 DEF LoadFresh
    <3> QED
      BY <3>1, <3>2
  <2> QED
    BY <1>3, <1>6, <2>2, <2>3 DEF Fresh
<1> QED
  BY <1>3, <1>4, <1>6, <1>7, FreshLoad

LEMMA FreshInitLoaded ==
    ASSUME TypeOK, NEW s \in Server, NEW x \in Tenancy, ServerFresh(s, x), NEW l \in Loader, InitLoaded(s, l),
           UNCHANGED <<rows, admin>>
    PROVE  ServerFresh(s, x)'
<1>1. PICK b \in BOOLEAN : loader'[s] =
        [loader[s] EXCEPT ![l] = [at |-> "store", tenancy |-> loader[s][l].tenancy, ip |-> b]]
  BY InitLoadedIs
<1>2. PICK y : y = [at |-> "store", tenancy |-> loader[s][l].tenancy, ip |-> b]
  OBVIOUS
<1>3. /\ loader[s][l].at = "init" /\ loader'[s] = [loader[s] EXCEPT ![l] = y]
      /\ UNCHANGED <<stage, channel, todo, tenanciesById, failed>>
  BY <1>1, <1>2, InitLoadedIs
<1>4. y.at = "store" /\ y.tenancy = loader[s][l].tenancy
  BY <1>2
<1>5. loader'[s][l] = y /\ \A k \in Loader \ {l} : loader'[s][k] = loader[s][k]
  BY <1>3 DEF TypeOK, ServersOK
<1>6. PICK t \in Tenancy : t = loader[s][l].tenancy.id
  BY <1>3, LoaderRecord DEF TypeOK
<1>7. Loading(s, l, t) /\ LoadedId(s, l)' = t
  BY <1>3, <1>4, <1>5, <1>6 DEF Loading, LoadedId
<1>8. Fresh(s, t) => Fresh(s, t)'
  <2> SUFFICES ASSUME Fresh(s, t) PROVE Fresh(s, t)'
    OBVIOUS
  <2>1. Expected(s, t)' = Expected(s, t) /\ (Here(s, t)' <=> Here(s, t))
    BY DEF Expected, Here
  <2>2. \A k \in Loader : (Loading(s, k, t)' <=> Loading(s, k, t)) /\ (LoadFresh(s, k, t)' <=> LoadFresh(s, k, t))
    BY <1>3, <1>4, <1>5, <2>1 DEF Loading, LoadedId, LoadFresh
  <2> QED
    BY <1>3, <2>1, <2>2 DEF Fresh
<1> QED
  BY <1>3, <1>4, <1>7, <1>8, FreshLoad

(* A load that ends no longer counts as one.                               *)
LEMMA LoadOver ==
    ASSUME TypeOK, NEW s \in Server, NEW l \in Loader, NEW t \in Tenancy, Fresh(s, t),
           loader'[s] = [loader[s] EXCEPT ![l] = Idle], UNCHANGED rows
    PROVE  \A k \in Loader : Loading(s, k, t)' => LoadFresh(s, k, t)'
<1> SUFFICES ASSUME NEW k \in Loader, Loading(s, k, t)' PROVE LoadFresh(s, k, t)'
  OBVIOUS
<1>1. loader'[s][l] = Idle /\ \A j \in Loader \ {l} : loader'[s][j] = loader[s][j]
  BY DEF TypeOK, ServersOK
<1>2. k # l /\ Loading(s, k, t)
  BY <1>1, LoaderForms DEF Loading, LoadedId
<1>3. LoadFresh(s, k, t)
  BY <1>2 DEF Fresh
<1> QED
  BY <1>1, <1>2, <1>3 DEF LoadFresh, Here, Expected

LEMMA FreshMissing ==
    ASSUME TypeOK, NEW s \in Server, NEW x \in Tenancy, ServerFresh(s, x), NEW l \in Loader, FindMissing(s, l),
           UNCHANGED <<rows, admin>>
    PROVE  ServerFresh(s, x)'
<1>1. PICK t \in Tenancy : t = loader[s][l].id
  BY LoaderRecord, FindMissingIs DEF TypeOK
<1>2. /\ loader[s][l].at = "find" /\ t \notin DOMAIN rows
      /\ loader'[s] = [loader[s] EXCEPT ![l] = Idle]
      /\ UNCHANGED <<stage, channel, todo, tenanciesById, failed>>
  BY <1>1, FindMissingIs
<1>3. Loading(s, l, t)
  BY <1>1, <1>2 DEF Loading, LoadedId
<1>4. ~Fresh(s, t)
  BY <1>2, <1>3 DEF Fresh, LoadFresh, Here
<1>5. PICK y : y = Idle
  OBVIOUS
<1>6. y.at = "idle"
  BY <1>5, LoaderForms
<1> QED
  BY <1>2, <1>3, <1>4, <1>5, <1>6, FreshLoad

LEMMA FreshStore ==
    ASSUME TypeOK, NEW s \in Server, NEW x \in Tenancy, ServerFresh(s, x), NEW l \in Loader, StoreLoaded(s, l),
           UNCHANGED <<rows, admin>>
    PROVE  ServerFresh(s, x)'
<1>1. PICK o \in Object : o = loader[s][l].tenancy
  BY StoreLoadedIs
<1>2. PICK t \in Tenancy : t = o.id
  BY ObjectParts
<1>3. /\ loader[s][l].at = "store" /\ loader'[s] = [loader[s] EXCEPT ![l] = Idle]
      /\ tenanciesById'[s] = [tenanciesById[s] EXCEPT ![t] = o]
      /\ failed'[s] = failed[s] \ {t}
      /\ UNCHANGED <<stage, channel, todo>>
  BY <1>1, <1>2, StoreLoadedIs
<1>4. Loading(s, l, t)
  BY <1>1, <1>2, <1>3 DEF Loading, LoadedId
<1>5. tenanciesById'[s][t] = o /\ \A z \in Tenancy \ {t} : tenanciesById'[s][z] = tenanciesById[s][z]
  BY <1>3 DEF TypeOK, ServersOK
<1>6. Fresh(s, t) => Fresh(s, t)'
  <2> SUFFICES ASSUME Fresh(s, t) PROVE Fresh(s, t)'
    OBVIOUS
  <2>1. o = Expected(s, t)
    BY <1>1, <1>3, <1>4 DEF Fresh, LoadFresh
  <2>2. Expected(s, t)' = Expected(s, t)
    BY DEF Expected, Here
  <2>3. \A k \in Loader : Loading(s, k, t)' => LoadFresh(s, k, t)'
    BY <1>3, LoadOver
  <2> QED
    BY <1>3, <1>5, <2>1, <2>2, <2>3 DEF Fresh
<1>7. PICK y : y = Idle
  OBVIOUS
<1>8. y.at = "idle" /\ \A z \in Tenancy \ {t} : z \in failed[s] => z \in failed'[s]
  BY <1>3, <1>7, LoaderForms
<1> QED
  BY <1>3, <1>4, <1>5, <1>6, <1>7, <1>8, FreshLoad

LEMMA FreshFails ==
    ASSUME TypeOK, NEW s \in Server, NEW x \in Tenancy, ServerFresh(s, x), NEW l \in Pool, LoadFails(s, l),
           UNCHANGED <<rows, admin>>
    PROVE  ServerFresh(s, x)'
<1>1. PICK t \in Tenancy : t = loader[s][l].tenancy.id
  BY LoadFailsIs
<1>2. /\ loader[s][l].at = "init" /\ loader'[s] = [loader[s] EXCEPT ![l] = Idle]
      /\ failed'[s] = failed[s] \cup {t} /\ l \in Loader
      /\ UNCHANGED <<stage, channel, todo, tenanciesById>>
  BY <1>1, LoadFailsIs DEF Loader
<1>3. Loading(s, l, t)
  BY <1>1, <1>2 DEF Loading, LoadedId
<1>4. Fresh(s, t) => Fresh(s, t)'
  <2> SUFFICES ASSUME Fresh(s, t) PROVE Fresh(s, t)'
    OBVIOUS
  <2>1. Expected(s, t)' = Expected(s, t)
    BY DEF Expected, Here
  <2>2. \A k \in Loader : Loading(s, k, t)' => LoadFresh(s, k, t)'
    BY <1>2, LoadOver
  <2> QED
    BY <1>2, <2>1, <2>2 DEF Fresh
<1>5. PICK y : y = Idle
  OBVIOUS
<1>6. y.at = "idle" /\ \A z \in Tenancy \ {t} : z \in failed[s] => z \in failed'[s]
  BY <1>2, <1>5, LoaderForms
<1> QED
  BY <1>2, <1>3, <1>4, <1>5, <1>6, FreshLoad

(* The tenancy of a notification is unloaded, and found again if it is to  *)
(* be there; the server loads it nowhere else.                             *)
LEMMA FreshHandle ==
    ASSUME TypeOK, NEW s \in Server, ServerOK(s), NEW x \in Tenancy, PathOK(s, x), ServerFresh(s, x),
           NEW p \in Pool, Handle(s, p), UNCHANGED <<rows, admin>>
    PROVE  ServerFresh(s, x)'
<1>1. PICK msg \in Notification : msg = Head(channel[s][p])
  BY HandleIs
<1>2. PICK t \in Tenancy : t = msg.id
  BY DEF Notification
<1>3. PICK y : y = IF msg.delete THEN Idle ELSE [at |-> "find", id |-> t]
  OBVIOUS
<1>4. /\ loader[s][p] = Idle /\ channel[s][p] # <<>>
      /\ channel'[s] = [channel[s] EXCEPT ![p] = Tail(channel[s][p])]
      /\ UnloadTenancy(s, t) /\ loader'[s] = [loader[s] EXCEPT ![p] = y]
      /\ failed'[s] = failed[s] \ {t} /\ UNCHANGED <<stage, todo>>
  BY <1>1, <1>2, <1>3, HandleIs
<1>5. \A z \in Tenancy : tenanciesById'[s][z] = IF z = t THEN None ELSE tenanciesById[s][z]
  BY <1>4, UnloadTenancyIs DEF TypeOK
<1>6. /\ Announced(s, x)' <=> Announced(s, x)
      /\ Here(s, x)' <=> Here(s, x)
      /\ Expected(s, x)' = Expected(s, x)
  BY AdminsKept
<1>7. p \in Loader /\ loader'[s][p] = y /\ \A l \in Loader \ {p} : loader'[s][l] = loader[s][l]
  BY <1>4 DEF TypeOK, ServersOK, Loader
<1>8. y.at # "idle" => ~msg.delete /\ y.at = "find" /\ y.id = t
  BY <1>3, LoaderForms
<1>9. \A l \in Loader \ {p} : \A z : Loading(s, l, z)' <=> Loading(s, l, z)
  BY <1>7 DEF Loading, LoadedId
<1>10. \A z : /\ ~Loading(s, p, z)
              /\ Loading(s, p, z)' => z = t /\ ~msg.delete
  BY <1>4, <1>7, <1>8, LoaderForms DEF Loading, LoadedId
<1> DEFINE c == channel[s][p]
<1>11. c \in Seq(Notification) /\ channel'[s][p] = Tail(c) /\ \A q \in Pool \ {p} : channel'[s][q] = channel[s][q]
  BY <1>4 DEF TypeOK, ServersOK
<1>13. c = channel[s][p] /\ c # <<>> /\ msg = Head(c)
  BY <1>1, <1>4
<1> HIDE DEF c
<1>12. /\ c[1] = msg /\ 1 \in DOMAIN c
       /\ \A i \in DOMAIN Tail(c) : i \in Nat /\ i + 1 \in DOMAIN c /\ Tail(c)[i] = c[i + 1]
       /\ \A i \in DOMAIN c : i \in Nat /\ (i = 1 \/ (i - 1 \in DOMAIN Tail(c) /\ Tail(c)[i - 1] = c[i]))
  <2>1. c \in Seq(Notification) /\ c # <<>>
    BY <1>11, <1>13
  <2>2. Len(c) \in Nat /\ Len(c) > 0 /\ DOMAIN c = 1..Len(c)
    BY <2>1
  <2>3. Tail(c) \in Seq(Notification) /\ Len(Tail(c)) = Len(c) - 1 /\ DOMAIN Tail(c) = 1..(Len(c) - 1)
    BY <2>1, <2>2
  <2>4. \A i \in 1..(Len(c) - 1) : Tail(c)[i] = c[i + 1]
    BY <2>1, <2>2
  <2>5. c[1] = msg
    BY <2>1, <1>13
  <2>6. \A i \in DOMAIN Tail(c) : i \in Nat /\ i + 1 \in DOMAIN c /\ Tail(c)[i] = c[i + 1]
    BY <2>2, <2>3, <2>4
  <2>7. ASSUME NEW i \in DOMAIN c, i # 1
        PROVE  i \in Nat /\ i - 1 \in DOMAIN Tail(c) /\ Tail(c)[i - 1] = c[i]
    <3>1. i \in Nat /\ i - 1 \in 1..(Len(c) - 1) /\ (i - 1) + 1 = i
      BY <2>2, <2>7
    <3> QED
      BY <2>3, <2>4, <3>1
  <2> QED
    BY <2>2, <2>5, <2>6, <2>7
<1>14. LastIsTrue(s, x)'
  <2> SUFFICES ASSUME ~Announced(s, x)', NEW q \in Pool, NEW i \in DOMAIN channel'[s][q],
                      channel'[s][q][i].id = x,
                      \A j \in DOMAIN channel'[s][q] : j > i => channel'[s][q][j].id # x
               PROVE  channel'[s][q][i].delete <=> ~Here(s, x)'
    BY DEF LastIsTrue
  <2>1. CASE q # p
    BY <1>6, <1>11, <2>1 DEF ServerFresh, LastIsTrue
  <2>2. CASE q = p
    <3>1. i \in Nat /\ i + 1 \in DOMAIN c /\ c[i + 1] = channel'[s][q][i]
      BY <1>11, <1>12, <2>2
    <3>2. \A j \in DOMAIN c : j > i + 1 => c[j].id # x
      <4> SUFFICES ASSUME NEW j \in DOMAIN c, j > i + 1 PROVE c[j].id # x
        OBVIOUS
      <4>1. j \in Nat /\ j # 1 /\ j - 1 > i
        BY <1>12, <3>1
      <4>2. j - 1 \in DOMAIN Tail(c) /\ Tail(c)[j - 1] = c[j]
        BY <1>12, <4>1
      <4> QED
        BY <1>11, <2>2, <4>1, <4>2
    <3> QED
      BY <1>6, <1>13, <3>1, <3>2 DEF ServerFresh, LastIsTrue
  <2> QED
    BY <2>1, <2>2
<1>15. AllFresh(s, x)'
  <2> SUFFICES ASSUME stage[s] \in {"loading", "up"}, ~Announced(s, x)', ~Received(s, x)'
               PROVE  Fresh(s, x)'
    BY <1>4 DEF AllFresh
  <2>1. \A i \in DOMAIN c : c[i].id = x => i = 1
    <3> SUFFICES ASSUME NEW i \in DOMAIN c, i # 1, c[i].id = x PROVE FALSE
      OBVIOUS
    <3>1. i - 1 \in DOMAIN channel'[s][p] /\ channel'[s][p][i - 1].id = x
      BY <1>11, <1>12
    <3> QED
      BY <3>1 DEF Received
  <2>2. CASE x = t
    <3>1. msg.delete <=> ~Here(s, t)
      <4>1. \A j \in DOMAIN c : j > 1 => c[j].id # x
        BY <2>1
      <4> QED
        BY <1>2, <1>6, <1>12, <1>13, <2>2, <4>1 DEF ServerFresh, LastIsTrue
    <3>2. Works(s, p, t)
      BY <1>2, <1>12, <1>13 DEF Works
    <3>3. stage[s] = "up"
      BY <2>2, <3>2 DEF PathOK, OneReader
    <3>4. \A l \in Loader \ {p} : ~Loading(s, l, t)
      <4>1. ~Loading(s, Boot, t)
        BY <3>3, LoaderForms DEF ServerOK, Loading
      <4>2. \A q \in Pool \ {p} : ~Loading(s, q, t)
        BY <2>2, <3>2 DEF PathOK, OneReader, Works
      <4> QED
        BY <4>1, <4>2 DEF Loader
    <3>5. \A l \in Loader : Loading(s, l, t)' => LoadFresh(s, l, t)'
      <4> SUFFICES ASSUME NEW l \in Loader, Loading(s, l, t)' PROVE LoadFresh(s, l, t)'
        OBVIOUS
      <4>1. l = p /\ ~msg.delete
        BY <1>9, <1>10, <3>4
      <4>2. loader'[s][l].at = "find"
        BY <1>3, <1>7, <4>1
      <4> QED
        BY <1>6, <2>2, <3>1, <4>1, <4>2 DEF LoadFresh
    <3>6. CASE msg.delete
      <4>1. tenanciesById'[s][t] = Expected(s, x)'
        BY <1>5, <1>6, <2>2, <3>1, <3>6 DEF Expected
      <4> QED
        BY <1>4, <2>2, <3>3, <3>5, <4>1 DEF Fresh
    <3>7. CASE ~msg.delete
      <4>1. Loading(s, p, t)'
        BY <1>3, <1>7, <3>7 DEF Loading, LoadedId
      <4> QED
        BY <1>4, <1>7, <2>2, <3>3, <3>5, <4>1 DEF Fresh
    <3> QED
      BY <3>6, <3>7
  <2>3. CASE x # t
    <3>1. ~Received(s, x)
      <4> SUFFICES ASSUME NEW q \in Pool, NEW i \in DOMAIN channel[s][q], channel[s][q][i].id = x PROVE FALSE
        BY DEF Received
      <4>1. CASE q # p
        BY <1>11, <4>1 DEF Received
      <4>2. CASE q = p
        BY <1>2, <1>12, <1>13, <2>1, <2>3, <4>2
      <4> QED
        BY <4>1, <4>2
    <3>2. Fresh(s, x)
      BY <1>6, <3>1 DEF ServerFresh, AllFresh
    <3>3. \A l \in Loader : /\ Loading(s, l, x)' <=> Loading(s, l, x)
                            /\ Loading(s, l, x) => loader'[s][l] = loader[s][l]
      BY <1>7, <1>9, <1>10, <2>3
    <3>4. x \in failed[s] => x \in failed'[s]
      BY <1>4, <2>3
    <3> QED
      BY <1>4, <1>5, <2>3, <3>2, <3>3, <3>4, FreshAside
  <2> QED
    BY <2>2, <2>3
<1> QED
  BY <1>14, <1>15 DEF ServerFresh

LEMMA NothingReceived ==
    ASSUME NEW s \in Server, NEW t, \A p \in Pool : ~Works(s, p, t)
    PROVE  LastIsTrue(s, t) /\ ~Received(s, t)
BY DEF LastIsTrue, Received, Works

(* What nobody is about when a server starts it has yet to list.           *)
LEMMA FreshStarts ==
    ASSUME TypeOK, NEW s \in Server, ServerOK(s), Start(s), UNCHANGED admin,
           NEW t \in Tenancy, t \notin crossed'[s]
    PROVE  OneTeller(t)' /\ ServerFresh(s, t)'
<1>1. /\ stage[s] = "down" /\ stage'[s] = "subscribed"
      /\ crossed'[s] = {u \in Tenancy : About(u) # {}}
      /\ UNCHANGED channel
  BY StartIs
<1>2. About(t)' = {}
  BY <1>1 DEF About
<1>3. \A p \in Pool : channel'[s][p] = <<>>
  BY <1>1 DEF ServerOK
<1>4. DOMAIN <<>> = {}
  OBVIOUS
<1> QED
  BY <1>1, <1>2, <1>3, <1>4 DEF OneTeller, ServerFresh, LastIsTrue, AllFresh

(* What is listed at the start is what is expected.                        *)
LEMMA FreshList ==
    ASSUME TypeOK, NEW s \in Server, ServerOK(s), NEW t \in Tenancy, PathOK(s, t), ListTenancies(s),
           UNCHANGED <<rows, admin>>
    PROVE  ServerFresh(s, t)'
<1>1. /\ stage[s] = "subscribed" /\ stage'[s] = "loading"
      /\ todo'[s] = {[id |-> u, row |-> rows[u]] : u \in {v \in DOMAIN rows : rows[v].pool \in Subs[s]}}
      /\ UNCHANGED <<channel, loader, tenanciesById>>
  BY ListTenanciesIs
<1>2. \A p \in Pool : ~Works(s, p, t)'
  BY <1>1 DEF PathOK, OneReader, Works, Loading, LoadedId
<1>3. \A l \in Loader : ~Loading(s, l, t)'
  <2>1. loader'[s][Boot] = Idle
    BY <1>1 DEF ServerOK
  <2> QED
    BY <1>2, <2>1, LoaderForms DEF Works, Loading, Loader
<1>4. Expected(s, t)' = Expected(s, t)
  BY AdminsKept
<1>5. \A o \in todo'[s] : o.id = t => Here(s, t) /\ o = [id |-> t, row |-> rows[t]]
  BY <1>1 DEF Here
<1>6. \A o \in todo'[s] : o.id = t => o = Expected(s, t)
  BY <1>5 DEF Expected
<1>7. CASE Here(s, t)
  <2> DEFINE o == [id |-> t, row |-> rows[t]]
  <2>1. o \in todo'[s] /\ o.id = t
    BY <1>1, <1>7 DEF Here
  <2> HIDE DEF o
  <2>2. \E q \in todo'[s] : q.id = t
    BY <2>1
  <2>3. Fresh(s, t)'
    BY <1>1, <1>3, <1>4, <1>6, <2>2 DEF Fresh
  <2>4. LastIsTrue(s, t)'
    BY <1>2, NothingReceived DEF LastIsTrue, Works
  <2> QED
    BY <2>3, <2>4 DEF ServerFresh, AllFresh
<1>8. CASE ~Here(s, t)
  <2>1. tenanciesById'[s][t] = Expected(s, t)
    BY <1>1, <1>8 DEF PathOK, LoadsAbsent, Expected
  <2>2. Fresh(s, t)'
    BY <1>1, <1>3, <1>4, <1>6, <2>1 DEF Fresh
  <2>3. LastIsTrue(s, t)'
    BY <1>2 DEF LastIsTrue, Works
  <2> QED
    BY <2>2, <2>3 DEF ServerFresh, AllFresh
<1> QED
  BY <1>7, <1>8

(* While a server loads what it listed, there is nothing else to learn.    *)
LEMMA AllKnown ==
    ASSUME NEW s \in Server, NEW t \in Tenancy, PathOK(s, t), ServerFresh(s, t), stage[s] = "loading"
    PROVE  Fresh(s, t) /\ \A p \in Pool : ~Loading(s, p, t)
<1>1. About(t) = {} /\ \A p \in Pool : ~Works(s, p, t)
  BY DEF PathOK, OneReader
<1>2. ~Announced(s, t) /\ ~Received(s, t)
  BY <1>1, NothingReceived DEF Announced
<1> QED
  BY <1>1, <1>2 DEF ServerFresh, AllFresh, Works

LEMMA FreshLoadNext ==
    ASSUME TypeOK, NEW s \in Server, NEW t \in Tenancy, PathOK(s, t), ServerFresh(s, t), LoadNext(s),
           UNCHANGED <<rows, admin>>
    PROVE  ServerFresh(s, t)'
<1>1. PICK o \in todo[s] : /\ o \in Object
                           /\ todo'[s] = todo[s] \ {o}
                           /\ loader'[s] = [loader[s] EXCEPT ![Boot] = [at |-> "init", tenancy |-> o]]
  BY LoadNextIs
<1>2. /\ stage[s] = "loading" /\ loader[s][Boot] = Idle
      /\ UNCHANGED <<channel, stage, tenanciesById, failed>>
  BY LoadNextIs
<1>3. /\ Boot \in Loader /\ loader'[s][Boot].at = "init" /\ loader'[s][Boot].tenancy = o
      /\ \A l \in Pool : l \in Loader /\ loader'[s][l] = loader[s][l]
  BY <1>1, NamesAssumption DEF TypeOK, ServersOK, Loader
<1>4. Fresh(s, t) /\ \A p \in Pool : ~Loading(s, p, t)
  BY <1>2, AllKnown
<1>5. \A l \in Loader : ~Loading(s, l, t)
  BY <1>2, <1>4, LoaderForms DEF Loading, Loader
<1>6. \A l \in Loader : Loading(s, l, t)' <=> l = Boot /\ t = o.id
  BY <1>3, <1>4 DEF Loading, LoadedId, Loader
<1>7. Expected(s, t)' = Expected(s, t)
  BY AdminsKept
<1>8. \A q \in todo[s] : q.id = t => q = Expected(s, t)
  BY <1>2, <1>4 DEF Fresh
<1>9. \A l \in Loader : Loading(s, l, t)' => LoadFresh(s, l, t)'
  BY <1>3, <1>6, <1>7, <1>8 DEF LoadFresh
<1>10. Fresh(s, t)'
  <2>1. CASE t = o.id
    <3>1. Loading(s, Boot, t)'
      BY <1>3, <1>6, <2>1
    <3> QED
      BY <1>1, <1>2, <1>3, <1>7, <1>8, <1>9, <3>1 DEF Fresh
  <2>2. CASE t # o.id
    <3>1. \/ \E q \in todo[s] : q.id = t
          \/ t \in failed[s] \/ tenanciesById[s][t] = Expected(s, t)
      BY <1>4, <1>5 DEF Fresh
    <3>2. (\E q \in todo[s] : q.id = t) => \E q \in todo'[s] : q.id = t
      BY <1>1, <2>2
    <3>3. \A q \in todo'[s] : q.id = t => q = Expected(s, t)
      BY <1>1, <1>8
    <3> QED
      BY <1>2, <1>7, <1>9, <3>1, <3>2, <3>3 DEF Fresh
  <2> QED
    BY <2>1, <2>2
<1> QED
  BY <1>2, <1>10, FreshIf

LEMMA FreshInitDone ==
    ASSUME TypeOK, NEW s \in Server, NEW t \in Tenancy, PathOK(s, t), ServerFresh(s, t), InitDone(s),
           UNCHANGED <<rows, admin>>
    PROVE  ServerFresh(s, t)'
<1>1. /\ stage[s] = "loading" /\ todo[s] = {} /\ stage'[s] = "up"
      /\ UNCHANGED <<channel, todo, loader, tenanciesById, failed>>
  BY InitDoneIs
<1>2. Fresh(s, t)
  BY <1>1, AllKnown
<1>3. /\ Expected(s, t)' = Expected(s, t) /\ (Here(s, t)' <=> Here(s, t))
      /\ Announced(s, t)' <=> Announced(s, t)
  BY AdminsKept
<1>4. \A l \in Loader : (Loading(s, l, t)' <=> Loading(s, l, t)) /\ (LoadFresh(s, l, t)' <=> LoadFresh(s, l, t))
  BY <1>1, <1>3 DEF Loading, LoadedId, LoadFresh
<1>5. Fresh(s, t)'
  BY <1>1, <1>2, <1>3, <1>4 DEF Fresh
<1>6. LastIsTrue(s, t)'
  BY <1>1, <1>3 DEF ServerFresh, LastIsTrue
<1> QED
  BY <1>5, <1>6 DEF ServerFresh, AllFresh

LEMMA FreshRun ==
    ASSUME TypeOK, NEW s \in Server, ServerOK(s), NEW t \in Tenancy, PathOK(s, t), ServerFresh(s, t), Run(s),
           UNCHANGED <<rows, admin>>
    PROVE  ServerFresh(s, t)'
BY FreshFind, FreshInitLoaded, FreshMissing, FreshStore, FreshFails, FreshHandle, FreshList, FreshLoadNext,
   FreshInitDone DEF Run, LoaderStep

LEMMA FreshElsewhere ==
    ASSUME NEW u \in Server, SameServer(u), UNCHANGED <<rows, admin>>, NEW t \in Tenancy, ServerFresh(u, t)
    PROVE  ServerFresh(u, t)'
<1>1. \A l \in Loader : Loading(u, l, t)' <=> Loading(u, l, t)
  BY DEF SameServer, Loading, LoadedId
<1>2. Fresh(u, t) => Fresh(u, t)'
  BY <1>1, FreshAside DEF SameServer
<1> QED
  BY <1>2, FreshIf DEF SameServer

LEMMA FreshServer ==
    ASSUME TypeOK, PathInv, FreshInv, NEW s \in Server, ServerStep(s), UNCHANGED <<tables, adminVars>>
    PROVE  FreshInv'
<1>1. /\ UNCHANGED <<rows, admin>> /\ OthersKept(s) /\ HistoryElsewhere(s)
      /\ Run(s) => UNCHANGED <<missed, crossed>>
  BY ServerStepType
<1> SUFFICES ASSUME NEW u \in Server, stage'[u] # "down", NEW t \in Tenancy, t \notin missed'[u], t \notin crossed'[u]
             PROVE  OneTeller(t)' /\ ServerFresh(u, t)'
  BY DEF FreshInv
<1>2. CASE u # s
  <2>1. SameServer(u) /\ stage[u] # "down" /\ t \notin missed[u] /\ t \notin crossed[u]
    BY <1>1, <1>2 DEF OthersKept, SameServer, HistoryElsewhere
  <2>2. OneTeller(t) /\ ServerFresh(u, t)
    BY <2>1 DEF FreshInv
  <2> QED
    BY <1>1, <2>1, <2>2, AdminsKept, FreshElsewhere
<1>3. CASE u = s
  <2>1. ServerOK(s)
    BY DEF PathInv
  <2>2. CASE Start(s)
    BY <1>1, <1>3, <2>1, <2>2, FreshStarts
  <2>3. ~Stop(s)
    BY <1>3, StopIs
  <2>4. CASE Run(s)
    <3>1. stage[s] # "down" /\ t \notin missed[s] /\ t \notin crossed[s]
      BY <1>1, <1>3, <2>1, <2>4, PathRun DEF PathInv
    <3>2. OneTeller(t) /\ ServerFresh(s, t) /\ PathOK(s, t)
      BY <3>1 DEF FreshInv, PathInv
    <3> QED
      BY <1>1, <1>3, <2>1, <2>4, <3>2, AdminsKept, FreshRun
  <2> QED
    BY <2>2, <2>3, <2>4 DEF ServerStep
<1> QED
  BY <1>2, <1>3

LEMMA FreshInit == Init => FreshInv
BY DEF Init, ManagerInit, FreshInv

LEMMA FreshInduction == Spec => []FreshInv
<1>1. TypeOK /\ PathInv /\ FreshInv /\ [Next]_vars => FreshInv'
  <2>1. ASSUME FreshInv, UNCHANGED vars PROVE FreshInv'
    <3>1. /\ UNCHANGED <<rows, admin, stage, missed, crossed>>
          /\ \A s \in Server : SameServer(s)
      BY <2>1 DEF vars, tables, managerVars, indexes, adminVars, history, SameServer
    <3> QED
      BY <2>1, <3>1, AdminsKept, FreshElsewhere DEF FreshInv
  <2> QED
    BY <2>1, FreshAdmin, FreshServer DEF Next
<1> QED
  BY FreshInit, <1>1, TenancyTypes, PathInduction, PTL DEF Spec

(* When the administrators have announced everything and a server has      *)
(* handled everything, its cache is what the database holds for its pools: *)
(* nothing gets lost between the write, the channel, the unload and the    *)
(* load, for any number of administrators and servers, with one pool or    *)
(* more, restarts and failures.  Excepted are tenancies whose load failed, *)
(* those that the server missed, because a notification was lost or two    *)
(* operations on the tenancy overlapped, and those that it crossed,        *)
(* because it started during an operation or had to do with the tenancy in *)
(* two pools at once.                                                      *)
THEOREM CachesConverge == Spec => []CacheConverges
<1>1. FreshInv => CacheConverges
  <2> SUFFICES ASSUME FreshInv, NEW s \in Server, Settled(s), NEW t \in Tenancy,
                      t \notin failed[s], t \notin missed[s], t \notin crossed[s]
               PROVE  tenanciesById[s][t] = Expected(s, t)
    BY DEF CacheConverges, Expected, Here
  <2>1. DOMAIN <<>> = {} /\ NoOp.at = "idle"
    BY DEF NoOp
  <2>2. ~Announced(s, t) /\ ~Received(s, t)
    BY <2>1 DEF Settled, Announced, About, Received
  <2>3. Fresh(s, t) /\ stage[s] = "up"
    BY <2>2 DEF Settled, FreshInv, ServerFresh, AllFresh
  <2>4. \A l \in Loader : ~Loading(s, l, t)
    BY LoaderForms DEF Settled, Loading
  <2> QED
    BY <2>3, <2>4 DEF Fresh
<1> QED
  BY <1>1, FreshInduction, PTL
=============================================================================
