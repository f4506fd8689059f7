------------------------------ MODULE DataProofs ------------------------------
(* Proofs about what is stored, loaded and passed on: the rows that the    *)
(* foreign keys and the triggers guard (Database), the secrets table       *)
(* (SecretStore), the bot folder (BotFolder), the streams that a multiplexed *)
(* response is split into (StreamFrames) and the redacted texts (Redaction), *)
(* for any number of rows, seals, faults, files, frames and symbols.       *)
EXTENDS Database, SecretStore, BotFolder, StreamFrames, Redaction,
        FiniteSetTheorems, SequenceTheorems, TLAPS
-----------------------------------------------------------------------------
(* The keys, as far as the argument needs them: a column's name tells the  *)
(* table it refers to, and tables have ranks along which cascades climb.   *)
Target == [c \in {"workspace", "bot", "created_by", "thread", "task", "run", "decided_by"} |->
    IF c = "workspace" THEN "workspaces"
    ELSE IF c = "bot" THEN "bots"
    ELSE IF c \in {"created_by", "decided_by"} THEN "users"
    ELSE IF c = "thread" THEN "threads"
    ELSE IF c = "task" THEN "tasks" ELSE "runs"]

Outside == {"workspaces", "users", "audit_events"}
Early == {"threads", "routines", "approval_rules", "secrets", "tasks"}
Rank(table) ==
    IF table \in Outside \cup {"bots"} THEN 0
    ELSE IF table \in Early THEN 1 ELSE IF table = "runs" THEN 2 ELSE 3

KeyFact(k) ==
    /\ k[1] \in Tables
    /\ k[2] \in DOMAIN Target /\ k[3] = Target[k[2]]
    /\ k[4] = "restrict" => k[3] \in {"workspaces", "users"}
    /\ k[4] = "cascade" => k[1] \notin Outside /\ Rank(k[1]) > Rank(k[3])
    /\ k[4] = "set_null" => k[1] \notin {"events", "audit_events"}
    /\ k[4] \in {"restrict", "cascade", "set_null"}
    /\ k[1] = "audit_events" => k[4] = "restrict"
    /\ k[1] = "events" => k[4] = "cascade"

LEMMA KeyFacts == \A k \in Keys : KeyFact(k)
<1> USE DEF KeyFact, Target, Tables, Rank, Outside, Early
<1>1. ASSUME NEW k \in WorkspaceKeys PROVE KeyFact(k)
  <2>1. KeyFact(<<"users", "workspace", "workspaces", "restrict">>)  OBVIOUS
  <2>2. KeyFact(<<"audit_events", "workspace", "workspaces", "restrict">>)  OBVIOUS
  <2> HIDE DEF KeyFact
  <2>. QED  BY <2>1, <2>2 DEF WorkspaceKeys
<1>2. ASSUME NEW k \in BotKeys PROVE KeyFact(k)
  <2>1. KeyFact(<<"bots", "workspace", "workspaces", "restrict">>)  OBVIOUS
  <2>2. KeyFact(<<"threads", "bot", "bots", "cascade">>)  OBVIOUS
  <2>3. KeyFact(<<"routines", "bot", "bots", "cascade">>)  OBVIOUS
  <2>4. KeyFact(<<"approval_rules", "bot", "bots", "cascade">>)  OBVIOUS
  <2>5. KeyFact(<<"approval_rules", "created_by", "users", "restrict">>)  OBVIOUS
  <2>6. KeyFact(<<"secrets", "workspace", "workspaces", "restrict">>)  OBVIOUS
  <2>7. KeyFact(<<"secrets", "bot", "bots", "cascade">>)  OBVIOUS
  <2> HIDE DEF KeyFact
  <2>. QED  BY <2>1, <2>2, <2>3, <2>4, <2>5, <2>6, <2>7 DEF BotKeys
<1>3. ASSUME NEW k \in TaskKeys PROVE KeyFact(k)
  <2>1. KeyFact(<<"tasks", "bot", "bots", "cascade">>)  OBVIOUS
  <2>2. KeyFact(<<"tasks", "thread", "threads", "set_null">>)  OBVIOUS
  <2>3. KeyFact(<<"runs", "task", "tasks", "cascade">>)  OBVIOUS
  <2>4. KeyFact(<<"runs", "bot", "bots", "cascade">>)  OBVIOUS
  <2>5. KeyFact(<<"runs", "thread", "threads", "cascade">>)  OBVIOUS
  <2> HIDE DEF KeyFact
  <2>. QED  BY <2>1, <2>2, <2>3, <2>4, <2>5 DEF TaskKeys
<1>4. ASSUME NEW k \in RunKeys PROVE KeyFact(k)
  <2>1. KeyFact(<<"attempts", "run", "runs", "cascade">>)  OBVIOUS
  <2>2. KeyFact(<<"events", "run", "runs", "cascade">>)  OBVIOUS
  <2>3. KeyFact(<<"events", "thread", "threads", "cascade">>)  OBVIOUS
  <2>4. KeyFact(<<"messages", "thread", "threads", "cascade">>)  OBVIOUS
  <2>5. KeyFact(<<"messages", "run", "runs", "set_null">>)  OBVIOUS
  <2>6. KeyFact(<<"approvals", "run", "runs", "cascade">>)  OBVIOUS
  <2>7. KeyFact(<<"approvals", "decided_by", "users", "set_null">>)  OBVIOUS
  <2>8. KeyFact(<<"usage_records", "run", "runs", "cascade">>)  OBVIOUS
  <2>9. KeyFact(<<"usage_records", "bot", "bots", "cascade">>)  OBVIOUS
  <2> HIDE DEF KeyFact
  <2>. QED  BY <2>1, <2>2, <2>3, <2>4, <2>5, <2>6, <2>7, <2>8, <2>9 DEF RunKeys
<1>. QED  BY <1>1, <1>2, <1>3, <1>4 DEF Keys

LEMMA KeyOfTable == ASSUME NEW t \in Tables, NEW k \in KeysOf[t]
                    PROVE  k \in Keys /\ k[1] = t
  BY DEF KeysOf

LEMMA TargetOfKey == ASSUME NEW t, NEW k \in KeysOf[t], t \in Tables
                     PROVE  k[3] = Target[k[2]]
<1>1. k \in Keys
  BY DEF KeysOf
<1>2. KeyFact(k)
  BY <1>1, KeyFacts
<1>. QED  BY <1>2 DEF KeyFact

LEMMA FactOfKey == ASSUME NEW t, NEW k \in KeysOf[t], t \in Tables
                   PROVE  k \in Keys /\ k[1] = t /\ KeyFact(k)
  BY KeyFacts DEF KeysOf
-----------------------------------------------------------------------------
(* Every row holds a row of the right table, or none, in every key column. *)
RowOK(i, row) ==
    /\ row = [ref |-> row.ref, mark |-> row.mark]
    /\ row.ref \in [Columns(TableOf(i)) -> Ids \cup {NoRow}]
    /\ \A c \in Columns(TableOf(i)) : row.ref[c] # NoRow => TableOf(row.ref[c]) = Target[c]

RowsOK == DOMAIN rows \subseteq Ids /\ \A i \in DOMAIN rows : RowOK(i, rows[i])

LEMMA IdFacts == \A i \in Ids : i # NoRow /\ TableOf(i) \in Tables
  BY DatabaseAssumption DEF Ids, TableOf

LEMMA InsertKeeps == ASSUME RowsOK, NEW table \in Tables, Insert(table)
                     PROVE  /\ RowsOK'
                            /\ DOMAIN rows \subseteq DOMAIN rows'
                            /\ \A i \in DOMAIN rows : rows'[i] = rows[i]
<1> DEFINE Free == {n \in 1..MaxOf[table] : <<table, n>> \notin DOMAIN rows}
<1>1. PICK n \in Free, refs \in RefsOf(table), mark \in IF Marked(table) THEN Marks ELSE {NoRow} :
         rows' = [i \in DOMAIN rows \cup {<<table, n>>} |->
                    IF i = <<table, n>> THEN [ref |-> refs, mark |-> mark] ELSE rows[i]]
  BY Zenon DEF Insert
<1> DEFINE id == <<table, n>>
<1>3. id \in Ids /\ id \notin DOMAIN rows /\ TableOf(id) = table
  BY <1>1, DatabaseAssumption DEF Ids, TableOf
<1>5. rows' = [i \in DOMAIN rows \cup {id} |->
                  IF i = id THEN [ref |-> refs, mark |-> mark] ELSE rows[i]]
  BY <1>1
<1> HIDE DEF id, Free
<1>4. RowOK(id, [ref |-> refs, mark |-> mark])
  <2>1. /\ refs \in [Columns(table) -> Ids \cup {NoRow}]
        /\ \A c \in Columns(table) : refs[c] # NoRow =>
             \E k \in KeysOf[table] : k[2] = c /\ TableOf(refs[c]) = k[3]
    BY DEF RefsOf, RowsOK
  <2>2. \A c \in Columns(table) : refs[c] # NoRow => TableOf(refs[c]) = Target[c]
    BY <2>1, TargetOfKey
  <2>. QED  BY <1>3, <2>1, <2>2 DEF RowOK
<1>6. DOMAIN rows' = DOMAIN rows \cup {id} /\ rows'[id] = [ref |-> refs, mark |-> mark]
  BY <1>5
<1>7. \A i \in DOMAIN rows : rows'[i] = rows[i]
  BY <1>3, <1>5
<1>. QED  BY <1>3, <1>4, <1>6, <1>7 DEF RowsOK

(* What a key of a row says about the row it refers to.                    *)
LEMMA Referred == ASSUME RowsOK, NEW ids \in SUBSET Ids, NEW kind, NEW r \in Referring(ids, kind)
                  PROVE  /\ r \in DOMAIN rows
                         /\ \E k \in Keys : /\ k[1] = TableOf(r) /\ k[4] = kind /\ KeyFact(k)
                                            /\ rows[r].ref[k[2]] \in ids
                                            /\ TableOf(rows[r].ref[k[2]]) = k[3]
<1>1. r \in DOMAIN rows /\ TableOf(r) \in Tables
  <2>1. r \in DOMAIN rows
    BY DEF Referring
  <2>. QED  BY <2>1, IdFacts DEF RowsOK
<1>2. PICK k \in KeysOf[TableOf(r)] : k[4] = kind /\ rows[r].ref[k[2]] \in ids
  BY DEF Referring
<1>3. k \in Keys /\ k[1] = TableOf(r) /\ KeyFact(k)
  BY <1>1, <1>2, FactOfKey
<1>4. k[2] \in Columns(TableOf(r))
  BY <1>2 DEF Columns
<1>5. rows[r].ref[k[2]] # NoRow
  BY <1>2, IdFacts
<1>6. TableOf(rows[r].ref[k[2]]) = k[3]
  BY <1>1, <1>3, <1>4, <1>5 DEF RowsOK, RowOK, KeyFact
<1>. QED  BY <1>1, <1>2, <1>3, <1>6
-----------------------------------------------------------------------------
(* What a delete takes along *)

(* A set of a table family grows only within it: no cascade leads to       *)
(* workspaces, users or the audit log.                                     *)
LEMMA CascadeStaysInside == ASSUME RowsOK, NEW ids \in SUBSET DOMAIN rows,
                                   \A i \in ids : TableOf(i) \notin Outside
                            PROVE  /\ Cascade(ids) \subseteq DOMAIN rows
                                   /\ \A i \in Cascade(ids) : TableOf(i) \notin Outside
<1>1. ids \in SUBSET Ids
  BY DEF RowsOK
<1>2. ASSUME NEW r \in Referring(ids, "cascade")
      PROVE  r \in DOMAIN rows /\ TableOf(r) \notin Outside
  <2>1. r \in DOMAIN rows
    BY DEF Referring
  <2>2. PICK k \in Keys : k[1] = TableOf(r) /\ k[4] = "cascade" /\ KeyFact(k)
    BY <1>1, Referred
  <2>. QED  BY <2>1, <2>2 DEF KeyFact
<1>3. ids \subseteq DOMAIN rows /\ \A i \in ids : TableOf(i) \notin Outside
  OBVIOUS
<1>. QED  BY <1>2, <1>3 DEF Cascade

(* What a step of the cascade adds refers to what the step before added,   *)
(* so ranks climb, and after three steps there is nothing left to add.     *)
LEMMA DoomedIsClosed == ASSUME RowsOK, NEW victim \in DOMAIN rows
                        PROVE  /\ victim \in Doomed(victim) /\ Doomed(victim) \subseteq DOMAIN rows
                               /\ Referring(Doomed(victim), "cascade") \subseteq Doomed(victim)
<1> DEFINE C0 == {victim}
           C1 == Cascade(C0)
           C2 == Cascade(C1)
           C3 == Cascade(C2)
<1>1. ASSUME NEW ids \in SUBSET DOMAIN rows
      PROVE  ids \subseteq Cascade(ids) /\ Cascade(ids) \subseteq DOMAIN rows
  BY DEF Cascade, Referring
<1>2. ASSUME NEW ids \in SUBSET DOMAIN rows, NEW r \in Referring(Cascade(ids), "cascade"),
             r \notin Cascade(ids)
      PROVE  \E s \in Cascade(ids) \ ids : Rank(TableOf(r)) > Rank(TableOf(s))
  <2>1. Cascade(ids) \in SUBSET Ids
    BY <1>1 DEF RowsOK
  <2>2. PICK k \in Keys : /\ k[1] = TableOf(r) /\ k[4] = "cascade" /\ KeyFact(k)
                          /\ rows[r].ref[k[2]] \in Cascade(ids)
                          /\ TableOf(rows[r].ref[k[2]]) = k[3]
    BY <2>1, Referred
  <2>3. Rank(TableOf(r)) > Rank(TableOf(rows[r].ref[k[2]]))
    BY <2>2 DEF KeyFact
  <2>4. rows[r].ref[k[2]] \notin ids
    <3>1. r \in DOMAIN rows /\ TableOf(r) \in Tables
      BY IdFacts DEF Referring, RowsOK
    <3>2. k \in KeysOf[TableOf(r)]
      BY <2>2, <3>1 DEF KeysOf
    <3>3. r \notin Referring(ids, "cascade")
      BY <1>2 DEF Cascade
    <3>. QED  BY <2>2, <3>1, <3>2, <3>3 DEF Referring
  <2>. QED  BY <2>2, <2>3, <2>4
<1>3. \A t : Rank(t) \in 0..3
  BY DEF Rank
<1>4. /\ C0 \in SUBSET DOMAIN rows /\ C1 \in SUBSET DOMAIN rows
      /\ C2 \in SUBSET DOMAIN rows /\ C3 \in SUBSET DOMAIN rows
      /\ C0 \subseteq C1 /\ C1 \subseteq C2 /\ C2 \subseteq C3
  BY <1>1
<1>5. \A s \in C1 \ C0 : Rank(TableOf(s)) > 0
  <2>1. TAKE s \in C1 \ C0
  <2>2. s \in Referring(C0, "cascade") /\ C0 \in SUBSET Ids
    BY DEF Cascade, RowsOK
  <2>3. PICK k \in Keys : k[1] = TableOf(s) /\ k[4] = "cascade" /\ KeyFact(k)
    BY <2>2, Referred
  <2>. QED  BY <1>3, <2>3 DEF KeyFact
<1> HIDE DEF C0
<1>6. \A s \in C2 \ C1 : s \in Referring(C1, "cascade")
  BY DEF Cascade
<1>7. \A s \in C2 \ C1 : Rank(TableOf(s)) > 1
  BY <1>2, <1>3, <1>4, <1>5, <1>6
<1>8. \A s \in C3 \ C2 : s \in Referring(C2, "cascade")
  BY DEF Cascade
<1> HIDE DEF C1
<1>9. \A s \in C3 \ C2 : Rank(TableOf(s)) > 2
  BY <1>2, <1>3, <1>4, <1>7, <1>8
<1> HIDE DEF C2
<1>10. Referring(C3, "cascade") \subseteq C3
  BY <1>2, <1>3, <1>4, <1>9
<1>11. Doomed(victim) = C3
  BY DEF Doomed, C0, C1, C2
<1>12. victim \in C3
  BY <1>4 DEF C0
<1> HIDE DEF C3
<1>. QED  BY <1>4, <1>10, <1>11, <1>12

-----------------------------------------------------------------------------
(* Deleting *)

(* A bot can always be deleted (drizzle/0001_append_only_triggers.sql:3-6):*)
(* its cascades stay among tables no restricting key refers to and no      *)
(* DELETE trigger guards, and none of the keys that are set to null lies   *)
(* in a table whose rows may not be updated.                               *)
LEMMA BotsMayGo == ASSUME RowsOK PROVE BotsCanBeDeleted
<1> SUFFICES ASSUME NEW b \in Of("bots") PROVE DeleteAllowed(b)
  BY DEF BotsCanBeDeleted
<1> DEFINE doomed == Doomed(b)
<1>1. b \in DOMAIN rows /\ TableOf(b) = "bots"
  BY DEF Of
<1>2. doomed \subseteq DOMAIN rows /\ \A i \in doomed : TableOf(i) \notin Outside
  <2>1. {b} \in SUBSET DOMAIN rows /\ \A i \in {b} : TableOf(i) \notin Outside
    BY <1>1 DEF Outside
  <2>2. /\ Cascade({b}) \in SUBSET DOMAIN rows
        /\ \A i \in Cascade({b}) : TableOf(i) \notin Outside
    BY <2>1, CascadeStaysInside
  <2>3. /\ Cascade(Cascade({b})) \in SUBSET DOMAIN rows
        /\ \A i \in Cascade(Cascade({b})) : TableOf(i) \notin Outside
    BY <2>2, CascadeStaysInside
  <2>. QED  BY <2>3, CascadeStaysInside DEF Doomed
<1> HIDE DEF doomed
<1>3. doomed \in SUBSET Ids
  BY <1>2 DEF RowsOK
<1>4. Referring(doomed, "restrict") = {}
  <2>1. ASSUME NEW r \in Referring(doomed, "restrict") PROVE FALSE
    <3>1. PICK k \in Keys : /\ k[4] = "restrict" /\ KeyFact(k)
                            /\ rows[r].ref[k[2]] \in doomed
                            /\ TableOf(rows[r].ref[k[2]]) = k[3]
      BY <1>3, Referred
    <3>2. k[3] \in Outside
      BY <3>1 DEF KeyFact, Outside
    <3>. QED  BY <1>2, <3>1, <3>2
  <2>. QED  BY <2>1
<1>5. \A r \in Referring(doomed, "set_null") : TableOf(r) \notin {"events", "audit_events"}
  <2>1. ASSUME NEW r \in Referring(doomed, "set_null")
        PROVE  TableOf(r) \notin {"events", "audit_events"}
    <3>1. /\ r \in DOMAIN rows
          /\ \E k \in Keys : /\ k[1] = TableOf(r) /\ k[4] = "set_null" /\ KeyFact(k)
                             /\ rows[r].ref[k[2]] \in doomed
                             /\ TableOf(rows[r].ref[k[2]]) = k[3]
      BY <1>3, Referred
    <3>. QED  BY <3>1 DEF KeyFact
  <2>. QED  BY <2>1
<1>6. \A i \in doomed : TableOf(i) # "audit_events"
  BY <1>2 DEF Outside
<1>. QED  BY <1>4, <1>5, <1>6 DEF DeleteAllowed, MayGo, TriggersAllow, doomed

(* A row that survives a delete and none of whose references is doomed is  *)
(* as it was.                                                              *)
LEMMA DeleteSpares == ASSUME RowsOK, NEW victim \in DOMAIN rows, Delete(victim),
                             NEW i \in DOMAIN rows \ Doomed(victim),
                             \A k \in KeysOf[TableOf(i)] : rows[i].ref[k[2]] \notin Doomed(victim)
                      PROVE  i \in DOMAIN rows' /\ rows'[i] = rows[i]
<1> DEFINE doomed == Doomed(victim)
<1>1. rows' = [j \in DOMAIN rows \ doomed |->
                  [rows[j] EXCEPT !.ref =
                      [c \in DOMAIN rows[j].ref |->
                          IF rows[j].ref[c] \in doomed THEN NoRow ELSE rows[j].ref[c]]]]
  BY DEF Delete
<1>2. RowOK(i, rows[i])
  BY DEF RowsOK
<1>3. \A c \in DOMAIN rows[i].ref : rows[i].ref[c] \notin doomed
  BY <1>2 DEF RowOK, Columns
<1> HIDE DEF doomed
<1>4. [c \in DOMAIN rows[i].ref |->
          IF rows[i].ref[c] \in doomed THEN NoRow ELSE rows[i].ref[c]] = rows[i].ref
  BY <1>2, <1>3 DEF RowOK
<1>5. i \in DOMAIN rows \ doomed
  BY DEF doomed
<1>6. i \in DOMAIN rows' /\ rows'[i] = [rows[i] EXCEPT !.ref = rows[i].ref]
  BY <1>1, <1>4, <1>5
<1>7. [rows[i] EXCEPT !.ref = rows[i].ref] = rows[i]
  <2> DEFINE x == rows[i].ref
             y == rows[i].mark
  <2>1. rows[i] = [ref |-> x, mark |-> y]
    BY <1>2 DEF RowOK
  <2> HIDE DEF x, y
  <2>2. [rows[i] EXCEPT !.ref = x] = rows[i]
    BY <2>1
  <2>. QED  BY <2>2 DEF x
<1>. QED  BY <1>6, <1>7

LEMMA DeleteKeeps == ASSUME RowsOK, NEW victim \in DOMAIN rows, Delete(victim)
                     PROVE  RowsOK'
<1> DEFINE doomed == Doomed(victim)
           Left(j) == [c \in DOMAIN rows[j].ref |->
                          IF rows[j].ref[c] \in doomed THEN NoRow ELSE rows[j].ref[c]]
<1>1. rows' = [j \in DOMAIN rows \ doomed |-> [rows[j] EXCEPT !.ref = Left(j)]]
  BY DEF Delete
<1>2. DOMAIN rows' \subseteq DOMAIN rows
  BY <1>1
<1>3. ASSUME NEW j \in DOMAIN rows' PROVE RowOK(j, rows'[j])
  <2>1. RowOK(j, rows[j])
    BY <1>2 DEF RowsOK
  <2>2. /\ Left(j) \in [Columns(TableOf(j)) -> Ids \cup {NoRow}]
        /\ \A c \in Columns(TableOf(j)) : Left(j)[c] # NoRow => TableOf(Left(j)[c]) = Target[c]
    BY <2>1 DEF RowOK
  <2>3. rows'[j] = [ref |-> Left(j), mark |-> rows[j].mark]
    <3> HIDE DEF doomed, Left
    <3>1. rows'[j] = [rows[j] EXCEPT !.ref = Left(j)]
      BY <1>1
    <3> DEFINE x == rows[j].ref
               y == rows[j].mark
    <3>2. rows[j] = [ref |-> x, mark |-> y]
      BY <2>1 DEF RowOK
    <3> HIDE DEF x, y
    <3>3. rows'[j] = [ref |-> Left(j), mark |-> y]
      BY <3>1, <3>2
    <3>. QED  BY <3>3 DEF y
  <2> HIDE DEF Left
  <2>. QED  BY <2>2, <2>3 DEF RowOK
<1>. QED  BY <1>2, <1>3 DEF RowsOK

LEMMA StepKeepsLogs == ASSUME RowsOK, Next
    PROVE /\ \A i \in Of("audit_events") : i \in DOMAIN rows' /\ rows'[i] = rows[i]
          /\ \A i \in Of("events") : i \in DOMAIN rows' => rows'[i] = rows[i]
<1>1. ASSUME NEW table \in Tables, Insert(table)
      PROVE \A i \in DOMAIN rows : i \in DOMAIN rows' /\ rows'[i] = rows[i]
  BY <1>1, InsertKeeps
<1>2. ASSUME NEW victim \in DOMAIN rows, Delete(victim), NEW i \in Of("audit_events")
      PROVE  i \in DOMAIN rows' /\ rows'[i] = rows[i]
  <2>1. i \in DOMAIN rows /\ TableOf(i) = "audit_events"
    BY DEF Of
  <2>2. /\ Referring(Doomed(victim), "restrict") = {}
        /\ \A j \in Doomed(victim) : TableOf(j) # "audit_events"
    BY <1>2 DEF Delete, MayGo, TriggersAllow
  <2>3. ASSUME NEW k \in KeysOf[TableOf(i)] PROVE rows[i].ref[k[2]] \notin Doomed(victim)
    <3>1. k \in Keys /\ k[1] = "audit_events"
      BY <2>1 DEF KeysOf, Tables
    <3>2. k[4] = "restrict"
      BY <3>1, KeyFacts DEF KeyFact
    <3>. QED  BY <2>1, <2>2, <3>2 DEF Referring
  <2>. QED  BY <1>2, <2>1, <2>2, <2>3, DeleteSpares
<1>3. ASSUME NEW victim \in DOMAIN rows, Delete(victim), NEW i \in Of("events"), i \in DOMAIN rows'
      PROVE  rows'[i] = rows[i]
  <2>1. i \in DOMAIN rows /\ TableOf(i) = "events"
    BY DEF Of
  <2>2. i \notin Doomed(victim)
    BY <1>3 DEF Delete
  <2>3. ASSUME NEW k \in KeysOf[TableOf(i)] PROVE rows[i].ref[k[2]] \notin Doomed(victim)
    <3>1. k \in Keys /\ k[1] = "events"
      BY <2>1 DEF KeysOf, Tables
    <3>2. k[4] = "cascade"
      BY <3>1, KeyFacts DEF KeyFact
    <3>3. i \notin Referring(Doomed(victim), "cascade")
      BY <2>2, DoomedIsClosed
    <3>. QED  BY <2>1, <3>2, <3>3 DEF Referring
  <2>. QED  BY <1>3, <2>1, <2>2, <2>3, DeleteSpares
<1>4. \A i \in Of("audit_events") : i \in DOMAIN rows
  BY DEF Of
<1>5. \A i \in Of("events") : i \in DOMAIN rows
  BY DEF Of
<1>. QED  BY <1>1, <1>2, <1>3, <1>4, <1>5 DEF Next
-----------------------------------------------------------------------------
(* References lead to rows of the table their key names: what the database *)
(* has for rows is what its schema says.                                   *)
THEOREM RowsAreTyped == Spec => []RowsOK
<1>1. Init => RowsOK
  BY DEF Init, RowsOK
<1>2. RowsOK /\ [Next]_rows => RowsOK'
  <2> SUFFICES ASSUME RowsOK, [Next]_rows PROVE RowsOK'
    OBVIOUS
  <2>1. ASSUME NEW table \in Tables, Insert(table) PROVE RowsOK'
    BY <2>1, InsertKeeps
  <2>2. ASSUME NEW victim \in DOMAIN rows, Delete(victim) PROVE RowsOK'
    BY <2>2, DeleteKeeps
  <2>3. CASE UNCHANGED rows
    BY <2>3 DEF RowsOK
  <2>. QED  BY <2>1, <2>2, <2>3 DEF Next
<1>. QED  BY <1>1, <1>2, PTL DEF Spec

(* A bot can be deleted whatever hangs on it.                              *)
THEOREM DeletingBotsWorks == Spec => []BotsCanBeDeleted
  BY RowsAreTyped, BotsMayGo, PTL

(* Audit events stay for ever; events are never changed.                   *)
THEOREM LogsStayAsTheyAre == Spec => LogsAreImmutable
<1> DEFINE Kept == /\ \A i \in Of("audit_events") : i \in DOMAIN rows' /\ rows'[i] = rows[i]
                   /\ \A i \in Of("events") : i \in DOMAIN rows' => rows'[i] = rows[i]
<1>1. RowsOK /\ [Next]_rows => [Kept]_rows
  BY StepKeepsLogs
<1>. QED  BY <1>1, RowsAreTyped, PTL DEF Spec, LogsAreImmutable
-----------------------------------------------------------------------------
(* The secret store *)

(* What an envelope of a value put under a key looks like.                 *)
EnvelopeOf(scope, p, dek) ==
    [ciphertext |-> Sealed(dek, scope, p.value),
     encryptedDataKey |-> Sealed(p.key, scope, dek),
     keyId |-> KeyIdOf[p.key]]
Fresh(scope, p, env) == p.key \in MasterKeys /\ \E dek \in Nat : env = EnvelopeOf(scope, p, dek)

SealedShape(c) == c = [key |-> c.key, aad |-> c.aad, body |-> c.body, intact |-> c.intact]
EnvelopeShape(e) ==
    /\ e = [ciphertext |-> e.ciphertext, encryptedDataKey |-> e.encryptedDataKey, keyId |-> e.keyId]
    /\ SealedShape(e.ciphertext) /\ SealedShape(e.encryptedDataKey)

(* The bytes of an envelope were put, though perhaps at another scope.     *)
WasPut(env, h) == EnvelopeShape(env) /\ <<env.ciphertext.aad, env.ciphertext.body>> \in h

TypesInv == kek \in MasterKeys /\ seals \in Nat /\ faults \in Nat /\ DOMAIN put = Scopes
HandInv == \A w \in inHand : w.scope \in Scopes /\ Fresh(w.scope, w.put, w.env)
TableInv ==
    \A r \in stored :
        /\ r = [id |-> r.id, scope |-> r.scope, env |-> r.env]
        /\ r.scope \in Scopes
        /\ WasPut(r.env, history)
        /\ faults = 0 => Fresh(r.scope, put[r.scope], r.env)
ReadInv ==
    \A f \in fetched :
        WasPut(f.env, history) /\ (f.faults = 0 => Fresh(f.scope, f.put, f.env))
StoreInv == TypesInv /\ HandInv /\ TableInv /\ ReadInv

LEMMA FreshWasPut == ASSUME NEW s, NEW p, NEW e, Fresh(s, p, e), NEW h, <<s, p.value>> \in h
                     PROVE  WasPut(e, h)
<1>1. PICK dek \in Nat : e = EnvelopeOf(s, p, dek)
  BY DEF Fresh
<1>2. EnvelopeShape(e)
  BY <1>1 DEF EnvelopeOf, EnvelopeShape, SealedShape, Sealed
<1>3. e.ciphertext.aad = s /\ e.ciphertext.body = p.value
  BY <1>1 DEF EnvelopeOf, Sealed
<1>. QED  BY <1>2, <1>3 DEF WasPut

LEMMA Rewritten == ASSUME NEW k, NEW a, NEW b, NEW i, NEW v, NEW c,
                          c = [key |-> k, aad |-> a, body |-> b, intact |-> i]
                   PROVE  [c EXCEPT !.intact = v] = [key |-> k, aad |-> a, body |-> b, intact |-> v]
  OBVIOUS

(* A damaged column is not the other columns': aad and plaintext stay.     *)
LEMMA DamageKeeps ==
    ASSUME NEW r, r = [id |-> r.id, scope |-> r.scope, env |-> r.env], NEW h, WasPut(r.env, h),
           NEW q, \/ q = [r EXCEPT !.env.ciphertext.intact = FALSE]
                  \/ q = [r EXCEPT !.env.encryptedDataKey.intact = FALSE]
                  \/ q = [r EXCEPT !.env.keyId = Foreign]
    PROVE  q = [id |-> q.id, scope |-> q.scope, env |-> q.env] /\ q.scope = r.scope /\ WasPut(q.env, h)
<1> DEFINE i == r.id  s == r.scope  e == r.env
           c == e.ciphertext  d == e.encryptedDataKey  n == e.keyId
           ck == c.key  ca == c.aad  cb == c.body  ci == c.intact
           dk == d.key  da == d.aad  db == d.body  di == d.intact
<1>1. r = [id |-> i, scope |-> s, env |-> e]
  OBVIOUS
<1>2. e = [ciphertext |-> c, encryptedDataKey |-> d, keyId |-> n]
  BY DEF WasPut, EnvelopeShape
<1>3. c = [key |-> ck, aad |-> ca, body |-> cb, intact |-> ci]
  BY DEF WasPut, EnvelopeShape, SealedShape
<1>4. d = [key |-> dk, aad |-> da, body |-> db, intact |-> di]
  BY DEF WasPut, EnvelopeShape, SealedShape
<1>5. <<ca, cb>> \in h
  BY DEF WasPut
<1> DEFINE no == FALSE
           c0 == [key |-> ck, aad |-> ca, body |-> cb, intact |-> no]
           d0 == [key |-> dk, aad |-> da, body |-> db, intact |-> no]
<1>6. \/ q = [r EXCEPT !.env = [e EXCEPT !.ciphertext = [c EXCEPT !.intact = no]]]
      \/ q = [r EXCEPT !.env = [e EXCEPT !.encryptedDataKey = [d EXCEPT !.intact = no]]]
      \/ q = [r EXCEPT !.env = [e EXCEPT !.keyId = Foreign]]
  OBVIOUS
<1> HIDE DEF no, i, s, e, c, d, n, ck, ca, cb, ci, dk, da, db, di
<1>7. [c EXCEPT !.intact = no] = c0
  BY <1>3, Rewritten
<1>8. [d EXCEPT !.intact = no] = d0
  BY <1>4, Rewritten
<1>9. PICK c1, d1, n1 :
         /\ q = [id |-> i, scope |-> s, env |->
                   [ciphertext |-> c1, encryptedDataKey |-> d1, keyId |-> n1]]
         /\ \E y : c1 = [key |-> ck, aad |-> ca, body |-> cb, intact |-> y]
         /\ \E y : d1 = [key |-> dk, aad |-> da, body |-> db, intact |-> y]
  <2>1. CASE q = [r EXCEPT !.env = [e EXCEPT !.ciphertext = [c EXCEPT !.intact = no]]]
    <3>1. q = [id |-> i, scope |-> s, env |->
                 [ciphertext |-> c0, encryptedDataKey |-> d, keyId |-> n]]
      BY <2>1, <1>1, <1>2, <1>7
    <3>. QED  BY <3>1, <1>4
  <2>2. CASE q = [r EXCEPT !.env = [e EXCEPT !.encryptedDataKey = [d EXCEPT !.intact = no]]]
    <3>1. q = [id |-> i, scope |-> s, env |->
                 [ciphertext |-> c, encryptedDataKey |-> d0, keyId |-> n]]
      BY <2>2, <1>1, <1>2, <1>8
    <3>. QED  BY <3>1, <1>3
  <2>3. CASE q = [r EXCEPT !.env = [e EXCEPT !.keyId = Foreign]]
    <3>1. q = [id |-> i, scope |-> s, env |->
                 [ciphertext |-> c, encryptedDataKey |-> d, keyId |-> Foreign]]
      BY <2>3, <1>1, <1>2
    <3>. QED  BY <3>1, <1>3, <1>4
  <2>. QED  BY <1>6, <2>1, <2>2, <2>3
<1>10. q = [id |-> q.id, scope |-> q.scope, env |-> q.env] /\ q.scope = s
  BY <1>9
<1>11. WasPut(q.env, h)
  BY <1>5, <1>9 DEF WasPut, EnvelopeShape, SealedShape
<1>. QED  BY <1>10, <1>11 DEF s

LEMMA StoreStep == ASSUME StoreInv, [StoreNext]_secretVars PROVE StoreInv'
<1> USE DEF StoreInv
<1>1. ASSUME NEW s \in Scopes, NEW v \in Values, Seal(s, v) PROVE StoreInv'
  <2> DEFINE w == [scope |-> s, env |-> SealSecret(s, v, seals + 1), put |-> [value |-> v, key |-> kek]]
  <2>1. w.scope \in Scopes /\ Fresh(w.scope, w.put, w.env)
    BY DEF TypesInv, Fresh, EnvelopeOf, SealSecret
  <2>2. inHand' = inHand \cup {w} /\ UNCHANGED <<kek, stored, faults, fetched, put, history>>
    BY <1>1 DEF Seal
  <2>3. seals' \in Nat
    BY <1>1 DEF Seal, TypesInv
  <2> HIDE DEF w
  <2>4. HandInv'
    BY <2>1, <2>2 DEF HandInv
  <2>5. TypesInv' /\ TableInv' /\ ReadInv'
    BY <2>2, <2>3 DEF TypesInv, TableInv, ReadInv
  <2>. QED  BY <2>4, <2>5
<1>2. ASSUME NEW w \in inHand, PutSecret(w) PROVE StoreInv'
  <2> DEFINE old == RowsAt(w.scope)
             ids == IF old = {} THEN {seals} ELSE {r.id : r \in old}
  <2>1. /\ inHand' = inHand \ {w}
        /\ stored' = (stored \ old) \cup {[id |-> i, scope |-> w.scope, env |-> w.env] : i \in ids}
        /\ put' = [put EXCEPT ![w.scope] = w.put]
        /\ history' = history \cup {<<w.scope, w.put.value>>}
        /\ UNCHANGED <<kek, seals, faults, fetched>>
    BY <1>2 DEF PutSecret
  <2>2. w.scope \in Scopes /\ Fresh(w.scope, w.put, w.env) /\ WasPut(w.env, history')
    <3>1. w.scope \in Scopes /\ Fresh(w.scope, w.put, w.env)
      BY DEF HandInv
    <3>2. <<w.scope, w.put.value>> \in history'
      BY <2>1
    <3> HIDE DEF StoreInv
    <3>3. WasPut(w.env, history')
      BY <3>1, <3>2, FreshWasPut
    <3>. QED  BY <3>1, <3>3
  <2>3. \A e : WasPut(e, history) => WasPut(e, history')
    BY <2>1 DEF WasPut
  <2>4. put'[w.scope] = w.put /\ DOMAIN put' = Scopes /\ \A s \in Scopes \ {w.scope} : put'[s] = put[s]
    BY <2>1, <2>2 DEF TypesInv
  <2>5. ASSUME NEW r \in stored'
        PROVE  /\ r = [id |-> r.id, scope |-> r.scope, env |-> r.env]
               /\ r.scope \in Scopes /\ WasPut(r.env, history')
               /\ faults' = 0 => Fresh(r.scope, put'[r.scope], r.env)
    <3>1. CASE r \in stored \ old
      <4>1. r.scope # w.scope
        BY <3>1 DEF RowsAt
      <4>. QED  BY <3>1, <4>1, <2>1, <2>3, <2>4 DEF TableInv
    <3>2. CASE \E i \in ids : r = [id |-> i, scope |-> w.scope, env |-> w.env]
      <4>1. r.scope = w.scope /\ r.env = w.env /\ r = [id |-> r.id, scope |-> r.scope, env |-> r.env]
        BY <3>2
      <4>. QED  BY <4>1, <2>2, <2>4
    <3>. QED  BY <2>1, <3>1, <3>2
  <2>6. HandInv' /\ TypesInv'
    BY <2>1, <2>4 DEF HandInv, TypesInv
  <2>7. ReadInv'
    BY <2>1, <2>3 DEF ReadInv
  <2>8. TableInv'
    BY <2>5 DEF TableInv
  <2>. QED  BY <2>6, <2>7, <2>8
<1>3. ASSUME NEW s \in Scopes, DeleteSecret(s) PROVE StoreInv'
  <2>1. /\ stored' = stored \ RowsAt(s) /\ put' = [put EXCEPT ![s] = None]
        /\ UNCHANGED <<kek, seals, inHand, faults, fetched, history>>
    BY <1>3 DEF DeleteSecret
  <2>2. DOMAIN put' = Scopes /\ \A t \in Scopes \ {s} : put'[t] = put[t]
    BY <2>1 DEF TypesInv
  <2>3. \A r \in stored' : r \in stored /\ r.scope # s
    BY <2>1 DEF RowsAt
  <2>4. TableInv'
    BY <2>1, <2>2, <2>3 DEF TableInv
  <2>5. TypesInv' /\ HandInv' /\ ReadInv'
    BY <2>1, <2>2 DEF TypesInv, HandInv, ReadInv
  <2>. QED  BY <2>4, <2>5
<1>4. ASSUME NEW s \in Scopes, GetSecretEnvelope(s) PROVE StoreInv'
  <2>1. PICK r \in RowsAt(s) :
           fetched' = {[scope |-> s, env |-> r.env, put |-> put[s], faults |-> faults]}
    BY <1>4 DEF GetSecretEnvelope
  <2>2. UNCHANGED <<kek, seals, inHand, stored, faults, put, history>>
    BY <1>4 DEF GetSecretEnvelope
  <2>3. r \in stored /\ r.scope = s
    BY DEF RowsAt
  <2>4. WasPut(r.env, history) /\ (faults = 0 => Fresh(s, put[s], r.env))
    BY <2>3 DEF TableInv
  <2>5. ReadInv'
    BY <2>1, <2>2, <2>4 DEF ReadInv
  <2>6. TypesInv' /\ HandInv' /\ TableInv'
    BY <2>2 DEF TypesInv, HandInv, TableInv
  <2>. QED  BY <2>5, <2>6
<1>5. ASSUME NEW b, BotGoes(b) PROVE StoreInv'
  <2>1. /\ stored' = {r \in stored : r.scope.bot # b}
        /\ put' = [s \in Scopes |-> IF s.bot = b THEN None ELSE put[s]]
        /\ UNCHANGED <<kek, seals, inHand, faults, fetched, history>>
    BY <1>5 DEF BotGoes
  <2>2. \A r \in stored' : r \in stored /\ r.scope \in Scopes /\ put'[r.scope] = put[r.scope]
    BY <2>1 DEF TableInv
  <2>3. TableInv'
    BY <2>1, <2>2 DEF TableInv
  <2>4. TypesInv' /\ HandInv' /\ ReadInv'
    BY <2>1 DEF TypesInv, HandInv, ReadInv
  <2>. QED  BY <2>3, <2>4
<1>6. CASE Rotate
  BY <1>6 DEF Rotate, TypesInv, HandInv, TableInv, ReadInv
<1>7. CASE RowMoves
  <2>1. PICK r \in stored, s \in Scopes : stored' = (stored \ {r}) \cup {[r EXCEPT !.scope = s]}
    BY <1>7 DEF RowMoves
  <2>2. faults' \in Nat /\ faults' # 0 /\ UNCHANGED <<kek, seals, inHand, fetched, put, history>>
    BY <1>7 DEF RowMoves, TypesInv
  <2> DEFINE q == [r EXCEPT !.scope = s]
  <2>3. r = [id |-> r.id, scope |-> r.scope, env |-> r.env] /\ WasPut(r.env, history)
    BY DEF TableInv
  <2>4. q = [id |-> r.id, scope |-> s, env |-> r.env]
    <3> DEFINE x == r.id  y == r.scope  z == r.env
    <3>1. r = [id |-> x, scope |-> y, env |-> z]
      BY <2>3
    <3> HIDE DEF x, y, z
    <3>2. q = [id |-> x, scope |-> s, env |-> z]
      BY <3>1
    <3>. QED  BY <3>2 DEF x, z
  <2>5. stored' = (stored \ {r}) \cup {q}
    BY <2>1
  <2> HIDE DEF q
  <2>6. q = [id |-> q.id, scope |-> q.scope, env |-> q.env] /\ q.scope \in Scopes /\ q.env = r.env
    BY <2>4
  <2>7. TableInv'
    BY <2>2, <2>3, <2>5, <2>6 DEF TableInv
  <2>8. TypesInv' /\ HandInv' /\ ReadInv'
    BY <2>2 DEF TypesInv, HandInv, ReadInv
  <2>. QED  BY <2>7, <2>8
<1>8. CASE RowDamaged
  <2>1. PICK r \in stored :
           \/ stored' = (stored \ {r}) \cup {[r EXCEPT !.env.ciphertext.intact = FALSE]}
           \/ stored' = (stored \ {r}) \cup {[r EXCEPT !.env.encryptedDataKey.intact = FALSE]}
           \/ stored' = (stored \ {r}) \cup {[r EXCEPT !.env.keyId = Foreign]}
    BY <1>8 DEF RowDamaged
  <2>2. faults' \in Nat /\ faults' # 0 /\ UNCHANGED <<kek, seals, inHand, fetched, put, history>>
    BY <1>8 DEF RowDamaged, TypesInv
  <2>3. PICK q : /\ stored' = (stored \ {r}) \cup {q}
                 /\ \/ q = [r EXCEPT !.env.ciphertext.intact = FALSE]
                    \/ q = [r EXCEPT !.env.encryptedDataKey.intact = FALSE]
                    \/ q = [r EXCEPT !.env.keyId = Foreign]
    BY <2>1
  <2>4. r = [id |-> r.id, scope |-> r.scope, env |-> r.env] /\ r.scope \in Scopes /\ WasPut(r.env, history)
    BY DEF TableInv
  <2>5. q = [id |-> q.id, scope |-> q.scope, env |-> q.env] /\ q.scope = r.scope /\ WasPut(q.env, history)
    BY <2>3, <2>4, DamageKeeps
  <2>6. stored' = (stored \ {r}) \cup {q}
    BY <2>3
  <2>7. TableInv'
    BY <2>2, <2>4, <2>5, <2>6 DEF TableInv
  <2>8. TypesInv' /\ HandInv' /\ ReadInv'
    BY <2>2 DEF TypesInv, HandInv, ReadInv
  <2>. QED  BY <2>7, <2>8
<1>9. ASSUME NEW f \in fetched, Open(f) PROVE StoreInv'
  BY <1>9 DEF Open, TypesInv, HandInv, TableInv, ReadInv
<1>10. CASE UNCHANGED secretVars
  BY <1>10 DEF secretVars, TypesInv, HandInv, TableInv, ReadInv
<1>. QED  BY <1>1, <1>2, <1>3, <1>4, <1>5, <1>6, <1>7, <1>8, <1>9, <1>10 DEF StoreNext

(* An envelope opens at its own scope only, and there to what was put.     *)
LEMMA OpeningIsTrue == ASSUME StoreInv PROVE OpensWhatWasPut
<1> SUFFICES ASSUME NEW f \in fetched
             PROVE  LET got == OpenSecret(f.env, f.scope) IN
                    /\ got \in Errors \/ <<f.scope, got>> \in history
                    /\ f.faults = 0 =>
                        got = IF f.put.key = kek THEN f.put.value
                              ELSE IF KeyIdOf[f.put.key] = KeyIdOf[kek] THEN "scope-mismatch"
                              ELSE "wrong-key"
  BY DEF OpensWhatWasPut
<1>1. WasPut(f.env, history) /\ (f.faults = 0 => Fresh(f.scope, f.put, f.env)) /\ kek \in MasterKeys
  BY DEF StoreInv, TypesInv, ReadInv
<1>2. OpenSecret(f.env, f.scope) \in Errors \/ <<f.scope, OpenSecret(f.env, f.scope)>> \in history
  BY <1>1 DEF OpenSecret, Errors, Decrypts, WasPut
<1>3. ASSUME f.faults = 0
      PROVE  OpenSecret(f.env, f.scope) =
                IF f.put.key = kek THEN f.put.value
                ELSE IF KeyIdOf[f.put.key] = KeyIdOf[kek] THEN "scope-mismatch" ELSE "wrong-key"
  <2>1. f.put.key \in MasterKeys
    BY <1>1, <1>3 DEF Fresh
  <2>2. PICK dek \in Nat : f.env = EnvelopeOf(f.scope, f.put, dek)
    BY <1>1, <1>3 DEF Fresh
  <2>3. /\ f.env.keyId = KeyIdOf[f.put.key] /\ f.env.keyId # Foreign
        /\ f.env.ciphertext = Sealed(dek, f.scope, f.put.value)
        /\ f.env.encryptedDataKey = Sealed(f.put.key, f.scope, dek)
    BY <2>1, <2>2, KeysAssumption DEF EnvelopeOf
  <2>4. /\ Decrypts(kek, f.scope, f.env.encryptedDataKey) <=> f.put.key = kek
        /\ f.env.encryptedDataKey.body = dek /\ f.env.ciphertext.body = f.put.value
        /\ Decrypts(dek, f.scope, f.env.ciphertext)
    BY <2>3 DEF Decrypts, Sealed
  <2>. QED  BY <2>3, <2>4 DEF OpenSecret
<1>. QED  BY <1>2, <1>3

(* What a reader opens was put at that very scope, or is refused: whatever *)
(* overlaps, rotates, moves or breaks, and however much of it              *)
(* (envelope.ts:142-151, db/secrets.ts:42-63).                             *)
THEOREM SecretsOpenTrue == StoreSpec => []OpensWhatWasPut
<1>1. StoreInit => StoreInv
  BY DEF StoreInit, StoreInv, TypesInv, HandInv, TableInv, ReadInv
<1>2. StoreInv /\ [StoreNext]_secretVars => StoreInv'
  BY StoreStep
<1>3. StoreInv => OpensWhatWasPut
  BY OpeningIsTrue
<1>. QED  BY <1>1, <1>2, <1>3, PTL DEF StoreSpec
-----------------------------------------------------------------------------
(* The bot folder *)

TextsOK(texts) == \A f \in DOMAIN texts : f \in Files /\ texts[f] \subseteq FaultsOf(f)

(* What a parser or the secret scan can see of a file that was read is     *)
(* among the issues.                                                       *)
ReadReported ==
    \A f \in DOMAIN read :
        \A i \in SlugIssues(f) \cup IssuesOf(f, read[f]) : <<f, i>> \in issues

Dismissed == step = "refused" /\ issues = {<<"folder", "not_a_directory">>}

WasRead(file) == file \in DOMAIN read \/ <<file, "missing">> \in issues

(* What reading a file leaves behind, unless loadBot throws.               *)
ReadingInv ==
    /\ TextsOK(read) /\ loaded \subseteq DOMAIN read /\ ReadReported
    /\ \A f \in DOMAIN read : ~ParserThrows(read[f])
    /\ \A f \in DOMAIN read \ loaded : \E i : <<f, i>> \in issues

FolderInv ==
    /\ TextsOK(disk)
    /\ step \in {"root", "BOT.md", "bot.yaml", "list", "skills", "refused", "loaded", "threw"}
    /\ listed \subseteq Skills
    /\ step # "threw" => ReadingInv
    /\ step = "root" => read = <<>> /\ loaded = {}
    /\ step \in {"bot.yaml", "list", "skills", "refused", "loaded"} /\ ~Dismissed => WasRead("BOT.md")
    /\ step \in {"list", "skills", "refused", "loaded"} /\ ~Dismissed => WasRead("bot.yaml")
    /\ step = "refused" => issues # {}
    /\ step = "loaded" => issues = {} /\ McpIssues(read["bot.yaml"]) = {}

(* A text without a fault any of its checks can see has none at all.       *)
LEMMA NothingHides ==
  ASSUME NEW file \in Files, NEW marks \in SUBSET FaultsOf(file),
         ~ParserThrows(marks), IssuesOf(file, marks) = {}, McpIssues(marks) = {}
  PROVE  marks = {}
<1>1. marks \cap {"secret", "fence", "yaml", "alias", "schema", "empty_body",
                   "duplicate_name", "unknown_catalog_id"} = {}
  BY DEF IssuesOf, SecretIssues, ParseIssues, McpIssues, ParserThrows
<1>2. ParseIssues(marks) = {}
  BY DEF IssuesOf
<1>3. file \in Skills => "wrong_name" \notin marks
  BY <1>2 DEF IssuesOf, NameIssues
<1>4. CASE file = "BOT.md"
  BY <1>1, <1>4 DEF FaultsOf
<1>5. CASE file # "BOT.md" /\ file = "bot.yaml"
  BY <1>1, <1>5 DEF FaultsOf
<1>6. CASE file # "BOT.md" /\ file # "bot.yaml"
  BY <1>1, <1>3, <1>6 DEF FaultsOf, Files
<1>. QED  BY <1>4, <1>5, <1>6

(* Only a manifest refers to the catalog.                                  *)
LEMMA OnlyManifestRefers ==
  ASSUME NEW file \in Files, NEW marks \in SUBSET FaultsOf(file), file # "bot.yaml"
  PROVE  McpIssues(marks) = {}
  BY DEF FaultsOf, McpIssues

LEMMA FolderVerdict == FolderInv => VerdictIsSound
<1>. SUFFICES ASSUME FolderInv PROVE VerdictIsSound
  OBVIOUS
<1>1. ASSUME step = "loaded" PROVE LoadedIsSound
  <2>1. issues = {} /\ McpIssues(read["bot.yaml"]) = {}
    BY <1>1 DEF FolderInv
  <2>. ReadingInv
    BY <1>1 DEF FolderInv
  <2>2. "BOT.md" \in DOMAIN read /\ "bot.yaml" \in DOMAIN read
    BY <1>1, <2>1 DEF FolderInv, WasRead, Dismissed
  <2>3. DOMAIN read = loaded
    BY <2>1 DEF ReadingInv
  <2>4. ASSUME NEW f \in DOMAIN read PROVE read[f] = {} /\ f \notin BadSlugs
    <3>1. SlugIssues(f) = {} /\ IssuesOf(f, read[f]) = {}
      BY <2>1 DEF ReadingInv, ReadReported
    <3>2. f \in Files /\ read[f] \in SUBSET FaultsOf(f) /\ ~ParserThrows(read[f])
      BY DEF ReadingInv, TextsOK
    <3>3. McpIssues(read[f]) = {}
      BY <3>2, <2>1, OnlyManifestRefers
    <3>. QED  BY <3>1, <3>2, <3>3, NothingHides DEF SlugIssues
  <2>. QED  BY <2>2, <2>3, <2>4 DEF LoadedIsSound
<1>2. ASSUME step = "refused", issues # {<<"folder", "not_a_directory">>}
      PROVE  RefusalIsComplete
  <2>1. issues # {} /\ WasRead("BOT.md") /\ WasRead("bot.yaml") /\ ReadReported
    BY <1>2 DEF FolderInv, ReadingInv, Dismissed
  <2>2. ASSUME NEW f \in DOMAIN read, "secret" \in read[f]
        PROVE  <<f, "secret">> \in issues
    BY <2>1, <2>2 DEF ReadReported, IssuesOf, SecretIssues
  <2>3. ASSUME NEW f \in DOMAIN read,
               read[f] \cap {"fence", "yaml", "schema", "empty_body",
                                    "duplicate_name"} # {}
        PROVE  \E i \in read[f] \ {"secret"} : <<f, i>> \in issues
    <3>1. PICK i : i \in ParseIssues(read[f])
      BY <2>3 DEF ParseIssues
    <3>2. i \in read[f] \ {"secret"}
      BY <3>1 DEF ParseIssues
    <3>3. <<f, i>> \in issues
      BY <2>1, <3>1 DEF ReadReported, IssuesOf
    <3>. QED  BY <3>2, <3>3
  <2>. QED  BY <2>1, <2>2, <2>3 DEF RefusalIsComplete, WasRead
<1>. QED  BY <1>1, <1>2 DEF VerdictIsSound

LEMMA Reading ==
  ASSUME TextsOK(disk), ReadingInv, NEW file, NEW next, ReadFile(file, next), ~ReadThrows(file),
         ~(file \in DOMAIN disk /\ ParserThrows(disk[file]))
  PROVE  /\ ReadingInv' /\ step' = next
         /\ issues \subseteq issues' /\ DOMAIN read \subseteq DOMAIN read'
         /\ WasRead(file)'
<1>1. CASE ReadMissing(file, next)
  <2>1. read' = read /\ loaded' = loaded /\ issues \subseteq issues'
        /\ <<file, "missing">> \in issues' /\ step' = next
    BY <1>1 DEF ReadMissing, Report
  <2>. QED  BY <2>1 DEF ReadingInv, ReadReported, WasRead, TextsOK
<1>2. CASE ReadText(file, next)
  <2>. DEFINE marks == disk[file]
              found == SlugIssues(file) \cup IssuesOf(file, marks)
  <2>0. file \in DOMAIN disk /\ ~ParserThrows(marks) /\ step' = next
    BY <1>2 DEF ReadText
  <2>1. /\ read' = MapSet(read, file, marks)
        /\ issues' = issues \cup {<<file, i>> : i \in found}
        /\ loaded' = IF ParseIssues(marks) \cup NameIssues(file, marks) # {}
                     THEN loaded ELSE loaded \cup {file}
    BY <1>2, <2>0 DEF ReadText, Report
  <2>2. DOMAIN read' = DOMAIN read \cup {file} /\ read'[file] = marks
        /\ \A f \in DOMAIN read \ {file} : read'[f] = read[f]
    BY <2>1 DEF MapSet
  <2>3. TextsOK(read)' /\ \A f \in DOMAIN read' : ~ParserThrows(read'[f])
    BY <2>0, <2>2 DEF TextsOK, ReadingInv
  <2>4. loaded' \subseteq DOMAIN read'
    BY <2>1, <2>2 DEF ReadingInv
  <2>5. \A i \in found : <<file, i>> \in issues'
    BY <2>1
  <2>6. ReadReported'
    <3>. SUFFICES ASSUME NEW f \in DOMAIN read',
                         NEW i \in SlugIssues(f) \cup IssuesOf(f, read'[f])
                  PROVE  <<f, i>> \in issues'
      BY DEF ReadReported
    <3>1. CASE f = file
      <4>1. read'[f] = marks
        BY <3>1, <2>2
      <4>2. i \in found
        BY <3>1, <4>1
      <4>. HIDE DEF found
      <4>. QED  BY <3>1, <4>2, <2>5
    <3>2. CASE f # file
      BY <3>2, <2>1, <2>2 DEF ReadingInv, ReadReported
    <3>. QED  BY <3>1, <3>2
  <2>7. ASSUME NEW f \in DOMAIN read' \ loaded' PROVE \E i : <<f, i>> \in issues'
    <3>1. CASE f \in DOMAIN read \ loaded
      BY <3>1, <2>1 DEF ReadingInv
    <3>2. CASE f = file
      <4>1. ParseIssues(marks) \cup NameIssues(file, marks) # {}
        BY <3>2, <2>1, <2>7
      <4>2. PICK i : i \in IssuesOf(file, marks)
        BY <4>1 DEF IssuesOf
      <4>3. i \in found
        BY <4>2
      <4>. HIDE DEF found
      <4>. QED  BY <4>3, <3>2, <2>5
    <3>. QED  BY <3>1, <3>2, <2>1, <2>2, <2>7
  <2>8. issues \subseteq issues'
    BY <2>1
  <2>. QED  BY <2>0, <2>2, <2>3, <2>4, <2>6, <2>7, <2>8 DEF ReadingInv, WasRead
<1>. QED  BY <1>1, <1>2 DEF ReadFile

(* A file whose reading or parsing throws ends loadBot.                    *)
LEMMA Throwing ==
  ASSUME NEW file, NEW next, ReadFile(file, next),
         ReadThrows(file) \/ (file \in DOMAIN disk /\ ParserThrows(disk[file]))
  PROVE  step' = "threw"
<1>1. CASE ReadThrows(file)
  BY <1>1 DEF ReadThrows, Throw
<1>2. CASE ~ReadThrows(file) /\ file \in DOMAIN disk /\ ParserThrows(disk[file])
  <2>1. ReadText(file, next)
    BY <1>2 DEF ReadFile, ReadMissing
  <2>. QED  BY <1>2, <2>1 DEF ReadText, Throw
<1>. QED  BY <1>1, <1>2

(* Once loadBot has thrown, nothing but the folder changes.                *)
LEMMA ThrownInv ==
  ASSUME TextsOK(disk)', step' = "threw", listed' \subseteq Skills
  PROVE  FolderInv'
  BY DEF FolderInv

LEMMA FolderStep == FolderInv /\ [FolderNext]_folderVars => FolderInv'
<1>. SUFFICES ASSUME FolderInv, [FolderNext]_folderVars PROVE FolderInv'
  OBVIOUS
<1>0. TextsOK(disk)'
  <2>1. CASE UNCHANGED disk
    BY <2>1 DEF FolderInv, TextsOK
  <2>2. CASE ~UNCHANGED disk
    <3>1. Edit
      BY <2>2 DEF FolderNext, CheckRoot, ReadBotMd, ReadManifest, ListSkills, ReadSkill, Finish,
                  folderVars
    <3>2. PICK file \in Files :
             \/ \E t \in Text(file) : disk' = MapSet(disk, file, t)
             \/ disk' = MapDelete(disk, file)
      BY <2>2, <3>1 DEF Edit
    <3>3. \A t \in Text(file) : t \subseteq FaultsOf(file)
      BY DEF Text
    <3>. QED  BY <3>2, <3>3 DEF FolderInv, TextsOK, MapSet, MapDelete
  <2>. QED  BY <2>1, <2>2
<1>1. CASE Edit \/ UNCHANGED folderVars
  <2>1. UNCHANGED <<step, listed, read, issues, loaded>>
    BY <1>1 DEF Edit, folderVars
  <2>. QED  BY <1>0, <2>1 DEF FolderInv, ReadingInv, ReadReported, TextsOK, WasRead, Dismissed
<1>2. CASE CheckRoot
  <2>1. step = "root" /\ UNCHANGED <<listed, read, loaded>> /\ read = <<>> /\ loaded = {}
    BY <1>2 DEF CheckRoot, FolderInv
  <2>2. DOMAIN read = {}
    BY <2>1
  <2>3. ReadingInv'
    BY <2>1, <2>2 DEF ReadingInv, ReadReported, TextsOK
  <2>4. \/ step' = "threw" \/ step' = "BOT.md"
        \/ step' = "refused" /\ issues' = {<<"folder", "not_a_directory">>}
    BY <1>2 DEF CheckRoot, Throw
  <2>. QED  BY <1>0, <2>1, <2>3, <2>4 DEF FolderInv, Dismissed
<1>3. CASE ReadBotMd
  <2>1. step = "BOT.md" /\ ReadFile("BOT.md", "bot.yaml") /\ UNCHANGED listed /\ ReadingInv
        /\ TextsOK(disk) /\ listed \subseteq Skills
    BY <1>3 DEF ReadBotMd, FolderInv
  <2>2. CASE step' = "threw"
    BY <1>0, <2>1, <2>2, ThrownInv
  <2>3. CASE step' # "threw"
    <3>1. ReadingInv' /\ WasRead("BOT.md")' /\ step' = "bot.yaml"
      BY <2>1, <2>3, Reading, Throwing
    <3>. QED  BY <1>0, <2>1, <3>1 DEF FolderInv, Dismissed
  <2>. QED  BY <2>2, <2>3
<1>4. CASE ReadManifest
  <2>1. step = "bot.yaml" /\ ReadFile("bot.yaml", "list") /\ UNCHANGED listed /\ ReadingInv
        /\ TextsOK(disk) /\ listed \subseteq Skills /\ WasRead("BOT.md")
    BY <1>4 DEF ReadManifest, FolderInv, Dismissed
  <2>2. CASE step' = "threw"
    BY <1>0, <2>1, <2>2, ThrownInv
  <2>3. CASE step' # "threw"
    <3>1. /\ ReadingInv' /\ WasRead("bot.yaml")' /\ step' = "list"
          /\ issues \subseteq issues' /\ DOMAIN read \subseteq DOMAIN read'
      BY <2>1, <2>3, Reading, Throwing
    <3>2. WasRead("BOT.md")'
      BY <2>1, <3>1 DEF WasRead
    <3>. QED  BY <1>0, <2>1, <3>1, <3>2 DEF FolderInv, Dismissed
  <2>. QED  BY <2>2, <2>3
<1>5. CASE ListSkills
  <2>1. step = "list" /\ UNCHANGED <<read, issues, loaded>> /\ listed' \subseteq Skills
        /\ step' \in {"threw", "skills"}
    BY <1>5 DEF ListSkills, Throw, FolderInv
  <2>. QED  BY <1>0, <2>1 DEF FolderInv, ReadingInv, ReadReported, TextsOK, WasRead, Dismissed
<1>6. ASSUME NEW name \in Skills, ReadSkill(name) PROVE FolderInv'
  <2>1. step = "skills" /\ ReadFile(name, "skills") /\ listed' \subseteq Skills /\ ReadingInv
        /\ TextsOK(disk) /\ WasRead("BOT.md") /\ WasRead("bot.yaml")
    BY <1>6 DEF ReadSkill, FolderInv, Dismissed
  <2>2. CASE step' = "threw"
    BY <1>0, <2>1, <2>2, ThrownInv
  <2>3. CASE step' # "threw"
    <3>1. /\ ReadingInv' /\ step' = "skills"
          /\ issues \subseteq issues' /\ DOMAIN read \subseteq DOMAIN read'
      BY <2>1, <2>3, Reading, Throwing
    <3>2. WasRead("BOT.md")' /\ WasRead("bot.yaml")'
      BY <2>1, <3>1 DEF WasRead
    <3>. QED  BY <1>0, <2>1, <3>1, <3>2 DEF FolderInv, Dismissed
  <2>. QED  BY <2>2, <2>3
<1>7. CASE Finish
  <2>1. step = "skills" /\ UNCHANGED <<listed, read, loaded>> /\ ReadingInv
        /\ listed \subseteq Skills /\ WasRead("BOT.md") /\ WasRead("bot.yaml")
    BY <1>7 DEF Finish, FolderInv, Dismissed
  <2>2. CASE step' = "threw"
    BY <1>0, <2>1, <2>2, ThrownInv
  <2>3. CASE issues # {} /\ step' # "threw"
    <3>1. step' = "refused" /\ UNCHANGED issues
      BY <2>3, <1>7 DEF Finish, Throw
    <3>. QED  BY <1>0, <2>1, <2>3, <3>1
              DEF FolderInv, ReadingInv, ReadReported, TextsOK, WasRead, Dismissed
  <2>4. CASE issues = {} /\ step' # "threw"
    <3>. DEFINE mcp == McpIssues(read["bot.yaml"])
    <3>1. issues' = {<<"bot.yaml", i>> : i \in mcp}
          /\ step' = IF issues' = {} THEN "loaded" ELSE "refused"
      BY <2>4, <1>7 DEF Finish, Report, Throw
    <3>2. "BOT.md" \in DOMAIN read /\ "bot.yaml" \in DOMAIN read
      BY <2>1, <2>4 DEF WasRead
    <3>3. ReadingInv'
      BY <2>1, <2>4 DEF ReadingInv, ReadReported, TextsOK
    <3>4. step' = "loaded" => issues' = {} /\ McpIssues(read'["bot.yaml"]) = {}
      BY <3>1, <2>1
    <3>5. step' \in {"refused", "loaded"} /\ (step' = "refused" => issues' # {})
      BY <3>1
    <3>. HIDE DEF mcp
    <3>. QED  BY <1>0, <2>1, <3>2, <3>3, <3>4, <3>5 DEF FolderInv, WasRead, Dismissed
  <2>. QED  BY <2>2, <2>3, <2>4
<1>. QED  BY <1>1, <1>2, <1>3, <1>4, <1>5, <1>6, <1>7 DEF FolderNext

(* Whatever the folder holds, whatever of it cannot be read, and however   *)
(* it is edited meanwhile: when loadBot comes to a verdict at all, the bot *)
(* was loaded only from texts without any fault, and a refusal names every *)
(* reason that can be seen (load.ts:159-161).  Of a loadBot that throws    *)
(* nothing is said; IssuesAreReturned does not hold of it.                 *)
THEOREM VerdictsAreSound == FolderSpec => []VerdictIsSound
<1>1. FolderInit => FolderInv
  <2>. SUFFICES ASSUME FolderInit PROVE FolderInv
    OBVIOUS
  <2>1. step = "root" /\ listed = {} /\ read = <<>> /\ issues = {} /\ loaded = {}
    BY DEF FolderInit
  <2>2. TextsOK(disk)
    BY DEF FolderInit, TextsOK, Text
  <2>3. ReadingInv
    BY <2>1 DEF ReadingInv, ReadReported, TextsOK
  <2>. QED  BY <2>1, <2>2, <2>3 DEF FolderInv
<1>. QED  BY <1>1, FolderStep, FolderVerdict, PTL DEF FolderSpec
-----------------------------------------------------------------------------
(* Loops over what a sequence holds *)

(* A set of numbers up to n that is not empty has a least one.             *)
LEMMA Smallest ==
  ASSUME NEW n \in Nat, NEW T, T \subseteq 1..n, T # {}
  PROVE  \E x \in T : \A y \in T : x <= y
<1>. DEFINE Below == {1..x : x \in T}
            R == StrictSubsetOrdering(1..n)
            S == FiniteSubsetsOf(1..n)
<1>1. \A x \in T : 1..x \in S
  <2>. TAKE x \in T
  <2>1. IsFiniteSet(1..x)
    BY FS_Interval
  <2>2. 1..x \subseteq 1..n
    OBVIOUS
  <2>. QED  BY <2>1, <2>2 DEF FiniteSubsetsOf
<1>2. Below \subseteq S /\ Below # {}
  BY <1>1
<1>3. IsWellFoundedOn(R, S)
  BY FS_StrictSubsetOrderingWellFounded
<1>4. \E b \in Below : \A c \in Below : <<c, b>> \notin R
  <2>. HIDE DEF Below, R, S
  <2>. QED  BY <1>2, <1>3, WFMin
<1>5. PICK x \in T : \A y \in T : <<1..y, 1..x>> \notin R
  BY <1>4
<1>6. ASSUME NEW y \in T, y < x PROVE FALSE
  <2>1. x \in 1..n /\ y \in 1..n
    OBVIOUS
  <2>2. 1..y \subseteq 1..x /\ x \notin 1..y /\ x \in 1..x
    BY <2>1, <1>6
  <2>3. 1..y \in SUBSET (1..n) /\ 1..x \in SUBSET (1..n) /\ 1..y # 1..x
    BY <2>1, <2>2
  <2>4. <<1..y, 1..x>> \in R
    BY <2>2, <2>3 DEF StrictSubsetOrdering
  <2>. QED  BY <2>4, <1>5
<1>7. \A y \in T : x <= y
  BY <1>6
<1>. QED  BY <1>7

(* A loop that takes its state from one turn to the next, and what holds   *)
(* of every state it goes through.                                         *)
IsLoop(f, m, S, a, turn) ==
    f \in [0..m -> S] /\ f[0] = a /\ \A k \in 1..m : f[k] = turn[f[k - 1]]

LEMMA Iterated ==
  ASSUME NEW m \in Nat, NEW S, NEW a \in S, NEW turn \in [S -> S]
  PROVE  \E f : IsLoop(f, m, S, a, turn)
<1>. DEFINE Has(n) == \E f \in [0..n -> S] :
                          f[0] = a /\ \A k \in 1..n : f[k] = turn[f[k - 1]]
            Not == {n \in 1..m : ~Has(n)}
<1>1. Has(0)
  <2>. DEFINE f == [k \in 0..0 |-> a]
  <2>1. f \in [0..0 -> S] /\ f[0] = a /\ \A k \in 1..0 : f[k] = turn[f[k - 1]]
    OBVIOUS
  <2>. QED  BY <2>1
<1>2. ASSUME NEW n \in Nat \ {0}, Has(n - 1) PROVE Has(n)
  <2>1. PICK f \in [0..(n - 1) -> S] :
              f[0] = a /\ \A k \in 1..(n - 1) : f[k] = turn[f[k - 1]]
    BY <1>2
  <2>. DEFINE g == [k \in 0..n |-> IF k = n THEN turn[f[n - 1]] ELSE f[k]]
  <2>2. g \in [0..n -> S] /\ g[0] = a
    BY <2>1
  <2>3. ASSUME NEW k \in 1..n PROVE g[k] = turn[g[k - 1]]
    <3>1. CASE k = n
      BY <3>1
    <3>2. CASE k # n
      <4>1. k \in 1..(n - 1)
        BY <3>2
      <4>. QED  BY <4>1, <2>1
    <3>. QED  BY <3>1, <3>2
  <2>. HIDE DEF g
  <2>. QED  BY <2>2, <2>3
<1>. HIDE DEF Has
<1>3. ASSUME Not # {} PROVE FALSE
  <2>1. PICK n \in Not : \A y \in Not : n <= y
    BY <1>3, Smallest
  <2>2. n \in Nat \ {0} /\ n - 1 \in 0..m /\ n - 1 \notin Not /\ ~Has(n)
    BY <2>1
  <2>3. Has(n - 1)
    BY <1>1, <2>2
  <2>. QED  BY <1>2, <2>2, <2>3
<1>4. m = 0 \/ m \in 1..m
  OBVIOUS
<1>5. Has(m)
  BY <1>1, <1>3, <1>4
<1>. QED  BY <1>5 DEF Has, IsLoop
-----------------------------------------------------------------------------
(* The frames of an output *)

Byte == [at : Nat, stream : Streams, size : Nat, part : {"header", "payload"}]
LoopState == [rest : Seq(Byte), stdout : Seq(Byte), stderr : Seq(Byte)]

LEMMA TurnType ==
  ASSUME NEW s \in LoopState
  PROVE  Turn(s) \in LoopState
<1>1. s.rest \in Seq(Byte) /\ s.stdout \in Seq(Byte) /\ s.stderr \in Seq(Byte)
  BY DEF LoopState
<1>2. CASE ~HasFrame(s.rest)
  BY <1>2 DEF Turn
<1>3. CASE HasFrame(s.rest)
  <2>. DEFINE frame == HeaderBytes + s.rest[1].size
              data == SubSeq(s.rest, HeaderBytes + 1, frame)
              rest == SubSeq(s.rest, frame + 1, Len(s.rest))
  <2>1. HeaderBytes \in Nat \ {0} /\ s.rest[1] \in Byte
    BY <1>1, <1>3, HeaderAssumption DEF HasFrame
  <2>2. s.rest[1].size \in Nat
    BY <2>1 DEF Byte
  <2>3. frame \in 1..Len(s.rest)
    BY <2>1, <2>2, <1>1, <1>3 DEF HasFrame
  <2>4. data \in Seq(Byte) /\ rest \in Seq(Byte)
    BY <2>1, <2>3, <1>1
  <2>5. s.stderr \o data \in Seq(Byte) /\ s.stdout \o data \in Seq(Byte)
    BY <2>4, <1>1
  <2>6. CASE s.rest[1].stream = "stderr"
    <3>1. Turn(s) = [rest |-> rest, stdout |-> s.stdout, stderr |-> s.stderr \o data]
      BY <1>3, <2>6 DEF Turn
    <3>. HIDE DEF data, rest, frame
    <3>. QED  BY <3>1, <2>4, <2>5, <1>1 DEF LoopState
  <2>7. CASE s.rest[1].stream # "stderr"
    <3>1. Turn(s) = [rest |-> rest, stdout |-> s.stdout \o data, stderr |-> s.stderr]
      BY <1>3, <2>7 DEF Turn
    <3>. HIDE DEF data, rest, frame
    <3>. QED  BY <3>1, <2>4, <2>5, <1>1 DEF LoopState
  <2>. QED  BY <2>6, <2>7
<1>. QED  BY <1>2, <1>3

(* The states the loop goes through, the last of which is its result.      *)
LEMMA SplitTurns ==
  ASSUME NEW bytes \in Seq(Byte), stdout \in Seq(Byte), stderr \in Seq(Byte)
  PROVE  \E f :
            /\ f[0] = [rest |-> bytes, stdout |-> stdout, stderr |-> stderr]
            /\ \A k \in 1..Len(bytes) : f[k] = Turn(f[k - 1])
            /\ Split(bytes) = f[Len(bytes)]
<1>. DEFINE a == [rest |-> bytes, stdout |-> stdout, stderr |-> stderr]
            turn == [s \in LoopState |-> Turn(s)]
            turns[k \in 0..Len(bytes)] == IF k = 0 THEN a ELSE Turn(turns[k - 1])
            Loops(f) == f = [k \in 0..Len(bytes) |-> IF k = 0 THEN a ELSE Turn(f[k - 1])]
<1>1. Len(bytes) \in Nat /\ a \in LoopState /\ turn \in [LoopState -> LoopState]
  BY TurnType DEF LoopState
<1>2. turns = CHOOSE f : Loops(f)
  BY DEF turns
<1>3. Split(bytes) = turns[Len(bytes)]
  BY DEF Split
<1>. HIDE DEF a, turns
<1>4. PICK f : IsLoop(f, Len(bytes), LoopState, a, turn)
  <2>. HIDE DEF turn
  <2>. QED  BY <1>1, Iterated
<1>5. \A k \in 1..Len(bytes) : f[k] = Turn(f[k - 1])
  <2>1. \A k \in 1..Len(bytes) : f[k - 1] \in LoopState
    BY <1>1, <1>4, SMTT(30) DEF IsLoop
  <2>2. \A s \in LoopState : turn[s] = Turn(s)
    OBVIOUS
  <2>. HIDE DEF turn
  <2>. QED  BY <2>1, <2>2, <1>4 DEF IsLoop
<1>6. Loops(f)
  <2>1. f \in [0..Len(bytes) -> LoopState] /\ f[0] = a
    BY <1>4 DEF IsLoop
  <2>2. \A k \in 0..Len(bytes) : f[k] = IF k = 0 THEN a ELSE Turn(f[k - 1])
    BY <2>1, <1>1, <1>5
  <2>. DEFINE g == [k \in 0..Len(bytes) |-> IF k = 0 THEN a ELSE Turn(f[k - 1])]
  <2>3. \A k \in 0..Len(bytes) : g[k] = f[k]
    BY <2>2
  <2>4. g = [k \in 0..Len(bytes) |-> g[k]] /\ f = [k \in 0..Len(bytes) |-> f[k]]
    BY <2>1
  <2>5. f = g
    <3>. HIDE DEF g
    <3>. QED  BY <2>3, <2>4
  <2>. QED  BY <2>5
<1>7. Loops(turns)
  <2>. HIDE DEF Loops
  <2>. QED  BY <1>2, <1>6
<1>8. turns[0] = a /\ \A k \in 1..Len(bytes) : turns[k] = Turn(turns[k - 1])
  <2>. DEFINE g == [k \in 0..Len(bytes) |-> IF k = 0 THEN a ELSE Turn(turns[k - 1])]
  <2>1. turns = g
    BY <1>7
  <2>2. \A k \in 0..Len(bytes) : g[k] = IF k = 0 THEN a ELSE Turn(turns[k - 1])
    OBVIOUS
  <2>. HIDE DEF g
  <2>3. \A k \in 0..Len(bytes) : turns[k] = IF k = 0 THEN a ELSE Turn(turns[k - 1])
    BY <2>1, <2>2
  <2>. QED  BY <2>3, <1>1
<1>. QED  BY <1>3, <1>8 DEF a

LEMMA Sliced ==
  ASSUME NEW S, NEW s \in Seq(S), NEW a \in Nat, NEW b \in Nat, a <= b, b <= Len(s)
  PROVE  /\ SubSeq(s, a + 1, b) \in Seq(S) /\ Len(SubSeq(s, a + 1, b)) = b - a
         /\ \A i \in 1..(b - a) : SubSeq(s, a + 1, b)[i] = s[a + i]
<1>1. \A i \in (a + 1)..b : s[i] \in S
  OBVIOUS
<1>. QED  BY <1>1, SubSeqProperties

LEMMA Joined ==
  ASSUME NEW S, NEW s \in Seq(S), NEW t \in Seq(S), NEW l, l = Len(s), NEW k, k = Len(t)
  PROVE  /\ s \o t \in Seq(S) /\ Len(s \o t) = l + k
         /\ DOMAIN (s \o t) = 1..(l + k)
         /\ \A i \in 1..l : (s \o t)[i] = s[i]
         /\ \A i \in (l + 1)..(l + k) : (s \o t)[i] = t[i - l]
<1>1. s \o t \in Seq(S) /\ Len(s \o t) = Len(s) + Len(t)
  OBVIOUS
<1>. QED  BY <1>1, ConcatProperties

(* The wire as frames: where one ends the next begins.                     *)
IsFrame(w, c, d) ==
    /\ d = c + HeaderBytes + w[c + 1].size /\ d <= Len(w)
    /\ \A n \in (c + 1)..d :
          /\ w[n].stream = w[c + 1].stream
          /\ w[n].part = IF n <= c + HeaderBytes THEN "header" ELSE "payload"

Cuts(w, C) ==
    /\ C \subseteq 0..Len(w) /\ 0 \in C /\ Len(w) \in C
    /\ \A c \in C : c # Len(w) => \E d \in C : IsFrame(w, c, d)

Numbered(w) == w \in Seq(Byte) /\ \A n \in DOMAIN w : w[n].at = n

(* The loop has taken off what stands before the cut c.                    *)
TakenTo(c, w, to, rest, bytes, err) ==
    /\ c <= to /\ rest = SubSeq(w, c + 1, to)
    /\ IsPayload(bytes, "stdout", w, c) /\ IsPayload(err, "stderr", w, c)

LEMMA PayloadSkips ==
  ASSUME NEW w \in Seq(Byte), NEW c \in Nat, NEW d \in Nat, c < Len(w), IsFrame(w, c, d),
         NEW stream, stream # w[c + 1].stream, NEW log, IsPayload(log, stream, w, c)
  PROVE  IsPayload(log, stream, w, d)
<1>1. c <= d
  <2>1. w[c + 1] \in Byte
    OBVIOUS
  <2>. QED  BY <2>1, HeaderAssumption DEF IsFrame, Byte
<1>2. \A k \in 1..d : k \in 1..c \/ k \in (c + 1)..d
  OBVIOUS
<1>3. \A i \in DOMAIN log : log[i].at \in 1..d
  BY <1>1 DEF IsPayload
<1>4. \A k \in 1..d : w[k].stream = stream => k \in 1..c
  BY <1>2 DEF IsFrame
<1>. QED  BY <1>3, <1>4 DEF IsPayload

(* Places in the appended part keep their order. *)
LEMMA ShiftedLess ==
  ASSUME NEW i \in Int, NEW j \in Int, NEW l \in Int, i < j
  PROVE  i - l < j - l
OBVIOUS

LEMMA PayloadGrows ==
  ASSUME NEW w, Numbered(w), NEW c \in Nat, NEW d \in Nat, c < Len(w), IsFrame(w, c, d),
         NEW log \in Seq(Byte), IsPayload(log, w[c + 1].stream, w, c),
         NEW h, h = c + HeaderBytes
  PROVE  IsPayload(log \o SubSeq(w, h + 1, d), w[c + 1].stream, w, d)
<1>. DEFINE stream == w[c + 1].stream
            data == SubSeq(w, h + 1, d)
            more == log \o data
            l == Len(log)
<1>1. /\ w \in Seq(Byte) /\ w[c + 1] \in Byte /\ HeaderBytes \in Nat \ {0}
      /\ h \in Nat /\ c < h /\ l \in Nat
  BY HeaderAssumption DEF Numbered
<1>2. d = h + w[c + 1].size /\ d <= Len(w) /\ w[c + 1].size \in Nat /\ h <= d
  BY <1>1 DEF IsFrame, Byte
<1>3. /\ data \in Seq(Byte) /\ Len(data) = d - h
      /\ \A i \in 1..(d - h) : data[i] = w[h + i]
  BY <1>1, <1>2, Sliced
<1>4. /\ DOMAIN more = 1..(l + (d - h))
      /\ \A i \in 1..l : more[i] = log[i]
      /\ \A i \in (l + 1)..(l + (d - h)) : more[i] = w[h + (i - l)]
  <2>. HIDE DEF data
  <2>1. /\ DOMAIN more = 1..(l + (d - h))
        /\ \A i \in 1..l : more[i] = log[i]
        /\ \A i \in (l + 1)..(l + (d - h)) : more[i] = data[i - l]
    <3>. DEFINE k == d - h
    <3>1. data \in Seq(Byte) /\ k = Len(data)
      BY <1>3
    <3>. HIDE DEF k, l
    <3>2. /\ DOMAIN more = 1..(l + k)
          /\ \A i \in 1..l : more[i] = log[i]
          /\ \A i \in (l + 1)..(l + k) : more[i] = data[i - l]
      BY <3>1, Joined DEF l
    <3>. QED  BY <3>2 DEF k
  <2>2. \A i \in (l + 1)..(l + (d - h)) : i - l \in 1..(d - h)
    BY <1>1, <1>2
  <2>. QED  BY <2>1, <2>2, <1>3
<1>5. \A k \in (h + 1)..d : w[k].at = k /\ w[k].stream = stream /\ w[k].part = "payload"
  <2>1. \A k \in (h + 1)..d : k \in DOMAIN w /\ k \in (c + 1)..d /\ ~(k <= h)
    BY <1>1, <1>2
  <2>. QED  BY <2>1, <1>1 DEF IsFrame, Numbered
<1>6. \A k \in (c + 1)..h : w[k].part = "header"
  <2>1. \A k \in (c + 1)..h : k \in (c + 1)..d /\ k <= h
    BY <1>1, <1>2
  <2>. QED  BY <2>1 DEF IsFrame
<1>7. /\ \A i \in 1..l : i \in DOMAIN log
      /\ \A i, j \in 1..l : i < j => log[i].at < log[j].at
  BY DEF IsPayload
<1>8. \A i \in (l + 1)..(l + (d - h)) : h + (i - l) \in (h + 1)..d
  <2>. TAKE i \in (l + 1)..(l + (d - h))
  <2>. HIDE DEF l
  <2>1. l \in Nat /\ h \in Nat
    BY <1>1 DEF l
  <2>2. i \in Int /\ l + 1 <= i /\ i <= l + (d - h)
    BY <2>1
  <2>3. h + (i - l) \in Int /\ h + 1 <= h + (i - l) /\ h + (i - l) <= d
    BY <2>1, <2>2, SMTT(30)
  <2>. QED  BY <2>1, <2>3
<1>. HIDE DEF stream, data, more, l
<1>9. \A i \in 1..l : /\ more[i].at \in 1..c /\ more[i] = w[more[i].at]
                      /\ more[i].stream = stream /\ more[i].part = "payload"
  BY <1>4, <1>7 DEF IsPayload, stream
<1>10. \A i \in (l + 1)..(l + (d - h)) :
          /\ more[i].at = h + (i - l) /\ more[i] = w[more[i].at]
          /\ more[i].stream = stream /\ more[i].part = "payload"
  <2>. TAKE i \in (l + 1)..(l + (d - h))
  <2>. DEFINE k == h + (i - l)
  <2>1. k \in (h + 1)..d /\ more[i] = w[k]
    BY <1>4, <1>8
  <2>. HIDE DEF k
  <2>2. more[i].at = k /\ more[i] = w[more[i].at]
        /\ more[i].stream = stream /\ more[i].part = "payload"
    BY <2>1, <1>5
  <2>. QED  BY <2>2 DEF k
<1>11. \A i \in DOMAIN more : i \in 1..l \/ i \in (l + 1)..(l + (d - h))
  BY <1>1, <1>2, <1>4
<1>12. \A i \in DOMAIN more : /\ more[i].at \in 1..d /\ more[i] = w[more[i].at]
                              /\ more[i].stream = stream /\ more[i].part = "payload"
  <2>1. \A k : k \in 1..c \/ k \in (h + 1)..d => k \in 1..d
    BY <1>1, <1>2
  <2>. QED  BY <2>1, <1>8, <1>9, <1>10, <1>11
<1>13. ASSUME NEW i \in DOMAIN more, NEW j \in DOMAIN more, i < j
       PROVE  more[i].at < more[j].at
  <2>1. CASE i \in 1..l /\ j \in 1..l
    <3>1. log[i].at < log[j].at
      BY <2>1, <1>7, <1>13
    <3>2. more[i] = log[i] /\ more[j] = log[j]
      BY <2>1, <1>4
    <3>. QED  BY <3>1, <3>2
  <2>2. CASE i \in 1..l /\ j \in (l + 1)..(l + (d - h))
    <3>1. PICK a \in 1..c : a = more[i].at
      BY <2>2, <1>9
    <3>2. PICK b \in Nat : b = j - l
      BY <2>2, <1>1, <1>2
    <3>3. more[j].at = h + b
      BY <2>2, <3>2, <1>10
    <3>4. a < h + b
      BY <3>1, <3>2, <1>1
    <3>. QED  BY <3>1, <3>3, <3>4
  <2>3. CASE i \in (l + 1)..(l + (d - h)) /\ j \in (l + 1)..(l + (d - h))
    <3>1. PICK a \in Nat : a = i - l
      BY <2>3, <1>1, <1>2
    <3>2. PICK b \in Nat : b = j - l
      BY <2>3, <1>1, <1>2
    <3>3. more[i].at = h + a /\ more[j].at = h + b
      BY <2>3, <3>1, <3>2, <1>10
    <3>4. i \in Int /\ j \in Int /\ l \in Int
      BY <2>3, <1>1, <1>2
    <3>5. i - l < j - l
      BY <3>4, <1>13, ShiftedLess
    <3>. QED  BY <3>1, <3>2, <3>3, <3>5, <1>1
  <2>4. ~(i \in (l + 1)..(l + (d - h)) /\ j \in 1..l)
    BY <1>1, <1>2, <1>13
  <2>. QED  BY <2>1, <2>2, <2>3, <2>4, <1>11
<1>14. ASSUME NEW k \in 1..d, w[k].stream = stream, w[k].part = "payload"
       PROVE  \E i \in DOMAIN more : more[i] = w[k]
  <2>1. CASE k \in 1..c
    <3>1. PICK i \in DOMAIN log : log[i] = w[k]
      BY <2>1, <1>14 DEF IsPayload, stream
    <3>2. i \in 1..l /\ i \in DOMAIN more
      BY <1>1, <1>2, <1>4 DEF l
    <3>. QED  BY <3>1, <3>2, <1>4
  <2>2. CASE k \in (h + 1)..d
    <3>1. l + (k - h) \in (l + 1)..(l + (d - h)) /\ l + (k - h) \in DOMAIN more
          /\ h + ((l + (k - h)) - l) = k
      BY <2>2, <1>1, <1>2, <1>4
    <3>. QED  BY <3>1, <1>4
  <2>3. k \notin (c + 1)..h
    BY <1>6, <1>14
  <2>. QED  BY <2>1, <2>2, <2>3, <1>1, <1>2
<1>15. IsPayload(more, stream, w, d)
  BY <1>12, <1>13, <1>14 DEF IsPayload
<1>. QED  BY <1>15 DEF more, data, stream

LEMMA SameSlice ==
  ASSUME NEW S, NEW s \in Seq(S), NEW t \in Seq(S), NEW a \in Nat, NEW b \in Nat,
         a <= b, b <= Len(s), b <= Len(t), \A i \in (a + 1)..b : s[i] = t[i]
  PROVE  SubSeq(s, a + 1, b) = SubSeq(t, a + 1, b)
<1>. DEFINE x == SubSeq(s, a + 1, b)
            y == SubSeq(t, a + 1, b)
<1>1. /\ x \in Seq(S) /\ Len(x) = b - a /\ \A i \in 1..(b - a) : x[i] = s[a + i]
      /\ y \in Seq(S) /\ Len(y) = b - a /\ \A i \in 1..(b - a) : y[i] = t[a + i]
  <2>1. x \in Seq(S) /\ Len(x) = b - a /\ \A i \in 1..(b - a) : x[i] = s[a + i]
    BY Sliced
  <2>2. y \in Seq(S) /\ Len(y) = b - a /\ \A i \in 1..(b - a) : y[i] = t[a + i]
    BY Sliced
  <2>. HIDE DEF x, y
  <2>. QED  BY <2>1, <2>2
<1>2. \A i \in 1..(b - a) : a + i \in (a + 1)..b
  OBVIOUS
<1>. HIDE DEF x, y
<1>3. x = y
  BY <1>1, <1>2, SeqEqual
<1>. QED  BY <1>3 DEF x, y

LEMMA SlicedTwice ==
  ASSUME NEW S, NEW s \in Seq(S), NEW a \in Nat, NEW b \in Nat, a <= b, b <= Len(s),
         NEW x \in Nat, NEW y \in Nat, x <= y, y <= b - a, NEW t, t = SubSeq(s, a + 1, b),
         NEW ax, ax = a + x, NEW ay, ay = a + y
  PROVE  SubSeq(t, x + 1, y) = SubSeq(s, ax + 1, ay)
<1>. DEFINE u == SubSeq(t, x + 1, y)
            v == SubSeq(s, ax + 1, ay)
<1>1. t \in Seq(S) /\ Len(t) = b - a /\ \A i \in 1..(b - a) : t[i] = s[a + i]
  BY Sliced
<1>2. u \in Seq(S) /\ Len(u) = y - x /\ \A i \in 1..(y - x) : u[i] = t[x + i]
  BY <1>1, Sliced
<1>3. ax \in Nat /\ ay \in Nat /\ ax <= ay /\ ay <= Len(s) /\ ay - ax = y - x
  OBVIOUS
<1>4. v \in Seq(S) /\ Len(v) = y - x /\ \A i \in 1..(y - x) : v[i] = s[ax + i]
  <2>1. v \in Seq(S) /\ Len(v) = ay - ax /\ \A i \in 1..(ay - ax) : v[i] = s[ax + i]
    BY <1>3, Sliced
  <2>. QED  BY <2>1, <1>3
<1>5. \A i \in 1..(y - x) : x + i \in 1..(b - a) /\ a + (x + i) = ax + i
  OBVIOUS
<1>. HIDE DEF u, v
<1>6. u = v
  BY <1>1, <1>2, <1>4, <1>5, SeqEqual
<1>. QED  BY <1>6 DEF u, v

(* A turn that finds a frame moves the cut to its end.                     *)
LEMMA TurnKeeps ==
  ASSUME NEW w, Numbered(w), NEW C, Cuts(w, C), NEW to \in 0..Len(w), NEW c \in C,
         NEW s \in LoopState, TakenTo(c, w, to, s.rest, s.stdout, s.stderr),
         HasFrame(s.rest)
  PROVE  \E d \in C :
            c < d /\ TakenTo(d, w, to, Turn(s).rest, Turn(s).stdout, Turn(s).stderr)
<1>. DEFINE rest == s.rest
            size == w[c + 1].size
            h == c + HeaderBytes
<1>1. /\ w \in Seq(Byte) /\ c \in Nat /\ c <= to /\ to \in Nat /\ to <= Len(w)
      /\ HeaderBytes \in Nat \ {0} /\ rest = SubSeq(w, c + 1, to)
      /\ s.stdout \in Seq(Byte) /\ s.stderr \in Seq(Byte)
  BY HeaderAssumption DEF Numbered, Cuts, TakenTo, LoopState
<1>2. rest \in Seq(Byte) /\ Len(rest) = to - c /\ \A i \in 1..(to - c) : rest[i] = w[c + i]
  BY <1>1, Sliced
<1>3. /\ to - c >= HeaderBytes /\ rest[1] = w[c + 1] /\ to - c >= HeaderBytes + size
      /\ c < Len(w) /\ w[c + 1] \in Byte
  BY <1>1, <1>2 DEF HasFrame
<1>4. size \in Nat /\ w[c + 1].stream \in Streams /\ h \in Nat /\ c < h
  BY <1>1, <1>3 DEF Byte
<1>5. PICK d \in C : IsFrame(w, c, d)
  BY <1>3 DEF Cuts
<1>6. d = h + size /\ d \in Nat /\ d <= Len(w) /\ h <= d /\ c < d /\ d <= to
      /\ d = c + (HeaderBytes + size)
  <2>1. d = h + size /\ d <= Len(w)
    BY <1>5 DEF IsFrame
  <2>2. d = c + (HeaderBytes + size)
    BY <2>1, <1>1, <1>4
  <2>. HIDE DEF size, h
  <2>3. d \in Nat /\ h <= d /\ c < d
    BY <2>1, <1>1, <1>4
  <2>4. d <= to
    BY <2>2, <1>1, <1>3, <1>4
  <2>. QED  BY <2>1, <2>2, <2>3, <2>4
<1>7. SubSeq(rest, HeaderBytes + 1, HeaderBytes + size) = SubSeq(w, h + 1, d)
  <2>. DEFINE y == HeaderBytes + size
  <2>. HIDE DEF h, size, rest
  <2>1. h = c + HeaderBytes
    BY DEF h
  <2>2. y \in Nat /\ HeaderBytes <= y /\ y <= to - c
    BY <1>1, <1>3, <1>4
  <2>3. d = c + y
    BY <1>6
  <2>. HIDE DEF y
  <2>4. SubSeq(rest, HeaderBytes + 1, y) = SubSeq(w, h + 1, d)
    BY <2>1, <2>2, <2>3, <1>1, SlicedTwice
  <2>. QED  BY <2>4 DEF y
<1>8. SubSeq(rest, HeaderBytes + size + 1, Len(rest)) = SubSeq(w, d + 1, to)
  <2>. DEFINE x == HeaderBytes + size
              y == to - c
  <2>. HIDE DEF h, size, rest
  <2>1. /\ x \in Nat /\ y \in Nat /\ x <= y /\ y <= to - c /\ d = c + x /\ to = c + y
        /\ y = Len(rest)
    BY <1>1, <1>2, <1>3, <1>4, <1>6
  <2>. HIDE DEF x, y
  <2>2. SubSeq(rest, x + 1, y) = SubSeq(w, d + 1, to)
    BY <2>1, <1>1, SlicedTwice
  <2>. QED  BY <2>1, <2>2 DEF x
<1>9. IsPayload(s.stdout, "stdout", w, c) /\ IsPayload(s.stderr, "stderr", w, c)
  BY DEF TakenTo
<1>. DEFINE data == SubSeq(w, h + 1, d)
            kept == SubSeq(w, d + 1, to)
<1>10. CASE w[c + 1].stream = "stderr"
  <2>1. Turn(s) = [rest |-> kept, stdout |-> s.stdout, stderr |-> s.stderr \o data]
    BY <1>3, <1>7, <1>8, <1>10 DEF Turn
  <2>2. IsPayload(s.stderr \o data, "stderr", w, d)
    BY <1>1, <1>3, <1>4, <1>5, <1>6, <1>9, <1>10, PayloadGrows
  <2>3. IsPayload(s.stdout, "stdout", w, d)
    BY <1>1, <1>3, <1>5, <1>6, <1>9, <1>10, PayloadSkips
  <2>. HIDE DEF kept, data
  <2>4. TakenTo(d, w, to, kept, s.stdout, s.stderr \o data)
    BY <2>2, <2>3, <1>6 DEF TakenTo, kept
  <2>5. Turn(s).rest = kept /\ Turn(s).stdout = s.stdout /\ Turn(s).stderr = s.stderr \o data
    BY <2>1
  <2>. QED  BY <2>4, <2>5, <1>6
<1>11. CASE w[c + 1].stream # "stderr"
  <2>1. Turn(s) = [rest |-> kept, stdout |-> s.stdout \o data, stderr |-> s.stderr]
    BY <1>3, <1>7, <1>8, <1>11 DEF Turn
  <2>2. w[c + 1].stream = "stdout"
    BY <1>4, <1>11 DEF Streams
  <2>3. IsPayload(s.stdout \o data, "stdout", w, d)
    BY <2>2, <1>1, <1>3, <1>4, <1>5, <1>6, <1>9, PayloadGrows
  <2>4. IsPayload(s.stderr, "stderr", w, d)
    BY <2>2, <1>1, <1>3, <1>5, <1>6, <1>9, PayloadSkips
  <2>. HIDE DEF kept, data
  <2>5. TakenTo(d, w, to, kept, s.stdout \o data, s.stderr)
    BY <2>3, <2>4, <1>6 DEF TakenTo, kept
  <2>6. Turn(s).rest = kept /\ Turn(s).stdout = s.stdout \o data /\ Turn(s).stderr = s.stderr
    BY <2>1
  <2>. QED  BY <2>5, <2>6, <1>6
<1>. QED  BY <1>10, <1>11

(* A state of the loop that started at the cut c, after k turns.           *)
Reached(s, k, w, C, to, c) ==
    /\ s \in LoopState
    /\ \E d \in C : /\ TakenTo(d, w, to, s.rest, s.stdout, s.stderr)
                    /\ HasFrame(s.rest) => k <= d - c

LEMMA TurnReaches ==
  ASSUME NEW w, Numbered(w), NEW C, Cuts(w, C), NEW to \in 0..Len(w), NEW c \in C,
         NEW s, NEW k \in Nat, Reached(s, k, w, C, to, c)
  PROVE  Reached(Turn(s), k + 1, w, C, to, c)
<1>1. s \in LoopState /\ C \subseteq Nat /\ Turn(s) \in LoopState
  BY TurnType DEF Reached, Cuts
<1>2. PICK d \in C : /\ TakenTo(d, w, to, s.rest, s.stdout, s.stderr)
                     /\ HasFrame(s.rest) => k <= d - c
  BY DEF Reached
<1>3. CASE ~HasFrame(s.rest)
  <2>1. Turn(s) = s
    BY <1>3 DEF Turn
  <2>. QED  BY <2>1, <1>1, <1>2, <1>3 DEF Reached
<1>4. CASE HasFrame(s.rest)
  <2>1. PICK e \in C :
            d < e /\ TakenTo(e, w, to, Turn(s).rest, Turn(s).stdout, Turn(s).stderr)
    BY <1>1, <1>2, <1>4, TurnKeeps
  <2>2. d \in Nat /\ e \in Nat /\ c \in Nat /\ d < e /\ k <= d - c
    BY <1>1, <1>2, <1>4, <2>1
  <2>3. k + 1 <= e - c
    BY <2>2
  <2>. QED  BY <2>1, <2>3, <1>1 DEF Reached
<1>. QED  BY <1>3, <1>4

(* The loop ends with a cut before which all is taken off and after which  *)
(* no frame is whole.                                                      *)
LEMMA SplitKeeps ==
  ASSUME NEW w, Numbered(w), NEW C, Cuts(w, C), NEW to \in 0..Len(w), NEW c \in C,
         NEW bytes, TakenTo(c, w, to, bytes, stdout, stderr),
         stdout \in Seq(Byte), stderr \in Seq(Byte)
  PROVE  /\ Split(bytes) \in LoopState /\ ~HasFrame(Split(bytes).rest)
         /\ \E d \in C : TakenTo(d, w, to, Split(bytes).rest, Split(bytes).stdout,
                                  Split(bytes).stderr)
<1>. DEFINE m == Len(bytes)
<1>1. /\ w \in Seq(Byte) /\ c \in Nat /\ c <= to /\ to \in Nat /\ to <= Len(w)
      /\ HeaderBytes \in Nat \ {0} /\ bytes = SubSeq(w, c + 1, to)
      /\ C \subseteq Nat
  BY HeaderAssumption DEF Numbered, Cuts, TakenTo
<1>2. bytes \in Seq(Byte) /\ m = to - c /\ m \in Nat
  BY <1>1, Sliced
<1>3. PICK f : /\ f[0] = [rest |-> bytes, stdout |-> stdout, stderr |-> stderr]
               /\ \A k \in 1..m : f[k] = Turn(f[k - 1])
               /\ Split(bytes) = f[m]
  BY <1>2, SplitTurns
<1>. HIDE DEF m
<1>. DEFINE Bad == {k \in 1..m : ~Reached(f[k], k, w, C, to, c)}
<1>4. Reached(f[0], 0, w, C, to, c)
  <2>1. f[0] \in LoopState /\ f[0].rest = bytes /\ f[0].stdout = stdout /\ f[0].stderr = stderr
    BY <1>2, <1>3 DEF LoopState
  <2>2. 0 <= c - c
    BY <1>1
  <2>. QED  BY <2>1, <2>2 DEF Reached
<1>5. ASSUME NEW k \in 1..m, Reached(f[k - 1], k - 1, w, C, to, c)
      PROVE  Reached(f[k], k, w, C, to, c)
  <2>1. f[k] = Turn(f[k - 1]) /\ k - 1 \in Nat /\ (k - 1) + 1 = k
    BY <1>2, <1>3
  <2>2. Reached(Turn(f[k - 1]), (k - 1) + 1, w, C, to, c)
    BY <2>1, <1>5, TurnReaches
  <2>. QED  BY <2>1, <2>2
<1>6. Reached(f[m], m, w, C, to, c)
  <2>1. ASSUME Bad # {} PROVE FALSE
    <3>1. PICK k \in Bad : \A y \in Bad : k <= y
      BY <2>1, <1>2, Smallest
    <3>2. /\ k \in 1..m /\ ~Reached(f[k], k, w, C, to, c)
          /\ k - 1 = 0 \/ k - 1 \in 1..m
          /\ k - 1 \notin Bad
      BY <3>1, <1>2
    <3>3. Reached(f[k - 1], k - 1, w, C, to, c)
      BY <3>2, <1>4
    <3>. QED  BY <3>2, <3>3, <1>5
  <2>2. m = 0 \/ m \in 1..m
    BY <1>2
  <2>. QED  BY <2>1, <2>2, <1>4
<1>7. Reached(Split(bytes), m, w, C, to, c)
  BY <1>3, <1>6
<1>8. PICK d \in C : /\ TakenTo(d, w, to, Split(bytes).rest, Split(bytes).stdout,
                                Split(bytes).stderr)
                     /\ HasFrame(Split(bytes).rest) => m <= d - c
  BY <1>7 DEF Reached
<1>9. ASSUME HasFrame(Split(bytes).rest) PROVE FALSE
  <2>1. d \in Nat /\ d <= to /\ Split(bytes).rest = SubSeq(w, d + 1, to)
    BY <1>1, <1>8 DEF TakenTo
  <2>2. d = to
    <3>1. m <= d - c
      BY <1>8, <1>9
    <3>. QED  BY <3>1, <2>1, <1>1, <1>2
  <2>3. Len(Split(bytes).rest) = 0
    BY <2>1, <2>2, <1>1, Sliced
  <2>. QED  BY <2>3, <1>1, <1>9 DEF HasFrame
<1>10. Split(bytes) \in LoopState
  BY <1>7 DEF Reached
<1>. QED  BY <1>8, <1>9, <1>10

(* Nothing is kept back of an output that has come in whole.               *)
LEMMA NothingKept ==
  ASSUME NEW w, Numbered(w), NEW C, Cuts(w, C), NEW c \in C, NEW rest,
         rest = SubSeq(w, c + 1, Len(w)), ~HasFrame(rest)
  PROVE  rest = <<>>
<1>1. /\ w \in Seq(Byte) /\ c \in Nat /\ c <= Len(w) /\ Len(w) \in Nat
      /\ HeaderBytes \in Nat \ {0}
  BY HeaderAssumption DEF Numbered, Cuts
<1>2. rest \in Seq(Byte) /\ Len(rest) = Len(w) - c
      /\ \A i \in 1..(Len(w) - c) : rest[i] = w[c + i]
  BY <1>1, Sliced
<1>3. ASSUME c # Len(w) PROVE FALSE
  <2>1. PICK d \in C : IsFrame(w, c, d)
    BY <1>3 DEF Cuts
  <2>2. rest[1] = w[c + 1] /\ w[c + 1] \in Byte
    BY <1>1, <1>2, <1>3
  <2>3. c + HeaderBytes + rest[1].size <= Len(w) /\ rest[1].size \in Nat
    BY <2>1, <2>2 DEF IsFrame, Byte
  <2>. DEFINE l == Len(w)
              size == rest[1].size
  <2>4. l \in Nat /\ size \in Nat /\ c + HeaderBytes + size <= l /\ Len(rest) = l - c
    BY <2>3, <1>1, <1>2
  <2>. HIDE DEF l, size
  <2>5. Len(rest) >= HeaderBytes /\ Len(rest) >= HeaderBytes + size
    BY <2>4, <1>1
  <2>. QED  BY <2>5 DEF size, HasFrame
<1>. QED  BY <1>1, <1>2, <1>3

Kept == \E C : Cuts(wire, C)
              /\ \E c \in C : TakenTo(c, wire, sent, pending, stdout, stderr)

FramesInv ==
    /\ Numbered(wire) /\ sent \in 0..Len(wire)
    /\ stdout \in Seq(Byte) /\ stderr \in Seq(Byte)
    /\ Kept /\ ~HasFrame(pending)

LEMMA KeptIsWhole == FramesInv => FramesComeOutWhole
<1>. SUFFICES ASSUME FramesInv PROVE FramesComeOutWhole
  OBVIOUS
<1>1. PICK C : Cuts(wire, C)
               /\ \E c \in C : TakenTo(c, wire, sent, pending, stdout, stderr)
  BY DEF FramesInv, Kept
<1>2. PICK c \in C : TakenTo(c, wire, sent, pending, stdout, stderr)
  BY <1>1
<1>3. /\ wire \in Seq(Byte) /\ c \in Nat /\ sent \in Nat /\ c <= sent /\ sent <= Len(wire)
      /\ pending = SubSeq(wire, c + 1, sent) /\ ~HasFrame(pending)
  <2>1. wire \in Seq(Byte) /\ sent \in 0..Len(wire) /\ ~HasFrame(pending)
    BY DEF FramesInv, Numbered
  <2>2. c \in Nat
    BY <1>1 DEF Cuts
  <2>3. c <= sent /\ pending = SubSeq(wire, c + 1, sent)
    BY <1>2 DEF TakenTo
  <2>4. Len(wire) \in Nat
    BY <2>1
  <2>. QED  BY <2>1, <2>2, <2>3, <2>4
<1>4. Len(pending) = sent - c
  BY <1>3, Sliced
<1>5. sent - Len(pending) = c
  BY <1>3, <1>4
<1>6. sent = Len(wire) => pending = <<>>
  BY <1>1, <1>3, NothingKept DEF FramesInv
<1>. QED  BY <1>2, <1>3, <1>5, <1>6 DEF FramesComeOutWhole, TakenTo

LEMMA DataStep ==
  ASSUME FramesInv, Data
  PROVE  FramesInv'
<1>1. PICK to \in (sent + 1)..Len(wire) :
          LET s == Split(pending \o SubSeq(wire, sent + 1, to)) IN
          sent' = to /\ pending' = s.rest /\ stdout' = s.stdout /\ stderr' = s.stderr
  BY DEF Data
<1>2. wire' = wire
  BY DEF Data
<1>3. PICK C : Cuts(wire, C)
               /\ \E c \in C : TakenTo(c, wire, sent, pending, stdout, stderr)
  BY DEF FramesInv, Kept
<1>4. PICK c \in C : TakenTo(c, wire, sent, pending, stdout, stderr)
  BY <1>3
<1>. DEFINE bytes == pending \o SubSeq(wire, sent + 1, to)
<1>5. /\ wire \in Seq(Byte) /\ c \in Nat /\ sent \in Nat /\ c <= sent /\ sent <= Len(wire)
      /\ to \in Nat /\ sent <= to /\ to <= Len(wire) /\ to \in 0..Len(wire)
      /\ pending = SubSeq(wire, c + 1, sent)
      /\ Numbered(wire) /\ stdout \in Seq(Byte) /\ stderr \in Seq(Byte)
  <2>1. /\ Numbered(wire) /\ wire \in Seq(Byte) /\ sent \in 0..Len(wire)
        /\ stdout \in Seq(Byte) /\ stderr \in Seq(Byte)
    BY DEF FramesInv, Numbered
  <2>2. c \in Nat
    BY <1>3 DEF Cuts
  <2>3. c <= sent /\ pending = SubSeq(wire, c + 1, sent)
    BY <1>4 DEF TakenTo
  <2>4. Len(wire) \in Nat
    BY <2>1
  <2>. QED  BY <2>1, <2>2, <2>3, <2>4
<1>6. bytes = SubSeq(wire, c + 1, to)
  <2>1. /\ c + 1 \in 1..(Len(wire) + 1) /\ sent \in ((c + 1) - 1)..Len(wire)
        /\ to \in sent..Len(wire)
    BY <1>5
  <2>. QED  BY <2>1, <1>5, ConcatAdjacentSubSeq
<1>7. TakenTo(c, wire, to, bytes, stdout, stderr)
  BY <1>4, <1>5, <1>6 DEF TakenTo
<1>. HIDE DEF bytes
<1>8. /\ Split(bytes) \in LoopState /\ ~HasFrame(Split(bytes).rest)
      /\ \E d \in C : TakenTo(d, wire, to, Split(bytes).rest, Split(bytes).stdout,
                               Split(bytes).stderr)
  BY <1>3, <1>5, <1>7, SplitKeeps
<1>9. sent' = to /\ pending' = Split(bytes).rest
      /\ stdout' = Split(bytes).stdout /\ stderr' = Split(bytes).stderr
  BY <1>1 DEF bytes
<1>10. stdout' \in Seq(Byte) /\ stderr' \in Seq(Byte)
  BY <1>8, <1>9 DEF LoopState
<1>11. ~HasFrame(pending')
  BY <1>8, <1>9
<1>12. Kept'
  BY <1>2, <1>3, <1>8, <1>9 DEF Kept
<1>13. Numbered(wire') /\ sent' \in 0..Len(wire')
  BY <1>2, <1>5, <1>9
<1>. QED  BY <1>10, <1>11, <1>12, <1>13 DEF FramesInv

(* The daemon writes a frame behind those it wrote: the cuts stay cuts.    *)
LEMMA DaemonStep ==
  ASSUME FramesInv, DaemonWrites
  PROVE  FramesInv'
<1>1. PICK stream \in Streams, size \in 0..MaxPayload :
          wire' = wire \o Frame(stream, size, Len(wire))
  BY DEF DaemonWrites
<1>2. UNCHANGED <<sent, pending, stdout, stderr>>
  BY DEF DaemonWrites
<1>. DEFINE l == Len(wire)
            k == HeaderBytes + size
            new == Frame(stream, size, l)
<1>3. /\ Numbered(wire) /\ wire \in Seq(Byte) /\ l \in Nat /\ HeaderBytes \in Nat \ {0}
      /\ size \in Nat /\ k \in Nat \ {0} /\ HeaderBytes <= k /\ sent \in 0..l
      /\ \A n \in 1..l : wire[n].at = n
  BY HeaderAssumption DEF FramesInv, Numbered
<1>4. /\ new \in Seq(Byte) /\ Len(new) = k
      /\ \A i \in 1..k : /\ new[i].at = l + i /\ new[i].stream = stream
                         /\ new[i].size = size
                         /\ new[i].part = IF i <= HeaderBytes THEN "header" ELSE "payload"
  <2>1. ASSUME NEW i \in 1..k
        PROVE  [at |-> l + i, stream |-> stream, size |-> size,
                part |-> IF i <= HeaderBytes THEN "header" ELSE "payload"] \in Byte
    BY <1>3 DEF Byte
  <2>2. new = [i \in 1..k |->
                  [at |-> l + i, stream |-> stream, size |-> size,
                   part |-> IF i <= HeaderBytes THEN "header" ELSE "payload"]]
    BY DEF Frame
  <2>3. new \in [1..k -> Byte]
    BY <2>1, <2>2
  <2>4. new \in Seq(Byte) /\ Len(new) = k
    <3>. HIDE DEF new, k
    <3>. QED  BY <2>3, <1>3
  <2>5. \A i \in 1..k : new[i] = [at |-> l + i, stream |-> stream, size |-> size,
                                 part |-> IF i <= HeaderBytes THEN "header" ELSE "payload"]
    BY <2>2
  <2>. QED  BY <2>4, <2>5
<1>. HIDE DEF new, l, k
<1>5. /\ wire' \in Seq(Byte) /\ Len(wire') = l + k /\ DOMAIN wire' = 1..(l + k)
      /\ \A i \in 1..l : wire'[i] = wire[i]
      /\ \A i \in (l + 1)..(l + k) : wire'[i] = new[i - l]
  <2>1. wire' = wire \o new /\ l = Len(wire)
    BY <1>1 DEF new, l
  <2>. DEFINE both == wire \o new
  <2>2. /\ both \in Seq(Byte) /\ Len(both) = l + k /\ DOMAIN both = 1..(l + k)
        /\ \A i \in 1..l : both[i] = wire[i]
        /\ \A i \in (l + 1)..(l + k) : both[i] = new[i - l]
    <3>1. wire \in Seq(Byte) /\ new \in Seq(Byte) /\ l = Len(wire) /\ k = Len(new)
      BY <2>1, <1>3, <1>4
    <3>. QED  BY <3>1, Joined
  <2>. HIDE DEF both
  <2>3. wire' = both
    BY <2>1 DEF both
  <2>. QED  BY <2>2, <2>3
<1>6. \A i \in (l + 1)..(l + k) :
        /\ i - l \in 1..k /\ wire'[i].at = i /\ wire'[i].stream = stream /\ wire'[i].size = size
        /\ wire'[i].part = IF i <= l + HeaderBytes THEN "header" ELSE "payload"
  <2>. TAKE i \in (l + 1)..(l + k)
  <2>1. i - l \in 1..k /\ l + (i - l) = i /\ (i - l <= HeaderBytes <=> i <= l + HeaderBytes)
    BY <1>3
  <2>. QED  BY <2>1, <1>4, <1>5
<1>7. Numbered(wire')
  <2>1. \A n \in 1..(l + k) : n \in 1..l \/ n \in (l + 1)..(l + k)
    BY <1>3
  <2>. QED  BY <2>1, <1>3, <1>5, <1>6 DEF Numbered
<1>8. IsFrame(wire', l, l + k)
  <2>1. l + 1 \in (l + 1)..(l + k)
    BY <1>3
  <2>2. l + k = l + HeaderBytes + wire'[l + 1].size
    BY <2>1, <1>3, <1>6 DEF k
  <2>3. l + k <= Len(wire')
    BY <1>3, <1>5
  <2>. QED  BY <2>1, <2>2, <2>3, <1>6 DEF IsFrame
<1>9. PICK C : Cuts(wire, C)
               /\ \E c \in C : TakenTo(c, wire, sent, pending, stdout, stderr)
  BY DEF FramesInv, Kept
<1>10. PICK c \in C : TakenTo(c, wire, sent, pending, stdout, stderr)
  BY <1>9
<1>11. C \subseteq 0..l /\ 0 \in C /\ l \in C
       /\ \A b \in C : b # l => \E d \in C : IsFrame(wire, b, d)
  BY <1>9 DEF Cuts, l
<1>12. ASSUME NEW b \in C, NEW d \in C, b # l, IsFrame(wire, b, d) PROVE IsFrame(wire', b, d)
  <2>0. b \in 0..l /\ d \in 0..l
    BY <1>11
  <2>1. b + 1 \in 1..l /\ d <= l /\ l <= Len(wire') /\ d \in Nat /\ b \in Nat
    BY <2>0, <1>3, <1>5, <1>12
  <2>2. \A n \in (b + 1)..d : n \in 1..l
    BY <1>3, <2>1
  <2>3. d <= Len(wire')
    BY <2>1, <1>3, <1>5
  <2>. QED  BY <2>1, <2>2, <2>3, <1>5, <1>12 DEF IsFrame
<1>13. Cuts(wire', C \cup {l + k})
  <2>1. C \cup {l + k} \subseteq 0..(l + k)
    <3>1. 0..l \subseteq 0..(l + k) /\ l + k \in 0..(l + k)
      BY <1>3
    <3>. QED  BY <3>1, <1>11
  <2>2. ASSUME NEW b \in C \cup {l + k}, b # l + k
        PROVE  \E d \in C \cup {l + k} : IsFrame(wire', b, d)
    <3>1. CASE b = l
      BY <3>1, <1>8
    <3>2. CASE b # l
      BY <3>2, <2>2, <1>11, <1>12
    <3>. QED  BY <3>1, <3>2
  <2>. QED  BY <2>1, <2>2, <1>5, <1>11 DEF Cuts
<1>14. TakenTo(c, wire', sent, pending, stdout, stderr)
  <2>1. c \in Nat /\ c <= sent /\ sent \in Nat /\ sent <= l /\ sent <= Len(wire')
    BY <1>3, <1>5, <1>10, <1>11 DEF TakenTo
  <2>2. \A i \in 1..c : i \in 1..l
    BY <2>1, <1>3
  <2>3. SubSeq(wire, c + 1, sent) = SubSeq(wire', c + 1, sent)
    <3>1. \A i \in (c + 1)..sent : wire[i] = wire'[i]
      BY <2>1, <1>3, <1>5
    <3>. QED  BY <3>1, <2>1, <1>3, <1>5, SameSlice DEF l
  <2>4. \A log, str : IsPayload(log, str, wire, c) => IsPayload(log, str, wire', c)
    BY <2>2, <1>5 DEF IsPayload
  <2>. QED  BY <2>3, <2>4, <1>10 DEF TakenTo
<1>15. Kept'
  <2>1. \E b \in C \cup {l + k} : TakenTo(b, wire', sent, pending, stdout, stderr)
    BY <1>14
  <2>. QED  BY <2>1, <1>2, <1>13 DEF Kept
<1>16. sent' \in 0..Len(wire')
  BY <1>2, <1>3, <1>5
<1>. QED  BY <1>2, <1>7, <1>15, <1>16 DEF FramesInv

LEMMA FramesStart == FramesInit => FramesInv
<1>. SUFFICES ASSUME FramesInit PROVE FramesInv
  OBVIOUS
<1>1. Numbered(wire) /\ sent \in 0..Len(wire) /\ Len(wire) = 0
      /\ stdout \in Seq(Byte) /\ stderr \in Seq(Byte)
  BY DEF FramesInit, Numbered
<1>2. Cuts(wire, {0})
  BY <1>1 DEF Cuts
<1>3. SubSeq(wire, 1, 0) = <<>>
  BY SubSeqEmpty
<1>4. TakenTo(0, wire, sent, pending, stdout, stderr)
  BY <1>3 DEF FramesInit, TakenTo, IsPayload
<1>5. ~HasFrame(pending)
  BY HeaderAssumption DEF FramesInit, HasFrame
<1>. QED  BY <1>1, <1>2, <1>4, <1>5 DEF FramesInv, Kept

(* However a daemon's output is cut into chunks, the streams hold whole    *)
(* payloads, their own and in order, and nothing is kept back at the end   *)
(* (docker-client.ts:121-124, :130-138).                                   *)
THEOREM FramesAreWhole == FramesSpec => []FramesComeOutWhole
<1>1. FramesInv /\ [FramesNext]_frameVars => FramesInv'
  <2>1. ASSUME FramesInv, End \/ SourceFails \/ UNCHANGED frameVars PROVE FramesInv'
    <3>1. UNCHANGED <<wire, sent, pending, stdout, stderr>>
      BY <2>1 DEF End, SourceFails, frameVars
    <3>. QED  BY <3>1, <2>1 DEF FramesInv, Kept
  <2>. QED  BY <2>1, DataStep, DaemonStep DEF FramesNext
<1>. QED  BY <1>1, FramesStart, KeptIsWhole, PTL DEF FramesSpec
-----------------------------------------------------------------------------
(* Redaction *)

(* The scan of a text of n symbols for a form of l, which occurs at the    *)
(* places in O, when it has come to the place a.                           *)

(* What stays is noted once, and never where the form stands.              *)
Noted(O, a, from) ==
    /\ \A k \in DOMAIN from : from[k] \in 0..(a - 1) /\ from[k] \notin O
    /\ \A j, k \in DOMAIN from : from[k] # 0 /\ from[j] = from[k] => j = k

(* What stays side by side stood side by side.                             *)
SideBySide(a, from) ==
    /\ \A j, k \in DOMAIN from : j <= k /\ (\A x \in j..k : from[x] # 0)
                                   => from[k] = from[j] + (k - j)
    /\ Len(from) > 0 /\ from[Len(from)] # 0 => from[Len(from)] = a - 1

(* An occurrence none before it overlaps is passed over whole.             *)
First(O, l, q) == q \in O /\ \A r \in O : r < q => r + l <= q

PassedOver(O, l, a, from) ==
    \A q \in O : First(O, l, q) =>
        /\ a <= q \/ a >= q + l
        /\ \A k \in DOMAIN from : from[k] \notin q..(q + l - 1)

(* A stretch no occurrence touches stays in one piece.                     *)
Clear(O, l, x, y) == \A r \in O : r + l <= x \/ r > y

OnePiece(from, a, x, y) ==
    \E q \in Nat :
        /\ a <= y + 1 => q + (a - x) = Len(from) + 1
        /\ \A m \in x..y : m < a => q + (m - x) \in DOMAIN from /\ from[q + (m - x)] = m

StretchesStay(O, l, n, a, from) ==
    \A x, y \in 1..n : x <= y /\ Clear(O, l, x, y) /\ x < a => OnePiece(from, a, x, y)

Scanned(O, l, n, a, from) ==
    /\ a \in 1..(n + 1) /\ from \in Seq(Nat)
    /\ Noted(O, a, from) /\ SideBySide(a, from) /\ PassedOver(O, l, a, from)
    /\ StretchesStay(O, l, n, a, from)

LEMMA NoteAdded ==
  ASSUME NEW from \in Seq(Nat), NEW v \in Nat, NEW k, k = Len(from) + 1
  PROVE  LET more == Append(from, v) IN
         /\ more \in Seq(Nat) /\ Len(more) = k /\ DOMAIN more = 1..k /\ more[k] = v
         /\ \A j \in 1..(k - 1) : more[j] = from[j]
         /\ DOMAIN from = 1..(k - 1) /\ k \in Nat \ {0}
         /\ \A j \in 1..k : j \in 1..(k - 1) \/ j = k
  OBVIOUS

(* A symbol the form does not begin at is copied.                          *)
LEMMA CopyStep ==
  ASSUME NEW n \in Nat, NEW l \in Nat \ {0}, NEW O, O \subseteq 1..n,
         NEW a \in 1..n, a \notin O, NEW from, Scanned(O, l, n, a, from)
  PROVE  Scanned(O, l, n, a + 1, Append(from, a))
<1>. DEFINE more == Append(from, a)
            k == Len(from) + 1
<1>1. /\ from \in Seq(Nat) /\ a \in Nat \ {0} /\ a + 1 \in 1..(n + 1)
      /\ Noted(O, a, from) /\ SideBySide(a, from) /\ PassedOver(O, l, a, from)
      /\ StretchesStay(O, l, n, a, from)
  BY DEF Scanned
<1>2. /\ more \in Seq(Nat) /\ Len(more) = k /\ DOMAIN more = 1..k /\ more[k] = a
      /\ \A j \in 1..(k - 1) : more[j] = from[j]
      /\ DOMAIN from = 1..(k - 1) /\ k \in Nat \ {0} /\ Len(from) = k - 1
      /\ \A j \in 1..k : j \in 1..(k - 1) \/ j = k
  BY <1>1, NoteAdded
<1>. HIDE DEF more, k
<1>3. Noted(O, a + 1, more)
  <2>1. \A j \in 1..(k - 1) : from[j] \in 0..(a - 1) /\ from[j] \notin O
    BY <1>1, <1>2 DEF Noted
  <2>2. \A j \in 1..k : more[j] \in 0..((a + 1) - 1) /\ more[j] \notin O
    BY <2>1, <1>1, <1>2, SMTT(30)
  <2>3. ASSUME NEW i \in 1..k, NEW j \in 1..k, more[j] # 0, more[i] = more[j] PROVE i = j
    <3>1. CASE i = k /\ j \in 1..(k - 1)
      <4>1. more[i] = a /\ more[j] = from[j] /\ from[j] \in 0..(a - 1)
        BY <3>1, <2>1, <1>2
      <4>. QED  BY <4>1, <2>3, <1>1
    <3>2. CASE i \in 1..(k - 1) /\ j = k
      BY <3>2, <2>1, <2>3, <1>1, <1>2
    <3>3. CASE i \in 1..(k - 1) /\ j \in 1..(k - 1)
      BY <3>3, <2>3, <1>1, <1>2 DEF Noted
    <3>. QED  BY <3>1, <3>2, <3>3, <1>2
  <2>. QED  BY <2>2, <2>3, <1>2 DEF Noted
<1>4. SideBySide(a + 1, more)
  <2>1. ASSUME NEW i \in 1..k, NEW j \in 1..k, i <= j, \A x \in i..j : more[x] # 0
        PROVE  more[j] = more[i] + (j - i)
    <3>1. CASE j \in 1..(k - 1)
      <4>1. i \in 1..(k - 1) /\ \A x \in i..j : x \in 1..(k - 1)
        BY <3>1, <2>1, <1>2
      <4>2. \A x \in i..j : from[x] # 0
        BY <4>1, <2>1, <1>2
      <4>. QED  BY <3>1, <4>1, <4>2, <2>1, <1>1, <1>2 DEF SideBySide
    <3>2. CASE j = k /\ i = k
      BY <3>2, <1>1, <1>2
    <3>3. CASE j = k /\ i \in 1..(k - 1)
      <4>1. k - 1 \in 1..(k - 1) /\ i <= k - 1
        BY <3>3, <1>2
      <4>2. \A x \in i..(k - 1) : x \in i..j /\ x \in 1..(k - 1)
        BY <3>3, <1>2
      <4>3. \A x \in i..(k - 1) : from[x] # 0
        BY <4>2, <2>1, <1>2
      <4>4. from[k - 1] = from[i] + ((k - 1) - i)
        BY <4>1, <4>3, <3>3, <1>1, <1>2 DEF SideBySide
      <4>5. k - 1 \in i..(k - 1) /\ Len(from) > 0
        BY <4>1, <1>2
      <4>6. from[k - 1] = a - 1
        BY <4>3, <4>5, <1>1, <1>2 DEF SideBySide
      <4>7. from[i] \in Nat /\ more[i] = from[i] /\ more[j] = a
        BY <3>3, <1>1, <1>2
      <4>. DEFINE v == from[i]
      <4>8. /\ v + ((k - 1) - i) = a - 1
            /\ i \in Nat /\ v \in Nat /\ k \in Nat /\ a \in Nat
        BY <4>4, <4>6, <4>7, <1>1, <1>2
      <4>. HIDE DEF v
      <4>9. a = v + (k - i)
        BY <4>8
      <4>. QED  BY <4>7, <4>9, <3>3 DEF v
    <3>. QED  BY <3>1, <3>2, <3>3, <1>2
  <2>2. more[Len(more)] = (a + 1) - 1
    BY <1>1, <1>2
  <2>. QED  BY <2>1, <2>2, <1>2 DEF SideBySide
<1>5. PassedOver(O, l, a + 1, more)
  <2>. SUFFICES ASSUME NEW q \in O, First(O, l, q)
                PROVE  /\ a + 1 <= q \/ a + 1 >= q + l
                       /\ \A j \in 1..k : more[j] \notin q..(q + l - 1)
    BY <1>2 DEF PassedOver
  <2>1. /\ a <= q \/ a >= q + l
        /\ \A j \in 1..(k - 1) : from[j] \notin q..(q + l - 1)
    BY <1>1, <1>2 DEF PassedOver
  <2>2. q \in Nat /\ a # q
    OBVIOUS
  <2>3. a + 1 <= q \/ a >= q + l
    BY <2>1, <2>2, <1>1
  <2>4. a \notin q..(q + l - 1)
    BY <2>2, <2>3, <1>1
  <2>5. \A j \in 1..k : more[j] \notin q..(q + l - 1)
    BY <2>1, <2>4, <1>2
  <2>6. a + 1 <= q \/ a + 1 >= q + l
    BY <2>2, <2>3, <1>1
  <2>. QED  BY <2>5, <2>6
<1>6. StretchesStay(O, l, n, a + 1, more)
  <2>. SUFFICES ASSUME NEW x \in 1..n, NEW y \in 1..n, x <= y, Clear(O, l, x, y), x < a + 1
                PROVE  OnePiece(more, a + 1, x, y)
    BY DEF StretchesStay
  <2>1. CASE x = a
    <3>1. \A m \in x..y : m < a + 1 => m = a /\ k + (m - x) = k
      BY <2>1, <1>1, <1>2
    <3>2. k + ((a + 1) - x) = Len(more) + 1
      BY <2>1, <1>1, <1>2
    <3>3. k \in DOMAIN more
      BY <1>2
    <3>4. k \in Nat /\ more[k] = a
      BY <1>2
    <3>5. ASSUME NEW m \in x..y, m < a + 1
          PROVE  k + (m - x) \in DOMAIN more /\ more[k + (m - x)] = m
      BY <3>1, <3>3, <3>4, <3>5
    <3>. QED  BY <3>2, <3>4, <3>5, Zenon DEF OnePiece
  <2>2. CASE x < a
    <3>1. OnePiece(from, a, x, y)
      BY <2>2, <1>1 DEF StretchesStay
    <3>2. PICK q \in Nat :
              /\ a <= y + 1 => q + (a - x) = Len(from) + 1
              /\ \A m \in x..y : m < a => q + (m - x) \in DOMAIN from /\ from[q + (m - x)] = m
      BY <3>1 DEF OnePiece
    <3>3. a + 1 <= y + 1 => q + ((a + 1) - x) = Len(more) + 1
      BY <3>2, <1>1, <1>2
    <3>4. ASSUME NEW m \in x..y, m < a + 1
          PROVE  q + (m - x) \in DOMAIN more /\ more[q + (m - x)] = m
      <4>1. CASE m < a
        <5>1. q + (m - x) \in 1..(k - 1) /\ from[q + (m - x)] = m
          BY <4>1, <3>2, <1>2
        <5>. QED  BY <5>1, <1>2
      <4>2. CASE m = a
        <5>1. a <= y + 1
          BY <4>2, <1>1
        <5>2. q + (m - x) = k
          BY <5>1, <4>2, <3>2, <1>2
        <5>. QED  BY <5>2, <4>2, <1>2
      <4>. QED  BY <4>1, <4>2, <3>4, <1>1
    <3>. QED  BY <3>3, <3>4 DEF OnePiece
  <2>. QED  BY <2>1, <2>2, <1>1
<1>7. Scanned(O, l, n, a + 1, more)
  BY <1>1, <1>2, <1>3, <1>4, <1>5, <1>6 DEF Scanned
<1>. QED  BY <1>7 DEF more

(* An occurrence gives way to a marker.                                    *)
LEMMA SkipStep ==
  ASSUME NEW n \in Nat, NEW l \in Nat \ {0}, NEW O, O \subseteq 1..n,
         NEW a \in O, a + l <= n + 1, NEW from, Scanned(O, l, n, a, from)
  PROVE  Scanned(O, l, n, a + l, Append(from, 0))
<1>. DEFINE more == Append(from, 0)
            k == Len(from) + 1
            b == a + l
<1>1. /\ from \in Seq(Nat) /\ a \in Nat \ {0} /\ b \in 1..(n + 1) /\ a < b /\ b \in Nat
      /\ Noted(O, a, from) /\ SideBySide(a, from) /\ PassedOver(O, l, a, from)
      /\ StretchesStay(O, l, n, a, from)
  BY DEF Scanned
<1>2. /\ more \in Seq(Nat) /\ Len(more) = k /\ DOMAIN more = 1..k /\ more[k] = 0
      /\ \A j \in 1..(k - 1) : more[j] = from[j]
      /\ DOMAIN from = 1..(k - 1) /\ k \in Nat \ {0} /\ Len(from) = k - 1
      /\ \A j \in 1..k : j \in 1..(k - 1) \/ j = k
  BY <1>1, NoteAdded
<1>3. b = a + l
  OBVIOUS
<1>. HIDE DEF more, k, b
<1>4. Noted(O, b, more)
  <2>1. \A j \in 1..(k - 1) : from[j] \in 0..(a - 1) /\ from[j] \notin O
    BY <1>1, <1>2 DEF Noted
  <2>2. 0 \notin O /\ 0 \in 0..(b - 1) /\ 0..(a - 1) \subseteq 0..(b - 1)
    BY <1>1
  <2>3. \A j \in 1..k : more[j] \in 0..(b - 1) /\ more[j] \notin O
    BY <2>1, <2>2, <1>2
  <2>4. ASSUME NEW i \in 1..k, NEW j \in 1..k, more[j] # 0, more[i] = more[j] PROVE i = j
    <3>1. i # k /\ j # k
      BY <2>4, <1>2
    <3>2. i \in 1..(k - 1) /\ j \in 1..(k - 1)
      BY <3>1, <1>2
    <3>3. more[i] = from[i] /\ more[j] = from[j] /\ i \in DOMAIN from /\ j \in DOMAIN from
      BY <3>2, <1>2
    <3>4. \A g, h \in DOMAIN from : from[h] # 0 /\ from[g] = from[h] => g = h
      BY <1>1 DEF Noted
    <3>. QED  BY <3>3, <3>4, <2>4
  <2>. QED  BY <2>3, <2>4, <1>2 DEF Noted
<1>5. SideBySide(b, more)
  <2>1. ASSUME NEW i \in 1..k, NEW j \in 1..k, i <= j, \A x \in i..j : more[x] # 0
        PROVE  more[j] = more[i] + (j - i)
    <3>1. j \in i..j
      BY <2>1, <1>2
    <3>2. j # k
      BY <3>1, <2>1, <1>2
    <3>3. i \in 1..(k - 1) /\ j \in 1..(k - 1) /\ \A x \in i..j : x \in 1..(k - 1)
      BY <3>2, <2>1, <1>2
    <3>4. \A x \in i..j : from[x] # 0
      BY <3>3, <2>1, <1>2
    <3>. QED  BY <3>3, <3>4, <2>1, <1>1, <1>2 DEF SideBySide
  <2>. QED  BY <2>1, <1>2 DEF SideBySide
<1>6. PassedOver(O, l, b, more)
  <2>. SUFFICES ASSUME NEW q \in O, First(O, l, q)
                PROVE  /\ b <= q \/ b >= q + l
                       /\ \A j \in 1..k : more[j] \notin q..(q + l - 1)
    BY <1>2 DEF PassedOver
  <2>1. /\ a <= q \/ a >= q + l
        /\ \A j \in 1..(k - 1) : from[j] \notin q..(q + l - 1)
    BY <1>1, <1>2 DEF PassedOver
  <2>2. q \in Nat \ {0} /\ (a < q => a + l <= q)
    BY DEF First
  <2>3. b <= q \/ b >= q + l
    BY <2>1, <2>2, <1>1, <1>3
  <2>4. 0 \notin q..(q + l - 1)
    BY <2>2
  <2>5. \A j \in 1..k : more[j] \notin q..(q + l - 1)
    BY <2>1, <2>4, <1>2
  <2>. QED  BY <2>3, <2>5
<1>7. StretchesStay(O, l, n, b, more)
  <2>. SUFFICES ASSUME NEW x \in 1..n, NEW y \in 1..n, x <= y, Clear(O, l, x, y), x < b
                PROVE  OnePiece(more, b, x, y)
    BY DEF StretchesStay
  <2>1. y < a /\ x < a
    BY <1>1, <1>3 DEF Clear
  <2>2. OnePiece(from, a, x, y)
    BY <2>1, <1>1 DEF StretchesStay
  <2>3. PICK q \in Nat :
            \A m \in x..y : m < a => q + (m - x) \in DOMAIN from /\ from[q + (m - x)] = m
    BY <2>2 DEF OnePiece
  <2>4. \A m \in x..y : q + (m - x) \in 1..(k - 1) /\ from[q + (m - x)] = m
    BY <2>1, <2>3, <1>1, <1>2, SMTT(30)
  <2>5. \A m \in x..y : q + (m - x) \in DOMAIN more /\ more[q + (m - x)] = m
    BY <2>4, <1>2
  <2>6. b <= y + 1 => q + (b - x) = Len(more) + 1
    <3>1. y \in Nat /\ a \in Nat /\ b \in Nat /\ y < a /\ a < b
      BY <2>1, <1>1
    <3>2. ~(b <= y + 1)
      BY <3>1
    <3>. QED  BY <3>2
  <2>. QED  BY <2>5, <2>6 DEF OnePiece
<1>8. Scanned(O, l, n, b, more)
  BY <1>1, <1>2, <1>4, <1>5, <1>6, <1>7 DEF Scanned
<1>. QED  BY <1>8 DEF more, b

LEMMA ScanStart ==
  ASSUME NEW n \in Nat, NEW l \in Nat \ {0}, NEW O, O \subseteq 1..n
  PROVE  Scanned(O, l, n, 1, <<>>)
<1>1. <<>> \in Seq(Nat) /\ Len(<<>>) = 0 /\ DOMAIN <<>> = {} /\ 1 \in 1..(n + 1)
  OBVIOUS
<1>2. \A q \in O : 1 <= q
  OBVIOUS
<1>3. \A x \in 1..n : ~(x < 1)
  OBVIOUS
<1>. QED  BY <1>1, <1>2, <1>3 DEF Scanned, Noted, SideBySide, PassedOver, StretchesStay

-----------------------------------------------------------------------------
(* The scan of a text, by its turns *)

Places(t, form) == {i \in 1..Len(t) : Occurs(form, t, i)}
ScanState == [at : Nat \ {0}, from : Seq(Nat)]

LEMMA ScanType ==
  ASSUME NEW t, NEW form, Len(form) \in Nat, NEW s \in ScanState
  PROVE  Scan(t, form, s) \in ScanState
<1>1. s.at \in Nat \ {0} /\ s.from \in Seq(Nat) /\ s.at + 1 \in Nat \ {0}
      /\ s.at + Len(form) \in Nat \ {0}
  BY DEF ScanState
<1>2. Append(s.from, 0) \in Seq(Nat) /\ Append(s.from, s.at) \in Seq(Nat)
  BY <1>1
<1>. QED  BY <1>1, <1>2 DEF Scan, ScanState

LEMMA ScanTurns ==
  ASSUME NEW t, Len(t) \in Nat, NEW form, Len(form) \in Nat
  PROVE  \E f : /\ f[0] = [at |-> 1, from |-> <<>>]
                /\ \A k \in 1..Len(t) : f[k] = Scan(t, form, f[k - 1])
                /\ Sources(t, form) = f[Len(t)].from
<1>. DEFINE a == [at |-> 1, from |-> <<>>]
            turn == [s \in ScanState |-> Scan(t, form, s)]
            scans[k \in 0..Len(t)] == IF k = 0 THEN a ELSE Scan(t, form, scans[k - 1])
            Loops(f) == f = [k \in 0..Len(t) |-> IF k = 0 THEN a ELSE Scan(t, form, f[k - 1])]
<1>1. a \in ScanState /\ turn \in [ScanState -> ScanState]
  BY ScanType DEF ScanState
<1>2. scans = CHOOSE f : Loops(f)
  BY DEF scans
<1>3. Sources(t, form) = scans[Len(t)].from
  BY DEF Sources
<1>. HIDE DEF a, scans
<1>4. PICK f : IsLoop(f, Len(t), ScanState, a, turn)
  <2>. HIDE DEF turn
  <2>. QED  BY <1>1, Iterated
<1>5. \A k \in 1..Len(t) : f[k] = Scan(t, form, f[k - 1])
  <2>1. \A k \in 1..Len(t) : f[k - 1] \in ScanState
    BY <1>4 DEF IsLoop
  <2>2. \A s \in ScanState : turn[s] = Scan(t, form, s)
    OBVIOUS
  <2>. HIDE DEF turn
  <2>. QED  BY <2>1, <2>2, <1>4 DEF IsLoop
<1>6. Loops(f)
  <2>1. f \in [0..Len(t) -> ScanState] /\ f[0] = a
    BY <1>4 DEF IsLoop
  <2>2. \A k \in 0..Len(t) : f[k] = IF k = 0 THEN a ELSE Scan(t, form, f[k - 1])
    BY <2>1, <1>5
  <2>. DEFINE g == [k \in 0..Len(t) |-> IF k = 0 THEN a ELSE Scan(t, form, f[k - 1])]
  <2>3. \A k \in 0..Len(t) : g[k] = f[k]
    BY <2>2
  <2>4. g = [k \in 0..Len(t) |-> g[k]] /\ f = [k \in 0..Len(t) |-> f[k]]
    BY <2>1
  <2>5. f = g
    <3>. HIDE DEF g
    <3>. QED  BY <2>3, <2>4
  <2>. QED  BY <2>5
<1>7. Loops(scans)
  <2>. HIDE DEF Loops
  <2>. QED  BY <1>2, <1>6
<1>8. scans[0] = a /\ \A k \in 1..Len(t) : scans[k] = Scan(t, form, scans[k - 1])
  <2>. DEFINE g == [k \in 0..Len(t) |-> IF k = 0 THEN a ELSE Scan(t, form, scans[k - 1])]
  <2>1. scans = g
    BY <1>7
  <2>2. \A k \in 0..Len(t) : g[k] = IF k = 0 THEN a ELSE Scan(t, form, scans[k - 1])
    OBVIOUS
  <2>. HIDE DEF g
  <2>3. \A k \in 0..Len(t) : scans[k] = IF k = 0 THEN a ELSE Scan(t, form, scans[k - 1])
    BY <2>1, <2>2
  <2>. QED  BY <2>3
<1>. QED  BY <1>3, <1>8 DEF a

(* A scan that has come as far as its turns, or to the end.                *)
Advanced(t, form, k, s) ==
    /\ Scanned(Places(t, form), Len(form), Len(t), s.at, s.from)
    /\ s.at > k \/ s.at > Len(t)

LEMMA ScanAdvances ==
  ASSUME NEW t, Len(t) \in Nat, NEW form, Len(form) \in Nat \ {0},
         NEW s, NEW k \in Nat, Advanced(t, form, k, s)
  PROVE  Advanced(t, form, k + 1, Scan(t, form, s))
<1>. DEFINE O == Places(t, form)
            n == Len(t)
            l == Len(form)
<1>1. /\ O \subseteq 1..n /\ s.at \in 1..(n + 1) /\ Scanned(O, l, n, s.at, s.from)
      /\ s.at > k \/ s.at > n
  BY DEF Advanced, Scanned, Places
<1>2. CASE s.at > n
  <2>1. Scan(t, form, s) = s
    BY <1>2 DEF Scan
  <2>. QED  BY <2>1, <1>2 DEF Advanced
<1>3. CASE ~(s.at > n)
  <2>1. s.at \in 1..n
    BY <1>1, <1>3
  <2>2. CASE Occurs(form, t, s.at)
    <3>1. Scan(t, form, s) = [at |-> s.at + l, from |-> Append(s.from, 0)]
      BY <1>3, <2>2 DEF Scan
    <3>2. s.at \in O /\ s.at + l <= n + 1
      BY <2>1, <2>2 DEF Places, Occurs
    <3>. HIDE DEF O, n, l
    <3>3. Scanned(O, l, n, s.at + l, Append(s.from, 0))
      BY <3>2, <1>1, SkipStep DEF n, l
    <3>4. s.at + l > k + 1 \/ s.at + l > n
      BY <1>1, <2>1 DEF n, l
    <3>5. Scan(t, form, s).at = s.at + l /\ Scan(t, form, s).from = Append(s.from, 0)
      BY <3>1
    <3>. QED  BY <3>3, <3>4, <3>5 DEF Advanced, O, n, l
  <2>3. CASE ~Occurs(form, t, s.at)
    <3>1. Scan(t, form, s) = [at |-> s.at + 1, from |-> Append(s.from, s.at)]
      BY <1>3, <2>3 DEF Scan
    <3>2. s.at \notin O
      BY <2>3 DEF Places
    <3>. HIDE DEF O, n, l
    <3>3. Scanned(O, l, n, s.at + 1, Append(s.from, s.at))
      BY <3>2, <2>1, <1>1, CopyStep DEF n, l
    <3>4. s.at + 1 > k + 1 \/ s.at + 1 > n
      BY <1>1, <2>1 DEF n
    <3>5. Scan(t, form, s).at = s.at + 1 /\ Scan(t, form, s).from = Append(s.from, s.at)
      BY <3>1
    <3>. QED  BY <3>3, <3>4, <3>5 DEF Advanced, O, n, l
  <2>. QED  BY <2>2, <2>3
<1>. QED  BY <1>2, <1>3

(* The scan of a whole text.                                               *)
LEMMA WholeScan ==
  ASSUME NEW t, Len(t) \in Nat, NEW form, Len(form) \in Nat \ {0}
  PROVE  Scanned(Places(t, form), Len(form), Len(t), Len(t) + 1, Sources(t, form))
<1>. DEFINE n == Len(t)
<1>1. PICK f : /\ f[0] = [at |-> 1, from |-> <<>>]
               /\ \A k \in 1..n : f[k] = Scan(t, form, f[k - 1])
               /\ Sources(t, form) = f[n].from
  BY ScanTurns
<1>. DEFINE Bad == {k \in 1..n : ~Advanced(t, form, k, f[k])}
<1>2. Advanced(t, form, 0, f[0])
  <2>1. f[0].at = 1 /\ f[0].from = <<>> /\ Places(t, form) \subseteq 1..n
    BY <1>1 DEF Places
  <2>2. Scanned(Places(t, form), Len(form), n, 1, <<>>)
    BY <2>1, ScanStart
  <2>. QED  BY <2>1, <2>2 DEF Advanced
<1>3. ASSUME NEW k \in 1..n, Advanced(t, form, k - 1, f[k - 1])
      PROVE  Advanced(t, form, k, f[k])
  <2>1. f[k] = Scan(t, form, f[k - 1]) /\ k - 1 \in Nat /\ (k - 1) + 1 = k
    BY <1>1
  <2>2. Advanced(t, form, (k - 1) + 1, Scan(t, form, f[k - 1]))
    BY <2>1, <1>3, ScanAdvances
  <2>. QED  BY <2>1, <2>2
<1>4. Advanced(t, form, n, f[n])
  <2>1. ASSUME Bad # {} PROVE FALSE
    <3>1. PICK k \in Bad : \A y \in Bad : k <= y
      BY <2>1, Smallest
    <3>2. /\ k \in 1..n /\ ~Advanced(t, form, k, f[k])
          /\ k - 1 = 0 \/ k - 1 \in 1..n
          /\ k - 1 \notin Bad
      BY <3>1
    <3>3. Advanced(t, form, k - 1, f[k - 1])
      BY <3>2, <1>2
    <3>. QED  BY <3>2, <3>3, <1>3
  <2>2. n = 0 \/ n \in 1..n
    OBVIOUS
  <2>. QED  BY <2>1, <2>2, <1>2
<1>5. f[n].at \in 1..(n + 1) /\ f[n].at > n
  BY <1>4 DEF Advanced, Scanned
<1>6. f[n].at = n + 1
  BY <1>5
<1>. QED  BY <1>1, <1>4, <1>6 DEF Advanced

-----------------------------------------------------------------------------
(* What a text redacted so far keeps of the text *)

Cell == [sym : Symbols \cup {p.name : p \in Patterns}, at : Nat]

(* A symbol is one of the text's, or a marker.                             *)
FromText(t, o) ==
    \A k \in DOMAIN o : \/ o[k].at = 0 /\ o[k].sym \notin Symbols
                        \/ o[k].at \in DOMAIN t /\ o[k].sym = t[o[k].at].sym

NoneTwice(o) == \A j, k \in DOMAIN o : o[j].at = o[k].at /\ o[k].at # 0 => j = k

(* What no marker parts stood side by side.                                *)
Unparted(o) ==
    \A j, k \in DOMAIN o : j <= k /\ (\A x \in j..k : o[x].at # 0)
                           => o[k].at = o[j].at + (k - j)

Gone(o, i, l) == \A k \in DOMAIN o : o[k].at \notin i..(i + l - 1)

(* The l symbols from r on come from the l symbols from i on.              *)
ComesFrom(o, r, i, l) ==
    \A m \in 0..(l - 1) : r + m \in DOMAIN o /\ o[r + m].at = i + m

Whole(o, i, l) == \E q \in Nat : ComesFrom(o, q, i, l)

IsThere(o, k) == \E m \in DOMAIN o : o[m].at = k

Uncovered(t, k) ==
    \A p \in Patterns, i \in DOMAIN t :
        Occurs(p.form, t, i) => k \notin i..(i + Len(p.form) - 1)

(* A form that occurs in the redacted text occurs in the text, there where *)
(* its symbols come from.                                                  *)
LEMMA InText ==
  ASSUME NEW t \in Seq(Cell), NEW o \in Seq(Cell), FromText(t, o), Unparted(o),
         NEW form \in Seq(Symbols), NEW l \in Nat \ {0}, l = Len(form),
         NEW r \in DOMAIN o, Occurs(form, o, r), NEW i, i = o[r].at
  PROVE  i \in DOMAIN t /\ Occurs(form, t, i) /\ ComesFrom(o, r, i, l)
<1>1. DOMAIN form = 1..l /\ DOMAIN o = 1..Len(o) /\ DOMAIN t = 1..Len(t)
  OBVIOUS
<1>2. r + l - 1 <= Len(o) /\ r \in Nat \ {0} /\ Len(o) \in Nat /\ Len(t) \in Nat
  BY <1>1 DEF Occurs
<1>3. ASSUME NEW m \in 0..(l - 1) PROVE r + m \in DOMAIN o /\ o[r + m].sym = form[m + 1]
  <2>1. r + m \in DOMAIN o /\ m + 1 \in DOMAIN form /\ r + (m + 1) - 1 = r + m
    BY <1>1, <1>2
  <2>. QED  BY <2>1 DEF Occurs
<1>4. ASSUME NEW m \in 0..(l - 1)
      PROVE  o[r + m].at \in DOMAIN t /\ t[o[r + m].at].sym = form[m + 1]
  <2>1. m + 1 \in DOMAIN form /\ form[m + 1] \in Symbols
    BY <1>1
  <2>. QED  BY <2>1, <1>3 DEF FromText
<1>5. ASSUME NEW m \in 0..(l - 1) PROVE o[r + m].at = i + m
  <2>1. r + m \in DOMAIN o /\ r <= r + m /\ (r + m) - r = m
    BY <1>2, <1>3
  <2>2. ASSUME NEW x \in r..(r + m) PROVE o[x].at # 0
    <3>1. x - r \in 0..(l - 1) /\ r + (x - r) = x
      BY <1>2
    <3>2. o[x].at \in DOMAIN t
      BY <3>1, <1>4
    <3>. QED  BY <3>2, <1>1
  <2>. QED  BY <2>1, <2>2 DEF Unparted
<1>6. 0 \in 0..(l - 1) /\ l - 1 \in 0..(l - 1) /\ r + 0 = r
  BY <1>2
<1>7. i \in DOMAIN t
  BY <1>4, <1>6
<1>8. i + (l - 1) \in DOMAIN t /\ i \in Nat
  <2>1. o[r + (l - 1)].at \in DOMAIN t
    BY <1>4, <1>6
  <2>2. o[r + (l - 1)].at = i + (l - 1)
    BY <1>5, <1>6
  <2>. QED  BY <2>1, <2>2, <1>1, <1>7
<1>9. i + l - 1 <= Len(t)
  BY <1>8, <1>1, <1>2
<1>10. ASSUME NEW j \in DOMAIN form PROVE t[i + j - 1].sym = form[j]
  <2>1. j - 1 \in 0..(l - 1) /\ (j - 1) + 1 = j /\ i + (j - 1) = i + j - 1
    BY <1>1, <1>8
  <2>2. o[r + (j - 1)].at = i + j - 1 /\ t[o[r + (j - 1)].at].sym = form[j]
    BY <2>1, <1>4, <1>5
  <2>. QED  BY <2>2
<1>11. Occurs(form, t, i)
  BY <1>9, <1>10 DEF Occurs
<1>12. ComesFrom(o, r, i, l)
  BY <1>3, <1>5 DEF ComesFrom
<1>. QED  BY <1>7, <1>11, <1>12

(* What a replacement takes from the text before it.                       *)
Taken(o, new, from) ==
    /\ new \in Seq(Cell) /\ DOMAIN new = DOMAIN from
    /\ \A k \in DOMAIN from :
           \/ from[k] = 0 /\ new[k].at = 0 /\ new[k].sym \notin Symbols
           \/ from[k] \in DOMAIN o /\ new[k] = o[from[k]]

LEMMA Replaces ==
  ASSUME NEW o \in Seq(Cell), NEW p \in Patterns
  PROVE  /\ Taken(o, Replace(o, p.form, RedactionToken(p.name)), Sources(o, p.form))
         /\ Scanned(Places(o, p.form), Len(p.form), Len(o), Len(o) + 1, Sources(o, p.form))
         /\ Len(p.form) \in Nat \ {0} /\ p.form \in Seq(Symbols)
<1>. DEFINE from == Sources(o, p.form)
            new == Replace(o, p.form, RedactionToken(p.name))
<1>1. /\ p.form \in Seq(Symbols) /\ Len(p.form) \in Nat \ {0} /\ p.name \notin Symbols
      /\ Len(o) \in Nat /\ DOMAIN o = 1..Len(o)
  BY PatternsAssumption
<1>2. Scanned(Places(o, p.form), Len(p.form), Len(o), Len(o) + 1, from)
  BY <1>1, WholeScan
<1>3. new = [k \in 1..Len(from) |->
                 IF from[k] = 0 THEN RedactionToken(p.name) ELSE o[from[k]]]
  BY DEF Replace
<1>4. /\ from \in Seq(Nat) /\ DOMAIN from = 1..Len(from) /\ Len(from) \in Nat
      /\ \A k \in DOMAIN from : from[k] \in 0..Len(o)
  <2>1. from \in Seq(Nat) /\ \A k \in DOMAIN from : from[k] \in 0..((Len(o) + 1) - 1)
    BY <1>2 DEF Scanned, Noted
  <2>2. (Len(o) + 1) - 1 = Len(o)
    BY <1>1
  <2>. QED  BY <2>1, <2>2
<1>. HIDE DEF from, new
<1>5. RedactionToken(p.name) \in Cell
  BY DEF RedactionToken, Cell
<1>6. \A k \in 1..Len(from) :
          (IF from[k] = 0 THEN RedactionToken(p.name) ELSE o[from[k]]) \in Cell
  <2>1. \A x \in 1..Len(o) : o[x] \in Cell
    BY <1>1
  <2>. QED  BY <2>1, <1>4, <1>5
<1>7. new \in [1..Len(from) -> Cell]
  BY <1>3, <1>6
<1>8. new \in Seq(Cell) /\ DOMAIN new = DOMAIN from
  BY <1>4, <1>7
<1>9. ASSUME NEW k \in DOMAIN from
      PROVE  \/ from[k] = 0 /\ new[k].at = 0 /\ new[k].sym \notin Symbols
             \/ from[k] \in DOMAIN o /\ new[k] = o[from[k]]
  <2>1. new[k] = IF from[k] = 0 THEN RedactionToken(p.name) ELSE o[from[k]]
    BY <1>3, <1>4
  <2>2. CASE from[k] = 0
    BY <2>1, <2>2, <1>1 DEF RedactionToken
  <2>3. CASE from[k] # 0
    <3>1. from[k] \in DOMAIN o
      BY <2>3, <1>1, <1>4
    <3>. QED  BY <3>1, <2>1, <2>3
  <2>. QED  BY <2>2, <2>3
<1>10. Taken(o, new, from)
  BY <1>8, <1>9 DEF Taken
<1>. QED  BY <1>1, <1>2, <1>10 DEF from, new

(* Of the new text as of the old: its symbols are the text's, none twice,  *)
(* and what no marker parts stood side by side.                            *)
LEMMA PlacesKept ==
  ASSUME NEW t, NEW o \in Seq(Cell), NEW new, NEW from, NEW O, NEW n,
         FromText(t, o), NoneTwice(o), Unparted(o), Taken(o, new, from),
         from \in Seq(Nat), Noted(O, n, from), SideBySide(n, from)
  PROVE  FromText(t, new) /\ NoneTwice(new) /\ Unparted(new)
<1>1. /\ DOMAIN new = 1..Len(from) /\ DOMAIN from = 1..Len(from) /\ Len(from) \in Nat
      /\ \A k \in DOMAIN new : from[k] \in Nat
  BY DEF Taken
<1>2. \A k \in DOMAIN new : new[k].at # 0 =>
          from[k] # 0 /\ from[k] \in DOMAIN o /\ new[k] = o[from[k]]
  <2>. SUFFICES ASSUME NEW k \in DOMAIN new, new[k].at # 0
                PROVE  from[k] # 0 /\ from[k] \in DOMAIN o /\ new[k] = o[from[k]]
    OBVIOUS
  <2>1. from[k] \in DOMAIN o /\ new[k] = o[from[k]]
    BY <1>1 DEF Taken
  <2>2. 0 \notin DOMAIN o
    OBVIOUS
  <2>. QED  BY <2>1, <2>2
<1>3. FromText(t, new)
  BY <1>1 DEF FromText, Taken
<1>4. ASSUME NEW j \in DOMAIN new, NEW k \in DOMAIN new, new[j].at = new[k].at, new[k].at # 0
      PROVE  j = k
  <2>1. /\ from[j] \in DOMAIN o /\ new[j] = o[from[j]]
        /\ from[k] \in DOMAIN o /\ new[k] = o[from[k]] /\ from[k] # 0
    BY <1>2, <1>4
  <2>2. from[j] = from[k]
    BY <2>1, <1>4 DEF NoneTwice
  <2>. QED  BY <2>1, <2>2, <1>1 DEF Noted
<1>5. ASSUME NEW j \in DOMAIN new, NEW k \in DOMAIN new, j <= k, \A x \in j..k : new[x].at # 0
      PROVE  new[k].at = new[j].at + (k - j)
  <2>1. \A x \in j..k : x \in DOMAIN new
    BY <1>1
  <2>2. \A x \in j..k : from[x] # 0 /\ from[x] \in DOMAIN o /\ new[x] = o[from[x]]
    BY <2>1, <1>2, <1>5
  <2>3. ASSUME NEW x \in j..k PROVE from[x] = from[j] + (x - j)
    <3>1. x \in DOMAIN from /\ j \in DOMAIN from /\ j <= x /\ \A y \in j..x : y \in j..k
      BY <2>1, <1>1
    <3>2. \A y \in j..x : from[y] # 0
      BY <3>1, <2>2
    <3>. QED  BY <3>1, <3>2 DEF SideBySide
  <2>4. j \in j..k /\ k \in j..k /\ j \in Nat /\ k \in Nat
    BY <1>1, <1>5
  <2>. DEFINE v == from[j]
              w == from[k]
  <2>5. v \in Nat /\ w \in DOMAIN o /\ v \in DOMAIN o /\ w = v + (k - j)
    BY <2>2, <2>3, <2>4, <1>1
  <2>6. ASSUME NEW y \in v..w PROVE o[y].at # 0
    <3>. HIDE DEF v, w
    <3>1. j + (y - v) \in j..k /\ y = v + ((j + (y - v)) - j)
      BY <2>4, <2>5
    <3>2. from[j + (y - v)] = y
      BY <3>1, <2>3 DEF v
    <3>3. new[j + (y - v)] = o[y] /\ new[j + (y - v)].at # 0
      BY <3>1, <3>2, <2>2, <1>5
    <3>. QED  BY <3>3
  <2>7. new[j] = o[v] /\ new[k] = o[w]
    BY <2>2, <2>4
  <2>. HIDE DEF v, w
  <2>8. v <= w /\ w - v = k - j
    BY <2>4, <2>5, <1>5
  <2>9. o[w].at = o[v].at + (w - v)
    BY <2>5, <2>6, <2>8 DEF Unparted
  <2>. QED  BY <2>7, <2>8, <2>9
<1>6. NoneTwice(new)
  BY <1>4 DEF NoneTwice
<1>7. Unparted(new)
  BY <1>5 DEF Unparted
<1>. QED  BY <1>3, <1>6, <1>7

(* The form that is replaced is gone, and one that was gone stays so.      *)
LEMMA FormsGone ==
  ASSUME NEW o \in Seq(Cell), NEW new, NEW from, NEW O, NEW n,
         Taken(o, new, from), from \in Seq(Nat), Noted(O, n, from), SideBySide(n, from),
         NEW form \in Seq(Symbols), form # <<>>, NEW r \in DOMAIN new, Occurs(form, new, r)
  PROVE  from[r] \in DOMAIN o /\ Occurs(form, o, from[r]) /\ from[r] \notin O
<1>. DEFINE l == Len(form)
<1>1. /\ DOMAIN new = 1..Len(from) /\ DOMAIN from = 1..Len(from) /\ Len(from) \in Nat
      /\ Len(new) = Len(from) /\ DOMAIN o = 1..Len(o) /\ Len(o) \in Nat
      /\ DOMAIN form = 1..l /\ l \in Nat \ {0}
      /\ \A j \in DOMAIN form : form[j] \in Symbols
  BY DEF Taken
<1>2. r + l - 1 <= Len(from) /\ r \in Nat \ {0}
  BY <1>1 DEF Occurs
<1>3. ASSUME NEW j \in 1..l
      PROVE  /\ r + j - 1 \in DOMAIN from /\ from[r + j - 1] \in DOMAIN o
             /\ o[from[r + j - 1]].sym = form[j]
  <2>1. r + j - 1 \in DOMAIN from
    BY <1>1, <1>2, SMTT(30)
  <2>2. new[r + j - 1].sym = form[j] /\ form[j] \in Symbols
    BY <1>1 DEF Occurs
  <2>3. from[r + j - 1] \in DOMAIN o /\ new[r + j - 1] = o[from[r + j - 1]]
    BY <2>1, <2>2 DEF Taken
  <2>. QED  BY <2>1, <2>2, <2>3
<1>4. ASSUME NEW x \in r..(r + l - 1) PROVE from[x] # 0 /\ x \in DOMAIN from
  <2>1. x - r + 1 \in 1..l /\ r + (x - r + 1) - 1 = x
    BY <1>1, <1>2
  <2>2. from[x] \in DOMAIN o /\ x \in DOMAIN from
    BY <2>1, <1>3
  <2>. QED  BY <2>2, <1>1
<1>. HIDE DEF l
<1>5. ASSUME NEW j \in 1..l PROVE from[r + j - 1] = from[r] + j - 1
  <2>1. r + j - 1 \in r..(r + l - 1) /\ r <= r + j - 1 /\ r \in r..(r + l - 1)
    BY <1>1, <1>2
  <2>2. \A x \in r..(r + j - 1) : x \in r..(r + l - 1)
    BY <1>1, <1>2
  <2>3. r \in DOMAIN from /\ r + j - 1 \in DOMAIN from /\ \A x \in r..(r + j - 1) : from[x] # 0
    BY <2>1, <2>2, <1>4
  <2>4. from[r + j - 1] = from[r] + ((r + j - 1) - r)
    BY <2>1, <2>3 DEF SideBySide
  <2>5. from[r] \in Nat
    BY <2>3
  <2>. QED  BY <2>4, <2>5, <1>1, <1>2
<1>6. 1 \in 1..l /\ l \in 1..l /\ r + 1 - 1 = r
  BY <1>1, <1>2
<1>7. from[r] \in DOMAIN o /\ from[r] \in Nat
  BY <1>1, <1>3, <1>6
<1>8. from[r] + l - 1 \in DOMAIN o
  <2>1. from[r + l - 1] \in DOMAIN o
    BY <1>3, <1>6
  <2>2. from[r + l - 1] = from[r] + l - 1
    BY <1>5, <1>6
  <2>. QED  BY <2>1, <2>2
<1>9. from[r] + l - 1 <= Len(o)
  BY <1>1, <1>8
<1>10. \A j \in 1..l : o[from[r] + j - 1].sym = form[j]
  BY <1>3, <1>5
<1>11. Occurs(form, o, from[r])
  BY <1>1, <1>9, <1>10 DEF Occurs, l
<1>12. from[r] \notin O
  BY <1>1 DEF Noted
<1>. QED  BY <1>7, <1>11, <1>12

(* A value that stands alone, at the place i of the text, and is still     *)
(* whole: an occurrence of a form that is no shorter is the value itself   *)
(* or does not touch it.                                                   *)
Meet(a, m, b, n) == a + m > b /\ b + n > a
Inside(a, m, b, n) == b <= a /\ a + m <= b + n

(* Stretches that do not straddle one another lie inside or apart. *)
LEMMA InsideOrApart ==
  ASSUME NEW a \in Nat, NEW m \in Nat, NEW b \in Nat, NEW n \in Nat,
         \/ b <= a /\ a + m <= b + n
         \/ a + m <= b
         \/ b + n <= a
  PROVE  Meet(a, m, b, n) => Inside(a, m, b, n)
BY DEF Meet, Inside

LEMMA SameValue ==
  ASSUME text \in Seq(Cell), NEW o \in Seq(Cell), FromText(text, o), Unparted(o),
         NEW f \in Patterns, NEW p \in Patterns,
         NEW i \in Nat, i \in DOMAIN text, Alone(p, i),
         NEW L \in Nat, L > 0, L = Len(f.form), NEW l \in Nat, l > 0, l = Len(p.form), l <= L,
         NEW q \in Nat, ComesFrom(o, q, i, l),
         NEW r \in Nat, r \in DOMAIN o, Occurs(f.form, o, r), Meet(r, L, q, l)
  PROVE  r = q /\ L = l
<1>1. o[r].at \in DOMAIN text /\ Occurs(f.form, text, o[r].at) /\ ComesFrom(o, r, o[r].at, L)
  <2>1. f.form \in Seq(Symbols) /\ L \in Nat \ {0}
    BY PatternsAssumption
  <2>. QED  BY <2>1, InText
<1>2. PICK j \in Nat : j \in DOMAIN text /\ Occurs(f.form, text, j) /\ ComesFrom(o, r, j, L)
  BY <1>1
<1>4. Meet(j, L, i, l) => Inside(j, L, i, l)
  <2>1. \/ i <= j /\ j + L <= i + l
        \/ j + L <= i
        \/ i + l <= j
    BY <1>2 DEF Alone
  <2>. QED  BY <2>1, <1>2, InsideOrApart
<1>5. j - i = r - q
  <2>1. CASE r <= q
    <3>1. PICK m \in Nat : m = q - r
      BY <2>1
    <3>2. m \in 0..(L - 1) /\ 0 \in 0..(l - 1) /\ r + m = q /\ q + 0 = q
      BY <3>1 DEF Meet
    <3>3. j + m = i + 0
      BY <3>2, <1>2 DEF ComesFrom
    <3>. QED  BY <3>1, <3>3
  <2>2. CASE q < r
    <3>1. PICK m \in Nat : m = r - q
      BY <2>2
    <3>2. m \in 0..(l - 1) /\ 0 \in 0..(L - 1) /\ q + m = r /\ r + 0 = r
      BY <3>1 DEF Meet
    <3>3. i + m = j + 0
      BY <3>2, <1>2 DEF ComesFrom
    <3>. QED  BY <3>1, <3>3
  <2>. QED  BY <2>1, <2>2
<1>6. r + L > q /\ q + l > r
  BY DEF Meet
<1>7. j + L > i
  BY <1>5, <1>6
<1>8. i + l > j
  BY <1>5, <1>6
<1>9. i <= j /\ j + L <= i + l
  BY <1>4, <1>7, <1>8 DEF Meet, Inside
<1>10. q <= r /\ r + L <= q + l
  BY <1>5, <1>9, SMTT(30)
<1>. QED  BY <1>10

LEMMA ValueGoesWhole ==
  ASSUME text \in Seq(Cell), NEW o \in Seq(Cell),
         FromText(text, o), Unparted(o), NoneTwice(o),
         NEW f \in Patterns, NEW p \in Patterns, NEW i \in DOMAIN text, Alone(p, i),
         NEW L \in Nat \ {0}, L = Len(f.form), NEW l \in Nat \ {0}, l = Len(p.form), l <= L,
         NEW new, NEW from, Taken(o, new, from),
         NEW O, O = Places(o, f.form), NEW n \in Nat, n = Len(o),
         Scanned(O, L, n, n + 1, from), Whole(o, i, l)
  PROVE  Gone(new, i, l) \/ (p # f /\ Whole(new, i, l))
<1>1. PICK q \in Nat : ComesFrom(o, q, i, l)
  BY DEF Whole
<1>2. DOMAIN o = 1..n /\ DOMAIN text = 1..Len(text) /\ Len(text) \in Nat /\ i \in Nat \ {0}
  OBVIOUS
<1>3. \A m \in 0..(l - 1) : q + m \in DOMAIN o /\ o[q + m].at = i + m
  BY <1>1 DEF ComesFrom
<1>4. q \in 1..n /\ q + (l - 1) \in 1..n /\ q \in Nat \ {0} /\ q <= q + (l - 1)
  <2>1. 0 \in 0..(l - 1) /\ l - 1 \in 0..(l - 1) /\ q + 0 = q
    OBVIOUS
  <2>2. q + 0 \in DOMAIN o /\ q + (l - 1) \in DOMAIN o
    BY <2>1, <1>3
  <2>. QED  BY <2>1, <2>2, <1>2
<1>5. f.form \in Seq(Symbols) /\ f.form # <<>> /\ O \subseteq 1..n
  BY PatternsAssumption DEF Places
\* Whoever touches the value is the value.
<1>6. ASSUME NEW r \in O, r + L > q, q + l > r PROVE r = q /\ L = l
  <2>1. r \in DOMAIN o /\ Occurs(f.form, o, r)
    BY <1>2 DEF Places
  <2>2. Meet(r, L, q, l) /\ r \in Nat /\ i \in Nat /\ L > 0 /\ l > 0
    BY <1>2, <1>5, <1>6 DEF Meet
  <2>. QED  BY <2>1, <2>2, <1>1, SameValue
<1>7. CASE q \in O /\ L = l
  <2>1. ASSUME NEW r \in O, r < q PROVE r + L <= q
    <3>1. r \in Nat /\ ~(r = q)
      BY <2>1, <1>5
    <3>2. q + l > r
      BY <3>1, <2>1, <1>4
    <3>3. ~(r + L > q)
      BY <3>1, <3>2, <1>6
    <3>. QED  BY <3>1, <3>3, <1>4
  <2>2. First(O, L, q)
    BY <2>1, <1>7 DEF First
  <2>3. \A k \in DOMAIN from : from[k] \notin q..(q + L - 1)
    BY <2>2, <1>7 DEF Scanned, PassedOver
  <2>4. ASSUME NEW k \in DOMAIN new, new[k].at \in i..(i + l - 1) PROVE FALSE
    <3>1. new[k].at # 0
      BY <2>4, <1>2
    <3>2. from[k] \in DOMAIN o /\ new[k] = o[from[k]] /\ k \in DOMAIN from
      BY <3>1 DEF Taken
    <3>. DEFINE m == new[k].at - i
    <3>3. m \in 0..(l - 1) /\ i + m = new[k].at
      BY <2>4, <1>2, SMTT(30)
    <3>4. q + m \in DOMAIN o /\ o[q + m].at = new[k].at
      BY <3>3, <1>3
    <3>5. from[k] = q + m
      BY <3>1, <3>2, <3>4 DEF NoneTwice
    <3>6. q + m \in q..(q + L - 1)
      <4>1. m \in Nat /\ m <= L - 1
        BY <3>3, <1>7
      <4>. HIDE DEF m
      <4>. QED  BY <4>1
    <3>. QED  BY <2>3, <3>2, <3>5, <3>6
  <2>5. Gone(new, i, l)
    BY <2>4 DEF Gone
  <2>. QED  BY <2>5
<1>8. CASE ~(q \in O /\ L = l)
  <2>1. Clear(O, L, q, q + (l - 1))
    <3>1. ASSUME NEW r \in O, ~(r + L <= q), ~(r > q + (l - 1)) PROVE FALSE
      <4>1. r \in Nat
        BY <1>5
      <4>2. r + L > q /\ q + l > r
        BY <4>1, <3>1, <1>4, SMTT(30)
      <4>. QED  BY <4>2, <1>6, <1>8
    <3>. QED  BY <3>1 DEF Clear
  <2>2. q < n + 1
    BY <1>4
  <2>3. OnePiece(from, n + 1, q, q + (l - 1))
    BY <2>1, <2>2, <1>4 DEF Scanned, StretchesStay
  <2>4. PICK z \in Nat : \A m \in q..(q + (l - 1)) : m < n + 1 =>
              z + (m - q) \in DOMAIN from /\ from[z + (m - q)] = m
    BY <2>3 DEF OnePiece
  <2>5. ASSUME NEW m \in 0..(l - 1) PROVE z + m \in DOMAIN new /\ new[z + m].at = i + m
    <3>1. q + m \in q..(q + (l - 1)) /\ q + m < n + 1 /\ (q + m) - q = m
      BY <1>4
    <3>2. z + m \in DOMAIN from /\ from[z + m] = q + m
      BY <2>4, <3>1
    <3>3. q + m # 0 /\ q + m \in DOMAIN o /\ o[q + m].at = i + m
      <4>1. q + m # 0
        BY <1>4
      <4>. QED  BY <4>1, <1>3
    <3>. QED  BY <3>2, <3>3 DEF Taken
  <2>6. Whole(new, i, l)
    BY <2>5 DEF Whole, ComesFrom
  <2>7. ASSUME p = f PROVE FALSE
    <3>1. Occurs(f.form, text, i) /\ l = L /\ DOMAIN f.form = 1..l
      BY <2>7, <1>5 DEF Alone
    <3>2. ASSUME NEW j \in 1..l PROVE o[q + j - 1].sym = f.form[j]
      <4>1. j - 1 \in 0..(l - 1) /\ q + (j - 1) = q + j - 1 /\ i + (j - 1) = i + j - 1
        BY <1>4, <1>2
      <4>2. q + j - 1 \in DOMAIN o /\ o[q + j - 1].at = i + j - 1
        BY <4>1, <1>3
      <4>3. i + j - 1 # 0
        BY <1>2
      <4>4. o[q + j - 1].sym = text[i + j - 1].sym
        BY <4>2, <4>3 DEF FromText
      <4>5. text[i + j - 1].sym = f.form[j]
        BY <3>1 DEF Occurs
      <4>. QED  BY <4>4, <4>5
    <3>3. q + l - 1 <= n
      BY <1>4
    <3>4. Occurs(f.form, o, q)
      BY <3>1, <3>2, <3>3 DEF Occurs
    <3>5. q \in O
      BY <3>4, <1>4 DEF Places
    <3>. QED  BY <3>1, <3>5, <1>8
  <2>. QED  BY <2>6, <2>7
<1>. QED  BY <1>7, <1>8

(* What is gone does not come back.                                        *)
LEMMA GoneStays ==
  ASSUME NEW o, NEW new, NEW from, Taken(o, new, from),
         NEW i \in Nat \ {0}, NEW l \in Nat, Gone(o, i, l)
  PROVE  Gone(new, i, l)
<1>. SUFFICES ASSUME NEW k \in DOMAIN new PROVE new[k].at \notin i..(i + l - 1)
  BY DEF Gone
<1>1. CASE new[k].at = 0
  BY <1>1
<1>2. CASE from[k] \in DOMAIN o /\ new[k] = o[from[k]]
  BY <1>2 DEF Gone
<1>. QED  BY <1>1, <1>2 DEF Taken

(* What no form covers in the text is not replaced.                        *)
LEMMA UncoveredStays ==
  ASSUME text \in Seq(Cell), NEW o \in Seq(Cell),
         FromText(text, o), Unparted(o), NEW f \in Patterns,
         NEW L \in Nat \ {0}, L = Len(f.form),
         NEW new, NEW from, Taken(o, new, from),
         NEW O, O = Places(o, f.form), NEW n \in Nat, n = Len(o),
         Scanned(O, L, n, n + 1, from),
         NEW k \in DOMAIN text, Uncovered(text, k), IsThere(o, k)
  PROVE  IsThere(new, k)
<1>0. PICK m \in DOMAIN o : o[m].at = k
  BY DEF IsThere
<1>1. /\ m \in 1..n /\ DOMAIN o = 1..n /\ O \subseteq 1..n
      /\ f.form \in Seq(Symbols) /\ f.form # <<>> /\ k \in Nat
  BY PatternsAssumption DEF Places
<1>2. ASSUME NEW r \in O, ~(r + L <= m), ~(r > m) PROVE FALSE
  <2>. DEFINE j == o[r].at
  <2>1. r \in DOMAIN o /\ Occurs(f.form, o, r) /\ r \in Nat
    BY <1>1 DEF Places
  <2>0. j = o[r].at
    OBVIOUS
  <2>. HIDE DEF j
  <2>2. j \in DOMAIN text /\ Occurs(f.form, text, j) /\ ComesFrom(o, r, j, L)
    BY <2>0, <2>1, <1>1, InText
  <2>3. m - r \in 0..(L - 1) /\ r + (m - r) = m
    BY <2>1, <1>1, <1>2
  <2>4. o[r + (m - r)].at = j + (m - r)
    BY <2>2, <2>3 DEF ComesFrom
  <2>5. k = j + (m - r) /\ j \in Nat
    BY <2>2, <2>3, <2>4, <1>0
  <2>6. k \in j..(j + L - 1)
    BY <2>1, <2>3, <2>5, <1>1, SMTT(30)
  <2>. QED  BY <2>2, <2>6 DEF Uncovered
<1>3. Clear(O, L, m, m)
  BY <1>2 DEF Clear
<1>4. OnePiece(from, n + 1, m, m)
  <2>1. m <= m /\ m < n + 1
    BY <1>1
  <2>. QED  BY <2>1, <1>1, <1>3 DEF Scanned, StretchesStay
<1>5. PICK z \in Nat : \A y \in m..m : y < n + 1 =>
            z + (y - m) \in DOMAIN from /\ from[z + (y - m)] = y
  BY <1>4 DEF OnePiece
<1>6. m \in m..m /\ m < n + 1 /\ z + (m - m) = z
  BY <1>1
<1>7. z \in DOMAIN from /\ from[z] = m /\ m # 0
  BY <1>1, <1>5, <1>6
<1>8. z \in DOMAIN new /\ new[z] = o[m]
  BY <1>7 DEF Taken
<1>. QED  BY <1>0, <1>8 DEF IsThere
-----------------------------------------------------------------------------
(* The text redacted so far: what it keeps of the text it keeps in place,  *)
(* a value that stands alone is whole until its own form is replaced and   *)
(* gone afterwards, what no form covers is there, and the forms that were  *)
(* replaced do not occur.                                                  *)
AloneGoesWhole(lf, o) ==
    \A p \in Patterns, i \in DOMAIN text : Alone(p, i) =>
        Gone(o, i, Len(p.form)) \/ (p \in lf /\ Whole(o, i, Len(p.form)))

UncoveredIsThere(t, o) ==
    \A k \in DOMAIN t : Uncovered(t, k) => IsThere(o, k)

ReplacedAreGone(lf, o) ==
    \A p \in Patterns \ lf, i \in DOMAIN o : ~Occurs(p.form, o, i)

RedactInv ==
    /\ text \in Seq(Cell) /\ out \in Seq(Cell) /\ left \subseteq Patterns
    /\ FromText(text, out) /\ NoneTwice(out) /\ Unparted(out)
    /\ AloneGoesWhole(left, out) /\ UncoveredIsThere(text, out)
    /\ ReplacedAreGone(left, out)

LEMMA RedactStarts == ASSUME RedactInit PROVE RedactInv
<1>1. PICK n \in 0..MaxText : \E s \in [1..n -> Symbols] :
          text = [i \in 1..n |-> [sym |-> s[i], at |-> i]]
  BY DEF RedactInit
<1>2. PICK s \in [1..n -> Symbols] : text = [i \in 1..n |-> [sym |-> s[i], at |-> i]]
  BY <1>1
<1>3. out = text /\ left = Patterns /\ n \in Nat
  BY <1>1 DEF RedactInit
<1>4. DOMAIN text = 1..n /\ \A i \in 1..n : text[i].at = i /\ text[i] \in Cell
  BY <1>2 DEF Cell
<1>5. text \in [1..n -> Cell]
  <2>1. \A i \in 1..n : [sym |-> s[i], at |-> i] \in Cell
    BY <1>3 DEF Cell
  <2>. QED  BY <2>1, <1>2
<1>6. text \in Seq(Cell)
  BY <1>3, <1>5
<1>7. FromText(text, text) /\ NoneTwice(text) /\ Unparted(text)
  BY <1>3, <1>4 DEF FromText, NoneTwice, Unparted
<1>8. AloneGoesWhole(Patterns, text)
  <2>. SUFFICES ASSUME NEW p \in Patterns, NEW i \in DOMAIN text, Alone(p, i)
                PROVE  Whole(text, i, Len(p.form))
    BY DEF AloneGoesWhole
  <2>. DEFINE l == Len(p.form)
  <2>1. l \in Nat /\ Len(text) = n /\ i \in Nat \ {0}
    BY <1>3, <1>4, <1>6, PatternsAssumption
  <2>2. i + l - 1 <= n
    BY <2>1 DEF Alone, Occurs
  <2>. HIDE DEF l
  <2>3. ASSUME NEW m \in 0..(l - 1) PROVE i + m \in DOMAIN text /\ text[i + m].at = i + m
    <3>1. i + m \in 1..n
      BY <2>1, <2>2, <1>3
    <3>. QED  BY <3>1, <1>4
  <2>4. ComesFrom(text, i, i, l)
    BY <2>3 DEF ComesFrom
  <2>. QED  BY <2>1, <2>4 DEF Whole, l
<1>9. UncoveredIsThere(text, text)
  BY <1>4 DEF UncoveredIsThere, IsThere
<1>10. ReplacedAreGone(Patterns, text)
  BY DEF ReplacedAreGone
<1>. QED  BY <1>3, <1>6, <1>7, <1>8, <1>9, <1>10 DEF RedactInv

LEMMA RedactStep == ASSUME RedactInv, [RedactText]_redactVars PROVE RedactInv'
<1>1. CASE UNCHANGED redactVars
  <2>1. text' = text /\ out' = out /\ left' = left
    BY <1>1 DEF redactVars
  <2>2. \A p, i : Alone(p, i)' <=> Alone(p, i)
    BY <2>1 DEF Alone
  <2>. QED  BY <2>1, <2>2 DEF RedactInv, AloneGoesWhole
<1>2. CASE RedactText
  <2>1. PICK f \in Longest(left) :
            /\ out' = Replace(out, f.form, RedactionToken(f.name))
            /\ left' = left \ {f} /\ text' = text
    BY <1>2 DEF RedactText, Candidates
  <2>. DEFINE from == Sources(out, f.form)
              new == Replace(out, f.form, RedactionToken(f.name))
              L == Len(f.form)
              O == Places(out, f.form)
              n == Len(out)
              lf == left \ {f}
  <2>2. /\ text \in Seq(Cell) /\ out \in Seq(Cell) /\ left \subseteq Patterns
        /\ FromText(text, out) /\ NoneTwice(out) /\ Unparted(out)
        /\ AloneGoesWhole(left, out) /\ UncoveredIsThere(text, out)
        /\ ReplacedAreGone(left, out)
    BY DEF RedactInv
  <2>3. f \in Patterns /\ f \in left /\ \A q \in left : Len(q.form) <= Len(f.form)
    BY <2>2 DEF Longest
  <2>4. /\ Taken(out, new, from) /\ Scanned(O, L, n, n + 1, from)
        /\ L \in Nat \ {0} /\ f.form \in Seq(Symbols) /\ n \in Nat
    BY <2>2, <2>3, Replaces
  <2>5. from \in Seq(Nat) /\ Noted(O, n + 1, from) /\ SideBySide(n + 1, from)
    BY <2>4 DEF Scanned
  <2>6. new \in Seq(Cell)
    BY <2>4 DEF Taken
  <2>7. out' = new /\ left' = lf /\ lf \subseteq Patterns /\ \A q \in lf : q \in left
    BY <2>1, <2>2
  <2>8. L = Len(f.form) /\ O = Places(out, f.form) /\ n = Len(out)
    OBVIOUS
  <2>9. \A q \in left : q \in lf \/ q = f
    OBVIOUS
  <2>. HIDE DEF from, new, L, O, n, lf
  <2>10. FromText(text, new) /\ NoneTwice(new) /\ Unparted(new)
    BY <2>2, <2>4, <2>5, PlacesKept
  <2>11. AloneGoesWhole(lf, new)
    <3>. SUFFICES ASSUME NEW p \in Patterns, NEW i \in DOMAIN text, Alone(p, i)
                  PROVE  Gone(new, i, Len(p.form)) \/ (p \in lf /\ Whole(new, i, Len(p.form)))
      BY DEF AloneGoesWhole
    <3>1. PICK l : l = Len(p.form)
      OBVIOUS
    <3>2. l \in Nat \ {0} /\ i \in Nat \ {0}
      BY <3>1, <2>2, PatternsAssumption
    <3>3. CASE Gone(out, i, l)
      <4>1. Gone(new, i, l)
        BY <3>2, <3>3, <2>4, GoneStays
      <4>. QED  BY <4>1, <3>1
    <3>4. CASE p \in left /\ Whole(out, i, l)
      <4>1. l <= L
        BY <3>1, <3>4, <2>3, <2>8
      <4>2. Gone(new, i, l) \/ (p # f /\ Whole(new, i, l))
        BY <4>1, <3>1, <3>2, <3>4, <2>2, <2>3, <2>4, <2>8, ValueGoesWhole
      <4>. QED  BY <4>2, <3>1, <3>4, <2>9
    <3>. QED  BY <3>1, <3>3, <3>4, <2>2 DEF AloneGoesWhole
  <2>12. UncoveredIsThere(text, new)
    <3>. SUFFICES ASSUME NEW k \in DOMAIN text, Uncovered(text, k)
                  PROVE  IsThere(new, k)
      BY DEF UncoveredIsThere
    <3>1. IsThere(out, k)
      BY <2>2 DEF UncoveredIsThere
    <3>. QED  BY <3>1, <2>2, <2>3, <2>4, <2>8, UncoveredStays
  <2>13. ReplacedAreGone(lf, new)
    <3>. SUFFICES ASSUME NEW p \in Patterns, p \notin lf, NEW r \in DOMAIN new,
                         Occurs(p.form, new, r)
                  PROVE  FALSE
      BY DEF ReplacedAreGone
    <3>1. p.form \in Seq(Symbols) /\ p.form # <<>>
      BY PatternsAssumption
    <3>2. from[r] \in DOMAIN out /\ Occurs(p.form, out, from[r]) /\ from[r] \notin O
      BY <3>1, <2>2, <2>4, <2>5, FormsGone
    <3>3. CASE p = f
      <4>1. from[r] \in O
        BY <3>2, <3>3, <2>2 DEF O, Places
      <4>. QED  BY <4>1, <3>2
    <3>4. CASE p # f
      <4>1. p \notin left
        BY <3>4, <2>9
      <4>. QED  BY <4>1, <3>2, <2>2 DEF ReplacedAreGone
    <3>. QED  BY <3>3, <3>4
  <2>14. \A p, i : Alone(p, i)' <=> Alone(p, i)
    BY <2>1 DEF Alone
  <2>15. AloneGoesWhole(left, out)'
    BY <2>1, <2>7, <2>11, <2>14 DEF AloneGoesWhole
  <2>. QED  BY <2>1, <2>2, <2>6, <2>7, <2>10, <2>12, <2>13, <2>15 DEF RedactInv
<1>. QED  BY <1>1, <1>2

LEMMA NothingIsLeft == RedactInv => NothingLeaks
<1>. SUFFICES ASSUME RedactInv, left = {} PROVE NothingLeaks
  BY DEF NothingLeaks
<1>1. \A p \in Patterns, i \in DOMAIN out : ~Occurs(p.form, out, i)
  BY DEF RedactInv, ReplacedAreGone
<1>2. \A p \in Patterns, i \in DOMAIN text : Alone(p, i) =>
          \A k \in DOMAIN out : out[k].at \notin i..(i + Len(p.form) - 1)
  BY DEF RedactInv, AloneGoesWhole, Gone
<1>3. \A k \in DOMAIN text : Uncovered(text, k) => \E m \in DOMAIN out : out[m].at = k
  BY DEF RedactInv, UncoveredIsThere, IsThere
<1>. QED  BY <1>1, <1>2, <1>3 DEF NothingLeaks, Uncovered

(* No form of a secret value is left in a redacted text, and no part of a  *)
(* value that stands alone in it, whatever the values contain of each      *)
(* other, since the longest form is replaced first (redact.ts:56, :63-69). *)
THEOREM RedactedTextsLeakNothing == RedactSpec => []NothingLeaks
<1>1. RedactInit => RedactInv
  BY RedactStarts
<1>2. RedactInv /\ [RedactText]_redactVars => RedactInv'
  BY RedactStep
<1>3. RedactInv => NothingLeaks
  BY NothingIsLeft
<1>. QED  BY <1>1, <1>2, <1>3, PTL DEF RedactSpec
=============================================================================
