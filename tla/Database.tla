------------------------------ MODULE Database ------------------------------
(* The tables of packages/db with their foreign keys, what deleting a row  *)
(* does along them, and the triggers of drizzle/0001.  A row is known by   *)
(* its table and a number; it holds, for every foreign key of its table,   *)
(* the row it refers to or NoRow.  Other columns are left out, except the  *)
(* one unique constraint that a null takes part in (NULLS NOT DISTINCT)    *)
(* and the two numbered sequences of a run: those are the secrets', the    *)
(* attempts' and the events' own column, `mark` (name, number, seq).       *)
EXTENDS Naturals, FiniteSets

CONSTANTS
    NoRow,
    MaxOf,   \* bound: [tables -> number of rows]
    Marks    \* values of the marked column

VARIABLE rows  \* [ids present -> [ref : columns -> ids or NoRow, mark]]

Tables == {"workspaces", "users", "audit_events", "bots", "threads", "routines",
           "approval_rules", "secrets", "tasks", "runs", "attempts", "events",
           "messages", "approvals", "usage_records"}
-----------------------------------------------------------------------------
(* The foreign keys, file by file: <<table, column, referred, on delete>>. *)
WorkspaceKeys ==
    {<<"users", "workspace", "workspaces", "restrict">>,
     <<"audit_events", "workspace", "workspaces", "restrict">>}
BotKeys ==
    {<<"bots", "workspace", "workspaces", "restrict">>,
     <<"threads", "bot", "bots", "cascade">>,
     <<"routines", "bot", "bots", "cascade">>,
     <<"approval_rules", "bot", "bots", "cascade">>,
     <<"approval_rules", "created_by", "users", "restrict">>,
     <<"secrets", "workspace", "workspaces", "restrict">>,
     <<"secrets", "bot", "bots", "cascade">>}

\* Mutant: a task with runs stays.
TaskKeysStrict ==
    {<<"tasks", "bot", "bots", "cascade">>,
     <<"tasks", "thread", "threads", "set_null">>,
     <<"runs", "task", "tasks", "restrict">>,
     <<"runs", "bot", "bots", "cascade">>,
     <<"runs", "thread", "threads", "cascade">>}

TaskKeys ==
    {<<"tasks", "bot", "bots", "cascade">>,
     <<"tasks", "thread", "threads", "set_null">>,
     <<"runs", "task", "tasks", "cascade">>,
     <<"runs", "bot", "bots", "cascade">>,
     <<"runs", "thread", "threads", "cascade">>}
RunKeys ==
    {<<"attempts", "run", "runs", "cascade">>,
     <<"events", "run", "runs", "cascade">>,
     <<"events", "thread", "threads", "cascade">>,
     <<"messages", "thread", "threads", "cascade">>,
     <<"messages", "run", "runs", "set_null">>,
     <<"approvals", "run", "runs", "cascade">>,
     <<"approvals", "decided_by", "users", "set_null">>,
     <<"usage_records", "run", "runs", "cascade">>,
     <<"usage_records", "bot", "bots", "cascade">>}

Keys == WorkspaceKeys \cup BotKeys \cup TaskKeys \cup RunKeys

KeysOf == [table \in Tables |-> {k \in Keys : k[1] = table}]
Nullable == {<<"secrets", "bot">>, <<"tasks", "thread">>,
             <<"messages", "run">>, <<"approvals", "decided_by">>}

(* Two rows of these tables may not agree on all of the columns and on the *)
(* mark; a null column agrees with a null column.                          *)
UniqueMarks == {<<"secrets", {"workspace", "bot"}>>, <<"attempts", {"run"}>>,
                <<"events", {"run"}>>}
Marked(table) == \E u \in UniqueMarks : u[1] = table

Ids == Tables \X Nat
TableOf(id) == id[1]
Columns(table) == {k[2] : k \in KeysOf[table]}

ASSUME DatabaseAssumption == NoRow \notin Ids /\ MaxOf \in [Tables -> Nat]
-----------------------------------------------------------------------------
(* Deleting *)

(* The rows that refer to one of ids over a key of the given kind.         *)
Referring(ids, kind) ==
    {r \in DOMAIN rows : \E k \in KeysOf[TableOf(r)] :
        k[4] = kind /\ rows[r].ref[k[2]] \in ids}

(* What a delete takes with it: the smallest set with the victim that the  *)
(* cascading keys do not lead out of.  A cascade is at most three keys     *)
(* long (an event to its run, its task and its bot).                       *)
Cascade(ids) == ids \cup Referring(ids, "cascade")
Doomed(victim) == Cascade(Cascade(Cascade({victim})))

\* Mutant: the audit trigger guards updates only.
TriggersAllowDelete(deleted, updated) ==
    \A i \in updated : TableOf(i) \notin {"events", "audit_events"}

(* The triggers: events reject UPDATE, audit_events UPDATE and DELETE.     *)
TriggersAllow(deleted, updated) ==
    /\ \A i \in updated : TableOf(i) \notin {"events", "audit_events"}
    /\ \A i \in deleted : TableOf(i) # "audit_events"

(* Restricting keys refuse, whether or not the referring row goes too;     *)
(* the rows that lose a reference are updated.                             *)
MayGo(doomed) ==
    /\ Referring(doomed, "restrict") = {}
    /\ TriggersAllow(doomed, Referring(doomed, "set_null") \ doomed)

DeleteAllowed(victim) == MayGo(Doomed(victim))

Delete(victim) ==
    LET doomed == Doomed(victim) IN
    /\ MayGo(doomed)
    /\ rows' = [i \in DOMAIN rows \ doomed |->
                   [rows[i] EXCEPT !.ref =
                       [c \in DOMAIN @ |-> IF @[c] \in doomed THEN NoRow ELSE @[c]]]]
-----------------------------------------------------------------------------
(* Inserting *)

(* The values a row may have in its foreign-key columns.                   *)
RefsOf(table) ==
    LET cols == Columns(table)
        may(c) == {i \in DOMAIN rows : \E k \in KeysOf[table] : k[2] = c /\ TableOf(i) = k[3]}
                      \cup (IF <<table, c>> \in Nullable THEN {NoRow} ELSE {})
    IN {f \in [cols -> UNION {may(c) : c \in cols}] : \A c \in cols : f[c] \in may(c)}

UniqueAllows(table, row) ==
    \A u \in UniqueMarks : u[1] = table =>
        \A i \in DOMAIN rows : TableOf(i) = table =>
            \/ rows[i].mark # row.mark
            \/ \E c \in u[2] : rows[i].ref[c] # row.ref[c]

Insert(table) ==
    LET free == {n \in 1..MaxOf[table] : <<table, n>> \notin DOMAIN rows} IN
    \E n \in free, refs \in RefsOf(table),
       mark \in IF Marked(table) THEN Marks ELSE {NoRow} :
        LET row == [ref |-> refs, mark |-> mark]
            id  == <<table, n>>
        IN /\ UniqueAllows(table, row)
           /\ rows' = [i \in DOMAIN rows \cup {id} |-> IF i = id THEN row ELSE rows[i]]
-----------------------------------------------------------------------------
Init == rows = [i \in {} |-> NoRow]

Next ==
    \/ \E table \in Tables : Insert(table)
    \/ \E victim \in DOMAIN rows : Delete(victim)

Spec == Init /\ [][Next]_rows

Of(table) == {i \in DOMAIN rows : TableOf(i) = table}
-----------------------------------------------------------------------------
(* A bot can always be deleted, whatever hangs on it: no restricting key   *)
(* and no trigger lies on the way its cascades take ("deleting a bot is a  *)
(* product requirement", drizzle/0001_append_only_triggers.sql:3-6).       *)
BotsCanBeDeleted == \A b \in Of("bots") : DeleteAllowed(b)

(* No step changes or removes an audit event, and no step changes an       *)
(* event: it keeps its run, its thread and its number until it is deleted  *)
(* with them (drizzle/0001_append_only_triggers.sql:3-9).                  *)
LogsAreImmutable ==
    [][/\ \A i \in Of("audit_events") : i \in DOMAIN rows' /\ rows'[i] = rows[i]
       /\ \A i \in Of("events") : i \in DOMAIN rows' => rows'[i] = rows[i]]_rows
=============================================================================
