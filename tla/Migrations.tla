----------------------------- MODULE Migrations -----------------------------
(***************************************************************************)
(* Bringing a database to the program's schema when a process starts.      *)
(* (src/src/gossipmemo/migrations.py; initialize in store/_base.py;        *)
(* schema.sql.)                                                            *)
(*                                                                         *)
(* A database is the tables the steps touch, the rows of learning_goals,   *)
(* and the history. A transaction works on a copy, a statement at a time;  *)
(* the process may end, or a statement fail, at any of them. Several       *)
(* processes (the server, an import) may start at once; what each reads    *)
(* before its transaction is not protected by it. A copy that is made      *)
(* first goes to a file named by the version, which is one and the same in *)
(* a behaviour, and the second: one of the same second is written over.    *)
(*                                                                         *)
(* Left out: the columns the steps do not change; the checksum of a step,  *)
(* which a history row either has or not; the seeds of schema.sql's        *)
(* coverage roots, and WAL.                                                *)
(***************************************************************************)
EXTENDS Naturals, FiniteSets, Sequences, SequencesExt

CONSTANTS
    Processes,
    None,
    MaxEvents   \* bound: crashes, statements and backups that fail, goals written

Current == 3    \* CURRENT_VERSION

\* tables the application always has, next to the others
Rest  == "rest"
V2    == {"coverage_roots", "coverage_entries"}
Whole == {Rest, "embeddings"} \cup V2

VARIABLES
    found,      \* the database as the first process found it
    db,         \* the database as committed
    backups,    \* the databases in the files they were copied to, oldest first
    overwritten,\* history: another database was copied over one of them
    lock,       \* the process in a transaction, or None
    copy,       \* the database as that transaction sees it
    phase,      \* of each process: out, decide, backup, begin, work, schema,
                \* serving, failed
    tables,     \* what each process saw: whether there was any table, ...
    plan,       \* ... and the transactions it has yet to run, each a sequence
    written,    \* goals that were ever committed
    events

copies == <<backups, overwritten>>
vars == <<found, db, copies, lock, copy, phase, tables, plan, written, events>>

\* goals, goals_v2: None when there is no such table, or its columns and rows
Goals(cols, rows) == [cols |-> cols, rows |-> rows]
Database(ts, gs, history) == [tables |-> ts, goals |-> gs, goals_v2 |-> None, history |-> history]

\* history: None when there is no table, or rows of a version and a mark: that
\* of the step, one of the sentinels, or another
Sentinels == {"legacy-baseline", "fresh-create", "adopted-without-history"}

GoalTables == [cols : {"criteria_refs", "entry_ids"}, rows : SUBSET (0..MaxEvents)]
Histories  == SUBSET ((1..(Current + 1)) \X (Sentinels \cup {"step"}))
Databases  == [tables : SUBSET (Whole \cup {"coverage_maps"}), goals : {None} \cup GoalTables,
               goals_v2 : {None} \cup GoalTables, history : {None} \cup Histories]

Parameters ==
    /\ MaxEvents \in Nat
    /\ None \notin Processes \cup GoalTables /\ \A h \in Histories : None # h

Empty == Database({}, None, None)
Found == {
    Empty,
    Database({Rest, "coverage_maps"}, Goals("criteria_refs", {0}), None),
    Database({Rest} \cup V2, Goals("entry_ids", {0}), None),
    Database({Rest} \cup V2, Goals("entry_ids", {0}), {<<2, "fresh-create">>}),
    Database({Rest} \cup V2, Goals("entry_ids", {0}), {<<1, "legacy-baseline">>, <<2, "step">>}),
    Database(Whole, Goals("entry_ids", {0}), {<<3, "fresh-create">>}),
    \* and some that are refused
    Database({Rest}, Goals("entry_ids", {0}), None),
    Database(Whole, Goals("entry_ids", {0}), {<<Current + 1, "fresh-create">>}),
    Database(Whole, Goals("entry_ids", {0}), {<<2, "step">>, <<3, "fresh-create">>}),
    Database({Rest} \cup V2, Goals("entry_ids", {0}), {<<1, "legacy-baseline">>, <<3, "step">>})}

Event == events < MaxEvents /\ events' = events + 1

AnyTable(d) == d.tables # {} \/ d.goals # None \/ d.history # None

-----------------------------------------------------------------------------
(* Statements. *)

Create(t)     == [kind |-> "create", what |-> t]
Drop(t)       == [kind |-> "drop", what |-> t]
Stamp(v, m)   == [kind |-> "stamp", what |-> <<v, m>>]
HistoryTable  == [kind |-> "history", what |-> None]
GoalStep(s)   == [kind |-> s, what |-> None]

\* a table that is there is not created, one that is not is not used, and a
\* version has one row in the history
Fails(d, s) ==
    CASE s.kind = "create"          -> s.what \in d.tables
      [] s.kind = "drop"            -> s.what \notin d.tables
      [] s.kind = "history"         -> FALSE
      [] s.kind = "stamp"           -> d.history = None \/ \E h \in d.history : h[1] = s.what[1]
      [] s.kind = "create goals_v2" -> d.goals_v2 # None
      [] s.kind = "copy goals"      -> d.goals = None \/ d.goals_v2 = None
      [] s.kind = "drop goals"      -> d.goals = None
      [] s.kind = "rename goals_v2" -> d.goals # None \/ d.goals_v2 = None

\* the database after a statement
Executed(d, s) ==
    IF Fails(d, s) THEN d ELSE
    CASE s.kind = "create"          -> [d EXCEPT !.tables = @ \cup {s.what}]
      [] s.kind = "drop"            -> [d EXCEPT !.tables = @ \ {s.what}]
      [] s.kind = "history"         -> [d EXCEPT !.history = IF @ = None THEN {} ELSE @]
      [] s.kind = "stamp"           -> [d EXCEPT !.history = @ \cup {s.what}]
      [] s.kind = "create goals_v2" -> [d EXCEPT !.goals_v2 = Goals("entry_ids", {})]
      [] s.kind = "copy goals"      -> [d EXCEPT !.goals_v2 = Goals("entry_ids", d.goals.rows)]
      [] s.kind = "drop goals"      -> [d EXCEPT !.goals = None]
      [] s.kind = "rename goals_v2" -> [d EXCEPT !.goals = d.goals_v2, !.goals_v2 = None]

\* MIGRATIONS
Upgrade(v) ==
    CASE v = 2 -> <<Drop("coverage_maps"), Create("coverage_roots"), Create("coverage_entries"),
                    GoalStep("create goals_v2"), GoalStep("copy goals"),
                    GoalStep("drop goals"), GoalStep("rename goals_v2")>>
      [] v = 3 -> <<Create("embeddings")>>

UpgradeAndStamp(v) == Upgrade(v) \o <<Stamp(v, "step")>>

-----------------------------------------------------------------------------
(* What a start decides. *)

Highest(history) == CHOOSE v \in {h[1] : h \in history} : \A h \in history : h[1] <= v
Lowest(history)  == CHOOSE v \in {h[1] : h \in history} : \A h \in history : h[1] >= v

\* _validate_history
Valid(history) ==
    /\ history # {}
    /\ {h[1] : h \in history} = Lowest(history)..Highest(history)
    /\ \A h \in history :
         IF h[2] \in Sentinels THEN h[1] = Lowest(history)
         ELSE h[2] = "step" /\ h[1] \in 2..Current
    /\ Highest(history) <= Current

\* _looks_like_v2
LooksLikeV2(d) ==
    /\ "coverage_maps" \notin d.tables
    /\ V2 \subseteq d.tables
    /\ d.goals # None /\ d.goals.cols = "entry_ids"

\* Seeded fault of Legacy: each statement is committed on its own.
LegacyAutocommit ==
    LET all == <<HistoryTable, Stamp(1, "legacy-baseline")>>
               \o UpgradeAndStamp(2) \o UpgradeAndStamp(3)
    IN  [i \in DOMAIN all |-> <<all[i]>>]

\* the one transaction of a legacy database
Legacy == << <<HistoryTable, Stamp(1, "legacy-baseline")>>
             \o UpgradeAndStamp(2) \o UpgradeAndStamp(3) >>

\* migrate_database, given whether a look before this one saw tables, or
\* version 1's: the database is refused ...
Refused(seen, d) ==
    \/ seen # "none" /\ d.history # None /\ ~ Valid(d.history)
    \/ seen = "some" /\ d.history = None /\ ~ LooksLikeV2(d)

\* ... or brought to the present version in these transactions
Plan(seen, d) ==
    CASE seen = "none" -> << <<HistoryTable, Stamp(Current, "fresh-create")>> >>
      [] seen # "none" /\ d.history # None ->
            [i \in 1..(Current - Highest(d.history)) |-> UpgradeAndStamp(Highest(d.history) + i)]
      [] seen = "v1" /\ d.history = None -> Legacy
      [] seen = "some" /\ d.history = None ->
            << <<HistoryTable, Stamp(Current, "adopted-without-history")>> >>

Seen(d) == IF ~ AnyTable(d) THEN "none"
           ELSE IF "coverage_maps" \in d.tables THEN "v1" ELSE "some"

\* whether it is copied first: when there is a step to take
BacksUp(p) == \E i \in DOMAIN p : \E j \in DOMAIN p[i] : p[i][j].kind \in {"create", "drop"}

\* what the statements of schema.sql have yet to create
SchemaMissing(d) ==
    {Create(t) : t \in Whole \ d.tables}
    \cup (IF d.goals = None THEN {GoalStep("create goals")} ELSE {})
    \cup (IF d.history = None THEN {HistoryTable} ELSE {})

SchemaStatement(d, s) ==
    CASE s.kind = "create"       -> [d EXCEPT !.tables = @ \cup {s.what}]
      [] s.kind = "create goals" -> [d EXCEPT !.goals = Goals("entry_ids", {})]
      [] s.kind = "history"      -> [d EXCEPT !.history = {}]

-----------------------------------------------------------------------------
(* A start. *)

Unlocked(p) == IF lock = p THEN None ELSE lock

\* the tables are read ...
LookAtTables(p) ==
    /\ phase[p] = "out"
    /\ phase' = [phase EXCEPT ![p] = "decide"]
    /\ tables' = [tables EXCEPT ![p] = Seen(db)]
    /\ UNCHANGED <<found, db, copies, lock, copy, plan, written, events>>

\* ... and the history after that
Decide(p) ==
    LET todo == Plan(tables[p], db) IN
    /\ phase[p] = "decide"
    /\ IF Refused(tables[p], db)
       THEN /\ phase' = [phase EXCEPT ![p] = "failed"]
            /\ UNCHANGED plan
       ELSE /\ phase' = [phase EXCEPT ![p] = IF BacksUp(todo) THEN "backup" ELSE "begin"]
            /\ plan' = [plan EXCEPT ![p] = todo]
    /\ UNCHANGED <<found, db, copies, lock, copy, tables, written, events>>

\* _backup: a copy of the database as it is by now, to a file of its own or over
\* the one that was made in the same second
Backup(p) ==
    /\ phase[p] = "backup"
    /\ \/ /\ backups' = Append(backups, db)
          /\ phase' = [phase EXCEPT ![p] = "begin"]
          /\ UNCHANGED <<overwritten, events>>
       \/ /\ backups # <<>>
          /\ backups' = [backups EXCEPT ![Len(backups)] = db]
          /\ overwritten' = (overwritten \/ Last(backups) # db)
          /\ phase' = [phase EXCEPT ![p] = "begin"]
          /\ UNCHANGED events
       \/ /\ Event
          /\ phase' = [phase EXCEPT ![p] = "failed"]
          /\ UNCHANGED copies
    /\ UNCHANGED <<found, db, lock, copy, tables, plan, written>>

\* BEGIN IMMEDIATE of the next transaction, if there is one
Begin(p) ==
    /\ phase[p] = "begin"
    /\ IF plan[p] = <<>>
       THEN /\ phase' = [phase EXCEPT ![p] = "schema"]
            /\ UNCHANGED <<lock, copy>>
       ELSE /\ lock = None
            /\ lock' = p
            /\ copy' = db
            /\ phase' = [phase EXCEPT ![p] = "work"]
    /\ UNCHANGED <<found, db, copies, tables, plan, written, events>>

\* a statement of it, or COMMIT after the last; a statement that fails rolls
\* the transaction back, and the start fails
Work(p) ==
    LET s == Head(plan[p]) IN
    /\ phase[p] = "work"
    /\ IF s = <<>>
       THEN /\ db' = copy /\ lock' = None
            /\ plan' = [plan EXCEPT ![p] = Tail(@)]
            /\ phase' = [phase EXCEPT ![p] = "begin"]
            /\ UNCHANGED copy
       ELSE IF Fails(copy, Head(s))
       THEN /\ lock' = None
            /\ phase' = [phase EXCEPT ![p] = "failed"]
            /\ UNCHANGED <<db, copy, plan>>
       ELSE /\ copy' = Executed(copy, Head(s))
            /\ plan' = [plan EXCEPT ![p] = <<Tail(s)>> \o Tail(@)]
            /\ UNCHANGED <<db, lock, phase>>
    /\ UNCHANGED <<found, copies, tables, written, events>>

\* the disk is full, or the lock is not given in time
StatementFails(p) ==
    /\ phase[p] \in {"begin", "work", "schema"}
    /\ Event
    /\ lock' = Unlocked(p)
    /\ phase' = [phase EXCEPT ![p] = "failed"]
    /\ UNCHANGED <<found, db, copies, copy, tables, plan, written>>

\* schema.sql: each statement commits on its own, here in any order; then the
\* store is ready
ApplySchema(p) ==
    /\ phase[p] = "schema"
    /\ IF SchemaMissing(db) = {}
       THEN /\ phase' = [phase EXCEPT ![p] = "serving"]
            /\ UNCHANGED db
       ELSE /\ lock = None
            /\ \E s \in SchemaMissing(db) : db' = SchemaStatement(db, s)
            /\ UNCHANGED phase
    /\ UNCHANGED <<found, copies, lock, copy, tables, plan, written, events>>

\* a process that serves writes a goal
WriteGoal(p) ==
    /\ phase[p] = "serving" /\ lock = None
    /\ Event
    /\ db' = [db EXCEPT !.goals.rows = @ \cup {events'}]
    /\ written' = written \cup {events'}
    /\ UNCHANGED <<found, copies, lock, copy, phase, tables, plan>>

\* the process ends, or one that failed is started again
Restart(p) ==
    /\ phase[p] # "out"
    /\ Event
    /\ phase' = [phase EXCEPT ![p] = "out"]
    /\ lock' = Unlocked(p)
    /\ plan' = [plan EXCEPT ![p] = <<>>]
    /\ UNCHANGED <<found, db, copies, copy, tables, written>>

Init ==
    /\ found \in Found
    /\ db = found /\ copy = found
    /\ backups = <<>> /\ overwritten = FALSE /\ lock = None
    /\ phase = [p \in Processes |-> "out"]
    /\ tables = [p \in Processes |-> "none"]
    /\ plan = [p \in Processes |-> <<>>]
    /\ written = IF found.goals = None THEN {} ELSE found.goals.rows
    /\ events = 0

Next == \E p \in Processes :
    \/ LookAtTables(p) \/ Decide(p) \/ Backup(p) \/ Begin(p) \/ Work(p)
    \/ StatementFails(p) \/ ApplySchema(p) \/ WriteGoal(p) \/ Restart(p)

Spec == Init /\ [][Next]_vars

-----------------------------------------------------------------------------
(* Properties. *)

\* A start keeps its state within these types.
TypeOK ==
    /\ found \in Found
    /\ {db, copy} \subseteq Databases
    /\ backups \in Seq(Databases) /\ overwritten \in BOOLEAN
    /\ lock \in Processes \cup {None}
    /\ \A p \in Processes : (lock = p) = (phase[p] = "work")
    /\ phase \in [Processes -> {"out", "decide", "backup", "begin", "work", "schema",
                                "serving", "failed"}]
    /\ tables \in [Processes -> {"none", "v1", "some"}]
    /\ written \subseteq 0..MaxEvents /\ events \in 0..MaxEvents

\* The databases from d on, a statement of s at a time.
Ran(d, s) ==
    LET after[i \in 0..Len(s)] == IF i = 0 THEN d ELSE Executed(after[i - 1], s[i])
    IN  after

\* What schema.sql leaves: its statements create what is missing, in any order.
Completed(d) ==
    [d EXCEPT !.tables = @ \cup Whole,
              !.goals = IF @ = None THEN Goals("entry_ids", {}) ELSE @,
              !.history = IF @ = None THEN {} ELSE @]

\* A whole start on a database, alone and undisturbed: what it runs, whether it
\* gets to the end, and what it leaves.
Statements(d) == FlattenSeq(Plan(Seen(d), d))
Starts(d) ==
    /\ ~ Refused(Seen(d), d)
    /\ \A i \in 1..Len(Statements(d)) :
          ~ Fails(Ran(d, Statements(d))[i - 1], Statements(d)[i])
Started(d) == Completed(Ran(d, Statements(d))[Len(Statements(d))])

\* The database as found is in a file, or a later copy went to that file.
BackedUp == overwritten \/ \E i \in DOMAIN backups : backups[i] = found

\* At every moment, whatever ended or failed before and whoever else is
\* starting, the committed database is one that the next start brings to the
\* present schema with every goal that was ever in it; what a step changed is
\* in a backup as it was found, unless the copy of a later start has been written
\* over it; and one that was refused is as it was found.
NextStartSucceeds ==
    IF ~ Starts(found) THEN db = found
    ELSE LET after == Started(db) IN
         /\ Starts(db)
         /\ after.tables = Whole
         /\ after.goals.cols = "entry_ids" /\ after.goals.rows = written
         /\ after.goals_v2 = None
         /\ Highest(after.history) = Current
         /\ BacksUp(Plan(Seen(found), found)) /\ db # found => BackedUp
         /\ \A p \in Processes : phase[p] = "serving" => db = after
=============================================================================
