----------------------------- MODULE DailyFiles -----------------------------
(***************************************************************************)
(* The daily Parquet files of one trading date: _append_snapshot of        *)
(* tradier_collector/storage.py step by step, in the service and in        *)
(* `--once` processes beside it, and backup_day of backup.py copying the   *)
(* files while they may still be written.                                  *)
(***************************************************************************)
EXTENDS Integers, FiniteSets

CONSTANTS
    Writers,   \* the processes that may append
    Service,   \* the one of them that keeps to the session
    Files,     \* the daily files
    StaleAge,  \* STALE_TEMP_SECONDS
    MaxWrite,  \* how old the temp file of a live append may grow
    MayForce,  \* the operator may pass --force
    MaxCycles, \* bound: cycles begun
    MaxDeaths, \* bound: kills of a writer
    MaxBackups \* bound: backups begun

ASSUME DailyFilesAssumption ==
    /\ IsFiniteSet(Writers) /\ Service \in Writers
    /\ IsFiniteSet(Files) /\ Files # {}
    /\ {StaleAge, MaxWrite, MaxCycles, MaxDeaths, MaxBackups} \subseteq Nat
    /\ MaxWrite < StaleAge
    /\ MayForce \in BOOLEAN

VARIABLES
    closed,   \* the window of the date has ended
    pc,       \* writer -> its step; "off" when there is no such process
    cycle,    \* writer -> the cycle it is in, naming its rows and its temp files
    left,     \* writer -> the files its cycle has still to append to
    path,     \* writer -> the file being appended to
    table,    \* writer -> the merged table in its memory
    cycles,   \* cycles begun so far
    deaths,   \* kills so far
    file,     \* file -> the cycles whose rows it holds; {} when it does not exist
    temps,    \* the temp files: whose cycle, beside which file, how old
    backups,  \* backups begun so far
    running,  \* a backup is running
    todo,     \* the files it has not come to
    checked,  \* the files whose checksum it has taken and which it has not copied
    digest,   \* file -> the content whose checksum it has taken; {} when skipped
    copy,     \* file -> the content of the stored copy
    manifest, \* file -> the content the stored manifest records
    acked,    \* history: file -> the cycles whose append returned
    raced,    \* history: the <<file, cycle>> pairs whose append overlapped another one
    touched,  \* history: the files replaced since the last backup began
    begun     \* history: acked, when the last backup began

writerVars == <<pc, cycle, left, path, table>>
backupVars == <<backups, running, todo, checked, digest, copy, manifest>>
historyVars == <<acked, raced, touched, begun>>
vars == <<closed, writerVars, cycles, deaths, file, temps, backupVars, historyVars>>

Temps == [cycle : Nat, file : Files, age : 0 .. StaleAge]
Absent == [f \in Files |-> {}]

Live(w) == pc[w] = "temp"

\* An append of w is between its read of the file and its replace.
Appending(w) == pc[w] \in {"read", "temp"}
TempsOf(w) == {t \in temps : t.cycle = cycle[w] /\ t.file = path[w]}
----------------------------------------------------------------------------
Init ==
    /\ closed = FALSE
    /\ pc = [w \in Writers |-> "off"]
    /\ cycle = [w \in Writers |-> 0]
    /\ left = [w \in Writers |-> {}]
    /\ path = [w \in Writers |-> CHOOSE f \in Files : TRUE]
    /\ table = [w \in Writers |-> {}]
    /\ cycles = 0 /\ deaths = 0
    /\ file = Absent
    /\ temps = {}
    /\ backups = 0 /\ running = FALSE
    /\ todo = {} /\ checked = {}
    /\ digest = Absent /\ copy = Absent /\ manifest = Absent
    /\ acked = Absent
    /\ raced = {} /\ touched = {} /\ begun = Absent

(***************************************************************************)
(* The environment.                                                        *)
(***************************************************************************)
\* The window ends; a cycle in flight goes on.
Close ==
    /\ ~closed
    /\ closed' = TRUE
    /\ UNCHANGED <<writerVars, cycles, deaths, file, temps, backupVars, historyVars>>

\* The temp files grow older.  A live append is over before its own is MaxWrite old.
Age ==
    /\ \E t \in temps : t.age < StaleAge
    /\ \A w \in Writers : Live(w) => \A t \in TempsOf(w) : t.age < MaxWrite
    /\ temps' = {[t EXCEPT !.age = IF @ < StaleAge THEN @ + 1 ELSE @] : t \in temps}
    /\ UNCHANGED <<closed, writerVars, cycles, deaths, file, backupVars, historyVars>>

\* A writer is killed, or stops; what it was writing stays behind as a temp file.
Kill(w) ==
    /\ pc[w] # "off" /\ deaths < MaxDeaths
    /\ deaths' = deaths + 1
    /\ pc' = [pc EXCEPT ![w] = "off"]
    /\ left' = [left EXCEPT ![w] = {}]
    /\ table' = [table EXCEPT ![w] = {}]
    /\ UNCHANGED <<closed, cycle, path, cycles, file, temps, backupVars, historyVars>>
----------------------------------------------------------------------------
(***************************************************************************)
(* A cycle appends to each file; --once ignores the session window.        *)
(***************************************************************************)
BeginCycle(w) ==
    /\ pc[w] = "off" /\ cycles < MaxCycles
    /\ w = Service => ~closed
    /\ cycles' = cycles + 1
    /\ cycle' = [cycle EXCEPT ![w] = cycles + 1]
    /\ left' = [left EXCEPT ![w] = Files]
    /\ pc' = [pc EXCEPT ![w] = "cycle"]
    /\ UNCHANGED <<closed, path, table, deaths, file, temps, backupVars, historyVars>>

\* The writer is back in its cycle, or between two cycles.
Back(w) ==
    /\ pc' = [pc EXCEPT ![w] = IF left[w] = {} THEN "off" ELSE "cycle"]
    /\ table' = [table EXCEPT ![w] = {}]
    /\ UNCHANGED <<cycle, left, path>>

\* Mutated form: whatever looks like a temp file.
AllTemps(f) == {t \in temps : t.file = f}

\* The files of a directory that clean_stale_temp_files removes.
Stale(f) == {t \in temps : t.file = f /\ t.age >= StaleAge}

Merged(w, f) == file[f] \union {cycle[w]}

\* The writers whose appends to f overlap when w begins one, w included.
Overlapping(w, f) ==
    LET others == {v \in Writers \ {w} : Appending(v) /\ path[v] = f}
    IN  IF others = {} THEN {} ELSE others \union {w}

\* _append_snapshot up to the merged table: clean, read, concatenate.
ReadFile(w, f) ==
    /\ pc[w] = "cycle" /\ f \in left[w]
    /\ left' = [left EXCEPT ![w] = @ \ {f}]
    /\ path' = [path EXCEPT ![w] = f]
    /\ temps' = temps \ Stale(f)
    /\ table' = [table EXCEPT ![w] = Merged(w, f)]
    /\ pc' = [pc EXCEPT ![w] = "read"]
    /\ raced' = raced \union {<<f, cycle[v]>> : v \in Overlapping(w, f)}
    /\ UNCHANGED <<closed, cycle, cycles, deaths, file, backupVars, acked, touched,
                   begun>>

\* Mutated form: the table is written into the production file itself.
WriteInPlace(w) ==
    /\ pc[w] = "read"
    /\ pc' = [pc EXCEPT ![w] = "temp"]
    /\ file' = [file EXCEPT ![path[w]] = {}]
    /\ temps' = temps \union {[cycle |-> cycle[w], file |-> path[w], age |-> 0]}
    /\ UNCHANGED <<closed, cycle, left, path, table, cycles, deaths, backupVars,
                   historyVars>>

\* _atomic_write_table: a temp file beside the target.
WriteTemp(w) ==
    /\ pc[w] = "read"
    /\ pc' = [pc EXCEPT ![w] = "temp"]
    /\ temps' = temps \union {[cycle |-> cycle[w], file |-> path[w], age |-> 0]}
    /\ UNCHANGED <<closed, cycle, left, path, table, cycles, deaths, file, backupVars,
                   historyVars>>

\* os.replace; it needs the temp file to be there still.
Replace(w) ==
    /\ Live(w) /\ TempsOf(w) # {}
    /\ file' = [file EXCEPT ![path[w]] = table[w]]
    /\ temps' = temps \ TempsOf(w)
    /\ acked' = [acked EXCEPT ![path[w]] = @ \union {cycle[w]}]
    /\ touched' = touched \union {path[w]}
    /\ Back(w)
    /\ UNCHANGED <<closed, cycles, deaths, backupVars, raced, begun>>

\* The read, the write or the replace raises: the temp file is removed, the
\* production file left as it was, and the cycle goes on with the next ticker.
AppendFails(w) ==
    /\ Appending(w)
    /\ temps' = temps \ TempsOf(w)
    /\ Back(w)
    /\ UNCHANGED <<closed, cycles, deaths, file, backupVars, historyVars>>
----------------------------------------------------------------------------
(***************************************************************************)
(* backup_day.                                                             *)
(***************************************************************************)
\* The guard of backup_day: --force, or day_is_complete.
MayBackUp(force) == force \/ closed

BeginBackup(force) ==
    /\ force => MayForce
    /\ ~running /\ backups < MaxBackups
    /\ MayBackUp(force)
    /\ running' = TRUE
    /\ backups' = backups + 1
    /\ todo' = Files /\ checked' = {} /\ digest' = Absent
    /\ touched' = {} /\ begun' = acked
    /\ UNCHANGED <<closed, writerVars, cycles, deaths, file, temps, copy, manifest, acked, raced>>

\* Mutated form: a file that is in the backup already is skipped.
SkipStored(f) ==
    /\ running /\ checked = {} /\ f \in todo
    /\ file[f] = {} \/ copy[f] # {}
    /\ todo' = todo \ {f}
    /\ UNCHANGED <<closed, writerVars, cycles, deaths, file, temps, backups, running,
                   checked, digest, copy, manifest, historyVars>>

SkipMissing(f) ==
    /\ running /\ checked = {} /\ f \in todo
    /\ file[f] = {}
    /\ todo' = todo \ {f}
    /\ UNCHANGED <<closed, writerVars, cycles, deaths, file, temps, backups, running,
                   checked, digest, copy, manifest, historyVars>>

Checksum(f) ==
    /\ running /\ checked = {} /\ f \in todo
    /\ file[f] # {}
    /\ todo' = todo \ {f}
    /\ checked' = {f}
    /\ digest' = [digest EXCEPT ![f] = file[f]]
    /\ UNCHANGED <<closed, writerVars, cycles, deaths, file, temps, backups, running,
                   copy, manifest, historyVars>>

\* Mutated form: a copy that is there already is not made again.
StoredOnce(f) == IF copy[f] # {} THEN copy[f] ELSE file[f]

Stored(f) == file[f]

\* target.store: shutil.copy2 over whatever copy an earlier backup left.
Store(f) ==
    /\ running /\ f \in checked
    /\ checked' = {}
    /\ copy' = [copy EXCEPT ![f] = Stored(f)]
    /\ UNCHANGED <<closed, writerVars, cycles, deaths, file, temps, backups, running,
                   todo, digest, manifest, historyVars>>

\* The manifest is stored last, and only when some file was.
EndBackup ==
    /\ running /\ todo = {} /\ checked = {}
    /\ running' = FALSE
    /\ manifest' = IF digest = Absent THEN manifest ELSE digest
    /\ UNCHANGED <<closed, writerVars, cycles, deaths, file, temps, backups, todo,
                   checked, digest, copy, historyVars>>

\* The backup dies or raises, between two files or within one.
BackupDies ==
    /\ running
    /\ running' = FALSE
    /\ todo' = {} /\ checked' = {} /\ digest' = Absent
    /\ UNCHANGED <<closed, writerVars, cycles, deaths, file, temps, backups, copy,
                   manifest, historyVars>>

Append(w) ==
    \/ \E f \in Files : ReadFile(w, f)
    \/ WriteTemp(w) \/ Replace(w) \/ AppendFails(w)

Backup ==
    \/ \E force \in BOOLEAN : BeginBackup(force)
    \/ \E f \in Files : SkipMissing(f) \/ Checksum(f) \/ Store(f)
    \/ EndBackup \/ BackupDies

Next ==
    \/ Close \/ Age
    \/ \E w \in Writers : Kill(w) \/ BeginCycle(w) \/ Append(w)
    \/ Backup

Spec == Init /\ [][Next]_vars
----------------------------------------------------------------------------
(***************************************************************************)
(* Properties.                                                             *)
(***************************************************************************)

\* Every variable has its type.
TypeOK ==
    /\ closed \in BOOLEAN
    /\ pc \in [Writers -> {"off", "cycle", "read", "temp"}]
    /\ cycle \in [Writers -> Nat]
    /\ left \in [Writers -> SUBSET Files]
    /\ path \in [Writers -> Files]
    /\ table \in [Writers -> SUBSET Nat]
    /\ \A w \in Writers : Appending(w) => cycle[w] \in table[w]
    /\ cycles \in Nat /\ deaths \in Nat /\ backups \in Nat
    /\ temps \subseteq Temps
    /\ running \in BOOLEAN
    /\ todo \subseteq Files /\ checked \subseteq Files
    /\ raced \subseteq Files \X Nat /\ touched \subseteq Files
    /\ begun \in [Files -> SUBSET Nat]
    /\ file \in [Files -> SUBSET Nat] /\ acked \in [Files -> SUBSET Nat]
    /\ digest \in [Files -> SUBSET Nat] /\ copy \in [Files -> SUBSET Nat]
    /\ manifest \in [Files -> SUBSET Nat]

\* The cycles whose append to f did not overlap another one.
Alone(f, rows) == {c \in rows : <<f, c>> \notin raced}

\* A row whose append returned stays in its file through every later append, failure
\* and kill: when two processes append to one file at once, read, merge and replace of
\* storage.py may lose the rows of these appends, but never a row stored before or
\* after them (crash mid-write, storage.py:5-7).
AcknowledgedStays == \A f \in Files : Alone(f, acked[f]) \subseteq file[f]

\* Cleaning up never disturbs a concurrent writer (storage.py:129-130): as long as
\* an append takes less than the stale age, its temp file is there for the replace.
WriterUndisturbed == \A w \in Writers : Live(w) => TempsOf(w) # {}

\* A backup that ended, with no file replaced since it began, holds every file of the
\* day, and its manifest records the checksum of each copy.
BackupFaithful ==
    /\ backups > 0 /\ ~running /\ touched = {} /\ digest # Absent
    => \A f \in Files : file[f] # {} => manifest[f] = file[f] /\ copy[f] = file[f]

\* A backup that ended has, in every copy and in the content its manifest describes, all
\* the rows acknowledged before it began, whatever was appended, killed or replaced
\* while it ran: a day taken for complete while its last cycle still writes
\* (day_is_complete looks at the clock only) lacks at most rows of that cycle.
BackupIsRecent ==
    ~running /\ digest # Absent =>
        \A f \in Files : Alone(f, begun[f]) \subseteq copy[f] \intersect manifest[f]
=============================================================================
