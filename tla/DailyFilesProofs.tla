-------------------------- MODULE DailyFilesProofs --------------------------
(***************************************************************************)
(* What holds of DailyFiles.tla for every number of writers, files, cycles *)
(* and backups.                                                            *)
(***************************************************************************)
EXTENDS DailyFiles, TLAPS

\* What the steps of a backup leave alone.
FileVars == <<closed, writerVars, cycles, deaths, file, temps, acked, raced>>

LEMMA BackupLeavesFiles == Backup => UNCHANGED FileVars
BY DEF Backup, BeginBackup, SkipMissing, Checksum, Store, EndBackup, BackupDies, FileVars,
       historyVars

----------------------------------------------------------------------------
(***************************************************************************)
(* Type correctness.                                                       *)
(***************************************************************************)
LEMMA InitType == Init => TypeOK
<1> SUFFICES ASSUME Init PROVE TypeOK
  OBVIOUS
<1>1. (CHOOSE f \in Files : TRUE) \in Files
  BY DailyFilesAssumption
<1>2. Absent \in [Files -> SUBSET Nat]
  BY DEF Absent
<1> QED BY <1>1, <1>2 DEF Init, TypeOK, Temps, Appending

LEMMA EnvironmentType ==
    ASSUME TypeOK, Close \/ Age
    PROVE  TypeOK'
<1>1. CASE Close
  BY <1>1 DEF Close, TypeOK, Temps, Appending, writerVars, backupVars, historyVars
<1>2. CASE Age
  <2>1. temps' \subseteq Temps
    <3>1. StaleAge \in Nat
      BY DailyFilesAssumption
    <3>2. \A t \in temps :
            [t EXCEPT !.age = IF @ < StaleAge THEN @ + 1 ELSE @] \in Temps
      BY <3>1 DEF TypeOK, Temps
    <3> QED BY <1>2, <3>2 DEF Age
  <2> QED BY <1>2, <2>1 DEF Age, TypeOK, Temps, Appending, writerVars, backupVars, historyVars
<1> QED BY <1>1, <1>2

LEMMA TempOfType ==
    ASSUME TypeOK, NEW w \in Writers
    PROVE  [cycle |-> cycle[w], file |-> path[w], age |-> 0] \in Temps
BY DailyFilesAssumption DEF TypeOK, Temps

LEMMA WriterType ==
    ASSUME TypeOK, NEW w \in Writers, Kill(w) \/ BeginCycle(w) \/ Append(w)
    PROVE  TypeOK'
<1>1. CASE Kill(w)
  BY <1>1 DEF Kill, TypeOK, Appending, backupVars, historyVars
<1>2. CASE BeginCycle(w)
  BY <1>2 DEF BeginCycle, TypeOK, Appending, backupVars, historyVars
<1>3. ASSUME NEW f \in Files, ReadFile(w, f) PROVE TypeOK'
  <2>1. \A v \in Overlapping(w, f) : <<f, cycle[v]>> \in Files \X Nat
    BY DEF Overlapping, TypeOK
  <2>2. raced' \subseteq Files \X Nat
    <3>1. raced' = raced \union {<<f, cycle[v]>> : v \in Overlapping(w, f)}
      BY <1>3 DEF ReadFile
    <3> QED BY <2>1, <3>1 DEF TypeOK
  <2> QED BY <1>3, <2>2 DEF ReadFile, Merged, Stale, TypeOK, Appending, backupVars, historyVars
<1>4. CASE WriteTemp(w)
  BY <1>4, TempOfType DEF WriteTemp, TypeOK, Appending, backupVars, historyVars
<1>5. CASE Replace(w)
  BY <1>5 DEF Replace, Back, TypeOK, Appending, backupVars, historyVars
<1>6. CASE AppendFails(w)
  BY <1>6 DEF AppendFails, Back, TypeOK, Appending, backupVars, historyVars
<1> QED BY <1>1, <1>2, <1>3, <1>4, <1>5, <1>6 DEF Append

LEMMA BackupType ==
    ASSUME TypeOK, Backup
    PROVE  TypeOK'
<1> USE DEF TypeOK, Appending, writerVars, historyVars
<1>0. Absent \in [Files -> SUBSET Nat]
  BY DEF Absent
<1>1. ASSUME NEW force \in BOOLEAN, BeginBackup(force) PROVE TypeOK'
  BY <1>0, <1>1 DEF BeginBackup
<1>2. ASSUME NEW f \in Files, SkipMissing(f) \/ Checksum(f) PROVE TypeOK'
  BY <1>2 DEF SkipMissing, Checksum
<1>3. ASSUME NEW f \in Files, Store(f) PROVE TypeOK'
  BY <1>3 DEF Store, Stored
<1>4. CASE EndBackup \/ BackupDies
  BY <1>0, <1>4 DEF EndBackup, BackupDies
<1> QED BY <1>1, <1>2, <1>3, <1>4 DEF Backup

LEMMA StutterType ==
    ASSUME TypeOK, UNCHANGED vars
    PROVE  TypeOK'
BY DEF vars, writerVars, backupVars, historyVars, TypeOK, Appending

LEMMA NextType == TypeOK /\ [Next]_vars => TypeOK'
BY EnvironmentType, WriterType, BackupType, StutterType DEF Next

\* Every variable keeps its type, in every interleaving of writers and backups.
THEOREM TypeCorrect == Spec => []TypeOK
BY InitType, NextType, PTL DEF Spec

----------------------------------------------------------------------------
(***************************************************************************)
(* Nothing that was acknowledged is lost.                                  *)
(***************************************************************************)
\* Two appends under way on one file overlap, and are noted as overlapping.
OverlapsNoted ==
    \A v, w \in Writers :
        Appending(v) /\ Appending(w) /\ path[v] = path[w] /\ v # w =>
            <<path[w], cycle[w]>> \in raced

\* A table about to replace its file holds every row that the file must keep.
TablesUpToDate ==
    \A w \in Writers : Appending(w) => Alone(path[w], acked[path[w]]) \subseteq table[w]

\* The inductive strengthening of AcknowledgedStays.
FileInv == OverlapsNoted /\ TablesUpToDate /\ AcknowledgedStays

LEMMA InitFile == Init => FileInv
BY DEF Init, FileInv, OverlapsNoted, TablesUpToDate, AcknowledgedStays, Appending, Absent, Alone

LEMMA FileUnchanged ==
    ASSUME FileInv,
           UNCHANGED FileVars \/ Close \/ Age
    PROVE  FileInv'
BY DEF FileVars, Close, Age, writerVars, historyVars, FileInv, OverlapsNoted, TablesUpToDate,
       AcknowledgedStays, Appending, Alone

\* A writer that goes out of an append, or has none, disturbs nobody.
LEMMA FileIdle ==
    ASSUME TypeOK, FileInv, NEW w \in Writers,
           Kill(w) \/ BeginCycle(w) \/ WriteTemp(w) \/ AppendFails(w)
    PROVE  FileInv'
<1>1. /\ \A v \in Writers : Appending(v)' =>
            Appending(v) /\ table'[v] = table[v] /\ cycle'[v] = cycle[v]
      /\ path' = path /\ file' = file /\ acked' = acked /\ raced' = raced
  BY DEF Kill, BeginCycle, WriteTemp, AppendFails, Back, Appending, TypeOK, historyVars
<1> QED BY <1>1 DEF FileInv, OverlapsNoted, TablesUpToDate, AcknowledgedStays, Alone

LEMMA FileRead ==
    ASSUME TypeOK, FileInv, NEW w \in Writers, NEW f \in Files, ReadFile(w, f)
    PROVE  FileInv'
<1>1. /\ ~Appending(w) /\ Appending(w)'
      /\ path'[w] = f /\ table'[w] = file[f] \union {cycle[w]}
      /\ file' = file /\ acked' = acked /\ cycle' = cycle
      /\ raced' = raced \union {<<f, cycle[v]>> : v \in Overlapping(w, f)}
  BY DEF ReadFile, Merged, Appending, TypeOK
<1>2. \A v \in Writers \ {w} :
        Appending(v)' = Appending(v) /\ path'[v] = path[v] /\ table'[v] = table[v]
  BY DEF ReadFile, Appending, TypeOK
<1>3. \A v \in Writers \ {w} :
        Appending(v) /\ path[v] = f => v \in Overlapping(w, f) /\ w \in Overlapping(w, f)
  BY DEF Overlapping
<1>4. OverlapsNoted'
  BY <1>1, <1>2, <1>3 DEF FileInv, OverlapsNoted
<1>5. AcknowledgedStays'
  BY <1>1 DEF FileInv, AcknowledgedStays, Alone
<1>6. TablesUpToDate'
  <2> SUFFICES ASSUME NEW v \in Writers, Appending(v)'
               PROVE  Alone(path[v], acked[path[v]])' \subseteq table'[v]
    BY DEF TablesUpToDate
  <2>1. CASE v = w
    BY <1>1, <2>1 DEF FileInv, AcknowledgedStays, Alone
  <2>2. CASE v # w
    BY <1>1, <1>2, <2>2 DEF FileInv, TablesUpToDate, Alone
  <2> QED BY <2>1, <2>2
<1> QED BY <1>4, <1>5, <1>6 DEF FileInv

LEMMA FileReplace ==
    ASSUME TypeOK, FileInv, NEW w \in Writers, Replace(w)
    PROVE  FileInv'
<1>1. /\ Appending(w) /\ ~Appending(w)'
      /\ path' = path /\ raced' = raced /\ cycle' = cycle
      /\ file' = [file EXCEPT ![path[w]] = table[w]]
      /\ acked' = [acked EXCEPT ![path[w]] = @ \union {cycle[w]}]
  BY DEF Replace, Back, Appending, Live, TypeOK
<1>2. \A v \in Writers \ {w} : Appending(v)' = Appending(v) /\ table'[v] = table[v]
  BY DEF Replace, Back, Appending, TypeOK
<1>3. path[w] \in Files /\ cycle[w] \in table[w]
  BY <1>1 DEF TypeOK
<1>4. acked'[path[w]] = acked[path[w]] \union {cycle[w]}
      /\ \A f \in Files \ {path[w]} : acked'[f] = acked[f] /\ file'[f] = file[f]
  BY <1>1, <1>3 DEF TypeOK
<1>5. OverlapsNoted'
  BY <1>1, <1>2 DEF FileInv, OverlapsNoted
<1>6. TablesUpToDate'
  <2> SUFFICES ASSUME NEW v \in Writers, Appending(v)'
               PROVE  Alone(path[v], acked[path[v]])' \subseteq table'[v]
    BY DEF TablesUpToDate
  <2>1. v # w /\ Appending(v) /\ table'[v] = table[v] /\ path[v] \in Files
    BY <1>1, <1>2 DEF TypeOK
  <2>2. Alone(path[v], acked[path[v]]) \subseteq table[v]
    BY <2>1 DEF FileInv, TablesUpToDate
  <2>3. CASE path[v] = path[w]
    <3>1. <<path[w], cycle[w]>> \in raced
      BY <1>1, <2>1, <2>3 DEF FileInv, OverlapsNoted
    <3> QED BY <1>1, <1>4, <2>1, <2>2, <2>3, <3>1 DEF Alone
  <2>4. CASE path[v] # path[w]
    BY <1>1, <1>4, <2>1, <2>2, <2>4 DEF Alone
  <2> QED BY <2>3, <2>4
<1>7. AcknowledgedStays'
  <2> SUFFICES ASSUME NEW f \in Files PROVE Alone(f, acked[f])' \subseteq file'[f]
    BY DEF AcknowledgedStays
  <2>1. CASE f = path[w]
    <3>1. Alone(f, acked[f]) \subseteq table[w]
      BY <1>1, <2>1 DEF FileInv, TablesUpToDate
    <3>2. file'[f] = table[w]
      BY <1>1, <1>3, <2>1 DEF TypeOK
    <3> QED BY <1>1, <1>3, <1>4, <2>1, <3>1, <3>2 DEF Alone
  <2>2. CASE f # path[w]
    BY <1>1, <1>4, <2>2 DEF FileInv, AcknowledgedStays, Alone
  <2> QED BY <2>1, <2>2
<1> QED BY <1>5, <1>6, <1>7 DEF FileInv

LEMMA NextFile == TypeOK /\ FileInv /\ [Next]_vars => FileInv'
<1> SUFFICES ASSUME TypeOK, FileInv, [Next]_vars PROVE FileInv'
  OBVIOUS
<1>1. CASE Close \/ Age \/ Backup \/ UNCHANGED vars
  BY <1>1, BackupLeavesFiles, FileUnchanged DEF vars, historyVars, FileVars
<1>2. ASSUME NEW w \in Writers, Kill(w) \/ BeginCycle(w) \/ Append(w) PROVE FileInv'
  BY <1>2, FileIdle, FileRead, FileReplace DEF Append
<1> QED BY <1>1, <1>2 DEF Next

\* No row that was stored is ever lost, but by the append that overlapped its own.
THEOREM AcknowledgedIsKept == Spec => []AcknowledgedStays
<1>1. Init => TypeOK /\ FileInv
  BY InitType, InitFile
<1>2. (TypeOK /\ FileInv) /\ [Next]_vars => (TypeOK /\ FileInv)'
  BY NextType, NextFile
<1>3. TypeOK /\ FileInv => AcknowledgedStays
  BY DEF FileInv
<1> QED BY <1>1, <1>2, <1>3, PTL DEF Spec

----------------------------------------------------------------------------
(***************************************************************************)
(* No live writer is disturbed.                                            *)
(***************************************************************************)
\* Two processes never work on cycles of the same name.
CyclesApart ==
    /\ \A w \in Writers : cycle[w] <= cycles
    /\ \A v, w \in Writers : pc[v] # "off" /\ pc[w] # "off" /\ cycle[v] = cycle[w] => v = w

\* The temp file of a live append is there, and too young to be taken for abandoned.
YoungTemps ==
    \A w \in Writers : Live(w) => \E t \in TempsOf(w) : t.age <= MaxWrite

\* The inductive strengthening of WriterUndisturbed.
TempInv == CyclesApart /\ YoungTemps

LEMMA InitTemps == Init => TempInv
BY DEF Init, TempInv, CyclesApart, YoungTemps, Live

LEMMA TempsUnchanged ==
    ASSUME TempInv, UNCHANGED FileVars \/ Close
    PROVE  TempInv'
BY DEF FileVars, Close, writerVars, TempInv, CyclesApart, YoungTemps, TempsOf, Live

LEMMA TempsAge ==
    ASSUME TypeOK, TempInv, Age
    PROVE  TempInv'
<1>1. UNCHANGED <<pc, cycle, path, cycles>>
  BY DEF Age, writerVars
<1>2. CyclesApart'
  BY <1>1 DEF TempInv, CyclesApart
<1>3. YoungTemps'
  <2> SUFFICES ASSUME NEW w \in Writers, Live(w)'
               PROVE  (\E t \in TempsOf(w) : t.age <= MaxWrite)'
    BY DEF YoungTemps
  <2> DEFINE Older(t) == [t EXCEPT !.age = IF @ < StaleAge THEN @ + 1 ELSE @]
  <2>1. Live(w)
    BY <1>1 DEF Live
  <2>2. PICK t \in TempsOf(w) : t.age <= MaxWrite
    BY <2>1 DEF TempInv, YoungTemps
  <2>3. t \in temps /\ t.age < MaxWrite
    BY <2>1, <2>2 DEF Age, TempsOf, Live
  <2>4. t \in Temps /\ MaxWrite \in Nat /\ StaleAge \in Nat
    BY <2>3, DailyFilesAssumption DEF TypeOK
  <2>5. /\ Older(t).age <= MaxWrite
        /\ Older(t).cycle = t.cycle /\ Older(t).file = t.file
    <3>1. /\ Older(t).cycle = t.cycle /\ Older(t).file = t.file
          /\ Older(t).age = IF t.age < StaleAge THEN t.age + 1 ELSE t.age
      BY <2>4 DEF Temps
    <3> HIDE DEF Older
    <3> QED BY <2>3, <2>4, <3>1 DEF Temps
  <2>6. Older(t) \in temps'
    BY <2>3 DEF Age
  <2> HIDE DEF Older
  <2>7. Older(t) \in TempsOf(w)'
    BY <1>1, <2>2, <2>5, <2>6 DEF TempsOf
  <2> QED BY <2>5, <2>7
<1> QED BY <1>2, <1>3 DEF TempInv

LEMMA TempsCycle ==
    ASSUME TypeOK, TempInv, NEW w \in Writers, Kill(w) \/ BeginCycle(w)
    PROVE  TempInv'
<1>1. CASE Kill(w)
  BY <1>1 DEF Kill, TypeOK, TempInv, CyclesApart, YoungTemps, TempsOf, Live
<1>2. CASE BeginCycle(w)
  <2>1. CyclesApart'
    BY <1>2 DEF BeginCycle, TypeOK, TempInv, CyclesApart
  <2>2. YoungTemps'
    BY <1>2 DEF BeginCycle, TypeOK, TempInv, YoungTemps, TempsOf, Live
  <2> QED BY <2>1, <2>2 DEF TempInv
<1> QED BY <1>1, <1>2

LEMMA TempsRead ==
    ASSUME TypeOK, TempInv, NEW w \in Writers, NEW f \in Files, ReadFile(w, f)
    PROVE  TempInv'
<1>1. CyclesApart'
  BY DEF ReadFile, TypeOK, TempInv, CyclesApart
<1>2. YoungTemps'
  <2> SUFFICES ASSUME NEW v \in Writers, Live(v)'
               PROVE  (\E t \in TempsOf(v) : t.age <= MaxWrite)'
    BY DEF YoungTemps
  <2>1. v # w /\ Live(v) /\ path'[v] = path[v] /\ cycle' = cycle
    BY DEF ReadFile, TypeOK, Live
  <2>2. PICK t \in TempsOf(v) : t.age <= MaxWrite
    BY <2>1 DEF TempInv, YoungTemps
  <2>3. t \in Temps
    BY <2>2 DEF TempsOf, TypeOK
  <2>4. t \notin Stale(f)
    BY <2>2, <2>3, DailyFilesAssumption DEF Stale, Temps
  <2>5. t \in TempsOf(v)'
    BY <2>1, <2>2, <2>4 DEF ReadFile, TempsOf
  <2> QED BY <2>2, <2>5
<1> QED BY <1>1, <1>2 DEF TempInv

LEMMA TempsWrite ==
    ASSUME TypeOK, TempInv, NEW w \in Writers, WriteTemp(w)
    PROVE  TempInv'
<1> DEFINE new == [cycle |-> cycle[w], file |-> path[w], age |-> 0]
<1>1. CyclesApart'
  BY DEF WriteTemp, TypeOK, TempInv, CyclesApart
<1>2. YoungTemps'
  <2> SUFFICES ASSUME NEW v \in Writers, Live(v)'
               PROVE  (\E t \in TempsOf(v) : t.age <= MaxWrite)'
    BY DEF YoungTemps
  <2>1. cycle' = cycle /\ path' = path /\ temps \subseteq temps' /\ new \in temps'
    BY DEF WriteTemp
  <2>2. CASE v = w
    <3>1. new \in TempsOf(v)'
      BY <2>1, <2>2 DEF TempsOf
    <3>2. new.age <= MaxWrite
      BY DailyFilesAssumption
    <3> QED BY <3>1, <3>2
  <2>3. CASE v # w
    <3>1. Live(v)
      BY <2>3 DEF WriteTemp, TypeOK, Live
    <3> QED BY <2>1, <3>1 DEF TempInv, YoungTemps, TempsOf
  <2> QED BY <2>2, <2>3
<1> QED BY <1>1, <1>2 DEF TempInv

LEMMA TempsRemoved ==
    ASSUME TypeOK, TempInv, NEW w \in Writers, Replace(w) \/ AppendFails(w)
    PROVE  TempInv'
<1>1. /\ pc[w] # "off" /\ ~Live(w)'
      /\ \A v \in Writers \ {w} : pc'[v] = pc[v]
      /\ cycle' = cycle /\ path' = path /\ cycles' = cycles
      /\ temps' = temps \ TempsOf(w)
  BY DEF Replace, AppendFails, Back, Appending, Live, TypeOK
<1>2. CyclesApart'
  BY <1>1 DEF TempInv, CyclesApart
<1>3. YoungTemps'
  <2> SUFFICES ASSUME NEW v \in Writers, Live(v)'
               PROVE  (\E t \in TempsOf(v) : t.age <= MaxWrite)'
    BY DEF YoungTemps
  <2>1. v # w /\ Live(v)
    BY <1>1 DEF Live
  <2>2. cycle[v] # cycle[w]
    BY <1>1, <2>1 DEF TempInv, CyclesApart, Live
  <2>3. TempsOf(v) \subseteq TempsOf(v)'
    BY <1>1, <2>2 DEF TempsOf
  <2> QED BY <2>1, <2>3 DEF TempInv, YoungTemps
<1> QED BY <1>2, <1>3 DEF TempInv

LEMMA NextTemps == TypeOK /\ TempInv /\ [Next]_vars => TempInv'
<1> SUFFICES ASSUME TypeOK, TempInv, [Next]_vars PROVE TempInv'
  OBVIOUS
<1>1. CASE Close \/ Backup \/ UNCHANGED vars
  BY <1>1, BackupLeavesFiles, TempsUnchanged DEF vars, historyVars, FileVars
<1>2. CASE Age
  BY <1>2, TempsAge
<1>3. ASSUME NEW w \in Writers, Kill(w) \/ BeginCycle(w) \/ Append(w) PROVE TempInv'
  BY <1>3, TempsCycle, TempsRead, TempsWrite, TempsRemoved DEF Append
<1> QED BY <1>1, <1>2, <1>3 DEF Next

\* The cleaning of temp files never takes one that a live append is about to move
\* into place, however many processes append: MaxWrite < StaleAge is all it needs.
THEOREM WritersAreUndisturbed == Spec => []WriterUndisturbed
<1>1. Init => TypeOK /\ TempInv
  BY InitType, InitTemps
<1>2. (TypeOK /\ TempInv) /\ [Next]_vars => (TypeOK /\ TempInv)'
  BY NextType, NextTemps
<1>3. TypeOK /\ TempInv => WriterUndisturbed
  BY DEF TempInv, YoungTemps, WriterUndisturbed, Live
<1> QED BY <1>1, <1>2, <1>3, PTL DEF Spec

----------------------------------------------------------------------------
(***************************************************************************)
(* An undisturbed backup is the day.                                       *)
(***************************************************************************)
\* What a running backup has done, as long as no file was replaced under it.
BackupSoFar ==
    /\ \A f, g \in checked : f = g
    /\ \A f \in todo : digest[f] = {}
    /\ \A f \in Files \ todo :
         /\ digest[f] = file[f]
         /\ f \notin checked /\ file[f] # {} => copy[f] = file[f]

\* What it leaves when it ended.
BackupDone ==
    \A f \in Files : file[f] # {} => manifest[f] = file[f] /\ copy[f] = file[f]

\* The inductive strengthening of BackupFaithful.
BackupInv ==
    touched = {} => /\ running => BackupSoFar
                    /\ ~running /\ digest # Absent => BackupDone

LEMMA InitBackup == Init => BackupInv
BY DEF Init, BackupInv

\* A step of a writer replaces a file, and says so, or leaves all files as they are.
LEMMA BackupUndisturbed ==
    ASSUME TypeOK, BackupInv,
           \/ Close \/ Age \/ UNCHANGED vars
           \/ \E w \in Writers : Kill(w) \/ BeginCycle(w) \/ Append(w)
    PROVE  BackupInv'
<1>1. UNCHANGED backupVars
  BY DEF Close, Age, vars, Kill, BeginCycle, Append, ReadFile, WriteTemp, Replace, AppendFails
<1>2. \/ touched' # {}
      \/ file' = file /\ touched' = touched
  BY DEF Close, Age, vars, Kill, BeginCycle, Append, ReadFile, WriteTemp, Replace, AppendFails,
         historyVars
<1>3. ASSUME touched' = {} PROVE file' = file /\ touched' = touched
  BY <1>2, <1>3
<1> QED BY <1>1, <1>3 DEF backupVars, BackupInv, BackupSoFar, BackupDone

LEMMA BackupBegins ==
    ASSUME NEW force \in BOOLEAN, BeginBackup(force)
    PROVE  BackupInv'
BY DEF BeginBackup, BackupInv, BackupSoFar, Absent

LEMMA BackupGoesOn ==
    ASSUME TypeOK, BackupInv, NEW f \in Files, SkipMissing(f) \/ Checksum(f) \/ Store(f)
    PROVE  BackupInv'
<1>1. touched' = touched /\ file' = file /\ running /\ running'
  BY DEF SkipMissing, Checksum, Store, historyVars
<1> SUFFICES ASSUME touched = {}, BackupSoFar PROVE BackupSoFar'
  BY <1>1 DEF BackupInv
<1>2. CASE SkipMissing(f)
  <2>1. /\ file[f] = {} /\ todo' = todo \ {f} /\ checked' = {}
        /\ checked = {} /\ digest' = digest /\ copy' = copy
    BY <1>2 DEF SkipMissing
  <2>2. digest[f] = {}
    BY <1>2 DEF SkipMissing, BackupSoFar
  <2> QED BY <1>1, <2>1, <2>2 DEF BackupSoFar
<1>3. CASE Checksum(f)
  <2>1. /\ todo' = todo \ {f} /\ checked = {} /\ checked' = {f} /\ copy' = copy
        /\ digest' = [digest EXCEPT ![f] = file[f]]
    BY <1>3 DEF Checksum
  <2>2. digest'[f] = file[f] /\ \A g \in Files \ {f} : digest'[g] = digest[g]
    BY <2>1 DEF TypeOK
  <2> QED BY <1>1, <2>1, <2>2 DEF BackupSoFar
<1>4. CASE Store(f)
  <2>1. /\ f \in checked /\ checked' = {} /\ todo' = todo /\ digest' = digest
        /\ copy' = [copy EXCEPT ![f] = file[f]]
    BY <1>4 DEF Store, Stored
  <2>2. copy'[f] = file[f] /\ \A g \in Files \ {f} : copy'[g] = copy[g]
    BY <2>1 DEF TypeOK
  <2>3. checked = {f}
    BY <2>1 DEF BackupSoFar
  <2> QED BY <1>1, <2>1, <2>2, <2>3 DEF BackupSoFar
<1> QED BY <1>2, <1>3, <1>4

LEMMA BackupEnds ==
    ASSUME TypeOK, BackupInv, EndBackup \/ BackupDies
    PROVE  BackupInv'
<1>1. ~running' /\ touched' = touched /\ file' = file /\ copy' = copy
  BY DEF EndBackup, BackupDies, historyVars
<1>2. CASE EndBackup
  <2> SUFFICES ASSUME touched = {}, digest # Absent, NEW f \in Files, file[f] # {}
               PROVE  manifest'[f] = file[f] /\ copy[f] = file[f]
    BY <1>1, <1>2 DEF BackupInv, BackupDone, EndBackup
  <2>1. BackupSoFar /\ todo = {} /\ checked = {} /\ manifest' = digest
    BY <1>2 DEF EndBackup, BackupInv
  <2> QED BY <2>1 DEF BackupSoFar
<1>3. CASE BackupDies
  BY <1>1, <1>3 DEF BackupDies, BackupInv, Absent
<1> QED BY <1>2, <1>3

LEMMA NextBackup == TypeOK /\ BackupInv /\ [Next]_vars => BackupInv'
BY BackupUndisturbed, BackupBegins, BackupGoesOn, BackupEnds DEF Next, Backup

\* A backup that ended while no file was replaced has a copy of every file and the
\* checksum of each, whatever earlier backups died half-way.
THEOREM UndisturbedBackupIsFaithful == Spec => []BackupFaithful
<1>1. Init => TypeOK /\ BackupInv
  BY InitType, InitBackup
<1>2. (TypeOK /\ BackupInv) /\ [Next]_vars => (TypeOK /\ BackupInv)'
  BY NextType, NextBackup
<1>3. TypeOK /\ BackupInv => BackupFaithful
  BY DEF BackupInv, BackupDone, BackupFaithful
<1> QED BY <1>1, <1>2, <1>3, PTL DEF Spec
----------------------------------------------------------------------------
(***************************************************************************)
(* A disturbed backup lacks at most what was written while it ran.         *)
(***************************************************************************)
\* The rows of f that a backup owes: acknowledged before it began, and in no race.
Owed(f) == Alone(f, begun[f])

\* What a running backup has taken of the rows it owes.
OwedSoFar ==
    \A f \in Files \ todo :
        /\ Owed(f) \subseteq digest[f]
        /\ f \notin checked => Owed(f) \subseteq copy[f]

\* The inductive strengthening of BackupIsRecent, relative to AcknowledgedStays.
RecentInv ==
    /\ \A f \in Files : begun[f] \subseteq acked[f]
    /\ \A f, g \in checked : f = g
    /\ running => OwedSoFar
    /\ BackupIsRecent

LEMMA InitRecent == Init => RecentInv
BY DEF Init, RecentInv, BackupIsRecent, Absent

\* The files hold what a backup owes, whenever it comes to look at them.
LEMMA OwedIsStored ==
    ASSUME AcknowledgedStays, RecentInv, NEW f \in Files
    PROVE  Owed(f) \subseteq file[f]
BY DEF AcknowledgedStays, RecentInv, Owed, Alone

\* Writers only add to the rows acknowledged and to the rows that raced.
LEMMA RecentUndisturbed ==
    ASSUME TypeOK, RecentInv,
           \/ Close \/ Age \/ UNCHANGED vars
           \/ \E w \in Writers : Kill(w) \/ BeginCycle(w) \/ Append(w)
    PROVE  RecentInv'
<1> USE DEF Close, Age, vars, Kill, BeginCycle, Append, ReadFile, WriteTemp, Replace,
            AppendFails, historyVars
<1>1. UNCHANGED backupVars /\ begun' = begun /\ raced \subseteq raced'
  OBVIOUS
<1>2. \A f \in Files : acked[f] \subseteq acked'[f]
  <2>1. CASE acked' = acked
    BY <2>1
  <2>2. CASE \E w \in Writers : Replace(w)
    BY <2>2 DEF TypeOK
  <2> QED BY <2>1, <2>2
<1>3. \A f \in Files : Owed(f)' \subseteq Owed(f)
  BY <1>1 DEF Owed, Alone
<1>4. (running => OwedSoFar)'
  BY <1>1, <1>3 DEF RecentInv, OwedSoFar, backupVars
<1>5. BackupIsRecent'
  BY <1>1, <1>3 DEF RecentInv, BackupIsRecent, Owed, backupVars
<1> QED BY <1>1, <1>2, <1>4, <1>5 DEF RecentInv, backupVars

LEMMA RecentBegins ==
    ASSUME NEW force \in BOOLEAN, BeginBackup(force)
    PROVE  RecentInv'
BY DEF BeginBackup, RecentInv, OwedSoFar, BackupIsRecent

LEMMA RecentGoesOn ==
    ASSUME TypeOK, AcknowledgedStays, RecentInv, NEW f \in Files,
           SkipMissing(f) \/ Checksum(f) \/ Store(f)
    PROVE  RecentInv'
<1>1. UNCHANGED <<historyVars, file, running>> /\ running
  BY DEF SkipMissing, Checksum, Store
<1>2. OwedSoFar /\ Owed(f) \subseteq file[f] /\ \A g \in Files : Owed(g)' = Owed(g)
  BY <1>1, OwedIsStored DEF RecentInv, Owed, Alone, historyVars
<1>3. OwedSoFar' /\ (\A g, h \in checked : g = h)'
  <2>1. CASE SkipMissing(f)
    <3>1. /\ file[f] = {} /\ todo' = todo \ {f} /\ checked' = checked
          /\ digest' = digest /\ copy' = copy
      BY <2>1 DEF SkipMissing
    <3> QED BY <1>2, <3>1 DEF OwedSoFar, RecentInv
  <2>2. CASE Checksum(f)
    <3>1. /\ todo' = todo \ {f} /\ checked = {} /\ checked' = {f} /\ copy' = copy
          /\ digest' = [digest EXCEPT ![f] = file[f]]
      BY <2>2 DEF Checksum
    <3>2. digest'[f] = file[f] /\ \A g \in Files \ {f} : digest'[g] = digest[g]
      BY <3>1 DEF TypeOK
    <3> QED BY <1>2, <3>1, <3>2 DEF OwedSoFar
  <2>3. CASE Store(f)
    <3>1. /\ f \in checked /\ checked' = {} /\ todo' = todo /\ digest' = digest
          /\ copy' = [copy EXCEPT ![f] = file[f]]
      BY <2>3 DEF Store, Stored
    <3>2. copy'[f] = file[f] /\ \A g \in Files \ {f} : copy'[g] = copy[g]
      BY <3>1 DEF TypeOK
    <3>3. checked = {f}
      BY <3>1 DEF RecentInv
    <3> QED BY <1>2, <3>1, <3>2, <3>3 DEF OwedSoFar
  <2> QED BY <2>1, <2>2, <2>3
<1> QED BY <1>1, <1>3 DEF RecentInv, BackupIsRecent, historyVars

LEMMA RecentEnds ==
    ASSUME TypeOK, RecentInv, EndBackup \/ BackupDies
    PROVE  RecentInv'
<1>1. /\ ~running' /\ UNCHANGED historyVars /\ copy' = copy
      /\ checked' = {}
  BY DEF EndBackup, BackupDies
<1>2. BackupIsRecent'
  <2>1. CASE EndBackup
    <3> SUFFICES ASSUME digest # Absent, NEW f \in Files
                 PROVE  Owed(f) \subseteq copy[f] \intersect manifest'[f]
      BY <1>1, <2>1 DEF BackupIsRecent, EndBackup, Owed, Alone, historyVars
    <3>1. OwedSoFar /\ todo = {} /\ checked = {} /\ manifest' = digest
      BY <2>1 DEF EndBackup, RecentInv
    <3> QED BY <3>1 DEF OwedSoFar
  <2>2. CASE BackupDies
    BY <2>2 DEF BackupDies, BackupIsRecent, Absent
  <2> QED BY <2>1, <2>2
<1> QED BY <1>1, <1>2 DEF RecentInv, historyVars

LEMMA NextRecent ==
    TypeOK /\ AcknowledgedStays /\ RecentInv /\ [Next]_vars => RecentInv'
BY RecentUndisturbed, RecentBegins, RecentGoesOn, RecentEnds DEF Next, Backup

\* Every row acknowledged before a backup began is in its copies and in what its
\* manifest describes once it ended, however many writers went on beside it: what a
\* backup of a day "taken for complete" may lack is of the cycle still in flight.
THEOREM EndedBackupsAreRecent == Spec => []BackupIsRecent
<1>1. Init => TypeOK /\ FileInv /\ RecentInv
  BY InitType, InitFile, InitRecent
<1>2. (TypeOK /\ FileInv /\ RecentInv) /\ [Next]_vars
        => (TypeOK /\ FileInv /\ RecentInv)'
  BY NextType, NextFile, NextRecent DEF FileInv
<1>3. TypeOK /\ FileInv /\ RecentInv => BackupIsRecent
  BY DEF RecentInv
<1> QED BY <1>1, <1>2, <1>3, PTL DEF Spec
=============================================================================
