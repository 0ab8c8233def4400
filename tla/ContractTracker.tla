-------------------------- MODULE ContractTracker --------------------------
(***************************************************************************)
(* The sticky contract universe of tradier_collector/contract_tracker.py:  *)
(* for every key (a ticker on a trading date) the tracker in memory, its   *)
(* metadata file, the quarantine of damaged files, and the death of the    *)
(* process between any two operations.  A universe is a function from      *)
(* contracts to first_discovered_utc, with 0 for an untracked contract.    *)
(***************************************************************************)
EXTENDS Integers, FiniteSets

CONSTANTS
    Keys,              \* the (ticker, trading date) pairs
    Symbols,           \* the contracts (OCC symbols) of a ticker on a date
    MayFailSave,       \* save may raise OSError
    MayFailRead,       \* reading the metadata may raise OSError
    MayFailQuarantine, \* renaming a damaged file may raise OSError
    MayLosePower,      \* a death may damage a file: nothing is fsynced
    MaxCrashes         \* bound: deaths of the process

ASSUME TrackerAssumption ==
    /\ {MayFailSave, MayFailRead, MayFailQuarantine, MayLosePower} \subseteq BOOLEAN
    /\ MaxCrashes \in Nat

VARIABLES
    loaded,      \* key -> a tracker object exists and has loaded (_loaded)
    mem,         \* key -> _contracts
    disk,        \* key -> the metadata file
    quarantined, \* key -> number of .corrupt-<timestamp> files
    exposed,     \* key -> what symbols() last returned: the contracts requested
    crashes      \* deaths so far

trackerVars == <<loaded, mem, disk, quarantined, exposed, crashes>>

Untracked == [s \in Symbols |-> 0]
Tracked(universe) == {s \in Symbols : universe[s] # 0}

Missing     == [kind |-> "missing", contracts |-> Untracked]
Damaged     == [kind |-> "damaged", contracts |-> Untracked]
Good(first) == [kind |-> "good", contracts |-> first]

Persisted(k) == Tracked(disk[k].contracts)
----------------------------------------------------------------------------
TrackerInit ==
    /\ loaded = [k \in Keys |-> FALSE]
    /\ mem = [k \in Keys |-> Untracked]
    /\ disk = [k \in Keys |-> Missing]
    /\ quarantined = [k \in Keys |-> 0]
    /\ exposed = [k \in Keys |-> {}]
    /\ crashes = 0

\* The trackers of `gone` are dropped from memory and k holds the universe.
Holds(k, universe, gone) ==
    /\ loaded' = [j \in Keys |-> j = k \/ (loaded[j] /\ j \notin gone)]
    /\ mem' = [j \in Keys |-> IF j = k THEN universe
                              ELSE IF j \in gone THEN Untracked ELSE mem[j]]

\* Mutated form: the damaged file is deleted.
QuarantineDeletes(k) ==
    /\ disk' = [disk EXCEPT ![k] = Missing]
    /\ UNCHANGED quarantined

\* _handle_corrupt: the file is renamed, or the rename fails and it stays.
Quarantine(k) ==
    \/ /\ disk' = [disk EXCEPT ![k] = Missing]
       /\ quarantined' = [quarantined EXCEPT ![k] = @ + 1]
    \/ /\ MayFailQuarantine
       /\ UNCHANGED <<disk, quarantined>>

\* Mutated form: a new process starts with an empty universe.
LoadIgnored(k, gone) ==
    /\ disk[k].kind # "damaged"
    /\ Holds(k, Untracked, gone)
    /\ UNCHANGED <<disk, quarantined, exposed, crashes>>

\* load of a new tracker; the trackers of `gone` are forgotten with it.
LoadFound(k, gone) ==
    /\ disk[k].kind # "damaged"
    /\ Holds(k, disk[k].contracts, gone)
    /\ UNCHANGED <<disk, quarantined, exposed, crashes>>

LoadCorrupt(k, gone) ==
    /\ disk[k].kind = "damaged" \/ (MayFailRead /\ disk[k].kind = "good")
    /\ Holds(k, Untracked, gone)
    /\ Quarantine(k)
    /\ UNCHANGED <<exposed, crashes>>

Load(k, gone) == LoadFound(k, gone) \/ LoadCorrupt(k, gone)

New(k, contracts) == {s \in contracts : mem[k][s] = 0}

\* Mutated form: the universe becomes the current window.
WithWindowOnly(k, contracts, stamp) ==
    [s \in Symbols |-> IF s \in New(k, contracts) THEN stamp
                        ELSE IF s \in contracts THEN mem[k][s] ELSE 0]

\* Mutated form: a contract that is discovered again is stamped again.
WithRestamped(k, contracts, stamp) ==
    [s \in Symbols |-> IF s \in contracts THEN stamp ELSE mem[k][s]]

\* The universe with the new contracts stamped; a known one keeps its stamp.
With(k, contracts, stamp) ==
    [s \in Symbols |-> IF s \in New(k, contracts) THEN stamp ELSE mem[k][s]]

\* add_contracts with nothing new: no save.
AddNothing(k, contracts) ==
    /\ New(k, contracts) = {}
    /\ UNCHANGED trackerVars

\* Mutated form: the file is written before the new contracts are in memory.
AddSavedEarly(k, contracts, stamp) ==
    /\ New(k, contracts) # {}
    /\ mem' = [mem EXCEPT ![k] = With(k, contracts, stamp)]
    /\ disk' = [disk EXCEPT ![k] = Good(mem[k])]
    /\ UNCHANGED <<loaded, quarantined, exposed, crashes>>

\* add_contracts with new contracts, memory and file in one step: a death in
\* between leaves what a death before it leaves, and a temporary file nobody reads.
AddSaved(k, contracts, stamp) ==
    /\ New(k, contracts) # {}
    /\ mem' = [mem EXCEPT ![k] = With(k, contracts, stamp)]
    /\ disk' = [disk EXCEPT ![k] = Good(With(k, contracts, stamp))]
    /\ UNCHANGED <<loaded, quarantined, exposed, crashes>>

\* The save raises after the contracts have entered _contracts.
AddUnsaved(k, contracts, stamp) ==
    /\ MayFailSave
    /\ New(k, contracts) # {}
    /\ mem' = [mem EXCEPT ![k] = With(k, contracts, stamp)]
    /\ UNCHANGED <<loaded, disk, quarantined, exposed, crashes>>

\* Mutated form: only the contracts of the latest discovery are handed out.
ExposeNewest(k) ==
    /\ exposed' = [exposed EXCEPT ![k] =
                     {s \in Tracked(mem[k]) : \A r \in Symbols : mem[k][r] <= mem[k][s]}]
    /\ UNCHANGED <<loaded, mem, disk, quarantined, crashes>>

\* symbols: everything tracked is handed out to be quoted.
Expose(k) ==
    /\ exposed' = [exposed EXCEPT ![k] = Tracked(mem[k])]
    /\ UNCHANGED <<loaded, mem, disk, quarantined, crashes>>

\* The process dies; a power failure may truncate a file whose rename had
\* reached the disk before its contents.
Crash ==
    /\ crashes < MaxCrashes
    /\ crashes' = crashes + 1
    /\ loaded' = [k \in Keys |-> FALSE]
    /\ mem' = [k \in Keys |-> Untracked]
    /\ \/ UNCHANGED disk
       \/ /\ MayLosePower
          /\ \E k \in Keys : /\ disk[k].kind = "good"
                             /\ disk' = [disk EXCEPT ![k] = Damaged]
    /\ UNCHANGED <<quarantined, exposed>>
----------------------------------------------------------------------------
(***************************************************************************)
(* Properties of the trackers, whoever calls them.                         *)
(***************************************************************************)
Universes == [Symbols -> Nat]
Files     == [kind : {"missing", "good", "damaged"}, contracts : Universes]

\* Every tracker, file and history of the universes has its type.
TrackerTypeOK ==
    /\ loaded \in [Keys -> BOOLEAN]
    /\ mem \in [Keys -> Universes]
    /\ disk \in [Keys -> Files]
    /\ quarantined \in [Keys -> Nat]
    /\ exposed \in [Keys -> SUBSET Symbols]
    /\ crashes \in Nat

\* The universe a day shows to the outside only grows (I1 and I2).
Sticky == INSTANCE StickyUniverse WITH universe <- exposed
StickySpec == Sticky!Spec

\* Whatever saves fail, files are damaged and processes die, a contract leaves the
\* requests only if it was never saved or its file went first, into the quarantine:
\* what has been quoted and is in the metadata file stays in the requests.
SavedContractsStay ==
    [][\A k \in Keys : exposed[k] \intersect Persisted(k) \subseteq exposed'[k]]_trackerVars

\* The first_discovered_utc of a contract never changes while its metadata file is in
\* place: a rediscovery, or a save after a restart, keeps it.
DiscoveryTimesStay ==
    [][\A k \in Keys :
         disk[k].kind = "good" /\ disk'[k].kind = "good" =>
             \A s \in Persisted(k) : disk'[k].contracts[s] = disk[k].contracts[s]]_trackerVars

\* A damaged metadata file is never overwritten: it leaves its place only for the
\* quarantine (I15).
CorruptFilesPreserved ==
    [][\A k \in Keys : disk[k].kind = "damaged" /\ disk'[k].kind # "damaged" =>
         quarantined'[k] = quarantined[k] + 1]_trackerVars
=============================================================================
