----------------------------- MODULE RouteState -----------------------------
(***************************************************************************)
(* nmos/route_state.cpp: the file of the saved IS-05 activations, at the   *)
(* grain of its system calls, over a file system with a page cache.        *)
(*                                                                         *)
(* A name of the directory stands for an inode.  Data and directory each   *)
(* have the state every process sees (data, dir) and the state that is on  *)
(* the disk (diskData, diskDir).  The kernel may write either back at any  *)
(* time; fsync does it now.  A power loss leaves what is on the disk.      *)
(*                                                                         *)
(* RouteState::_mutex is held through load and through save, so at most    *)
(* one of them is under way; pc says how far it is.                        *)
(***************************************************************************)
EXTENDS FiniteSets

CONSTANTS
  Legs, Routes, NoRoute,   \* see RouteStore
  Inodes,       \* the inodes of the file system (a bound)
  NoInode,      \* a name that does not exist
  Torn,         \* contents cut short by a write that did not finish
  Foreign       \* contents this program did not write and cannot parse

VARIABLES
  pc,           \* where load or save is; "down" when no process runs
  entries,      \* _entries
  dir, diskDir,     \* name -> inode
  data, diskData,   \* inode -> contents
  synced,       \* history: the routes a save wrote that returned true after a
                \* directory sync that worked, but for the legs saved since
  notMoved      \* history: a broken file could not be renamed

vars == <<pc, entries, dir, diskDir, data, diskData, synced, notMoved>>
fsVars == <<dir, diskDir, data, diskData>>

Names == {"connections.json", "connections.json.tmp", "connections.json.bad"}
File == "connections.json"
Tmp == "connections.json.tmp"
Bad == "connections.json.bad"

Maps == [Legs -> Routes \cup {NoRoute}]
Empty == [l \in Legs |-> NoRoute]
Contents == Maps \cup {Torn, Foreign}

ASSUME RouteAssumption ==
  /\ NoRoute \notin Routes
  /\ NoInode \notin Inodes
  /\ Torn \notin Maps /\ Foreign \notin Maps /\ Torn # Foreign

(***************************************************************************)
(* What load makes of a directory and its data: a missing, empty or        *)
(* invalid file holds no routes.                                           *)
(***************************************************************************)
Parse(d, c) ==
  IF d[File] \in Inodes /\ c[d[File]] \in Maps THEN c[d[File]] ELSE Empty

TypeOK ==
  /\ pc \in {"down", "idle", "open", "write", "fsync", "rename", "syncdir"}
  /\ entries \in Maps
  /\ dir \in [Names -> Inodes \cup {NoInode}]
  /\ diskDir \in [Names -> Inodes \cup {NoInode}]
  /\ data \in [Inodes -> Contents]
  /\ diskData \in [Inodes -> Contents]
  /\ synced \in Maps
  /\ notMoved \in BOOLEAN

(***************************************************************************)
(* A first start, or a directory with a file: an earlier process's, or one *)
(* somebody else broke.                                                    *)
(***************************************************************************)
Init ==
  /\ pc = "down"
  /\ entries = Empty
  /\ \E i \in Inodes \cup {NoInode} :
       dir = [n \in Names |-> IF n = File THEN i ELSE NoInode]
  /\ diskDir = dir
  /\ \E c \in Maps \cup {Foreign} :
       data = [i \in Inodes |-> IF i = dir[File] THEN c ELSE Torn]
  /\ diskData = data
  /\ synced = Empty
  /\ notMoved = FALSE

-----------------------------------------------------------------------------
(* load *)

\* The file is missing or parses: _entries is what it says.
Load ==
  /\ pc = "down"
  /\ dir[File] \in Inodes => data[dir[File]] \in Maps
  /\ pc' = "idle"
  /\ entries' = Parse(dir, data)
  /\ UNCHANGED <<fsVars, synced, notMoved>>

\* Mutant: the broken file is left where the next save writes.
SetAsideForgets ==
  /\ pc = "down"
  /\ dir[File] \in Inodes
  /\ data[dir[File]] \notin Maps
  /\ pc' = "idle"
  /\ entries' = Empty
  /\ UNCHANGED <<fsVars, synced, notMoved>>

\* setAside: a file that does not parse is renamed to .bad; when that fails
\* it stays, and either way the process starts with no routes.
SetAside ==
  /\ pc = "down"
  /\ dir[File] \in Inodes
  /\ data[dir[File]] \notin Maps
  /\ pc' = "idle"
  /\ entries' = Empty
  /\ \/ /\ dir' = [dir EXCEPT ![Bad] = dir[File], ![File] = NoInode]
        /\ UNCHANGED notMoved
     \/ /\ notMoved' = TRUE
        /\ UNCHANGED dir
  /\ UNCHANGED <<diskDir, data, diskData, synced>>

-----------------------------------------------------------------------------
(* save: memory first, then writeLocked *)

\* Mutant: the file is written with the one route that was saved.
SaveAlone(l, r) ==
  /\ pc = "idle"
  /\ pc' = "open"
  /\ entries' = [Empty EXCEPT ![l] = r]
  /\ synced' = [synced EXCEPT ![l] = NoRoute]
  /\ UNCHANGED <<fsVars, notMoved>>

Save(l, r) ==
  /\ pc = "idle"
  /\ pc' = "open"
  /\ entries' = [entries EXCEPT ![l] = r]
  /\ synced' = [synced EXCEPT ![l] = NoRoute]
  /\ UNCHANGED <<fsVars, notMoved>>

\* An error anywhere in writeLocked up to the rename: save returns false and
\* leaves the temporary file as it is.
SaveFails ==
  /\ pc \in {"open", "write", "fsync", "rename"}
  /\ pc' = "idle"
  /\ UNCHANGED <<entries, fsVars, synced, notMoved>>

\* An inode that no name stands for.
Free == Inodes \ ({dir[n] : n \in Names} \cup {diskDir[n] : n \in Names})

\* open(tmp, O_CREAT | O_TRUNC): a left-over temporary file is cut to nothing.
OpenTmp ==
  /\ pc = "open"
  /\ pc' = "write"
  /\ \/ /\ dir[Tmp] \in Inodes
        /\ data' = [data EXCEPT ![dir[Tmp]] = Torn]
        /\ UNCHANGED dir
     \/ /\ dir[Tmp] = NoInode
        /\ \E i \in Free :
             /\ dir' = [dir EXCEPT ![Tmp] = i]
             /\ data' = [data EXCEPT ![i] = Torn]
  /\ UNCHANGED <<entries, diskDir, diskData, synced, notMoved>>

\* The loop of ::write until all of the text is in the file.
WriteTmp ==
  /\ pc = "write"
  /\ pc' = "fsync"
  /\ data' = [data EXCEPT ![dir[Tmp]] = entries]
  /\ UNCHANGED <<entries, dir, diskDir, diskData, synced, notMoved>>

\* Mutant: the data are not flushed before the rename.
FsyncSkipped ==
  /\ pc = "fsync"
  /\ pc' = "rename"
  /\ UNCHANGED <<entries, fsVars, synced, notMoved>>

FsyncTmp ==
  /\ pc = "fsync"
  /\ pc' = "rename"
  /\ diskData' = [diskData EXCEPT ![dir[Tmp]] = data[dir[Tmp]]]
  /\ UNCHANGED <<entries, dir, diskDir, data, synced, notMoved>>

Rename ==
  /\ pc = "rename"
  /\ pc' = "syncdir"
  /\ dir' = [dir EXCEPT ![File] = dir[Tmp], ![Tmp] = NoInode]
  /\ UNCHANGED <<entries, diskDir, data, diskData, synced, notMoved>>

\* syncDirectory, whose failure is ignored; then save returns true.
SyncDirectory ==
  /\ pc = "syncdir"
  /\ pc' = "idle"
  /\ \/ /\ diskDir' = dir
        /\ synced' = entries
     \/ UNCHANGED <<diskDir, synced>>
  /\ UNCHANGED <<entries, dir, data, diskData, notMoved>>

-----------------------------------------------------------------------------
(* The kernel and the power supply *)

\* The kernel writes an inode's data back; from a file that is being written
\* it may have only a part.
WriteBack ==
  /\ \E i \in Inodes \ Free :
       \/ diskData' = [diskData EXCEPT ![i] = data[i]]
       \/ /\ data[i] # diskData[i]
          /\ diskData' = [diskData EXCEPT ![i] = Torn]
  /\ UNCHANGED <<pc, entries, dir, diskDir, data, synced, notMoved>>

\* The kernel writes the directory back: all of it, in one journal entry.
CommitDirectory ==
  /\ diskDir' = dir
  /\ UNCHANGED <<pc, entries, dir, data, diskData, synced, notMoved>>

\* The process is killed at any point; what it did to the files stays.
Kill ==
  /\ pc # "down"
  /\ pc' = "down"
  /\ entries' = Empty
  /\ UNCHANGED <<fsVars, synced, notMoved>>

PowerLoss ==
  /\ pc' = "down"
  /\ entries' = Empty
  /\ dir' = diskDir
  /\ data' = diskData
  /\ UNCHANGED <<diskDir, diskData, synced, notMoved>>

-----------------------------------------------------------------------------
Next ==
  \/ Load
  \/ SetAside
  \/ \E l \in Legs, r \in Routes : Save(l, r)
  \/ SaveFails
  \/ OpenTmp
  \/ WriteTmp
  \/ FsyncTmp
  \/ Rename
  \/ SyncDirectory
  \/ WriteBack
  \/ CommitDirectory
  \/ Kill
  \/ PowerLoss

Spec == Init /\ [][Next]_vars

-----------------------------------------------------------------------------
(* Properties *)

(***************************************************************************)
(* A save that returned true, and whose directory sync worked, survives    *)
(* every later crash and power loss, also one in the middle of a later     *)
(* save of another leg and also after such a save failed (writeLocked      *)
(* writes all of _entries each time).                                      *)
(***************************************************************************)
SavedRouteSurvives ==
  \A l \in Legs : synced[l] # NoRoute =>
    /\ Parse(dir, data)[l] = synced[l]
    /\ Parse(diskDir, diskData)[l] = synced[l]

(***************************************************************************)
(* A file that did not parse is never overwritten: load sets it aside, and *)
(* the next save, which holds one route only, goes to a new file.          *)
(***************************************************************************)
BrokenFileIsKept ==
  [][ \A i \in Inodes :
        data[i] = Foreign /\ (\E n \in {File, Bad} : dir[n] = i) /\ ~notMoved'
          => \E n \in Names : dir'[n] = i /\ data'[i] = Foreign ]_vars

(***************************************************************************)
(* The refinement: with load's view of the two directories for the two     *)
(* maps, the system calls of this module implement RouteStore.             *)
(***************************************************************************)
Store == INSTANCE RouteStore WITH
  file <- Parse(dir, data),
  durable <- Parse(diskDir, diskData)

StoreSpec == Store!StoreSpec
=============================================================================
