-------------------------- MODULE RouteStateProofs --------------------------
(***************************************************************************)
(* Proofs about RouteState for every set of legs, routes and inodes: a     *)
(* saved route survives crashes, and the system calls implement the        *)
(* atomic store of RouteStore.                                             *)
(*                                                                         *)
(* The inductive invariant says which inodes may be written: the one named *)
(* by .tmp, which is never the one that either directory calls             *)
(* connections.json; and that the latter's data are on the disk.           *)
(***************************************************************************)
EXTENDS RouteState, TLAPS

\* Two names never stand for one inode, in memory or on the disk.
OneName(d) ==
  \A m, n \in Names : d[m] \in Inodes /\ d[m] = d[n] => m = n

\* The file of a directory is on the disk and is not the one being written.
Settled(d) ==
  d[File] \in Inodes => data[d[File]] = diskData[d[File]] /\ d[File] # dir[Tmp]

\* What save has done so far is in the temporary file.
Progress ==
  /\ pc \in {"write", "fsync", "rename"} => dir[Tmp] \in Inodes
  /\ pc \in {"fsync", "rename"} => data[dir[Tmp]] = entries
  /\ pc = "rename" => diskData[dir[Tmp]] = entries
  /\ pc = "syncdir" => dir[File] \in Inodes /\ data[dir[File]] = entries

\* A running process's memory has every route that was saved.
Remembered ==
  pc # "down" => \A l \in Legs : synced[l] # NoRoute => entries[l] = synced[l]

FsInv ==
  /\ TypeOK
  /\ OneName(dir) /\ OneName(diskDir)
  /\ Settled(dir) /\ Settled(diskDir)
  /\ Progress

Inv == FsInv /\ Remembered /\ SavedRouteSurvives

-----------------------------------------------------------------------------
\* The three names are different, and the only ones.
LEMMA NamesDiffer ==
  /\ Names = {File, Tmp, Bad}
  /\ File # Tmp /\ File # Bad /\ Tmp # Bad
BY DEF Names, File, Tmp, Bad

\* The empty map is a map, and parsing returns a map.
LEMMA EmptyIsMap == Empty \in Maps
BY DEF Empty, Maps

\* Whatever the file holds, parsing gives a map.
LEMMA ParseIsMap ==
  ASSUME NEW d, NEW c
  PROVE  Parse(d, c) \in Maps
BY EmptyIsMap DEF Parse

\* Parsing looks at nothing but the file's inode.
LEMMA ParseSame ==
  ASSUME NEW d, NEW c, NEW e, NEW f,
         d[File] = e[File],
         d[File] \in Inodes => c[d[File]] = f[d[File]]
  PROVE  Parse(d, c) = Parse(e, f)
BY DEF Parse

-----------------------------------------------------------------------------
\* The first state is well typed.
LEMMA TypeInit == Init => TypeOK
<1> SUFFICES ASSUME Init PROVE TypeOK
  OBVIOUS
<1> PICK i \in Inodes \cup {NoInode} :
         dir = [n \in Names |-> IF n = File THEN i ELSE NoInode]
  BY DEF Init
<1> PICK c \in Maps \cup {Foreign} :
         data = [j \in Inodes |-> IF j = dir[File] THEN c ELSE Torn]
  BY DEF Init
<1>1. dir \in [Names -> Inodes \cup {NoInode}] /\ data \in [Inodes -> Contents]
  BY DEF Contents
<1>2. notMoved \in BOOLEAN
  BY DEF Init
<1> QED BY <1>1, <1>2, EmptyIsMap DEF Init, TypeOK

\* No save is under way at first.
LEMMA FsInit == Init => FsInv
<1> SUFFICES ASSUME Init PROVE FsInv
  OBVIOUS
<1>1. TypeOK
  BY TypeInit
<1>2. OneName(dir) /\ OneName(diskDir)
  BY NamesDiffer, RouteAssumption DEF Init, OneName
<1>3. Settled(dir) /\ Settled(diskDir)
  BY NamesDiffer, RouteAssumption DEF Init, Settled
<1>4. Progress
  BY DEF Init, Progress
<1> QED BY <1>1, <1>2, <1>3, <1>4 DEF FsInv

\* Every step keeps the types.
LEMMA TypeStep == TypeOK /\ [Next]_vars => TypeOK'
<1> SUFFICES ASSUME TypeOK, [Next]_vars PROVE TypeOK'
  OBVIOUS
<1> USE RouteAssumption, EmptyIsMap, NamesDiffer DEF TypeOK
<1>1. CASE Load
  BY <1>1, ParseIsMap DEF Load, fsVars
<1>2. CASE SetAside
  BY <1>2 DEF SetAside
<1>3. ASSUME NEW l \in Legs, NEW r \in Routes, Save(l, r) PROVE TypeOK'
  BY <1>3 DEF Save, fsVars, Maps
<1>4. CASE SaveFails
  BY <1>4 DEF SaveFails, fsVars
<1>5. CASE OpenTmp
  BY <1>5 DEF OpenTmp, Contents, Free
<1>6. CASE WriteTmp
  BY <1>6 DEF WriteTmp, Contents
<1>7. CASE FsyncTmp
  <2>1. CASE dir[Tmp] \in Inodes
    BY <1>7, <2>1 DEF FsyncTmp
  <2>2. CASE dir[Tmp] \notin Inodes
    BY <1>7, <2>2 DEF FsyncTmp
  <2> QED BY <2>1, <2>2
<1>8. CASE Rename
  BY <1>8 DEF Rename
<1>9. CASE SyncDirectory
  BY <1>9 DEF SyncDirectory
<1>10. CASE WriteBack
  BY <1>10 DEF WriteBack, Contents
<1>11. CASE CommitDirectory
  BY <1>11 DEF CommitDirectory
<1>12. CASE Kill
  BY <1>12 DEF Kill, fsVars
<1>13. CASE PowerLoss
  BY <1>13 DEF PowerLoss
<1>14. CASE UNCHANGED vars
  BY <1>14 DEF vars
<1> QED BY <1>1, <1>2, <1>3, <1>4, <1>5, <1>6, <1>7, <1>8, <1>9, <1>10,
           <1>11, <1>12, <1>13, <1>14 DEF Next

\* Every step keeps the rules about the file system.
LEMMA FsStep == FsInv /\ [Next]_vars => FsInv'
<1> SUFFICES ASSUME FsInv, [Next]_vars PROVE FsInv'
  OBVIOUS
<1>0. TypeOK'
  BY TypeStep DEF FsInv
<1> DEFINE Rest == /\ OneName(dir) /\ OneName(diskDir)
                   /\ Settled(dir) /\ Settled(diskDir) /\ Progress
<1> SUFFICES Rest'
  BY <1>0 DEF FsInv
<1> USE RouteAssumption, NamesDiffer
<1> USE DEF FsInv, TypeOK, OneName, Settled, Progress
<1>1. CASE Load
  BY <1>1 DEF Load, fsVars
<1>2. CASE SetAside
  BY <1>2 DEF SetAside
<1>3. ASSUME NEW l \in Legs, NEW r \in Routes, Save(l, r) PROVE Rest'
  BY <1>3 DEF Save, fsVars
<1>4. CASE SaveFails
  BY <1>4 DEF SaveFails, fsVars
<1>5. CASE OpenTmp
  <2>1. CASE dir[Tmp] \in Inodes
    BY <1>5, <2>1 DEF OpenTmp
  <2>2. CASE dir[Tmp] = NoInode
    <3> PICK i \in Free : /\ dir' = [dir EXCEPT ![Tmp] = i]
                          /\ data' = [data EXCEPT ![i] = Torn]
      BY <1>5, <2>2 DEF OpenTmp
    <3>1. i \in Inodes /\ \A n \in Names : dir[n] # i /\ diskDir[n] # i
      BY DEF Free
    <3>2. UNCHANGED <<diskDir, diskData>> /\ pc' = "write"
      BY <1>5 DEF OpenTmp
    <3>3. OneName(dir)' /\ OneName(diskDir)'
      BY <3>1, <3>2
    <3>4. Settled(dir)' /\ Settled(diskDir)'
      BY <3>1, <3>2
    <3>5. Progress'
      BY <3>1, <3>2
    <3> QED BY <3>3, <3>4, <3>5
  <2> QED BY <2>1, <2>2
<1>6. CASE WriteTmp
  BY <1>6 DEF WriteTmp
<1>7. CASE FsyncTmp
  BY <1>7 DEF FsyncTmp
<1>8. CASE Rename
  BY <1>8 DEF Rename
<1>9. CASE SyncDirectory
  BY <1>9 DEF SyncDirectory
<1>10. CASE WriteBack
  BY <1>10 DEF WriteBack
<1>11. CASE CommitDirectory
  BY <1>11 DEF CommitDirectory
<1>12. CASE Kill
  BY <1>12 DEF Kill, fsVars
<1>13. CASE PowerLoss
  BY <1>13 DEF PowerLoss
<1>14. CASE UNCHANGED vars
  BY <1>14 DEF vars
<1> QED BY <1>1, <1>2, <1>3, <1>4, <1>5, <1>6, <1>7, <1>8, <1>9, <1>10,
           <1>11, <1>12, <1>13, <1>14 DEF Next

-----------------------------------------------------------------------------
\* The map a load would return now, and the one after a power loss.
Now == Parse(dir, data)
Disk == Parse(diskDir, diskData)

\* A step of writeDurably or of the kernel that changes what no load sees.
Quiet == SaveFails \/ OpenTmp \/ WriteTmp \/ FsyncTmp \/ WriteBack

\* Loading: memory becomes the map of the file.
LEMMA LoadViews ==
  ASSUME FsInv, Load \/ SetAside
  PROVE  entries' = Now /\ Now' = Now /\ Disk' = Disk
<1> USE NamesDiffer, RouteAssumption DEF FsInv, TypeOK, Now, Disk
<1>1. CASE Load
  BY <1>1 DEF Load, fsVars
<1>2. CASE SetAside
  <2>1. Now = Empty /\ UNCHANGED Disk /\ entries' = Empty
    BY <1>2 DEF SetAside, Parse
  <2>2. dir'[File] = dir[File] \/ dir'[File] = NoInode
    BY <1>2 DEF SetAside
  <2>3. Now' = Empty
    BY <1>2, <2>2 DEF SetAside, Parse
  <2> QED BY <2>1, <2>3
<1> QED BY <1>1, <1>2

\* Quiet steps leave all three maps alone.
LEMMA QuietViews ==
  ASSUME FsInv, Quiet
  PROVE  entries' = entries /\ Now' = Now /\ Disk' = Disk
<1> USE NamesDiffer, RouteAssumption DEF FsInv, TypeOK, Settled
<1>1. CASE SaveFails
  BY <1>1 DEF SaveFails, fsVars, Now, Disk
<1>2. CASE OpenTmp
  <2>1. dir'[File] = dir[File] /\ UNCHANGED <<entries, diskDir, diskData>>
    BY <1>2 DEF OpenTmp
  <2>2. dir[File] \in Inodes => data'[dir[File]] = data[dir[File]]
    <3>1. CASE dir[Tmp] \in Inodes
      BY <1>2, <3>1 DEF OpenTmp
    <3>2. CASE dir[Tmp] = NoInode
      BY <1>2, <3>2 DEF OpenTmp, Free
    <3> QED BY <3>1, <3>2
  <2> QED BY <2>1, <2>2 DEF Now, Disk, Parse
<1>3. CASE WriteTmp
  <2>1. UNCHANGED <<entries, dir, diskDir, diskData>>
    BY <1>3 DEF WriteTmp
  <2>2. dir[File] \in Inodes => data'[dir[File]] = data[dir[File]]
    BY <1>3 DEF WriteTmp
  <2> QED BY <2>1, <2>2 DEF Now, Disk, Parse
<1>4. CASE FsyncTmp
  <2>1. UNCHANGED <<entries, dir, diskDir, data>>
    BY <1>4 DEF FsyncTmp
  <2>2. diskDir[File] \in Inodes => diskData'[diskDir[File]] = diskData[diskDir[File]]
    BY <1>4 DEF FsyncTmp
  <2> QED BY <2>1, <2>2 DEF Now, Disk, Parse
<1>5. CASE WriteBack
  <2>1. UNCHANGED <<entries, dir, diskDir, data>>
    BY <1>5 DEF WriteBack
  <2>2. diskDir[File] \in Inodes => diskData'[diskDir[File]] = diskData[diskDir[File]]
    BY <1>5 DEF WriteBack
  <2> QED BY <2>1, <2>2 DEF Now, Disk, Parse
<1> QED BY <1>1, <1>2, <1>3, <1>4, <1>5 DEF Quiet

\* The rename publishes memory, all at once.
LEMMA RenameViews ==
  ASSUME FsInv, Rename
  PROVE  entries' = entries /\ Now' = entries /\ Disk' = Disk
<1> USE NamesDiffer, RouteAssumption DEF FsInv, TypeOK, Progress
<1>1. dir'[File] = dir[Tmp] /\ dir[Tmp] \in Inodes /\ data[dir[Tmp]] = entries
  BY DEF Rename
<1>2. UNCHANGED <<entries, data, diskDir, diskData>>
  BY DEF Rename
<1> QED BY <1>1, <1>2 DEF Now, Disk, Parse

\* Writing the directory back brings the disk to the published map.
LEMMA CommitViews ==
  ASSUME FsInv, diskDir' = dir, UNCHANGED <<entries, dir, data, diskData>>
  PROVE  entries' = entries /\ Now' = Now /\ Disk' = Now
BY DEF FsInv, Settled, Now, Disk, Parse

\* After the rename the file holds memory.
LEMMA PublishedIsMemory ==
  ASSUME FsInv, pc = "syncdir"
  PROVE  Now = entries
BY DEF FsInv, TypeOK, Progress, Now, Parse

-----------------------------------------------------------------------------
\* The map m has every route that was saved.
Knows(m) == \A l \in Legs : synced[l] # NoRoute => m[l] = synced[l]

\* What a running process and both directories know of the saved routes.
LEMMA SavedStep == Inv /\ [Next]_vars => (Remembered /\ SavedRouteSurvives)'
<1> SUFFICES ASSUME Inv, [Next]_vars
             PROVE  (Remembered /\ SavedRouteSurvives)'
  OBVIOUS
<1>0. FsInv
  BY DEF Inv
<1>a. Knows(Now) /\ Knows(Disk) /\ (pc # "down" => Knows(entries))
  BY DEF Inv, Remembered, SavedRouteSurvives, Knows, Now, Disk
<1>b. SUFFICES Knows(Now)' /\ Knows(Disk)' /\ (pc' # "down" => Knows(entries)')
  BY DEF Remembered, SavedRouteSurvives, Knows, Now, Disk
<1> USE DEF Knows
<1>1. CASE Load \/ SetAside
  <2>1. synced' = synced
    BY <1>1 DEF Load, SetAside
  <2> QED BY <1>0, <1>a, <1>1, <2>1, LoadViews
<1>2. ASSUME NEW l \in Legs, NEW r \in Routes, Save(l, r)
      PROVE  Knows(Now)' /\ Knows(Disk)' /\ (pc' # "down" => Knows(entries)')
  <2>1. Now' = Now /\ Disk' = Disk /\ pc # "down"
    BY <1>2 DEF Save, fsVars, Now, Disk
  <2>2. synced \in Maps /\ entries \in Maps
    BY <1>0 DEF FsInv, TypeOK
  <2>3. /\ synced' = [synced EXCEPT ![l] = NoRoute]
        /\ entries' = [entries EXCEPT ![l] = r]
    BY <1>2 DEF Save
  <2>4. synced'[l] = NoRoute /\ \A k \in Legs \ {l} : synced'[k] = synced[k]
    BY <2>2, <2>3 DEF Maps
  <2>5. \A k \in Legs \ {l} : entries'[k] = entries[k]
    BY <2>2, <2>3 DEF Maps
  <2> QED BY <1>a, <2>1, <2>4, <2>5
<1>3. CASE Quiet
  <2>1. synced' = synced
    BY <1>3 DEF Quiet, SaveFails, OpenTmp, WriteTmp, FsyncTmp, WriteBack
  <2>2. pc # "down" \/ pc' = pc
    BY <1>3 DEF Quiet, SaveFails, OpenTmp, WriteTmp, FsyncTmp, WriteBack
  <2> QED BY <1>0, <1>3, <1>a, <2>1, <2>2, QuietViews
<1>4. CASE Rename
  <2>1. synced' = synced /\ pc # "down"
    BY <1>4 DEF Rename
  <2> QED BY <1>0, <1>4, <1>a, <2>1, RenameViews
<1>5. CASE SyncDirectory
  <2>1. Now = entries /\ pc # "down" /\ UNCHANGED <<entries, dir, data, diskData>>
    BY <1>0, <1>5, PublishedIsMemory DEF SyncDirectory
  <2>2. CASE diskDir' = dir /\ synced' = entries
    <3>1. entries' = entries /\ Now' = Now /\ Disk' = Now
      BY <1>0, <2>1, <2>2, CommitViews
    <3> QED BY <2>1, <2>2, <3>1
  <2>3. CASE UNCHANGED <<diskDir, synced>>
    BY <1>a, <2>1, <2>3 DEF Now, Disk
  <2> QED BY <1>5, <2>2, <2>3 DEF SyncDirectory
<1>6. CASE CommitDirectory
  <2>1. entries' = entries /\ Now' = Now /\ Disk' = Now
    BY <1>0, <1>6, CommitViews DEF CommitDirectory
  <2>2. synced' = synced /\ pc' = pc
    BY <1>6 DEF CommitDirectory
  <2> QED BY <1>a, <2>1, <2>2
<1>7. CASE Kill
  BY <1>7, <1>a DEF Kill, fsVars, Now, Disk
<1>8. CASE PowerLoss
  BY <1>8, <1>a DEF PowerLoss, Now, Disk
<1>9. CASE UNCHANGED vars
  BY <1>9, <1>a DEF vars, Now, Disk
<1> QED BY <1>1, <1>2, <1>3, <1>4, <1>5, <1>6, <1>7, <1>8, <1>9 DEF Next, Quiet

\* The invariant, for every behaviour.
THEOREM RouteInvariant == Spec => []Inv
<1>1. Init => Inv
  <2> SUFFICES ASSUME Init PROVE Inv
    OBVIOUS
  <2>1. synced = Empty /\ pc = "down"
    BY DEF Init
  <2> QED BY <2>1, FsInit DEF Inv, Remembered, SavedRouteSurvives, Empty
<1>2. Inv /\ [Next]_vars => Inv'
  BY FsStep, SavedStep DEF Inv
<1> QED BY <1>1, <1>2, PTL DEF Spec

(***************************************************************************)
(* The types of the route state hold in every reachable state.             *)
(***************************************************************************)
THEOREM RouteTypes == Spec => []TypeOK
<1>1. Inv => TypeOK
  BY DEF Inv, FsInv
<1> QED BY <1>1, RouteInvariant, PTL

(***************************************************************************)
(* A route whose save returned true after a directory sync survives every  *)
(* crash and power loss (RouteState::save, writeLocked).                   *)
(***************************************************************************)
THEOREM SavedRoutesSurvive == Spec => []SavedRouteSurvives
<1>1. Inv => SavedRouteSurvives
  BY DEF Inv
<1> QED BY <1>1, RouteInvariant, PTL

(***************************************************************************)
(* The open, write, fsync, rename, fsync of route_state.cpp implement an   *)
(* atomically replaced map.                                                *)
(***************************************************************************)
THEOREM ImplementsStore == Spec => StoreSpec
<1>1. Init => Store!StoreInit
  <2> SUFFICES ASSUME Init PROVE Store!StoreInit
    OBVIOUS
  <2>1. Parse(dir, data) \in Store!Maps
    BY ParseIsMap DEF Maps, Store!Maps
  <2> QED BY <2>1 DEF Init, Store!StoreInit, Empty, Store!Empty
<1>2. Inv /\ [Next]_vars => [Store!StoreNext]_(Store!storeVars)
  <2> SUFFICES ASSUME Inv, [Next]_vars
               PROVE  [Store!StoreNext]_(Store!storeVars)
    OBVIOUS
  <2>0. FsInv
    BY DEF Inv
  <2>1. CASE Load \/ SetAside
    BY <2>0, <2>1, LoadViews DEF Store!StoreNext, Store!Loads, Now, Disk
  <2>2. ASSUME NEW l \in Legs, NEW r \in Routes, Save(l, r)
        PROVE  Store!StoreNext
    BY <2>2 DEF Save, fsVars, Store!StoreNext, Store!Accepts
  <2>3. CASE Quiet
    BY <2>0, <2>3, QuietViews DEF Store!storeVars, Now, Disk
  <2>4. CASE Rename
    BY <2>0, <2>4, RenameViews DEF Store!StoreNext, Store!Publishes, Now, Disk
  <2>5. CASE SyncDirectory
    <3>1. CASE diskDir' = dir
      BY <2>0, <2>5, <3>1, CommitViews
      DEF SyncDirectory, Store!StoreNext, Store!Settles, Now, Disk
    <3>2. CASE diskDir' = diskDir
      BY <2>5, <3>2 DEF SyncDirectory, Store!storeVars
    <3> QED BY <2>5, <3>1, <3>2 DEF SyncDirectory
  <2>6. CASE CommitDirectory
    BY <2>0, <2>6, CommitViews
    DEF CommitDirectory, Store!StoreNext, Store!Settles, Now, Disk
  <2>7. CASE Kill
    BY <2>7 DEF Kill, fsVars, Store!StoreNext, Store!Dies, Empty, Store!Empty
  <2>8. CASE PowerLoss
    BY <2>8 DEF PowerLoss, Store!StoreNext, Store!LosesPower, Empty, Store!Empty
  <2>9. CASE UNCHANGED vars
    BY <2>9 DEF vars, Store!storeVars
  <2> QED BY <2>1, <2>2, <2>3, <2>4, <2>5, <2>6, <2>7, <2>8, <2>9 DEF Next, Quiet
<1> QED BY <1>1, <1>2, RouteInvariant, PTL DEF Spec, StoreSpec, Store!StoreSpec

-----------------------------------------------------------------------------
(* The broken file *)

\* No directory calls a half-written file connections.json.
FileWhole ==
  /\ dir[File] \in Inodes => data[dir[File]] # Torn
  /\ diskDir[File] \in Inodes => diskData[diskDir[File]] # Torn

\* A directory has the inode under the name of the file, or set aside.
HasAside(d, i) == d[File] = i \/ d[Bad] = i

(***************************************************************************)
(* As long as every broken file could be renamed, there is one at most; it *)
(* is whole on the disk, named in both directories, and out of the way of  *)
(* a process that runs.                                                    *)
(***************************************************************************)
BrokenInv ==
  ~notMoved =>
    \A i \in Inodes : data[i] = Foreign \/ diskData[i] = Foreign =>
      /\ data[i] = Foreign /\ diskData[i] = Foreign
      /\ HasAside(dir, i) /\ HasAside(diskDir, i)
      /\ pc # "down" => dir[Bad] = i
      /\ \A j \in Inodes : data[j] = Foreign => j = i

\* The file stays whole.
LEMMA WholeStep == FsInv /\ FileWhole /\ [Next]_vars => FileWhole'
<1> SUFFICES ASSUME FsInv, FileWhole, [Next]_vars PROVE FileWhole'
  OBVIOUS
<1> USE RouteAssumption, NamesDiffer DEF FsInv, TypeOK, OneName, Settled, Progress, FileWhole
<1>1. CASE Load \/ SaveFails \/ Kill
  BY <1>1 DEF Load, SaveFails, Kill, fsVars
<1>2. CASE SetAside
  BY <1>2 DEF SetAside
<1>3. ASSUME NEW l \in Legs, NEW r \in Routes, Save(l, r) PROVE FileWhole'
  BY <1>3 DEF Save, fsVars
<1>4. CASE OpenTmp
  BY <1>4 DEF OpenTmp, Free
<1>5. CASE WriteTmp
  BY <1>5 DEF WriteTmp
<1>6. CASE FsyncTmp
  BY <1>6 DEF FsyncTmp
<1>7. CASE Rename
  BY <1>7 DEF Rename
<1>8. CASE SyncDirectory
  BY <1>8 DEF SyncDirectory
<1>9. CASE WriteBack
  BY <1>9 DEF WriteBack
<1>10. CASE CommitDirectory \/ PowerLoss
  BY <1>10 DEF CommitDirectory, PowerLoss
<1>11. CASE UNCHANGED vars
  BY <1>11 DEF vars
<1> QED BY <1>1, <1>2, <1>3, <1>4, <1>5, <1>6, <1>7, <1>8, <1>9, <1>10, <1>11 DEF Next

\* The broken file stays out of the way.
LEMMA BrokenStep == FsInv /\ FileWhole /\ BrokenInv /\ [Next]_vars => BrokenInv'
<1> SUFFICES ASSUME FsInv, FileWhole, BrokenInv, [Next]_vars, ~notMoved' PROVE BrokenInv'
  BY DEF BrokenInv
<1> USE RouteAssumption, NamesDiffer DEF FsInv, TypeOK, OneName, Settled, BrokenInv, HasAside
<1>1. CASE Load
  BY <1>1 DEF Load, fsVars, FileWhole
<1>2. CASE SetAside
  <2>1. /\ ~notMoved /\ dir' = [dir EXCEPT ![Bad] = dir[File], ![File] = NoInode]
        /\ pc' = "idle" /\ UNCHANGED <<diskDir, data, diskData>>
    BY <1>2 DEF SetAside
  <2>2. dir[File] \in Inodes /\ data[dir[File]] = Foreign
    BY <1>2 DEF SetAside, FileWhole, Contents
  <2>3. dir'[Bad] = dir[File]
    BY <2>1
  <2> QED BY <2>1, <2>2, <2>3
<1>3. ASSUME NEW l \in Legs, NEW r \in Routes, Save(l, r) PROVE BrokenInv'
  BY <1>3 DEF Save, fsVars
<1>4. CASE SaveFails \/ Kill
  BY <1>4 DEF SaveFails, Kill, fsVars
<1>5. CASE OpenTmp
  BY <1>5 DEF OpenTmp, Free
<1>6. CASE WriteTmp
  BY <1>6 DEF WriteTmp, Progress
<1>7. CASE FsyncTmp
  BY <1>7 DEF FsyncTmp, Progress
<1>8. CASE Rename
  BY <1>8 DEF Rename
<1>9. CASE SyncDirectory
  BY <1>9 DEF SyncDirectory
<1>10. CASE WriteBack
  BY <1>10 DEF WriteBack
<1>11. CASE CommitDirectory
  BY <1>11 DEF CommitDirectory
<1>12. CASE PowerLoss
  BY <1>12 DEF PowerLoss
<1>13. CASE UNCHANGED vars
  BY <1>13 DEF vars
<1> QED BY <1>1, <1>2, <1>3, <1>4, <1>5, <1>6, <1>7, <1>8, <1>9, <1>10,
           <1>11, <1>12, <1>13 DEF Next

(***************************************************************************)
(* A file that did not parse is never overwritten, by a save, a crash or a *)
(* power loss, as long as setAside could rename it (RouteState::load).     *)
(***************************************************************************)
THEOREM BrokenFilesAreKept == Spec => BrokenFileIsKept
<1>1. Init => FileWhole /\ BrokenInv
  <2> SUFFICES ASSUME Init PROVE FileWhole /\ BrokenInv
    OBVIOUS
  <2>1. PICK i \in Inodes \cup {NoInode} :
           dir = [n \in Names |-> IF n = File THEN i ELSE NoInode]
    BY DEF Init
  <2>2. PICK c \in Maps \cup {Foreign} :
           data = [j \in Inodes |-> IF j = dir[File] THEN c ELSE Torn]
    BY DEF Init
  <2>3. dir[File] = i /\ diskDir = dir /\ diskData = data /\ pc = "down"
    BY <2>1, NamesDiffer DEF Init
  <2>4. \A j \in Inodes : data[j] = Foreign => j = i
    BY <2>2, <2>3, RouteAssumption
  <2> QED BY <2>2, <2>3, <2>4, RouteAssumption DEF FileWhole, BrokenInv, HasAside
<1>2. FsInv /\ BrokenInv /\ BrokenInv' /\ [Next]_vars =>
        [ \A i \in Inodes :
            data[i] = Foreign /\ (\E n \in {File, Bad} : dir[n] = i) /\ ~notMoved'
              => \E n \in Names : dir'[n] = i /\ data'[i] = Foreign ]_vars
  <2> SUFFICES ASSUME FsInv, BrokenInv, BrokenInv', [Next]_vars, NEW i \in Inodes,
                      data[i] = Foreign, ~notMoved'
               PROVE  \E n \in Names : dir'[n] = i /\ data'[i] = Foreign
    OBVIOUS
  <2>1. ~notMoved
    BY DEF Next, vars, Load, SetAside, Save, SaveFails, OpenTmp, WriteTmp, FsyncTmp, Rename,
           SyncDirectory, WriteBack, CommitDirectory, Kill, PowerLoss
  <2>2. diskData[i] = Foreign
    BY <2>1 DEF BrokenInv
  <2>3. data'[i] = Foreign \/ diskData'[i] = Foreign
    BY <2>2 DEF Next, vars, fsVars, Load, SetAside, Save, SaveFails, OpenTmp, WriteTmp, FsyncTmp,
           Rename, SyncDirectory, WriteBack, CommitDirectory, Kill, PowerLoss, FsInv, TypeOK
  <2>4. data'[i] = Foreign /\ HasAside(dir', i)
    BY <2>3 DEF BrokenInv, HasAside
  <2> QED BY <2>4, NamesDiffer DEF HasAside
<1>3. Inv => FsInv
  BY DEF Inv
<1> QED BY <1>1, <1>2, <1>3, RouteInvariant, WholeStep, BrokenStep, PTL DEF Spec, BrokenFileIsKept
=============================================================================
