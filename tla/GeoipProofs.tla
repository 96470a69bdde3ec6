----------------------------- MODULE GeoipProofs -----------------------------
(***************************************************************************)
(* The Watcher's invariants, for any number of goroutines, files and       *)
(* handles, and any number of replacements, settings changes and Closes;   *)
(* and what Lookup makes of a database record.                             *)
(***************************************************************************)
EXTENDS Watcher, GeoRecord, FiniteSetTheorems, TLAPS

\* What refresh takes for granted of the file system: two versions of a file
\* differ in modification time or size.
StampsTell == \A v, w \in 1..MaxEdits : Stamp[v] = Stamp[w] => v = w

Files == [ver : 0..edits, ok : BOOLEAN]
Sights == [enabled : BOOLEAN, path : Paths \cup {NoPath}, stamp : Nat, ver : 0..edits]
Points == {"idle", "config", "statted", "slow", "refreshed", "reading"}

\* The shape of the state.
Shape ==
  /\ edits \in 0..MaxEdits
  /\ disk \in [Paths -> Files]
  /\ enabled \in BOOLEAN
  /\ path \in Paths \cup {NoPath}
  /\ reader \in Handles \cup {None}
  /\ mapped \in [DOMAIN mapped -> [path : Paths, ver : 1..edits]]
  /\ pc \in [Threads -> Points]
  /\ op \in [Threads -> {"Lookup", "Refresh"}]
  /\ saw \in [Threads -> Sights]
  /\ using \in [Threads -> Handles \cup {None}]

\* A version is that of one file: no two files on disk have the same.
NoVersionTwice ==
  \A p, q \in Paths : disk[p].ver = disk[q].ver /\ disk[p].ver # 0 => p = q

\* A file without a version is no file.
NoVersionNoFile == \A p \in Paths : disk[p].ver = 0 => disk[p] = NoFile

\* What a thread saw of a file: the stamp is that of the version, which was
\* and is a version of that file only, and not newer than what is there now.
SawFile ==
  \A t \in Threads :
    /\ pc[t] \in {"config", "statted", "slow"} => saw[t].path \in Paths
    /\ saw[t].ver = 0 => saw[t].stamp = 0
    /\ saw[t].ver # 0 =>
         /\ saw[t].path \in Paths
         /\ saw[t].stamp = Stamp[saw[t].ver]
         /\ disk[saw[t].path].ver # 0 => saw[t].ver <= disk[saw[t].path].ver
         /\ \A p \in Paths : disk[p].ver = saw[t].ver => p = saw[t].path
         /\ \A u \in Threads : saw[u].ver = saw[t].ver => saw[u].path = saw[t].path

\* v is the version whose stamp the Watcher keeps: the file was that version
\* when refresh looked, and perhaps newer when it was opened.
KeptVersion(v) ==
  /\ stamp = Stamp[v]
  /\ v <= mapped[reader].ver
  /\ \A p \in Paths : disk[p].ver = v => p = mapped[reader].path
  /\ \A t \in Threads : saw[t].ver = v => saw[t].path = mapped[reader].path

ReaderStamp == reader # None => \E v \in 1..edits : KeptVersion(v)

\* A Lookup reads from the current reader, as nobody gets the write lock
\* meanwhile; a thread that is not reading refers to no handle.
ReadsCurrent ==
  \A t \in Threads :
    IF pc[t] = "reading" THEN using[t] = reader /\ reader # None ELSE using[t] = None

\* Once its refresh is over, a Lookup finds a reader no older than what it saw.
NotOlder ==
  \A t \in Threads :
    pc[t] \in {"refreshed", "reading"} /\ reader # None
      /\ mapped[reader].path = saw[t].path => mapped[reader].ver >= saw[t].ver

\* The inductive invariant.
IInv ==
  /\ Shape
  /\ NoVersionTwice
  /\ NoVersionNoFile
  /\ SawFile
  /\ NoLeakedMapping
  /\ ReaderStamp
  /\ ReadsCurrent
  /\ StampsTell => NotOlder

-----------------------------------------------------------------------------
\* Types of the parts that the proofs below take apart.
LEMMA ShapeFacts ==
  ASSUME IInv
  PROVE  /\ edits \in Nat
         /\ \A p \in Paths : disk[p] \in Files /\ disk[p].ver \in 0..edits
         /\ \A t \in Threads : /\ saw[t] \in Sights /\ saw[t].ver \in 0..edits
                               /\ saw[t].stamp \in Nat /\ saw[t].path \in Paths \cup {NoPath}
         /\ \A h \in DOMAIN mapped : mapped[h].path \in Paths /\ mapped[h].ver \in 1..edits
         /\ reader # None => reader \in DOMAIN mapped
<1>1. edits \in Nat
  BY EditsType DEF IInv, Shape
<1>2. \A p \in Paths : disk[p] \in Files /\ disk[p].ver \in 0..edits
  BY DEF IInv, Shape, Files
<1>3. \A t \in Threads : /\ saw[t] \in Sights /\ saw[t].ver \in 0..edits
                         /\ saw[t].stamp \in Nat /\ saw[t].path \in Paths \cup {NoPath}
  BY DEF IInv, Shape, Sights
<1>4. \A h \in DOMAIN mapped : mapped[h].path \in Paths /\ mapped[h].ver \in 1..edits
  BY DEF IInv, Shape
<1>5. reader # None => reader \in DOMAIN mapped
  BY DEF IInv, NoLeakedMapping
<1> QED BY <1>1, <1>2, <1>3, <1>4, <1>5

\* The initial state satisfies the invariant.
LEMMA InitIInv == Init => IInv
<1> SUFFICES ASSUME Init PROVE IInv
  OBVIOUS
<1>1. NoFile \in Files /\ NoFile.ver = 0
  BY DEF Init, NoFile, Files
<1>2. disk \in [Paths -> Files] /\ \A p \in Paths : disk[p] = NoFile
  BY <1>1 DEF Init
<1>3. saw \in [Threads -> Sights] /\ \A t \in Threads : saw[t].ver = 0 /\ saw[t].stamp = 0
  BY DEF Init, Sights
<1>4. DOMAIN mapped = {} /\ mapped \in [DOMAIN mapped -> [path : Paths, ver : 1..edits]]
  BY DEF Init
<1>5. pc \in [Threads -> Points] /\ \A t \in Threads : pc[t] = "idle"
  BY DEF Init, Points
<1>6. Shape
  <2>1. /\ edits \in 0..MaxEdits
        /\ path \in Paths \cup {NoPath}
        /\ reader \in Handles \cup {None}
        /\ op \in [Threads -> {"Lookup", "Refresh"}]
        /\ using \in [Threads -> Handles \cup {None}]
    BY EditsType DEF Init
  <2>2. enabled \in BOOLEAN
    BY DEF Init
  <2> QED BY <2>1, <2>2, <1>2, <1>3, <1>4, <1>5 DEF Shape
<1>7. NoVersionTwice /\ NoVersionNoFile
  BY <1>1, <1>2 DEF NoVersionTwice, NoVersionNoFile
<1>8. SawFile
  BY <1>3, <1>5 DEF SawFile
<1>9. NoLeakedMapping /\ ReaderStamp
  BY <1>4 DEF Init, NoLeakedMapping, ReaderStamp
<1>10. ReadsCurrent /\ NotOlder
  BY <1>5 DEF Init, ReadsCurrent, NotOlder
<1> QED BY <1>6, <1>7, <1>8, <1>9, <1>10 DEF IInv

-----------------------------------------------------------------------------
\* Every edit counts, so what was in range stays in range.
LEMMA EditShape ==
  ASSUME IInv, edits < MaxEdits, edits' = edits + 1
  PROVE  /\ edits' \in 0..MaxEdits
         /\ Files \subseteq Files' /\ Sights \subseteq Sights'
         /\ 0..edits \subseteq 0..edits' /\ 1..edits \subseteq 1..edits'
         /\ \A D : [D -> [path : Paths, ver : 1..edits]] \subseteq [D -> [path : Paths, ver : 1..edits']]
<1>1. edits \in Nat /\ MaxEdits \in Nat
  BY ShapeFacts, EditsType
<1>2. edits' \in 0..MaxEdits /\ 0..edits \subseteq 0..edits' /\ 1..edits \subseteq 1..edits'
  BY <1>1
<1>3. Files \subseteq Files' /\ Sights \subseteq Sights'
  BY <1>2 DEF Files, Sights
<1>4. [path : Paths, ver : 1..edits] \subseteq [path : Paths, ver : 1..edits']
  BY <1>2
<1>5. \A D : [D -> [path : Paths, ver : 1..edits]] \subseteq [D -> [path : Paths, ver : 1..edits']]
  BY <1>4
<1> QED BY <1>2, <1>3, <1>5

\* A step that changes one file only, to no file or to one with a version
\* of its own, and leaves the Watcher and its callers alone.
LEMMA DiskStep ==
  ASSUME IInv, NEW p \in Paths, NEW file,
         edits < MaxEdits, edits' = edits + 1,
         disk' = [disk EXCEPT ![p] = file],
         file \in Files', file.ver = edits + 1 \/ file = NoFile,
         UNCHANGED <<watcher, threads>>
  PROVE  IInv'
<1>1. UNCHANGED <<enabled, path, reader, stamp, failed, mapped, pc, op, saw, using>>
  BY DEF watcher, threads
<1>2. /\ \A q \in Paths : q # p => disk'[q] = disk[q]
      /\ disk'[p] = file
  BY DEF IInv, Shape
<1>3. file.ver = edits + 1 \/ file.ver = 0
  BY DEF NoFile
<1>4. edits \in Nat
  BY ShapeFacts
<1>5. Shape'
  <2>1. disk' \in [Paths -> Files']
    BY EditShape DEF IInv, Shape
  <2>2. saw' \in [Threads -> Sights']
    BY <1>1, EditShape DEF IInv, Shape
  <2>3. mapped' \in [DOMAIN mapped' -> [path : Paths, ver : 1..edits']]
    BY <1>1, EditShape DEF IInv, Shape
  <2> QED BY <2>1, <2>2, <2>3, <1>1, EditShape DEF IInv, Shape
<1>6. NoVersionTwice'
  BY <1>2, <1>3, <1>4, ShapeFacts DEF IInv, NoVersionTwice
<1>7. NoVersionNoFile'
  BY <1>2, <1>4 DEF IInv, NoVersionNoFile
<1>8. SawFile'
  <2> SUFFICES ASSUME NEW t \in Threads
               PROVE  /\ pc[t] \in {"config", "statted", "slow"} => saw[t].path \in Paths
                      /\ saw[t].ver = 0 => saw[t].stamp = 0
                      /\ saw[t].ver # 0 =>
                           /\ saw[t].path \in Paths
                           /\ saw[t].stamp = Stamp[saw[t].ver]
                           /\ disk'[saw[t].path].ver # 0 => saw[t].ver <= disk'[saw[t].path].ver
                           /\ \A q \in Paths : disk'[q].ver = saw[t].ver => q = saw[t].path
                           /\ \A u \in Threads : saw[u].ver = saw[t].ver => saw[u].path = saw[t].path
    BY <1>1 DEF SawFile
  <2>1. saw[t].ver \in 0..edits
    BY ShapeFacts
  <2> QED BY <2>1, <1>2, <1>3, <1>4 DEF IInv, SawFile
<1>9. ReaderStamp'
  <2> SUFFICES ASSUME reader # None PROVE \E v \in 1..edits' : KeptVersion(v)'
    BY <1>1 DEF ReaderStamp
  <2>1. PICK v \in 1..edits : KeptVersion(v)
    BY DEF IInv, ReaderStamp
  <2>2. \A q \in Paths : disk'[q].ver = v => q = mapped[reader].path
    BY <2>1, <1>2, <1>3, <1>4 DEF KeptVersion
  <2>3. KeptVersion(v)'
    BY <2>1, <2>2, <1>1 DEF KeptVersion
  <2> QED BY <2>3, EditShape
<1>10. NoLeakedMapping' /\ ReadsCurrent'
  BY <1>1 DEF IInv, NoLeakedMapping, ReadsCurrent
<1>11. StampsTell' => NotOlder'
  BY <1>1 DEF IInv, NotOlder, StampsTell
<1> QED BY <1>5, <1>6, <1>7, <1>8, <1>9, <1>10, <1>11 DEF IInv

LEMMA ReplaceStep ==
  ASSUME IInv, NEW p \in Paths, NEW ok \in BOOLEAN, Replace(p, ok)
  PROVE  IInv'
<1> DEFINE file == [ver |-> edits + 1, ok |-> ok]
<1>1. /\ edits < MaxEdits /\ edits' = edits + 1
      /\ disk' = [disk EXCEPT ![p] = file]
      /\ UNCHANGED <<watcher, threads>>
  BY DEF Replace
<1>2. file \in Files' /\ file.ver = edits + 1
  BY <1>1, ShapeFacts DEF Files
<1> HIDE DEF file
<1> QED BY <1>1, <1>2, DiskStep

LEMMA RemoveStep ==
  ASSUME IInv, NEW p \in Paths, Remove(p)
  PROVE  IInv'
<1>1. /\ edits < MaxEdits /\ edits' = edits + 1
      /\ disk' = [disk EXCEPT ![p] = NoFile]
      /\ UNCHANGED <<watcher, threads>>
  BY DEF Remove
<1>2. NoFile \in Files'
  BY <1>1, ShapeFacts DEF Files, NoFile
<1> QED BY <1>1, <1>2, DiskStep

\* A settings change: SetPath, SetEnabled.
LEMMA SettingStep ==
  ASSUME IInv, edits < MaxEdits, edits' = edits + 1,
         path' \in Paths \cup {NoPath}, enabled' \in BOOLEAN,
         UNCHANGED <<disk, reader, stamp, failed, mapped, threads>>
  PROVE  IInv'
<1>1. UNCHANGED <<disk, reader, stamp, failed, mapped, pc, op, saw, using>>
  BY DEF threads
<1>2. Shape'
  <2>1. disk' \in [Paths -> Files']
    BY <1>1, EditShape DEF IInv, Shape
  <2>2. saw' \in [Threads -> Sights']
    BY <1>1, EditShape DEF IInv, Shape
  <2>3. mapped' \in [DOMAIN mapped' -> [path : Paths, ver : 1..edits']]
    BY <1>1, EditShape DEF IInv, Shape
  <2> QED BY <2>1, <2>2, <2>3, <1>1, EditShape DEF IInv, Shape
<1>3. ReaderStamp'
  <2> SUFFICES ASSUME reader # None PROVE \E v \in 1..edits' : KeptVersion(v)'
    BY <1>1 DEF ReaderStamp
  <2>1. PICK v \in 1..edits : KeptVersion(v)
    BY DEF IInv, ReaderStamp
  <2> QED BY <2>1, <1>1, EditShape DEF KeptVersion
<1>4. NoVersionTwice' /\ NoVersionNoFile' /\ SawFile'
  BY <1>1 DEF IInv, NoVersionTwice, NoVersionNoFile, SawFile
<1>5. NoLeakedMapping' /\ ReadsCurrent' /\ (StampsTell' => NotOlder')
  BY <1>1 DEF IInv, NoLeakedMapping, ReadsCurrent, NotOlder, StampsTell
<1> QED BY <1>2, <1>3, <1>4, <1>5 DEF IInv

\* Nobody reads while the write lock is held, so no handle is referred to.
LEMMA Unused ==
  ASSUME IInv, CanLock
  PROVE  \A t \in Threads : pc[t] # "reading" /\ using[t] = None
BY DEF IInv, ReadsCurrent, CanLock

\* The only handle that a reader closes is its own.
LEMMA Unmapped ==
  ASSUME IInv
  PROVE  /\ Unmap(mapped, reader) \in [{} -> [path : Paths, ver : 1..edits]]
         /\ DOMAIN Unmap(mapped, reader) = {}
BY DEF IInv, NoLeakedMapping, Unmap

LEMMA CloseStep ==
  ASSUME IInv, Close
  PROVE  IInv'
<1>1. /\ CanLock
      /\ edits < MaxEdits /\ edits' = edits + 1
      /\ mapped' = Unmap(mapped, reader) /\ reader' = None
      /\ UNCHANGED <<disk, enabled, path, pc, op, saw, using>>
  BY DEF Close, threads
<1>2. DOMAIN mapped' = {}
  BY <1>1, Unmapped
<1>3. Shape'
  <2>1. disk' \in [Paths -> Files']
    BY <1>1, EditShape DEF IInv, Shape
  <2>2. saw' \in [Threads -> Sights']
    BY <1>1, EditShape DEF IInv, Shape
  <2>3. mapped' \in [DOMAIN mapped' -> [path : Paths, ver : 1..edits']]
    BY <1>1, <1>2, Unmapped DEF Unmap
  <2> QED BY <2>1, <2>2, <2>3, <1>1, EditShape DEF IInv, Shape
<1>4. NoVersionTwice' /\ NoVersionNoFile' /\ SawFile'
  BY <1>1 DEF IInv, NoVersionTwice, NoVersionNoFile, SawFile
<1>5. NoLeakedMapping' /\ ReaderStamp' /\ NotOlder'
  BY <1>1, <1>2 DEF NoLeakedMapping, ReaderStamp, NotOlder
<1>6. ReadsCurrent'
  BY <1>1, Unused DEF ReadsCurrent
<1> QED BY <1>3, <1>4, <1>5, <1>6 DEF IInv

-----------------------------------------------------------------------------
\* A thread's step that leaves the disk and the Watcher alone, and what the
\* thread saw: it need only keep to the rules for reading and for being
\* refreshed.
LEMMA QuietStep ==
  ASSUME IInv, NEW t \in Threads, NEW at \in Points,
         UNCHANGED <<disk, edits, watcher, op, saw>>,
         pc' = [pc EXCEPT ![t] = at],
         at \in {"config", "statted", "slow"} => saw[t].path \in Paths,
         \/ at # "reading" /\ pc[t] # "reading" /\ using' = using
         \/ at # "reading" /\ using' = [using EXCEPT ![t] = None]
         \/ at = "reading" /\ reader # None /\ using' = [using EXCEPT ![t] = reader],
         StampsTell /\ at \in {"refreshed", "reading"} /\ reader # None
           /\ mapped[reader].path = saw[t].path => mapped[reader].ver >= saw[t].ver
  PROVE  IInv'
<1>1. UNCHANGED <<enabled, path, reader, stamp, failed, mapped>>
  BY DEF watcher
<1>2. pc' \in [Threads -> Points] /\ pc'[t] = at /\ \A u \in Threads : u # t => pc'[u] = pc[u]
  BY DEF IInv, Shape
<1>3. /\ using' \in [Threads -> Handles \cup {None}]
      /\ \A u \in Threads : u # t => using'[u] = using[u]
      /\ using'[t] = IF at = "reading" THEN reader ELSE None
  BY DEF IInv, Shape, ReadsCurrent
<1>4. Shape'
  BY <1>1, <1>2, <1>3 DEF IInv, Shape, Files, Sights
<1>5. NoVersionTwice' /\ NoVersionNoFile' /\ NoLeakedMapping'
  BY <1>1 DEF IInv, NoVersionTwice, NoVersionNoFile, NoLeakedMapping
<1>6. SawFile'
  BY <1>2 DEF IInv, SawFile
<1>7. ReaderStamp'
  BY <1>1 DEF IInv, ReaderStamp, KeptVersion
<1>8. ReadsCurrent'
  BY <1>1, <1>2, <1>3 DEF IInv, ReadsCurrent
<1>9. StampsTell' => NotOlder'
  BY <1>1, <1>2 DEF IInv, NotOlder, StampsTell
<1> QED BY <1>4, <1>5, <1>6, <1>7, <1>8, <1>9 DEF IInv

\* Begin: the thread forgets what it saw of a file in an earlier call.
LEMMA BeginStep ==
  ASSUME IInv, NEW t \in Threads, NEW o \in {"Lookup", "Refresh"}, Begin(t, o)
  PROVE  IInv'
<1> DEFINE now == [enabled |-> enabled, path |-> path, stamp |-> 0, ver |-> 0]
           at == IF enabled /\ path # NoPath THEN "config" ELSE AfterRefresh(o)
<1>1. /\ pc[t] = "idle"
      /\ op' = [op EXCEPT ![t] = o]
      /\ saw' = [saw EXCEPT ![t] = now]
      /\ pc' = [pc EXCEPT ![t] = at]
      /\ UNCHANGED <<disk, edits, enabled, path, reader, stamp, failed, mapped, using>>
  BY DEF Begin, watcher
<1>2. at \in Points /\ at # "reading" /\ (at \in {"config", "statted", "slow"} => path \in Paths)
  BY DEF AfterRefresh, Points, IInv, Shape
<1>3. now \in Sights /\ now.ver = 0 /\ now.stamp = 0 /\ now.path = path
  BY ShapeFacts DEF Sights, IInv, Shape
<1> HIDE DEF now, at
<1>4. pc' \in [Threads -> Points] /\ pc'[t] = at /\ \A u \in Threads : u # t => pc'[u] = pc[u]
  BY <1>1, <1>2 DEF IInv, Shape
<1>5. saw' \in [Threads -> Sights] /\ saw'[t] = now /\ \A u \in Threads : u # t => saw'[u] = saw[u]
  BY <1>1, <1>3 DEF IInv, Shape
<1>6. Shape'
  BY <1>1, <1>4, <1>5 DEF IInv, Shape, Files, Sights
<1>7. NoVersionTwice' /\ NoVersionNoFile' /\ NoLeakedMapping'
  BY <1>1 DEF IInv, NoVersionTwice, NoVersionNoFile, NoLeakedMapping
<1>8. SawFile'
  BY <1>1, <1>2, <1>3, <1>4, <1>5 DEF IInv, SawFile
<1>9. ReaderStamp'
  <2> SUFFICES ASSUME reader # None PROVE \E v \in 1..edits' : KeptVersion(v)'
    BY <1>1 DEF ReaderStamp
  <2>1. PICK v \in 1..edits : KeptVersion(v)
    BY DEF IInv, ReaderStamp
  <2>2. \A u \in Threads : saw'[u].ver = v => saw'[u].path = mapped[reader].path
    BY <2>1, <1>3, <1>5, ShapeFacts DEF KeptVersion
  <2> QED BY <2>1, <2>2, <1>1 DEF KeptVersion
<1>10. ReadsCurrent'
  BY <1>1, <1>2, <1>4 DEF IInv, ReadsCurrent
<1>11. StampsTell' => NotOlder'
  BY <1>1, <1>3, <1>4, <1>5, ShapeFacts DEF IInv, NotOlder, StampsTell
<1> QED BY <1>6, <1>7, <1>8, <1>9, <1>10, <1>11 DEF IInv

\* os.Stat: the thread sees the file that is there now.
LEMMA StatStep ==
  ASSUME IInv, NEW t \in Threads, StatFile(t)
  PROVE  IInv'
<1> DEFINE file == disk[saw[t].path]
           seen == IF file = NoFile THEN 0 ELSE Stamp[file.ver]
<1>1. /\ pc[t] = "config"
      /\ saw' = [saw EXCEPT ![t].stamp = seen, ![t].ver = file.ver]
      /\ pc' = [pc EXCEPT ![t] = "statted"]
      /\ UNCHANGED <<disk, edits, enabled, path, reader, stamp, failed, mapped, op, using>>
  BY DEF StatFile, watcher
<1>2. saw[t].path \in Paths /\ saw[t] \in Sights
  BY <1>1, ShapeFacts DEF IInv, SawFile
<1>3. file.ver \in 0..edits /\ (file.ver = 0 <=> file = NoFile)
  BY <1>2, ShapeFacts DEF IInv, NoVersionNoFile, NoFile
<1>4. edits \in 0..MaxEdits
  BY DEF IInv, Shape
<1>5. seen \in Nat /\ (file.ver = 0 => seen = 0) /\ (file.ver # 0 => seen = Stamp[file.ver])
  <2>1. CASE file = NoFile
    BY <2>1, <1>3
  <2>2. CASE file # NoFile
    <3>1. file.ver \in 1..MaxEdits
      BY <2>2, <1>3, <1>4, EditsType
    <3> QED BY <2>2, <3>1, <1>3, StampType
  <2> QED BY <2>1, <2>2
<1> HIDE DEF seen
<1>6. /\ saw' \in [Threads -> Sights]
      /\ saw'[t].path = saw[t].path /\ saw'[t].ver = file.ver /\ saw'[t].stamp = seen
      /\ \A u \in Threads : u # t => saw'[u] = saw[u]
  BY <1>1, <1>2, <1>3, <1>5 DEF IInv, Shape, Sights
<1>7. pc' \in [Threads -> Points] /\ pc'[t] = "statted" /\ \A u \in Threads : u # t => pc'[u] = pc[u]
  BY <1>1 DEF IInv, Shape, Points
<1>8. Shape'
  BY <1>1, <1>6, <1>7 DEF IInv, Shape, Files, Sights
<1>9. NoVersionTwice' /\ NoVersionNoFile' /\ NoLeakedMapping'
  BY <1>1 DEF IInv, NoVersionTwice, NoVersionNoFile, NoLeakedMapping
<1>10. SawFile'
  <2>1. ASSUME NEW u \in Threads, u # t, saw[u].ver = file.ver, file.ver # 0
        PROVE  saw[u].path = saw[t].path
    BY <2>1, <1>2 DEF IInv, SawFile
  <2>2. \A p \in Paths : disk[p].ver = file.ver /\ file.ver # 0 => p = saw[t].path
    BY <1>2 DEF IInv, NoVersionTwice
  <2>3. file.ver <= file.ver
    BY <1>3, <1>4
  <2> HIDE DEF file
  <2>4. \A u \in Threads : disk'[saw'[u].path] = disk[saw[u].path]
    BY <1>1, <1>6
  <2>5. /\ saw'[t].ver = 0 => saw'[t].stamp = 0
        /\ saw'[t].ver # 0 =>
             /\ saw'[t].path \in Paths
             /\ saw'[t].stamp = Stamp[saw'[t].ver]
             /\ saw'[t].ver <= disk'[saw'[t].path].ver
             /\ \A p \in Paths : disk'[p].ver = saw'[t].ver => p = saw'[t].path
             /\ \A u \in Threads : saw'[u].ver = saw'[t].ver => saw'[u].path = saw'[t].path
    BY <2>1, <2>2, <2>3, <1>1, <1>2, <1>5, <1>6 DEF file
  <2>6. ASSUME NEW u \in Threads, u # t
        PROVE  /\ pc'[u] \in {"config", "statted", "slow"} => saw'[u].path \in Paths
               /\ saw'[u].ver = 0 => saw'[u].stamp = 0
               /\ saw'[u].ver # 0 =>
                    /\ saw'[u].path \in Paths
                    /\ saw'[u].stamp = Stamp[saw'[u].ver]
                    /\ disk'[saw'[u].path].ver # 0 => saw'[u].ver <= disk'[saw'[u].path].ver
                    /\ \A p \in Paths : disk'[p].ver = saw'[u].ver => p = saw'[u].path
                    /\ \A w \in Threads : saw'[w].ver = saw'[u].ver => saw'[w].path = saw'[u].path
    BY <2>1, <2>6, <1>1, <1>6, <1>7 DEF IInv, SawFile
  <2> QED BY <2>5, <2>6, <1>2, <1>6 DEF SawFile
<1>11. ReaderStamp'
  <2> SUFFICES ASSUME reader # None PROVE \E v \in 1..edits' : KeptVersion(v)'
    BY <1>1 DEF ReaderStamp
  <2>1. PICK v \in 1..edits : KeptVersion(v)
    BY DEF IInv, ReaderStamp
  <2>2. file.ver = v => saw[t].path = mapped[reader].path
    BY <2>1, <1>2 DEF KeptVersion
  <2>3. \A u \in Threads : saw'[u].ver = v => saw'[u].path = mapped[reader].path
    BY <2>1, <2>2, <1>6 DEF KeptVersion
  <2>4. KeptVersion(v)'
    BY <2>1, <2>3, <1>1 DEF KeptVersion
  <2> QED BY <2>4, <1>1
<1>12. ReadsCurrent'
  BY <1>1, <1>7 DEF IInv, ReadsCurrent
<1>13. StampsTell' => NotOlder'
  BY <1>1, <1>6, <1>7 DEF IInv, NotOlder, StampsTell
<1> QED BY <1>8, <1>9, <1>10, <1>11, <1>12, <1>13 DEF IInv

-----------------------------------------------------------------------------
\* What UpToDate is worth: if stamps tell versions apart, the reader is of the
\* file that the thread looked at, and no older than it was then.
LEMMA UpToDateFacts ==
  ASSUME IInv, StampsTell, NEW t \in Threads, UpToDate(t)
  PROVE  mapped[reader].path = saw[t].path /\ mapped[reader].ver >= saw[t].ver
<1>1. reader # None /\ stamp = saw[t].stamp
  BY DEF UpToDate
<1>2. PICK v \in 1..edits : KeptVersion(v)
  BY <1>1 DEF IInv, ReaderStamp
<1>3. edits \in 0..MaxEdits /\ MaxEdits \in Nat /\ saw[t].ver \in 0..edits
  BY ShapeFacts, EditsType DEF IInv, Shape
<1>4. v \in 1..MaxEdits /\ stamp = Stamp[v] /\ stamp # 0
  BY <1>2, <1>3, StampType DEF KeptVersion
<1>5. saw[t].ver # 0 /\ saw[t].stamp = Stamp[saw[t].ver]
  <2>1. saw[t].stamp # 0
    BY <1>1, <1>4
  <2> QED BY <2>1 DEF IInv, SawFile
<1>6. saw[t].ver = v
  <2>1. saw[t].ver \in 1..MaxEdits
    BY <1>3, <1>5
  <2>2. Stamp[saw[t].ver] = Stamp[v]
    BY <1>1, <1>4, <1>5
  <2> QED BY <2>1, <2>2, <1>4 DEF StampsTell
<1> QED BY <1>1, <1>2, <1>3, <1>6, ShapeFacts DEF KeptVersion

LEMMA CheckStep ==
  ASSUME IInv, NEW t \in Threads, CheckFast(t)
  PROVE  IInv'
<1> DEFINE at == IF UpToDate(t) THEN AfterRefresh(op[t]) ELSE "slow"
<1>1. /\ pc[t] = "statted"
      /\ pc' = [pc EXCEPT ![t] = at]
      /\ UNCHANGED <<disk, edits, watcher, op, saw, using>>
  BY DEF CheckFast
<1>2. at \in Points /\ at # "reading" /\ (at = "refreshed" => UpToDate(t))
  BY DEF AfterRefresh, Points
<1>3. saw[t].path \in Paths
  BY <1>1 DEF IInv, SawFile
<1>4. StampsTell /\ at \in {"refreshed", "reading"} => mapped[reader].ver >= saw[t].ver
  BY <1>2, UpToDateFacts
<1> HIDE DEF at
<1> QED BY <1>1, <1>2, <1>3, <1>4, QuietStep

LEMMA LookupStep ==
  ASSUME IInv, NEW t \in Threads, LookupEmpty(t) \/ LookupRead(t) \/ LookupDone(t)
  PROVE  IInv'
<1>1. "idle" \in Points /\ "reading" \in Points
  BY DEF Points
<1>2. CASE LookupEmpty(t)
  BY <1>1, <1>2, QuietStep DEF LookupEmpty
<1>3. CASE LookupRead(t)
  <2>1. /\ pc[t] = "refreshed" /\ reader # None
        /\ using' = [using EXCEPT ![t] = reader]
        /\ pc' = [pc EXCEPT ![t] = "reading"]
        /\ UNCHANGED <<disk, edits, watcher, op, saw>>
    BY <1>3 DEF LookupRead
  <2>2. StampsTell /\ reader # None /\ mapped[reader].path = saw[t].path
          => mapped[reader].ver >= saw[t].ver
    BY <2>1 DEF IInv, NotOlder
  <2> QED BY <1>1, <2>1, <2>2, QuietStep
<1>4. CASE LookupDone(t)
  BY <1>1, <1>4, QuietStep DEF LookupDone
<1> QED BY <1>2, <1>3, <1>4

\* Open finds a handle that is not in use.
LEMMA FreshFacts ==
  ASSUME IInv, CanLock
  PROVE  FreshHandle \in Handles /\ FreshHandle # None /\ FreshHandle \notin DOMAIN mapped
<1>1. \A t \in Threads : \A h \in Handles : using[t] # h
  BY Unused, HandlesType DEF None
<1>2. PICK g \in Handles, h \in Handles : g # h
  BY HandlesType
<1>3. \E k \in Handles : k \notin DOMAIN mapped
  BY <1>2 DEF IInv, NoLeakedMapping
<1>4. \E k \in Handles : k \notin DOMAIN mapped /\ \A t \in Threads : using[t] # k
  BY <1>1, <1>3
<1> QED BY <1>4, HandlesType DEF FreshHandle, None

\* The write-locked part of refresh that changes the Watcher: common to a
\* reader that is dropped and one that is installed.
LEMMA ReopenKeeps ==
  ASSUME IInv, NEW t \in Threads, pc[t] = "slow", CanLock,
         pc' = [pc EXCEPT ![t] = AfterRefresh(op[t])],
         UNCHANGED <<disk, edits, op, saw, using, enabled>>,
         path' = saw[t].path
  PROVE  /\ NoVersionTwice' /\ NoVersionNoFile' /\ SawFile' /\ ReadsCurrent'
         /\ reader' \in Handles \cup {None}
              /\ mapped' \in [DOMAIN mapped' -> [path : Paths, ver : 1..edits]] => Shape'
<1>1. AfterRefresh(op[t]) \in {"refreshed", "idle"}
  BY DEF AfterRefresh
<1>2. /\ pc' \in [Threads -> Points] /\ pc'[t] \in {"refreshed", "idle"}
      /\ \A u \in Threads : u # t => pc'[u] = pc[u]
  BY <1>1 DEF IInv, Shape, Points
<1>3. path' \in Paths \cup {NoPath}
  BY ShapeFacts
<1>4. NoVersionTwice' /\ NoVersionNoFile' /\ SawFile'
  BY <1>2 DEF IInv, NoVersionTwice, NoVersionNoFile, SawFile
<1>5. ReadsCurrent'
  BY <1>2, Unused DEF ReadsCurrent
<1>6. reader' \in Handles \cup {None} /\ mapped' \in [DOMAIN mapped' -> [path : Paths, ver : 1..edits]]
        => Shape'
  BY <1>2, <1>3 DEF IInv, Shape, Files, Sights
<1> QED BY <1>4, <1>5, <1>6

LEMMA DropStep ==
  ASSUME IInv, NEW t \in Threads, pc[t] = "slow", CanLock, DropReader(t),
         pc' = [pc EXCEPT ![t] = AfterRefresh(op[t])],
         UNCHANGED <<disk, edits, op, saw, using>>
  PROVE  IInv'
<1>1. /\ mapped' = Unmap(mapped, reader) /\ reader' = None
      /\ path' = saw[t].path /\ UNCHANGED enabled
  BY DEF DropReader
<1>2. DOMAIN mapped' = {} /\ mapped' \in [DOMAIN mapped' -> [path : Paths, ver : 1..edits]]
  BY <1>1, Unmapped
<1>3. NoVersionTwice' /\ NoVersionNoFile' /\ SawFile' /\ ReadsCurrent' /\ Shape'
  BY <1>1, <1>2, ReopenKeeps
<1>4. NoLeakedMapping' /\ ReaderStamp' /\ NotOlder'
  BY <1>1, <1>2 DEF NoLeakedMapping, ReaderStamp, NotOlder
<1> QED BY <1>3, <1>4 DEF IInv

\* Open succeeds: what is mapped is the version on disk now, which is not
\* older than any that any thread saw of this file.
LEMMA InstallStep ==
  ASSUME IInv, NEW t \in Threads, pc[t] = "slow", CanLock, ~OpenFails(t), InstallReader(t),
         pc' = [pc EXCEPT ![t] = AfterRefresh(op[t])],
         UNCHANGED <<disk, edits, op, saw, using>>
  PROVE  IInv'
<1> DEFINE p == saw[t].path
           fresh == FreshHandle
           opened == [path |-> p, ver |-> disk[p].ver]
<1>1. /\ reader' = fresh
      /\ mapped' = [h \in ((DOMAIN mapped) \ {reader}) \cup {fresh} |->
                      IF h = fresh THEN opened ELSE mapped[h]]
      /\ path' = p /\ stamp' = saw[t].stamp
      /\ UNCHANGED enabled
  BY DEF InstallReader
<1>2. fresh \in Handles /\ fresh # None
  BY FreshFacts
<1>3. p \in Paths
  BY DEF IInv, SawFile
<1>4. saw[t].stamp # 0 /\ disk[p].ver # 0
  <2>1. saw[t].stamp # 0 /\ disk[p].ok
    BY Zenon DEF OpenFails
  <2>2. ~NoFile.ok
    BY Zenon DEF NoFile
  <2>3. disk[p] # NoFile
    BY <2>1, <2>2, Zenon
  <2> QED BY <2>1, <2>3, <1>3 DEF IInv, NoVersionNoFile
<1>5. disk[p].ver \in 1..edits /\ saw[t].ver \in 1..edits
  <2>1. disk[p].ver \in 0..edits /\ saw[t].ver \in 0..edits /\ edits \in Nat
    BY <1>3, ShapeFacts
  <2>2. saw[t].ver # 0
    BY <1>4 DEF IInv, SawFile
  <2> QED BY <2>1, <2>2, <1>4
<1>6. opened \in [path : Paths, ver : 1..edits] /\ opened.path = p /\ opened.ver = disk[p].ver
  BY <1>3, <1>5
<1> HIDE DEF fresh, opened
<1>7. DOMAIN mapped \subseteq {reader}
  BY DEF IInv, NoLeakedMapping
<1>8. DOMAIN mapped' = {fresh} /\ mapped'[fresh] = opened /\ mapped' = [h \in {fresh} |-> opened]
  BY <1>1, <1>7
<1>9. NoVersionTwice' /\ NoVersionNoFile' /\ SawFile' /\ ReadsCurrent' /\ Shape'
  <2>1. reader' \in Handles \cup {None}
    BY <1>1, <1>2
  <2>2. mapped' \in [DOMAIN mapped' -> [path : Paths, ver : 1..edits]]
    BY <1>6, <1>8
  <2> QED BY <2>1, <2>2, <1>1, ReopenKeeps
<1>10. NoLeakedMapping'
  BY <1>1, <1>2, <1>8 DEF NoLeakedMapping
<1>11. \A u \in Threads : saw[u].path = p => saw[u].ver <= disk[p].ver
  <2> SUFFICES ASSUME NEW u \in Threads, saw[u].path = p PROVE saw[u].ver <= disk[p].ver
    OBVIOUS
  <2>1. CASE saw[u].ver = 0
    BY <2>1, <1>5
  <2>2. CASE saw[u].ver # 0
    BY <2>2, <1>4 DEF IInv, SawFile
  <2> QED BY <2>1, <2>2
<1>12. ReaderStamp'
  <2> DEFINE v == saw[t].ver
  <2>1. saw[t].stamp = Stamp[v] /\ v <= disk[p].ver
    BY <1>5, <1>11 DEF IInv, SawFile
  <2>2. /\ \A q \in Paths : disk[q].ver = v => q = p
        /\ \A u \in Threads : saw[u].ver = v => saw[u].path = p
    BY <1>5 DEF IInv, SawFile
  <2>3. KeptVersion(v)'
    BY <2>1, <2>2, <1>1, <1>6, <1>8 DEF KeptVersion
  <2> QED BY <2>3, <1>5 DEF ReaderStamp
<1>13. NotOlder'
  BY <1>1, <1>5, <1>6, <1>8, <1>11, ShapeFacts DEF NotOlder
<1> QED BY <1>9, <1>10, <1>12, <1>13 DEF IInv

LEMMA ReopenStep ==
  ASSUME IInv, NEW t \in Threads, Reopen(t)
  PROVE  IInv'
<1>1. /\ pc[t] = "slow" /\ CanLock
      /\ pc' = [pc EXCEPT ![t] = AfterRefresh(op[t])]
      /\ UNCHANGED <<disk, edits, op, saw, using>>
  BY DEF Reopen
<1>2. CASE UpToDate(t) /\ UNCHANGED watcher
  <2>1. AfterRefresh(op[t]) \in Points /\ AfterRefresh(op[t]) \notin {"config", "statted", "slow", "reading"}
    BY DEF AfterRefresh, Points
  <2>2. StampsTell => mapped[reader].ver >= saw[t].ver
    BY <1>2, UpToDateFacts
  <2> QED BY <1>1, <1>2, <2>1, <2>2, QuietStep
<1>3. CASE DropReader(t)
  BY <1>1, <1>3, DropStep
<1>4. CASE ~OpenFails(t) /\ InstallReader(t)
  BY <1>1, <1>4, InstallStep
<1> QED BY <1>2, <1>3, <1>4 DEF Reopen

-----------------------------------------------------------------------------
\* Every step keeps the invariant.
LEMMA NextIInv == IInv /\ [Next]_vars => IInv'
<1> SUFFICES ASSUME IInv, [Next]_vars PROVE IInv'
  OBVIOUS
<1>1. ASSUME NEW p \in Paths, NEW ok \in BOOLEAN, Remove(p) \/ Replace(p, ok) PROVE IInv'
  BY <1>1, RemoveStep, ReplaceStep
<1>2. ASSUME NEW p \in Paths \cup {NoPath}, SetPath(p) PROVE IInv'
  <2>1. enabled \in BOOLEAN
    BY DEF IInv, Shape
  <2> QED BY <2>1, <1>2, SettingStep DEF SetPath
<1>3. ASSUME NEW on \in BOOLEAN, SetEnabled(on) PROVE IInv'
  <2>1. path \in Paths \cup {NoPath}
    BY DEF IInv, Shape
  <2> QED BY <2>1, <1>3, SettingStep DEF SetEnabled
<1>4. ASSUME NEW t \in Threads, Thread(t) PROVE IInv'
  BY <1>4, BeginStep, StatStep, CheckStep, ReopenStep, LookupStep DEF Thread
<1>5. CASE UNCHANGED vars
  <2>1. /\ UNCHANGED <<disk, edits, enabled, path, reader, stamp, failed, mapped, pc, op, saw, using>>
    BY <1>5 DEF vars, watcher, threads
  <2> QED BY <2>1 DEF IInv, Shape, Files, Sights, NoVersionTwice, NoVersionNoFile, SawFile,
         NoLeakedMapping, ReaderStamp, KeptVersion, ReadsCurrent, NotOlder, StampsTell
<1>6. CASE Edit
  BY <1>1, <1>2, <1>3, <1>6, RemoveStep, ReplaceStep, CloseStep DEF Edit
<1> QED BY <1>4, <1>5, <1>6 DEF Next

\* The inductive invariant holds always.
THEOREM WatcherInvariant == Spec => []IInv
<1>1. Init => IInv
  BY InitIInv
<1>2. IInv /\ [Next]_vars => IInv'
  BY NextIInv
<1> QED BY <1>1, <1>2, PTL DEF Spec

\* A Lookup never reads a file that was unmapped under it, whichever reloads,
\* drops and Closes run meanwhile (watcher.go:99-105).
THEOREM WatcherNoUseAfterClose == Spec => []NoUseAfterClose
<1>1. IInv => NoUseAfterClose
  BY ShapeFacts DEF IInv, ReadsCurrent, NoUseAfterClose
<1> QED BY <1>1, WatcherInvariant, PTL

\* Every reader that was replaced or dropped was closed: what is mapped is the
\* current reader's file and nothing else (watcher.go:215-239).
THEOREM WatcherNoLeakedMapping == Spec => []NoLeakedMapping
<1>1. IInv => NoLeakedMapping
  BY DEF IInv
<1> QED BY <1>1, WatcherInvariant, PTL

\* If modification time and size tell versions apart, a Lookup is never
\* answered from an older version of its file than the one on disk when it
\* looked.
THEOREM WatcherNeverOlderThanSeen == ASSUME StampsTell PROVE Spec => []NeverOlderThanSeen
<1>1. IInv => NeverOlderThanSeen
  BY DEF IInv, NotOlder, ReadsCurrent, NeverOlderThanSeen
<1> QED BY <1>1, WatcherInvariant, PTL

\* If modification time and size tell versions apart, refresh takes the fast
\* path only with a reader of the file it was asked for, no older than the file
\* was when it was looked at.
THEOREM WatcherFastPathSound == ASSUME StampsTell PROVE Spec => FastPathSound
<1>1. IInv => \A t \in Threads :
                CheckFast(t) /\ UpToDate(t) =>
                  mapped[reader].path = saw[t].path /\ mapped[reader].ver >= saw[t].ver
  BY UpToDateFacts
<1> QED BY <1>1, WatcherInvariant, PTL DEF FastPathSound

-----------------------------------------------------------------------------
(***************************************************************************)
(* Reader.Lookup: the Locations that a record comes out as, for any record *)
(* that the database's decoder can yield and any order in which Go ranges  *)
(* over a map.                                                             *)
(***************************************************************************)
\* What a Lookup of an address worth looking up may answer.
Possible(rec) == IF rec \in {NoReader, Corrupt} THEN {Zero} ELSE mapRecord(rec)

\* The answers given so far.
Answers ==
  {a \in [ip : Addresses, loc : {Zero} \cup Possible(record), failed : BOOLEAN] :
     IsResolvable(a.ip) => a.loc \in Possible(record)}

\* The inductive invariant.
GeoInv == record \in Records /\ Decodable(record) /\ answers \in Seq(Answers)

\* A place: whatever name is shown is one of those by locale, and names that
\* may be shown differ only if none of them is English.
PlaceNamed(p) ==
  /\ p.localized # NoNames =>
       /\ \A s \in p.shown : s \in Range(p.localized) /\ s # Blank
       /\ "en" \in DOMAIN p.localized => \A s \in p.shown : s = p.localized["en"]
       /\ Cardinality(DOMAIN p.localized) >= 2 /\ Blank \notin Range(p.localized)
  /\ \A s, u \in p.shown : s # u =>
       "en" \notin DOMAIN p.localized /\ Cardinality(Range(p.localized)) >= 2

-----------------------------------------------------------------------------
\* Two different members make a finite set one of two or more.
LEMMA TwoMembers ==
  ASSUME NEW S, IsFiniteSet(S), NEW x \in S, NEW y \in S, x # y
  PROVE  Cardinality(S) >= 2
<1>1. IsFiniteSet({x}) /\ Cardinality({x}) = 1
  BY FS_Singleton
<1>2. Cardinality({x} \cup {y}) = 2 /\ IsFiniteSet({x} \cup {y})
  BY <1>1, FS_AddElement
<1>3. ({x} \cup {y}) \in SUBSET S
  OBVIOUS
<1>4. Cardinality({x} \cup {y}) <= Cardinality(S)
  BY <1>3, FS_Subset
<1>5. Cardinality(S) \in Nat
  BY FS_CardinalityType
<1> QED BY <1>2, <1>4, <1>5

\* A place with one name only.
LEMMA PlainNamed == ASSUME NEW s PROVE PlaceNamed(Plain(s))
BY DEF PlaceNamed, Plain

\* The names of a map: English first, else any.
LEMMA BlockNamed ==
  ASSUME NEW m, IsMap(m), FiniteNames(m)
  PROVE  PlaceNamed(Block(m))
<1> DEFINE names == Get(m, "names")
           N == Named(names)
           f == [l \in N |-> str(names.at[l])]
<1>0. Block(m).shown = localizedName(m) /\ Block(m).localized = localizedNames(m)
  BY DEF Block
<1>1. CASE ~IsMap(names)
  <2>1. localizedName(m) = {str(Get(m, "name"))} /\ localizedNames(m) = NoNames
    BY <1>1 DEF localizedName, localizedNames
  <2> QED BY <1>0, <2>1 DEF PlaceNamed
<1>2. CASE IsMap(names)
  <2>1. IsFiniteSet(N) /\ N \subseteq DOMAIN names.at
    <3>1. IsFiniteSet(DOMAIN names.at)
      BY <1>2 DEF FiniteNames
    <3>2. N \in SUBSET (DOMAIN names.at)
      BY DEF Named
    <3> QED BY <3>1, <3>2, FS_Subset
  <2>2. DOMAIN f = N /\ Range(f) = {str(names.at[l]) : l \in N}
    BY DEF Range
  <2>3. IsFiniteSet(Range(f))
    <3>1. f \in Surjection(N, Range(f))
      BY <2>2 DEF Surjection
    <3> HIDE DEF f, N
    <3> QED BY <2>1, <3>1, FS_Surjection
  <2>4. \A l \in N : str(names.at[l]) # Blank
    BY DEF Named
  <2>5. str(Get(names, "en")) # Blank <=> "en" \in N
    <3>1. CASE "en" \in DOMAIN names.at
      <4>1. Get(names, "en") = names.at["en"]
        BY <3>1 DEF Get
      <4> QED BY <3>1, <4>1 DEF Named
    <3>2. CASE "en" \notin DOMAIN names.at
      <4>1. Get(names, "en") = Nil
        BY <3>2 DEF Get
      <4>2. str(Nil) = Blank
        BY DEF str, Nil
      <4> QED BY <3>2, <4>1, <4>2 DEF Named
    <3> QED BY <3>1, <3>2
  <2>6. "en" \in N => localizedName(m) = {str(names.at["en"])}
    <3>1. "en" \in N => Get(names, "en") = names.at["en"]
      BY <2>1 DEF Get
    <3> QED BY <3>1, <2>5, <1>2 DEF localizedName
  <2>7. "en" \notin N => localizedName(m) = IF N = {} THEN {Blank} ELSE {str(names.at[l]) : l \in N}
    BY <2>5, <1>2 DEF localizedName
  <2>8. localizedNames(m) = IF Cardinality(N) < 2 THEN NoNames ELSE f
    BY <1>2 DEF localizedNames
  <2>9. Cardinality(N) \in Nat
    BY <2>1, FS_CardinalityType
  <2> HIDE DEF names, N, f
  <2>a. \A l \in N : f[l] = str(names.at[l])
    BY DEF f
  <2>10. N # {} => localizedName(m) \subseteq Range(f)
    BY <2>2, <2>6, <2>7
  <2>11. Blank \notin Range(f)
    BY <2>2, <2>4
  <2>12. ASSUME Block(m).localized # NoNames
         PROVE  /\ \A s \in Block(m).shown : s \in Range(Block(m).localized) /\ s # Blank
                /\ "en" \in DOMAIN Block(m).localized =>
                     \A s \in Block(m).shown : s = Block(m).localized["en"]
                /\ Cardinality(DOMAIN Block(m).localized) >= 2
                /\ Blank \notin Range(Block(m).localized)
    <3>1. Block(m).localized = f /\ Cardinality(N) >= 2
      BY <2>12, <1>0, <2>8, <2>9
    <3>2. N # {}
      BY <3>1, FS_EmptySet
    <3>3. "en" \in N => localizedName(m) = {f["en"]}
      BY <2>6, <2>a
    <3> QED BY <1>0, <3>1, <3>2, <3>3, <2>2, <2>10, <2>11
  <2>13. ASSUME NEW s \in Block(m).shown, NEW u \in Block(m).shown, s # u
         PROVE  "en" \notin DOMAIN Block(m).localized /\ Cardinality(Range(Block(m).localized)) >= 2
    <3>1. "en" \notin N /\ N # {}
      BY <2>13, <1>0, <2>6, <2>7
    <3>2. s \in Range(f) /\ u \in Range(f)
      BY <3>1, <1>0, <2>10
    <3>3. PICK k \in N, l \in N : s = f[k] /\ u = f[l]
      BY <3>2, <2>2, <2>a
    <3>4. Cardinality(N) >= 2
      BY <3>3, <2>13, <2>1, TwoMembers
    <3>5. Block(m).localized = f
      BY <3>4, <2>9, <1>0, <2>8
    <3>6. Cardinality(Range(f)) >= 2
      BY <3>2, <2>13, <2>3, TwoMembers
    <3> QED BY <3>1, <3>5, <3>6, <2>2
  <2> QED BY <2>12, <2>13 DEF PlaceNamed
<1> QED BY <1>1, <1>2

LEMMA NotMaps == ~IsMap(Nil) /\ ~IsMap(NoReader) /\ ~IsMap(Corrupt)
BY DEF IsMap, Nil, NoReader, Corrupt

\* The three places of a record.
LEMMA PlacesNamed ==
  ASSUME NEW rec, Decodable(rec), IsMap(rec)
  PROVE  PlaceNamed(CountryOf(rec)) /\ PlaceNamed(CityOf(rec)) /\ PlaceNamed(RegionOf(rec))
<1>1. /\ FiniteNames(Get(rec, "country")) /\ FiniteNames(Get(rec, "city"))
      /\ FiniteNames(FirstSubdivision(rec))
  <2>1. rec \notin {Nil, NoReader, Corrupt}
    BY NotMaps
  <2> QED BY <2>1 DEF Decodable
<1>2. PlaceNamed(CountryOf(rec)) /\ PlaceNamed(CityOf(rec))
  BY <1>1, BlockNamed, PlainNamed DEF CountryOf, CityOf
<1>3. PlaceNamed(RegionOf(rec))
  <2> DEFINE first == Block(FirstSubdivision(rec))
             region == str(Get(rec, "region"))
  <2>1. PlaceNamed(first)
    <3>1. IsMap(FirstSubdivision(rec))
      BY DEF FirstSubdivision, IsMap, Map
    <3> QED BY <1>1, <3>1, BlockNamed
  <2>2. RegionOf(rec).localized = first.localized
    BY DEF RegionOf, Block
  <2>3. RegionOf(rec).shown = {IF s = Blank THEN region ELSE s : s \in first.shown}
    BY DEF RegionOf, Block
  <2>4. \A s \in RegionOf(rec).shown : \E u \in first.shown : s = IF u = Blank THEN region ELSE u
    BY <2>3
  <2> HIDE DEF first, region
  <2>5. first.localized # NoNames => RegionOf(rec).shown \subseteq first.shown
    BY <2>1, <2>4 DEF PlaceNamed
  <2>6. \A s, u \in RegionOf(rec).shown : s # u => \E v, w \in first.shown : v # w
    BY <2>4
  <2> QED BY <2>1, <2>2, <2>5, <2>6 DEF PlaceNamed
<1> QED BY <1>2, <1>3

-----------------------------------------------------------------------------
\* Rounding up to whole kilometres.
LEMMA RoundsUp ==
  ASSUME NEW max \in Nat, NEW h \in 0..(2 * max)
  PROVE  LET k == (h + 1) \div 2
         IN  k \in Nat /\ k <= max /\ 2 * k >= h /\ 2 * (k - 1) < h
<1> DEFINE k == (h + 1) \div 2
<1>1. k \in Int /\ 2 * k <= h + 1 /\ h + 1 < 2 * k + 2
  OBVIOUS
<1> HIDE DEF k
<1>2. k \in Nat /\ k <= max /\ 2 * k >= h /\ 2 * (k - 1) < h
  BY <1>1
<1> QED BY <1>2 DEF k

LEMMA RadiusFacts ==
  ASSUME NEW r, HasValue(r)
  PROVE  /\ RadiusKm(r) # 0 => IsNumber(r) /\ RadiusKm(r) <= maxAccuracyRadiusKm
         /\ IsNumber(r) =>
              \/ r.halves \notin 0..(2 * maxAccuracyRadiusKm) /\ RadiusKm(r) = 0
              \/ 2 * RadiusKm(r) >= r.halves /\ 2 * (RadiusKm(r) - 1) < r.halves
<1>1. CASE IsNumber(r) /\ r.halves \in 0..(2 * maxAccuracyRadiusKm)
  <2>1. PICK h : h = r.halves
    OBVIOUS
  <2>2. h \in 0..(2 * maxAccuracyRadiusKm) /\ RadiusKm(r) = (h + 1) \div 2
    BY <1>1, <2>1 DEF RadiusKm
  <2>3. PICK k : k = (h + 1) \div 2
    OBVIOUS
  <2>4. k <= maxAccuracyRadiusKm /\ 2 * k >= h /\ 2 * (k - 1) < h
    BY <2>2, <2>3, RoundsUp, LookupBounds
  <2> QED BY <1>1, <2>1, <2>2, <2>3, <2>4
<1>2. CASE ~(IsNumber(r) /\ r.halves \in 0..(2 * maxAccuracyRadiusKm))
  <2>1. RadiusKm(r) = 0
    BY <1>2 DEF RadiusKm
  <2> QED BY <1>2, <2>1
<1> QED BY <1>1, <1>2

\* No coordinates, where the record has none.
LEMMA NothingOf ==
  ASSUME NEW at, ~IsMap(at)
  PROVE  PlaceOf(NoPlace, at)
<1>1. ~IsNumber(Nil)
  BY DEF IsNumber, Nil, NumberTypes
<1>2. NoPlace.Latitude = 0 /\ NoPlace.Longitude = 0 /\ NoPlace.AccuracyRadiusKm = 0
  BY DEF NoPlace
<1> QED BY <1>1, <1>2 DEF PlaceOf

LEMMA CoordinatesOf ==
  ASSUME NEW at, IsMap(at),
         \A key \in {"latitude", "longitude", "accuracy_radius"} : HasValue(Get(at, key))
  PROVE  PlaceOf(coordinates(at), at)
<1>1. PICK lat : lat = Get(at, "latitude")
  OBVIOUS
<1>2. PICK lon : lon = Get(at, "longitude")
  OBVIOUS
<1>3. PICK r : r = Get(at, "accuracy_radius")
  OBVIOUS
<1>4. HasValue(lat) /\ HasValue(lon) /\ HasValue(r)
  BY <1>1, <1>2, <1>3
<1>5. PICK p : p = coordinates(at)
  OBVIOUS
<1> DEFINE pair == /\ IsNumber(lat) /\ lat.halves >= -180 /\ lat.halves <= 180
                   /\ IsNumber(lon) /\ lon.halves >= -360 /\ lon.halves <= 360
<1>6. (Within(lat, 90) /\ Within(lon, 180)) <=> pair
  <2>1. \A v : HasValue(v) =>
          (Within(v, 90) <=> IsNumber(v) /\ v.halves >= -180 /\ v.halves <= 180)
    <3>1. \A h \in Int : h \in -(2 * 90)..(2 * 90) <=> h >= -180 /\ h <= 180
      OBVIOUS
    <3> QED BY <3>1 DEF Within, HasValue
  <2>2. \A v : HasValue(v) =>
          (Within(v, 180) <=> IsNumber(v) /\ v.halves >= -360 /\ v.halves <= 360)
    <3>1. \A h \in Int : h \in -(2 * 180)..(2 * 180) <=> h >= -360 /\ h <= 360
      OBVIOUS
    <3> QED BY <3>1 DEF Within, HasValue
  <2> QED BY <1>4, <2>1, <2>2
<1>7. CASE pair /\ ~(lat.halves = 0 /\ lon.halves = 0)
  <2>1. p = [Latitude |-> lat.halves, Longitude |-> lon.halves, AccuracyRadiusKm |-> RadiusKm(r)]
    BY <1>1, <1>2, <1>3, <1>5, <1>6, <1>7 DEF coordinates
  <2>2. p.Latitude = lat.halves /\ p.Longitude = lon.halves /\ p.AccuracyRadiusKm = RadiusKm(r)
    BY <2>1
  <2>3. <<lat.halves, lon.halves>> # <<0, 0>>
    BY <1>7
  <2> QED BY <1>1, <1>2, <1>3, <1>4, <1>5, <1>7, <2>2, <2>3, RadiusFacts DEF PlaceOf
<1>8. CASE ~pair \/ (lat.halves = 0 /\ lon.halves = 0)
  <2>1. p = NoPlace
    BY <1>1, <1>2, <1>5, <1>6, <1>8 DEF coordinates
  <2>2. p.Latitude = 0 /\ p.Longitude = 0 /\ p.AccuracyRadiusKm = 0
    BY <2>1 DEF NoPlace
  <2> QED BY <1>1, <1>2, <1>3, <1>5, <1>8, <2>2 DEF PlaceOf
<1> QED BY <1>7, <1>8

-----------------------------------------------------------------------------
\* An answer that Lookup may give: its place and its names are the record's.
LocationOf(loc, rec) ==
  /\ PlaceOf(loc.Place, IF IsMap(rec) THEN Get(rec, "location") ELSE Nil)
  /\ IF IsMap(rec)
       THEN /\ loc.Country \in CountryOf(rec).shown
            /\ loc.City \in CityOf(rec).shown
            /\ loc.Region \in RegionOf(rec).shown
            /\ loc.LocalizedNames = setLocalized(CountryOf(rec).localized,
                                                 RegionOf(rec).localized, CityOf(rec).localized)
       ELSE loc = Zero

LEMMA PossibleFacts ==
  ASSUME NEW rec, Decodable(rec), NEW loc \in Possible(rec)
  PROVE  LocationOf(loc, rec)
<1>1. CASE rec \in {Nil, NoReader, Corrupt}
  <2>1. loc = Zero /\ ~IsMap(rec)
    BY NotMaps, <1>1 DEF Possible, mapRecord
  <2>2. Zero.Place = NoPlace
    BY DEF Zero
  <2> QED BY NotMaps, <2>1, <2>2, NothingOf DEF LocationOf
<1>2. CASE rec \notin {Nil, NoReader, Corrupt}
  <2>1. /\ IsMap(rec)
        /\ IsMap(Get(rec, "location")) =>
             \A key \in {"latitude", "longitude", "accuracy_radius"} :
               HasValue(Get(Get(rec, "location"), key))
    BY <1>2 DEF Decodable
  <2>2. PICK at : at = Get(rec, "location")
    OBVIOUS
  <2>3. loc \in mapRecord(rec)
    BY <1>2 DEF Possible
  <2>4. /\ loc.Country \in CountryOf(rec).shown
        /\ loc.City \in CityOf(rec).shown
        /\ loc.Region \in RegionOf(rec).shown
        /\ loc.Place = (IF IsMap(at) THEN coordinates(at) ELSE NoPlace)
        /\ loc.LocalizedNames = setLocalized(CountryOf(rec).localized,
                                             RegionOf(rec).localized, CityOf(rec).localized)
    BY <1>2, <2>2, <2>3 DEF mapRecord
  <2>5. PlaceOf(loc.Place, at)
    BY <2>1, <2>2, <2>4, CoordinatesOf, NothingOf
  <2> QED BY <2>1, <2>2, <2>4, <2>5 DEF LocationOf
<1> QED BY <1>1, <1>2

-----------------------------------------------------------------------------
LEMMA InitGeoInv == LookupInit => GeoInv
BY RecordsType DEF LookupInit, GeoInv

LEMMA NextGeoInv == GeoInv /\ [LookupNext]_lookupVars => GeoInv'
<1> SUFFICES ASSUME GeoInv, [LookupNext]_lookupVars PROVE GeoInv'
  OBVIOUS
<1>1. ASSUME NEW ip \in Addresses, Lookup(ip) PROVE GeoInv'
  <2>1. record' = record
    BY <1>1 DEF Lookup
  <2>2. PICK loc \in (IF record \in {NoReader, Corrupt} \/ ~IsResolvable(ip) THEN {Zero}
                      ELSE mapRecord(record)) :
          answers' = Append(answers, [ip |-> ip, loc |-> loc,
                                      failed |-> record = Corrupt /\ IsResolvable(ip)])
    BY <1>1 DEF Lookup
  <2>3. PICK broken : broken = (record = Corrupt /\ IsResolvable(ip))
    OBVIOUS
  <2>4. broken \in BOOLEAN
    BY <2>3
  <2>5. loc \in {Zero} \cup Possible(record) /\ (IsResolvable(ip) => loc \in Possible(record))
    BY <2>2 DEF Possible
  <2>6. PICK a : a = [ip |-> ip, loc |-> loc, failed |-> broken]
    OBVIOUS
  <2>7. a \in [ip : Addresses, loc : {Zero} \cup Possible(record), failed : BOOLEAN]
        /\ a.ip = ip /\ a.loc = loc
    BY <2>4, <2>5, <2>6
  <2>8. a \in Answers
    BY <2>5, <2>7 DEF Answers
  <2>9. answers' = Append(answers, a)
    BY <2>2, <2>3, <2>6
  <2>10. answers' \in Seq(Answers)
    BY <2>8, <2>9 DEF GeoInv
  <2>11. Answers' = Answers
    BY <2>1 DEF Answers, Possible
  <2> QED BY <2>1, <2>10, <2>11 DEF GeoInv
<1>2. CASE UNCHANGED lookupVars
  BY <1>2 DEF lookupVars, GeoInv, Answers, Possible
<1> QED BY <1>1, <1>2 DEF LookupNext

\* What was found is what the record may come out as.
LEMMA FoundFacts ==
  ASSUME GeoInv
  PROVE  \A loc \in Found : LocationOf(loc, record)
<1> SUFFICES ASSUME NEW i \in DOMAIN answers, IsResolvable(answers[i].ip)
             PROVE  LocationOf(answers[i].loc, record)
  BY DEF Found
<1>1. answers[i] \in Answers
  BY DEF GeoInv
<1>2. answers[i].loc \in Possible(record)
  BY <1>1 DEF Answers
<1> QED BY <1>2, PossibleFacts DEF GeoInv

\* Every answer of Lookup is one that mapRecord may give for the record, or the
\* zero Location for an address that is not looked up.
THEOREM GeoInvariant == LookupSpec => []GeoInv
<1>1. LookupInit => GeoInv
  BY InitGeoInv
<1>2. GeoInv /\ [LookupNext]_lookupVars => GeoInv'
  BY NextGeoInv
<1> QED BY <1>1, <1>2, PTL DEF LookupSpec

\* A place that is shown is the record's own pair, and its radius is rounded
\* up (geoip.go:51-52, 291-294).
THEOREM GeoPairOrNothing == LookupSpec => []PairOrNothing
<1>1. GeoInv => PairOrNothing
  <2> SUFFICES ASSUME GeoInv PROVE PairOrNothing
    OBVIOUS
  <2>1. \A loc \in Found : PlaceOf(loc.Place, IF IsMap(record) THEN Get(record, "location") ELSE Nil)
    BY FoundFacts DEF LocationOf
  <2> QED BY <2>1 DEF PairOrNothing, PlaceOf, Whole
<1> QED BY <1>1, GeoInvariant, PTL

\* The places of a record, by the name they have in an answer.
PlaceAt(rec, place) ==
  [Country |-> CountryOf(rec), Region |-> RegionOf(rec), City |-> CityOf(rec)][place]

LEMMA ByName ==
  ASSUME NEW loc, NEW rec, LocationOf(loc, rec), IsMap(rec),
         NEW place \in {"Country", "Region", "City"}
  PROVE  /\ loc[place] \in PlaceAt(rec, place).shown
         /\ loc.LocalizedNames[place] = PlaceAt(rec, place).localized
<1>1. CASE place = "Country"
  BY <1>1 DEF LocationOf, setLocalized, PlaceAt
<1>2. CASE place = "City"
  BY <1>2 DEF LocationOf, setLocalized, PlaceAt
<1>3. CASE place = "Region"
  BY <1>3 DEF LocationOf, setLocalized, PlaceAt
<1> QED BY <1>1, <1>2, <1>3

LEMMA PlaceAtNamed ==
  ASSUME NEW rec, Decodable(rec), IsMap(rec), NEW place \in {"Country", "Region", "City"}
  PROVE  PlaceNamed(PlaceAt(rec, place))
BY PlacesNamed DEF PlaceAt

LEMMA ZeroNames ==
  ASSUME NEW place \in {"Country", "Region", "City"}
  PROVE  Zero.LocalizedNames[place] = NoNames
BY DEF Zero, setLocalized

\* The name that is shown is one of those by locale, the English one if there
\* is one, whatever order localizedName ranged in.
THEOREM GeoNamesAgree == LookupSpec => []NamesAgree
<1>1. GeoInv => NamesAgree
  <2> SUFFICES ASSUME GeoInv, NEW loc \in Found, NEW place \in {"Country", "Region", "City"},
                      loc.LocalizedNames[place] # NoNames
               PROVE  LET byLocale == loc.LocalizedNames[place]
                      IN  /\ loc[place] \in Range(byLocale)
                          /\ "en" \in DOMAIN byLocale => loc[place] = byLocale["en"]
                          /\ Cardinality(DOMAIN byLocale) >= 2 /\ Blank \notin Range(byLocale)
    BY DEF NamesAgree
  <2>1. LocationOf(loc, record) /\ Decodable(record)
    BY FoundFacts DEF GeoInv
  <2>2. IsMap(record)
    BY <2>1, ZeroNames DEF LocationOf
  <2>3. PICK p : p = PlaceAt(record, place)
    OBVIOUS
  <2>4. PlaceNamed(p) /\ loc[place] \in p.shown /\ loc.LocalizedNames[place] = p.localized
    BY <2>1, <2>2, <2>3, ByName, PlaceAtNamed
  <2> QED BY <2>4 DEF PlaceNamed
<1> QED BY <1>1, GeoInvariant, PTL

\* A record looked up again gives the same names, but for a place with several
\* names of which none is English (geoip.go:338-339).
THEOREM GeoStableUnlessForeign == LookupSpec => []StableUnlessForeign
<1>1. GeoInv => StableUnlessForeign
  <2> SUFFICES ASSUME GeoInv, NEW a \in Found, NEW b \in Found,
                      NEW place \in {"Country", "Region", "City"}, a[place] # b[place]
               PROVE  /\ "en" \notin DOMAIN a.LocalizedNames[place]
                      /\ Cardinality(Range(a.LocalizedNames[place])) >= 2
    BY DEF StableUnlessForeign
  <2>1. LocationOf(a, record) /\ LocationOf(b, record) /\ Decodable(record)
    BY FoundFacts DEF GeoInv
  <2>2. IsMap(record)
    BY <2>1 DEF LocationOf
  <2>3. PICK p : p = PlaceAt(record, place)
    OBVIOUS
  <2>4. /\ PlaceNamed(p) /\ a[place] \in p.shown /\ b[place] \in p.shown
        /\ a.LocalizedNames[place] = p.localized
    BY <2>1, <2>2, <2>3, ByName, PlaceAtNamed
  <2> QED BY <2>4 DEF PlaceNamed
<1> QED BY <1>1, GeoInvariant, PTL
=============================================================================
