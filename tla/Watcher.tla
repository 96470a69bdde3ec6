------------------------------- MODULE Watcher -------------------------------
(***************************************************************************)
(* geoip.Watcher (geoip/watcher.go): concurrent Lookup and Refresh calls   *)
(* over one database handle that is reopened when the file on disk has     *)
(* changed, while a caller reconfigures the Watcher and somebody else      *)
(* replaces the file by rename.                                            *)
(*                                                                         *)
(* refresh works on what it read earlier: the configuration (first RLock), *)
(* the file's stamp (os.Stat, no lock), the comparison (second RLock), and *)
(* only then the write lock.  Each of the four is a step.  The write-      *)
(* locked section is one step: it reads the disk once, in Open, and nobody *)
(* else can see the Watcher meanwhile.  Lookup's RLock section spans two   *)
(* steps, because it stays open while the mapped file is being read.       *)
(***************************************************************************)
EXTENDS Integers, FiniteSets

CONSTANTS
  Threads,    \* goroutines calling Lookup or Refresh
  Paths,      \* database files
  NoPath,     \* the empty path
  Handles,    \* open Readers; one more than there are Threads is enough
  MaxEdits,   \* bound on file replacements and configuration calls together
  Stamp       \* modification time and size of each version of a file

ASSUME NoPathOutside == NoPath \notin Paths
ASSUME EditsType == MaxEdits \in Nat
\* A stamp is never that of the zero time with size zero.
ASSUME StampType == Stamp \in [1..MaxEdits -> Nat \ {0}]
\* Open always finds a handle that is not in use; 0 is the nil reader.
ASSUME HandlesType == 0 \notin Handles /\ \E g, h \in Handles : g # h

VARIABLES
  disk,       \* per path: the file there, [ver, ok]; version 0 is "no file"
  edits,      \* how many edits there were; also the newest version
  enabled,    \* Watcher.enabled
  path,       \* Watcher.path
  reader,     \* Watcher.reader: the handle, or None
  stamp,      \* Watcher.modTime and Watcher.size; 0 is the zero value
  failed,     \* Watcher.openErr # nil
  mapped,     \* per open handle: what file version is mapped, [path, ver]
  pc,         \* per thread: where in Lookup or Refresh it is
  op,         \* per thread: "Lookup" or "Refresh"
  saw,        \* per thread: refresh's locals: enabled, path, stamp and, as
              \* history, the version that os.Stat looked at
  using,      \* per thread: the handle an open Lookup reads from
  wanted      \* history: the path last given to SetPath

None == 0
NoFile == [ver |-> 0, ok |-> FALSE]

watcher == <<enabled, path, reader, stamp, failed, mapped>>
threads == <<pc, op, saw, using>>
vars == <<disk, edits, watcher, threads, wanted>>

Init ==
  /\ disk = [p \in Paths |-> NoFile]
  /\ edits = 0
  /\ enabled = TRUE
  /\ path \in Paths \cup {NoPath}
  /\ reader = None /\ stamp = 0 /\ failed = FALSE
  /\ mapped = [h \in {} |-> {}]
  /\ pc = [t \in Threads |-> "idle"]
  /\ op = [t \in Threads |-> "Refresh"]
  /\ saw = [t \in Threads |-> [enabled |-> FALSE, path |-> NoPath, stamp |-> 0, ver |-> 0]]
  /\ using = [t \in Threads |-> None]
  /\ wanted = path

-----------------------------------------------------------------------------
\* The world around the Watcher.  External: a new version of a file arrives
\* by rename, good or not a database, or the file goes away.
Replace(p, ok) ==
  /\ edits < MaxEdits
  /\ edits' = edits + 1
  /\ disk' = [disk EXCEPT ![p] = [ver |-> edits + 1, ok |-> ok]]
  /\ UNCHANGED <<watcher, threads, wanted>>

Remove(p) ==
  /\ edits < MaxEdits /\ disk[p] # NoFile
  /\ edits' = edits + 1
  /\ disk' = [disk EXCEPT ![p] = NoFile]
  /\ UNCHANGED <<watcher, threads, wanted>>

\* The write lock can be taken: no Lookup is inside its RLock section.  (A
\* name with a suffix is, here and below, the code with a seeded fault.)
CanLock_Always == TRUE
CanLock == \A t \in Threads : pc[t] # "reading"

SetPath(p) ==
  /\ CanLock
  /\ edits < MaxEdits
  /\ edits' = edits + 1
  /\ path' = p
  /\ wanted' = p
  /\ UNCHANGED <<disk, enabled, reader, stamp, failed, mapped, threads>>

SetEnabled(on) ==
  /\ CanLock
  /\ edits < MaxEdits /\ enabled # on
  /\ edits' = edits + 1
  /\ enabled' = on
  /\ UNCHANGED <<disk, path, reader, stamp, failed, mapped, threads, wanted>>

\* reader.Close() unmaps the file.
Unmap(m, h) == [k \in (DOMAIN m) \ {h} |-> m[k]]

Close ==
  /\ CanLock
  /\ edits < MaxEdits /\ reader # None
  /\ edits' = edits + 1
  /\ mapped' = Unmap(mapped, reader)
  /\ reader' = None
  /\ stamp' = 0
  /\ UNCHANGED <<disk, enabled, path, failed, threads, wanted>>

-----------------------------------------------------------------------------
\* refresh is over: a Refresh returns, a Lookup goes on to read.
AfterRefresh(o) == IF o = "Lookup" THEN "refreshed" ELSE "idle"

\* Lookup or Refresh is called, and refresh reads enabled and path.
Begin(t, o) ==
  /\ pc[t] = "idle"
  /\ op' = [op EXCEPT ![t] = o]
  /\ saw' = [saw EXCEPT ![t] = [enabled |-> enabled, path |-> path, stamp |-> 0, ver |-> 0]]
  /\ pc' = [pc EXCEPT ![t] = IF enabled /\ path # NoPath THEN "config" ELSE AfterRefresh(o)]
  /\ UNCHANGED <<disk, edits, watcher, using, wanted>>

\* os.Stat: the stamp stays zero when it fails.
StatFile(t) ==
  /\ pc[t] = "config"
  /\ LET file == disk[saw[t].path]
     IN  saw' = [saw EXCEPT ![t].stamp = IF file = NoFile THEN 0 ELSE Stamp[file.ver],
                            ![t].ver = file.ver]
  /\ pc' = [pc EXCEPT ![t] = "statted"]
  /\ UNCHANGED <<disk, edits, watcher, op, using, wanted>>

\* What refresh compares, under either lock.
UpToDate_NoStamp(t) == reader # None /\ path = saw[t].path
UpToDate(t) == reader # None /\ path = saw[t].path /\ stamp = saw[t].stamp

CheckFast(t) ==
  /\ pc[t] = "statted"
  /\ pc' = [pc EXCEPT ![t] = IF UpToDate(t) THEN AfterRefresh(op[t]) ELSE "slow"]
  /\ UNCHANGED <<disk, edits, watcher, op, saw, using, wanted>>

\* A handle nobody refers to.
FreshHandle == CHOOSE h \in Handles : h \notin DOMAIN mapped /\ \A t \in Threads : using[t] # h

\* os.Stat had failed, or Open fails now: the reader is closed and dropped.
OpenFails(t) == saw[t].stamp = 0 \/ ~disk[saw[t].path].ok

DropReader_Keeps(t) == UNCHANGED watcher
DropReader(t) ==
  /\ mapped' = Unmap(mapped, reader)
  /\ reader' = None
  /\ path' = saw[t].path /\ stamp' = saw[t].stamp /\ failed' = TRUE
  /\ UNCHANGED enabled

\* Open succeeds: the old reader is closed, the new one takes its place
\* under the path and the stamp that were read before the lock was taken.
InstallReader_Leaks(t) ==
  /\ reader' = FreshHandle
  /\ mapped' = [h \in (DOMAIN mapped) \cup {FreshHandle} |->
                  IF h = FreshHandle THEN [path |-> saw[t].path, ver |-> disk[saw[t].path].ver]
                                     ELSE mapped[h]]
  /\ path' = saw[t].path /\ stamp' = saw[t].stamp /\ failed' = FALSE
  /\ UNCHANGED enabled
InstallReader(t) ==
  /\ reader' = FreshHandle
  /\ mapped' = [h \in ((DOMAIN mapped) \ {reader}) \cup {FreshHandle} |->
                  IF h = FreshHandle THEN [path |-> saw[t].path, ver |-> disk[saw[t].path].ver]
                                     ELSE mapped[h]]
  /\ path' = saw[t].path /\ stamp' = saw[t].stamp /\ failed' = FALSE
  /\ UNCHANGED enabled

\* The write-locked rest of refresh, after the comparison is repeated.
Reopen(t) ==
  /\ pc[t] = "slow"
  /\ CanLock
  /\ \/ UpToDate(t) /\ UNCHANGED watcher
     \/ ~UpToDate(t) /\ OpenFails(t) /\ DropReader(t)
     \/ ~UpToDate(t) /\ ~OpenFails(t) /\ InstallReader(t)
  /\ pc' = [pc EXCEPT ![t] = AfterRefresh(op[t])]
  /\ UNCHANGED <<disk, edits, op, saw, using, wanted>>

-----------------------------------------------------------------------------
\* Lookup takes the read lock: no reader, no answer.
LookupEmpty(t) ==
  /\ pc[t] = "refreshed"
  /\ reader = None
  /\ pc' = [pc EXCEPT ![t] = "idle"]
  /\ UNCHANGED <<disk, edits, watcher, op, saw, using, wanted>>

\* ... or it starts reading the mapped file, under the read lock,
LookupRead(t) ==
  /\ pc[t] = "refreshed"
  /\ reader # None
  /\ using' = [using EXCEPT ![t] = reader]
  /\ pc' = [pc EXCEPT ![t] = "reading"]
  /\ UNCHANGED <<disk, edits, watcher, op, saw, wanted>>

\* ... and returns, releasing the lock.
LookupDone(t) ==
  /\ pc[t] = "reading"
  /\ using' = [using EXCEPT ![t] = None]
  /\ pc' = [pc EXCEPT ![t] = "idle"]
  /\ UNCHANGED <<disk, edits, watcher, op, saw, wanted>>

Edit ==
  \/ \E p \in Paths : Remove(p) \/ \E ok \in BOOLEAN : Replace(p, ok)
  \/ \E p \in Paths \cup {NoPath} : SetPath(p)
  \/ \E on \in BOOLEAN : SetEnabled(on)
  \/ Close

Thread(t) ==
  \/ \E o \in {"Lookup", "Refresh"} : Begin(t, o)
  \/ StatFile(t)
  \/ CheckFast(t)
  \/ Reopen(t)
  \/ LookupEmpty(t)
  \/ LookupRead(t)
  \/ LookupDone(t)

Next == Edit \/ \E t \in Threads : Thread(t)

Spec == Init /\ [][Next]_vars

\* Calls keep coming and every started call goes on.  A goroutine waiting
\* for the write lock gets it although readers come and go: a blocked
\* sync.RWMutex.Lock keeps new readers out.
Fairness ==
  \A t \in Threads :
    /\ WF_vars(Begin(t, "Lookup"))
    /\ WF_vars(StatFile(t)) /\ WF_vars(CheckFast(t)) /\ SF_vars(Reopen(t))
    /\ WF_vars(LookupEmpty(t)) /\ WF_vars(LookupRead(t)) /\ WF_vars(LookupDone(t))

FairSpec == Spec /\ Fairness

-----------------------------------------------------------------------------
\* A Lookup never reads a file that has been unmapped under it (the comment
\* at watcher.go:99-105), whichever reload or Close runs meanwhile.
NoUseAfterClose == \A t \in Threads : pc[t] = "reading" => using[t] \in DOMAIN mapped

\* The only file mapped is the current reader's: every reader that was
\* replaced or dropped was closed (watcher.go:215-239).
NoLeakedMapping == DOMAIN mapped = IF reader = None THEN {} ELSE {reader}

\* A Lookup is never answered from an older version of its file than the
\* one on disk when it looked, although the file is compared by a stamp that
\* was taken before Open, and may be replaced in between.
NeverOlderThanSeen ==
  \A t \in Threads :
    pc[t] = "reading" /\ mapped[using[t]].path = saw[t].path =>
      mapped[using[t]].ver >= saw[t].ver

\* When refresh finds the reader up to date without the write lock, the
\* reader really is of the file it was asked for, and no older than that file
\* was when it was looked at ("Takes effect on the next Lookup or Refresh",
\* watcher.go:70-72).
FastPathSound ==
  [][\A t \in Threads :
       CheckFast(t) /\ UpToDate(t) =>
         mapped[reader].path = saw[t].path /\ mapped[reader].ver >= saw[t].ver]_vars

\* What the Watcher should hold: the file on disk at its path if that is a
\* database, and nothing otherwise.
Current ==
  enabled /\ path # NoPath =>
    IF disk[path].ok
      THEN reader # None /\ mapped[reader] = [path |-> path, ver |-> disk[path].ver]
      ELSE reader = None

\* Once nobody edits files or settings any more, lookups alone bring the
\* Watcher to the current file and keep it there, however late the threads
\* that still carry an old path or an old stamp act on it.
EventuallyCurrent == <>[]Current

-----------------------------------------------------------------------------
\* "SetPath changes which file the Watcher serves" (watcher.go:70-72): the
\* path is the one last set.
SetPathSticks == path = wanted
=============================================================================
