------------------------------- MODULE Backup -------------------------------
(***************************************************************************)
(* A node's Badger database, its periodic encrypted incremental backups and  *)
(* the recovery of a database from all the backup files in a directory.     *)
(*                                                                         *)
(* Badger gives every write the next version number and answers reads with   *)
(* the newest write of a key.  A backup dumps what is newer than the         *)
(* watermark `since' of the file latest.version; recovery loads every file,  *)
(* each entry with its version, so the order of the files does not matter.   *)
(***************************************************************************)
EXTENDS Naturals

CONSTANTS
    Keys,       \* keys of the database
    MaxVersion, \* bound: writes
    MaxFaults   \* bound: crashes, failing file operations and recoveries

ASSUME BackupAssumption == MaxVersion \in Nat /\ MaxFaults \in Nat

VARIABLES
    log,     \* the writes of the database, superseded ones included
    version, \* version of its last write
    dumps,   \* the complete backup files: the writes that each one has
    partial, \* a file that an earlier backup did not finish is in the directory
    latest,  \* latest.version
    job,     \* the Execute that is running
    faults   \* what is left of the bound

vars == <<log, version, dumps, partial, latest, job, faults>>

Write == [key : Keys, ver : 1..MaxVersion, live : BOOLEAN]

\* st: the file is not there; is readable; was truncated and not written.
Latest == [st : {"absent", "ok", "torn"}, since : 0..MaxVersion]

\* Execute: not running; has its dump; has created its file; has finished it; has
\* opened latest.version for writing.
Job == [pc : {"idle", "dumped", "writing", "written", "saving"},
        ents : SUBSET Write, next : 0..MaxVersion]
NoJob == [pc |-> "idle", ents |-> {}, next |-> 0]

TypeOK ==
    /\ log \subseteq Write
    /\ version \in 0..MaxVersion
    /\ dumps \in SUBSET SUBSET Write
    /\ partial \in BOOLEAN
    /\ latest \in Latest
    /\ job \in Job
    /\ faults \in 0..MaxFaults

Init ==
    /\ log = {}
    /\ version = 0
    /\ dumps = {}
    /\ partial = FALSE
    /\ latest = [st |-> "absent", since |-> 0]
    /\ job = NoJob
    /\ faults = MaxFaults

-----------------------------------------------------------------------------
(***************************************************************************)
(* The database.                                                           *)
(***************************************************************************)
\* What a read of Badger finds: the newest write of each key.
Newest(writes) ==
    {w \in writes : \A x \in writes : x.key = w.key => x.ver <= w.ver}

\* DB.Update commits under the next version.
Commit(k, live) ==
    /\ version < MaxVersion
    /\ version' = version + 1
    /\ log' = log \cup {[key |-> k, ver |-> version + 1, live |-> live]}
    /\ UNCHANGED <<dumps, partial, latest, job, faults>>

Put(k) == Commit(k, TRUE)

\* A delete is a write too: it leaves a marker, which is backed up.
Delete(k) == Commit(k, FALSE)

-----------------------------------------------------------------------------
(***************************************************************************)
(* badgerBackupExecutor.Execute, which the ticker of StartPeriodicBackup     *)
(* runs next to the writes, one call after the other.                       *)
(***************************************************************************)
\* Fault: a version file that is not there is an error like any other.
MustExist == latest.st = "ok"

\* A missing file means that nothing was backed up yet; a torn one is an error.
LoadVersionInfo == latest.st \in {"absent", "ok"}

\* DB.Backup: the newest writes, deletions included, above the watermark.
DumpSince(since) == {w \in Newest(log) : w.ver > since}

\* Fault: a dump is taken to start at the watermark, not after it.
DumpAfterNext == DumpSince(latest.since + 1)

\* What a backup has to hold.
Dump == DumpSince(latest.since)

\* Fault: the same, in the watermark that is recorded.
ExecuteFromNext ==
    /\ job.pc = "idle"
    /\ LoadVersionInfo
    /\ \E w \in Dump :
          /\ \A x \in Dump : x.ver <= w.ver
          /\ job' = [pc |-> "dumped", ents |-> Dump, next |-> w.ver + 1]
    /\ UNCHANGED <<log, version, dumps, partial, latest, faults>>

\* LoadVersionInfo and DB.Backup.  Without changes the backup is skipped.
Execute ==
    /\ job.pc = "idle"
    /\ LoadVersionInfo
    /\ \E w \in Dump :
          /\ \A x \in Dump : x.ver <= w.ver
          /\ job' = [pc |-> "dumped", ents |-> Dump, next |-> w.ver]
    /\ UNCHANGED <<log, version, dumps, partial, latest, faults>>

\* Encrypt the dump and create the file.
CreateFile ==
    /\ job.pc = "dumped"
    /\ job' = [job EXCEPT !.pc = "writing"]
    /\ UNCHANGED <<log, version, dumps, partial, latest, faults>>

\* Magic, metadata and ciphertext are all written.
WriteFile ==
    /\ job.pc = "writing"
    /\ job' = [job EXCEPT !.pc = "written"]
    /\ dumps' = dumps \cup {job.ents}
    /\ UNCHANGED <<log, version, partial, latest, faults>>

\* SaveVersionInfo, os.WriteFile: truncate latest.version, then write it.
OpenVersionFile ==
    /\ job.pc = "written"
    /\ job' = [job EXCEPT !.pc = "saving"]
    /\ latest' = [latest EXCEPT !.st = "torn"]
    /\ UNCHANGED <<log, version, dumps, partial, faults>>

SaveVersionInfo ==
    /\ job.pc = "saving"
    /\ latest' = [st |-> "ok", since |-> job.next]
    /\ job' = NoJob
    /\ UNCHANGED <<log, version, dumps, partial, faults>>

Fault == faults > 0 /\ faults' = faults - 1

\* Fault: an error of a write is taken for one of SaveVersionInfo.
WriteErrorIgnored ==
    /\ Fault
    /\ job.pc # "idle"
    /\ IF job.pc = "writing"
       THEN job' = [job EXCEPT !.pc = "written"] /\ partial' = TRUE
       ELSE job' = NoJob /\ UNCHANGED partial
    /\ UNCHANGED <<log, version, dumps, latest>>

\* A step of Execute returns an error, of which only a log line remains, or the
\* process ends; the file that was being written stays as it is.
ExecuteFails ==
    /\ Fault
    /\ job.pc # "idle"
    /\ partial' = (partial \/ job.pc = "writing")
    /\ job' = NoJob
    /\ UNCHANGED <<log, version, dumps, latest>>

-----------------------------------------------------------------------------
(***************************************************************************)
(* mpcium-cli recover, on a stopped node whose database is lost.            *)
(***************************************************************************)
Saved == UNION dumps

\* loadEncryptedBackup keeps the version of every entry, so that reads find the newest.
Restored == Newest(Saved)

\* RestoreAllBackupsEncrypted gives up at the first file that it cannot read.  The
\* restored database continues after the highest version that it was given.
RestoreAllBackupsEncrypted ==
    /\ Fault
    /\ job.pc = "idle"
    /\ ~partial
    /\ log' = Saved
    /\ \/ Saved = {} /\ version' = 0
       \/ \E w \in Saved : (\A x \in Saved : x.ver <= w.ver) /\ version' = w.ver
    /\ UNCHANGED <<dumps, partial, latest, job>>

-----------------------------------------------------------------------------
BackupStep ==
    \/ Execute
    \/ CreateFile
    \/ WriteFile
    \/ OpenVersionFile
    \/ SaveVersionInfo

Next ==
    \/ \E k \in Keys : Put(k) \/ Delete(k)
    \/ BackupStep
    \/ ExecuteFails
    \/ RestoreAllBackupsEncrypted

Spec == Init /\ [][Next]_vars

\* The ticker keeps firing, and Execute runs on.
FairSpec == Spec /\ WF_vars(BackupStep)

-----------------------------------------------------------------------------
(***************************************************************************)
(* Properties.                                                             *)
(***************************************************************************)
\* The watermark never runs ahead of the files: what a read of the database finds
\* at or below `since' is in a complete file, so no later backup needs to have it.
\* Failed backups, crashes and recoveries that lose the last writes and hand out
\* their versions again do not change that.
NothingSkipped ==
    \A w \in Newest(log) : w.ver <= latest.since => w \in Saved

\* Whatever backups failed, the files hold exactly one state that the database once
\* had, namely the one right after the highest version in them: recovery mixes no
\* two states, misses no key and brings no deleted key back.
RestoreIsSnapshot ==
    \A top \in Saved : (\A x \in Saved : x.ver <= top.ver) =>
        Restored = Newest({w \in log : w.ver <= top.ver})

\* Every write reaches a complete file, unless a newer one supersedes it, a recovery
\* drops it, or latest.version was left torn, after which each backup ends in an error.
BackupCatchesUp ==
    \A k \in Keys, v \in 1..MaxVersion, b \in BOOLEAN :
        LET w == [key |-> k, ver |-> v, live |-> b]
        IN  w \in Newest(log) ~>
                (w \in Saved \/ w \notin Newest(log) \/ latest.st = "torn")
=============================================================================
