--------------------------- MODULE Backup_proofs ---------------------------
(***************************************************************************)
(* Proofs about module Backup, for any keys, writes and faults.             *)
(***************************************************************************)
EXTENDS Backup, WellFoundedInduction, TLAPS

(***************************************************************************)
(* The inductive invariant.  That the watermark skips nothing and that the   *)
(* files hold one state both come down to what `Covered' says: up to the     *)
(* highest version in the files, every write has itself or a newer one of    *)
(* its key in them.  A running backup promises the same of its entries       *)
(* together with the files, from its dump on, while newer writes go on; and  *)
(* the watermark is a version that the files have.                           *)
(***************************************************************************)
Covered(v, S) ==
    \A w \in log : w.ver <= v => \E s \in S : s.key = w.key /\ w.ver <= s.ver

Versions ==
    \A x \in log : x.ver <= version /\ \A y \in log : x.ver = y.ver => x = y

FromLog ==
    /\ Saved \subseteq log
    /\ job.ents \subseteq log
    /\ job.pc = "idle" => job.ents = {}

FilesCover == \A t \in Saved : Covered(t.ver, Saved)

WatermarkSaved == latest.since = 0 \/ \E s \in Saved : s.ver = latest.since

JobCovers ==
    job.pc # "idle" =>
        /\ \E e \in job.ents : e.ver = job.next
        /\ \A e \in job.ents : e.ver <= job.next
        /\ Covered(job.next, Saved \cup job.ents)
        /\ job.pc \in {"written", "saving"} => job.ents \in dumps

IInv ==
    /\ TypeOK
    /\ Versions
    /\ FromLog
    /\ FilesCover
    /\ WatermarkSaved
    /\ JobCovers

-----------------------------------------------------------------------------
\* A set of writes that is not empty has one of the highest version.
LEMMA HighestWrite ==
    ASSUME NEW S \in SUBSET Write, S # {}
    PROVE  \E m \in S : \A x \in S : x.ver <= m.ver
<1> DEFINE R == OpToRel(<, Nat)
           T == {MaxVersion - x.ver : x \in S}
<1>1. IsWellFoundedOn(R, Nat) BY NatLessThanWellFounded
<1>2. \A x \in S : x.ver \in 1..MaxVersion BY DEF Write
<1>3. T \subseteq Nat /\ T # {} BY <1>2, BackupAssumption
<1>4. \E t \in T : \A u \in T : ~ (<<u, t>> \in R)
  <2> HIDE DEF R, T
  <2> QED BY <1>1, <1>3, WFMin
<1>5. PICK t \in T : \A u \in T : ~ (<<u, t>> \in R) BY <1>4
<1>6. \A u \in T : ~ (u < t) BY <1>5, <1>3 DEF OpToRel
<1>7. PICK m \in S : t = MaxVersion - m.ver OBVIOUS
<1>8. \A x \in S : ~ (MaxVersion - x.ver < MaxVersion - m.ver) BY <1>6, <1>7
<1>9. \A x \in S : x.ver <= m.ver BY <1>8, <1>2, BackupAssumption
<1> QED BY <1>9

\* Every write has a newest one of its key, itself or a later one.
LEMMA NewestExists ==
    ASSUME TypeOK, NEW w \in log
    PROVE  \E m \in Newest(log) : m.key = w.key /\ w.ver <= m.ver
<1> DEFINE S == {x \in log : x.key = w.key}
<1>1. S \in SUBSET Write /\ S # {} BY DEF TypeOK
<1>2. PICK m \in S : \A x \in S : x.ver <= m.ver
  <2> HIDE DEF S
  <2> QED BY <1>1, HighestWrite
<1>3. m \in Newest(log) BY <1>2 DEF Newest
<1> QED BY <1>2, <1>3

\* The versions of writes are natural numbers above 0.
LEMMA VersionsNat ==
    ASSUME TypeOK
    PROVE  /\ \A w \in log : w.ver \in Nat /\ w.ver > 0
           /\ \A w \in Saved : w.ver \in Nat /\ w.ver > 0
           /\ \A w \in job.ents : w.ver \in Nat /\ w.ver > 0
           /\ version \in Nat /\ latest.since \in Nat /\ job.next \in Nat
<1>1. \A w \in Write : w.ver \in Nat /\ w.ver > 0 BY BackupAssumption DEF Write
<1>2. log \subseteq Write /\ Saved \subseteq Write BY DEF TypeOK, Saved
<1>3. job.ents \subseteq Write /\ job.next \in Nat BY BackupAssumption DEF TypeOK, Job
<1>4. version \in Nat /\ latest.since \in Nat BY BackupAssumption DEF TypeOK, Latest
<1> QED BY <1>1, <1>2, <1>3, <1>4

\* Everything up to the watermark is covered by the files.
LEMMA WatermarkCovered ==
    ASSUME IInv
    PROVE  Covered(latest.since, Saved)
<1>1. CASE latest.since = 0
  BY <1>1, VersionsNat DEF IInv, Covered
<1>2. CASE \E s \in Saved : s.ver = latest.since
  BY <1>2 DEF IInv, FilesCover
<1> QED BY <1>1, <1>2 DEF IInv, WatermarkSaved

-----------------------------------------------------------------------------
LEMMA InitIInv == Init => IInv
<1> SUFFICES ASSUME Init PROVE IInv OBVIOUS
<1>1. TypeOK
  <2>1. job \in Job BY BackupAssumption DEF Init, Job, NoJob
  <2>2. latest \in Latest BY BackupAssumption DEF Init, Latest
  <2>3. dumps \in SUBSET SUBSET Write /\ log \subseteq Write BY DEF Init
  <2>4. version \in 0..MaxVersion /\ faults \in 0..MaxFaults BY BackupAssumption DEF Init
  <2>5. partial \in BOOLEAN BY DEF Init
  <2> QED BY <2>1, <2>2, <2>3, <2>4, <2>5 DEF TypeOK
<1>2. Versions /\ FromLog /\ FilesCover /\ WatermarkSaved /\ JobCovers
  BY DEF Init, Versions, FromLog, FilesCover, WatermarkSaved, JobCovers, NoJob, Saved, Covered
<1> QED BY <1>1, <1>2 DEF IInv

\* A write has a version above all that the files and a running backup speak of.
LEMMA CommitKeeps ==
    ASSUME IInv, NEW k \in Keys, NEW live \in BOOLEAN, Commit(k, live)
    PROVE  IInv'
<1> DEFINE w == [key |-> k, ver |-> version + 1, live |-> live]
<1>0. /\ version < MaxVersion /\ version' = version + 1 /\ log' = log \cup {w}
      /\ UNCHANGED <<dumps, partial, latest, job, faults>>
  BY DEF Commit
<1>1. w \in Write BY <1>0, BackupAssumption DEF IInv, TypeOK, Write
<1>2. TypeOK'
  BY <1>0, <1>1, BackupAssumption DEF IInv, TypeOK
<1>3. w.ver = version + 1 /\ version \in Nat /\ \A x \in log : x.ver \in Nat
  BY VersionsNat DEF IInv
<1>4. Versions' BY <1>0, <1>3 DEF IInv, Versions
<1>5. Saved' = Saved BY <1>0 DEF Saved
<1>6. FromLog' BY <1>0, <1>5 DEF IInv, FromLog
<1>7. ASSUME NEW v \in Nat, v <= version, NEW S, Covered(v, S)
      PROVE  \A x \in log' : x.ver <= v => \E s \in S : s.key = x.key /\ x.ver <= s.ver
  BY <1>0, <1>3, <1>7 DEF Covered
<1>8. \A x \in log : x.ver <= version BY DEF IInv, Versions
<1>9. FilesCover'
  <2> SUFFICES ASSUME NEW t \in Saved
               PROVE  \A x \in log' : x.ver <= t.ver =>
                          \E s \in Saved : s.key = x.key /\ x.ver <= s.ver
    BY <1>5 DEF FilesCover, Covered
  <2>1. t.ver \in Nat /\ t.ver <= version BY <1>3, <1>8 DEF IInv, FromLog
  <2>2. Covered(t.ver, Saved) BY DEF IInv, FilesCover
  <2> QED BY <2>1, <2>2, <1>7
<1>10. WatermarkSaved' BY <1>0, <1>5 DEF IInv, WatermarkSaved
<1>11. JobCovers'
  <2> SUFFICES ASSUME job.pc # "idle" PROVE JobCovers' BY <1>0 DEF JobCovers
  <2>1. job.next \in Nat /\ job.next <= version
    BY <1>8, VersionsNat DEF IInv, JobCovers, FromLog
  <2>2. Covered(job.next, Saved \cup job.ents) BY DEF IInv, JobCovers
  <2>3. \A x \in log' : x.ver <= job.next =>
            \E s \in Saved \cup job.ents : s.key = x.key /\ x.ver <= s.ver
    BY <2>1, <2>2, <1>7
  <2> QED BY <2>3, <1>0, <1>5 DEF IInv, JobCovers, Covered
<1> QED BY <1>2, <1>4, <1>6, <1>9, <1>10, <1>11 DEF IInv

\* The dump has the newest write of every key that changed since the watermark; what
\* did not change is in the files.
LEMMA ExecuteKeeps ==
    ASSUME IInv, Execute
    PROVE  IInv'
<1> DEFINE D == Dump
<1>1. PICK w \in D : /\ \A x \in D : x.ver <= w.ver
                     /\ job' = [pc |-> "dumped", ents |-> D, next |-> w.ver]
  BY DEF Execute
<1>2. UNCHANGED <<log, version, dumps, partial, latest, faults>> BY DEF Execute
<1>3. D \subseteq log BY DEF Dump, DumpSince, Newest
<1>4. TypeOK'
  <2>1. D \subseteq Write /\ w.ver \in 0..MaxVersion
    BY <1>3, BackupAssumption DEF IInv, TypeOK, Write
  <2>2. job' \in Job BY <1>1, <2>1 DEF Job
  <2> QED BY <1>2, <2>2 DEF IInv, TypeOK
<1>5. Saved' = Saved BY <1>2 DEF Saved
<1>6. Versions' /\ FromLog' /\ FilesCover' /\ WatermarkSaved'
  BY <1>1, <1>2, <1>3, <1>5
     DEF IInv, Versions, FromLog, FilesCover, WatermarkSaved, Covered
<1>7. Covered(w.ver, Saved \cup D)
  <2> SUFFICES ASSUME NEW x \in log, x.ver <= w.ver
               PROVE  \E s \in Saved \cup D : s.key = x.key /\ x.ver <= s.ver
    BY DEF Covered
  <2>1. PICK m \in Newest(log) : m.key = x.key /\ x.ver <= m.ver
    BY NewestExists DEF IInv
  <2>2. m \in log BY DEF Newest
  <2>3. CASE m.ver <= latest.since
    BY <2>1, <2>2, <2>3, WatermarkCovered, VersionsNat DEF IInv, Covered
  <2>4. CASE m.ver > latest.since
    BY <2>1, <2>4 DEF Dump, DumpSince
  <2> QED BY <2>2, <2>3, <2>4, VersionsNat DEF IInv
<1>8. JobCovers'
  BY <1>1, <1>2, <1>5, <1>7 DEF JobCovers, Covered
<1> QED BY <1>4, <1>6, <1>8 DEF IInv

\* The steps of a backup up to its file do not touch what the invariant speaks of.
LEMMA CreateFileKeeps ==
    ASSUME IInv, CreateFile
    PROVE  IInv'
<1>1. /\ job.pc = "dumped" /\ job' = [job EXCEPT !.pc = "writing"]
      /\ UNCHANGED <<log, version, dumps, partial, latest, faults>>
  BY DEF CreateFile
<1>2. job \in Job BY DEF IInv, TypeOK
<1>3. /\ job' \in Job /\ job'.pc = "writing"
      /\ job'.ents = job.ents /\ job'.next = job.next
  BY <1>1, <1>2 DEF Job
<1>4. TypeOK' BY <1>1, <1>3 DEF IInv, TypeOK
<1>5. Saved' = Saved BY <1>1 DEF Saved
<1> QED
  BY <1>1, <1>3, <1>4, <1>5
     DEF IInv, Versions, FromLog, FilesCover, WatermarkSaved, JobCovers, Covered

\* The entries join the files, which they cover with what was there before.
LEMMA WriteFileKeeps ==
    ASSUME IInv, WriteFile
    PROVE  IInv'
<1>1. /\ job.pc = "writing" /\ job' = [job EXCEPT !.pc = "written"]
      /\ dumps' = dumps \cup {job.ents}
      /\ UNCHANGED <<log, version, partial, latest, faults>>
  BY DEF WriteFile
<1>2. job \in Job BY DEF IInv, TypeOK
<1>3. /\ job' \in Job /\ job'.pc = "written"
      /\ job'.ents = job.ents /\ job'.next = job.next
  BY <1>1, <1>2 DEF Job
<1>4. TypeOK' BY <1>1, <1>2, <1>3 DEF IInv, TypeOK, Job
<1>5. Saved' = Saved \cup job.ents BY <1>1 DEF Saved
<1>6. Versions' /\ FromLog' /\ WatermarkSaved'
  BY <1>1, <1>3, <1>5 DEF IInv, Versions, FromLog, WatermarkSaved
<1>7. Covered(job.next, Saved \cup job.ents) BY <1>1 DEF IInv, JobCovers
<1>8. FilesCover'
  <2> SUFFICES ASSUME NEW t \in Saved \cup job.ents
               PROVE  Covered(t.ver, Saved \cup job.ents)
    BY <1>1, <1>5 DEF FilesCover, Covered
  <2>1. CASE t \in Saved
    BY <2>1 DEF IInv, FilesCover, Covered
  <2>2. CASE t \in job.ents
    <3>1. t.ver <= job.next BY <1>1, <2>2 DEF IInv, JobCovers
    <3> QED BY <3>1, <2>2, <1>7, VersionsNat DEF IInv, Covered
  <2> QED BY <2>1, <2>2
<1>9. JobCovers'
  BY <1>1, <1>3, <1>5, <1>7 DEF IInv, JobCovers, Covered
<1> QED BY <1>4, <1>6, <1>8, <1>9 DEF IInv

LEMMA OpenVersionFileKeeps ==
    ASSUME IInv, OpenVersionFile
    PROVE  IInv'
<1>1. /\ job.pc = "written" /\ job' = [job EXCEPT !.pc = "saving"]
      /\ latest' = [latest EXCEPT !.st = "torn"]
      /\ UNCHANGED <<log, version, dumps, partial, faults>>
  BY DEF OpenVersionFile
<1>2. job \in Job /\ latest \in Latest BY DEF IInv, TypeOK
<1>3. /\ job' \in Job /\ job'.pc = "saving"
      /\ job'.ents = job.ents /\ job'.next = job.next
  BY <1>1, <1>2 DEF Job
<1>4. latest' \in Latest /\ latest'.since = latest.since BY <1>1, <1>2 DEF Latest
<1>5. TypeOK' BY <1>1, <1>3, <1>4 DEF IInv, TypeOK
<1>6. Saved' = Saved BY <1>1 DEF Saved
<1> QED
  BY <1>1, <1>3, <1>4, <1>5, <1>6
     DEF IInv, Versions, FromLog, FilesCover, WatermarkSaved, JobCovers, Covered

\* The watermark is recorded when the file that has it is complete.
LEMMA SaveVersionInfoKeeps ==
    ASSUME IInv, SaveVersionInfo
    PROVE  IInv'
<1>1. /\ job.pc = "saving" /\ job' = NoJob
      /\ latest' = [st |-> "ok", since |-> job.next]
      /\ UNCHANGED <<log, version, dumps, partial, faults>>
  BY DEF SaveVersionInfo
<1>2. job \in Job BY DEF IInv, TypeOK
<1>3. job' \in Job /\ job'.pc = "idle" /\ job'.ents = {}
  BY <1>1, BackupAssumption DEF Job, NoJob
<1>4. TypeOK' BY <1>1, <1>2, <1>3 DEF IInv, TypeOK, Latest, Job
<1>5. Saved' = Saved BY <1>1 DEF Saved
<1>6. WatermarkSaved'
  <2>1. job.ents \subseteq Saved BY <1>1 DEF IInv, JobCovers, Saved
  <2>2. \E s \in Saved : s.ver = job.next BY <1>1, <2>1 DEF IInv, JobCovers
  <2> QED BY <1>1, <1>5, <2>2 DEF WatermarkSaved
<1> QED
  BY <1>1, <1>3, <1>4, <1>5, <1>6
     DEF IInv, Versions, FromLog, FilesCover, JobCovers, Covered

LEMMA ExecuteFailsKeeps ==
    ASSUME IInv, ExecuteFails
    PROVE  IInv'
<1>1. /\ job' = NoJob /\ faults > 0 /\ faults' = faults - 1
      /\ partial' \in BOOLEAN
      /\ UNCHANGED <<log, version, dumps, latest>>
  BY DEF ExecuteFails, Fault
<1>2. job' \in Job /\ job'.pc = "idle" /\ job'.ents = {}
  BY <1>1, BackupAssumption DEF Job, NoJob
<1>3. TypeOK' BY <1>1, <1>2, BackupAssumption DEF IInv, TypeOK
<1>4. Saved' = Saved BY <1>1 DEF Saved
<1> QED
  BY <1>1, <1>2, <1>3, <1>4
     DEF IInv, Versions, FromLog, FilesCover, WatermarkSaved, JobCovers, Covered

\* The database becomes what the files have, which cover themselves.
LEMMA RestoreKeeps ==
    ASSUME IInv, RestoreAllBackupsEncrypted
    PROVE  IInv'
<1>1. /\ job.pc = "idle" /\ log' = Saved /\ faults > 0 /\ faults' = faults - 1
      /\ UNCHANGED <<dumps, partial, latest, job>>
  BY DEF RestoreAllBackupsEncrypted, Fault
<1>2. \/ Saved = {} /\ version' = 0
      \/ \E w \in Saved : (\A x \in Saved : x.ver <= w.ver) /\ version' = w.ver
  BY DEF RestoreAllBackupsEncrypted
<1>3. Saved \subseteq log BY DEF IInv, FromLog
<1>4. \A x \in Saved : x.ver <= version' BY <1>2
<1>5. TypeOK'
  <2>1. Saved \subseteq Write BY DEF IInv, TypeOK, Saved
  <2>2. version' \in 0..MaxVersion BY <1>2, <2>1, BackupAssumption DEF Write
  <2> QED BY <1>1, <2>1, <2>2, BackupAssumption DEF IInv, TypeOK
<1>6. Saved' = Saved BY <1>1 DEF Saved
<1>7. Versions' BY <1>1, <1>3, <1>4 DEF IInv, Versions
<1>8. job.ents = {} BY <1>1 DEF IInv, FromLog
<1>9. FromLog' BY <1>1, <1>6, <1>8 DEF FromLog
<1>10. FilesCover' /\ WatermarkSaved'
  BY <1>1, <1>3, <1>6 DEF IInv, FilesCover, WatermarkSaved, Covered
<1>11. JobCovers' BY <1>1 DEF JobCovers
<1> QED BY <1>5, <1>7, <1>9, <1>10, <1>11 DEF IInv

-----------------------------------------------------------------------------
LEMMA NextIInv == IInv /\ [Next]_vars => IInv'
<1> SUFFICES ASSUME IInv, [Next]_vars PROVE IInv' OBVIOUS
<1>1. CASE \E k \in Keys : Put(k) \/ Delete(k)
  BY <1>1, CommitKeeps DEF Put, Delete
<1>2. CASE BackupStep
  BY <1>2, ExecuteKeeps, CreateFileKeeps, WriteFileKeeps, OpenVersionFileKeeps,
     SaveVersionInfoKeeps DEF BackupStep
<1>3. CASE ExecuteFails BY <1>3, ExecuteFailsKeeps
<1>4. CASE RestoreAllBackupsEncrypted BY <1>4, RestoreKeeps
<1>5. CASE UNCHANGED vars
  BY <1>5 DEF vars, IInv, TypeOK, Versions, FromLog, FilesCover, WatermarkSaved, JobCovers,
              Covered, Saved
<1> QED BY <1>1, <1>2, <1>3, <1>4, <1>5 DEF Next

LEMMA Invariance == Spec => []IInv
<1> QED BY InitIInv, NextIInv, PTL DEF Spec

\* Every variable of the database and its backups keeps its type, for any number of
\* writes, failed backups, crashes and recoveries.
THEOREM TypeCorrect == Spec => []TypeOK
<1>1. IInv => TypeOK BY DEF IInv
<1> QED BY <1>1, Invariance, PTL

\* The watermark of badgerBackupExecutor never runs ahead of its files.
THEOREM NothingIsSkipped == Spec => []NothingSkipped
<1>1. IInv => NothingSkipped
  <2> SUFFICES ASSUME IInv, NEW w \in Newest(log), w.ver <= latest.since
               PROVE  w \in Saved
    BY DEF NothingSkipped
  <2>1. w \in log /\ \A x \in log : x.key = w.key => x.ver <= w.ver BY DEF Newest
  <2>2. PICK s \in Saved : s.key = w.key /\ w.ver <= s.ver
    BY <2>1, WatermarkCovered DEF Covered
  <2>3. s \in log BY DEF IInv, FromLog
  <2>4. s.ver = w.ver BY <2>1, <2>2, <2>3, VersionsNat DEF IInv
  <2> QED BY <2>1, <2>3, <2>4 DEF IInv, Versions
<1> QED BY <1>1, Invariance, PTL

\* What RestoreAllBackupsEncrypted rebuilds is one state that the database had.
THEOREM RestoresSnapshot == Spec => []RestoreIsSnapshot
<1>1. IInv => RestoreIsSnapshot
  <2> SUFFICES ASSUME IInv, NEW top \in Saved, \A x \in Saved : x.ver <= top.ver
               PROVE  Restored = Newest({w \in log : w.ver <= top.ver})
    BY DEF RestoreIsSnapshot
  <2> DEFINE L == {w \in log : w.ver <= top.ver}
  <2>1. Saved \subseteq L BY DEF IInv, FromLog
  <2>2. \A w \in L : \E s \in Saved : s.key = w.key /\ w.ver <= s.ver
    BY DEF IInv, FilesCover, Covered
  <2>3. \A x \in L : x.ver \in Nat BY VersionsNat DEF IInv
  <2>4. \A x, y \in L : x.ver = y.ver => x = y BY DEF IInv, Versions
  <2> HIDE DEF L
  <2>5. ASSUME NEW s \in Newest(Saved) PROVE s \in Newest(L)
    <3>1. s \in L /\ \A x \in Saved : x.key = s.key => x.ver <= s.ver
      BY <2>1 DEF Newest
    <3>2. ASSUME NEW x \in L, x.key = s.key PROVE x.ver <= s.ver
      <4>1. PICK y \in Saved : y.key = x.key /\ x.ver <= y.ver BY <2>2
      <4> QED BY <3>1, <3>2, <4>1, <2>1, <2>3
    <3> QED BY <3>1, <3>2 DEF Newest
  <2>6. ASSUME NEW w \in Newest(L) PROVE w \in Newest(Saved)
    <3>1. w \in L /\ \A x \in L : x.key = w.key => x.ver <= w.ver BY DEF Newest
    <3>2. PICK s \in Saved : s.key = w.key /\ w.ver <= s.ver BY <3>1, <2>2
    <3>3. s = w BY <3>1, <3>2, <2>1, <2>3, <2>4
    <3> QED BY <3>1, <3>2, <3>3, <2>1 DEF Newest
  <2> QED BY <2>5, <2>6 DEF Restored, L
<1> QED BY <1>1, Invariance, PTL
=============================================================================
