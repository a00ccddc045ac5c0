------------------------ MODULE ServerStartupProofs ------------------------
(***************************************************************************)
(* ServerStartup for every set of replicas and of releases: its types, one *)
(* migrator at a time, and nobody serving without the tables.              *)
(*                                                                         *)
(* The inductive invariant adds to them who has the lock, that a migration *)
(* goes on only below the build's own number, that a dirty version is not  *)
(* the empty database's, and which tables a start has looked for so far.   *)
(***************************************************************************)
EXTENDS ServerStartup, TLAPS

\* The steps of golang-migrate that are taken under the lock.
Locked == {"up", "mark", "run", "clean"}
Elsewhere == (Steps \ Locked) \cup {"off", "serving", "exited"}

HoldersOnly == \A r \in Replicas : pc[r] \in Locked => lock = r

WithinBuild == \A r \in Replicas : pc[r] = "mark" => schema.version < release[r].build

DirtyAbove == schema.dirty => schema.version # 0

\* The tables whose stores are open when step is next.
Seen(step) ==
    /\ step \in {"patStore", "sessionStore", "browser", "mount", "serving"} => 1 \in schema.tables
    /\ step \in {"sessionStore", "browser", "mount", "serving"} => 3 \in schema.tables
    /\ step \in {"browser", "mount", "serving"} => 2 \in schema.tables

StoresSeen == \A r \in Replicas : Seen(pc[r])

IInv == TypeOK /\ OneMigrator /\ HoldersOnly /\ WithinBuild /\ DirtyAbove /\ StoresSeen

-----------------------------------------------------------------------------
\* A release's own versions are versions.
LEMMA BuildVersions ==
    ASSUME NEW x \in Releases, NEW n \in 0..x.build
    PROVE  n \in Versions /\ x.build \in Nat
BY StartupAssumption DEF Versions

LEMMA VersionsNat == Versions \subseteq Nat /\ (\A n \in Versions \ {0} : n - 1 \in Versions)
BY StartupAssumption DEF Versions

\* The steps by name.
LEMMA StepNames ==
    Steps = {"connect", "version", "metadata", "open", "configure", "userStore", "patStore",
             "sessionStore", "browser", "mount", "lock", "up", "mark", "run", "clean"}
BY DEF Steps, After, MigrateSteps

\* Nobody has started.
LEMMA InitIInv == Init => IInv
<1> SUFFICES ASSUME Init PROVE IInv
  OBVIOUS
<1> USE StartupAssumption DEF Init
<1>1. TypeOK
  <2>1. schema \in [version : Versions, dirty : BOOLEAN, tables : SUBSET Versions]
    <3>1. Installed \in Versions /\ 1..Installed \subseteq Versions
      BY DEF Versions
    <3> QED BY <3>1
  <2> QED BY <2>1 DEF TypeOK
<1>2. \A r \in Replicas : pc[r] = "off"
  OBVIOUS
<1> QED BY <1>1, <1>2 DEF IInv, OneMigrator, HoldersOnly, WithinBuild, DirtyAbove, StoresSeen,
             Seen, Locked

-----------------------------------------------------------------------------
\* Replica r goes to a step outside the lock; it changes the schema only if the lock
\* was its own, and the lock of others stays theirs.
LEMMA MoveIInv ==
    ASSUME IInv, NEW r \in Replicas, NEW step \in Elsewhere,
           Goto(r, step), Seen(step),
           schema' \in [version : Versions, dirty : BOOLEAN, tables : SUBSET Versions],
           schema.tables \subseteq schema'.tables,
           schema'.dirty => schema'.version # 0,
           schema' = schema \/ lock = r,
           db' \in {"up", "down", "silent"}, calm' \in BOOLEAN,
           release' \in [Replicas -> Releases],
           \A s \in Replicas \ {r} : release'[s] = release[s],
           lock' \in Replicas \cup {None, Orphan},
           lock # r => lock' = lock
    PROVE  IInv'
<1> USE DEF IInv
<1>1. pc \in [Replicas -> Steps \cup {"off", "serving", "exited"}]
  BY DEF TypeOK
<1>2. /\ pc'[r] = step
      /\ \A s \in Replicas \ {r} : pc'[s] = pc[s]
  BY <1>1 DEF Goto
<1>3. /\ step \notin Locked
      /\ \A s \in Replicas \ {r} : pc[s] \in Locked => schema' = schema
  BY StepNames DEF Elsewhere, Locked, HoldersOnly
<1>4. TypeOK'
  BY <1>1 DEF TypeOK, Goto, Elsewhere
<1>5. HoldersOnly'
  BY <1>2, <1>3 DEF HoldersOnly
<1>6. OneMigrator'
  BY <1>2, <1>3 DEF OneMigrator, Locked
<1>7. WithinBuild'
  BY <1>2, <1>3 DEF WithinBuild, Locked
<1>8. DirtyAbove'
  BY DEF DirtyAbove
<1>9. StoresSeen'
  BY <1>2 DEF StoresSeen, Seen
<1> QED BY <1>4, <1>5, <1>6, <1>7, <1>8, <1>9

\* The replica that has the lock goes to another step under it.
LEMMA LockedIInv ==
    ASSUME IInv, NEW r \in Replicas, NEW step \in Locked,
           lock \in {r, None}, lock' = r,
           Goto(r, step),
           schema' \in [version : Versions, dirty : BOOLEAN, tables : SUBSET Versions],
           schema.tables \subseteq schema'.tables,
           step \in {"mark", "run", "clean"} => (schema'.dirty <=> step \in {"run", "clean"}),
           step = "mark" => schema'.version < release[r].build,
           schema'.dirty => schema'.version # 0,
           UNCHANGED <<db, setting>>
    PROVE  IInv'
<1> USE StartupAssumption DEF IInv
<1>1. pc \in [Replicas -> Steps \cup {"off", "serving", "exited"}]
  BY DEF TypeOK
<1>2. /\ pc'[r] = step
      /\ \A s \in Replicas \ {r} : pc'[s] = pc[s] /\ pc[s] \notin Locked
  BY <1>1 DEF Goto, HoldersOnly
<1>3. UNCHANGED release
  BY DEF setting
<1>4. TypeOK'
  BY <1>1, StepNames DEF TypeOK, Goto, Locked, setting
<1>5. HoldersOnly'
  BY <1>2 DEF HoldersOnly
<1>6. OneMigrator'
  BY <1>2 DEF OneMigrator, Locked
<1>7. WithinBuild'
  BY <1>2, <1>3 DEF WithinBuild, Locked
<1>8. DirtyAbove'
  BY DEF DirtyAbove
<1>9. StoresSeen'
  BY <1>2 DEF StoresSeen, Seen, Locked
<1> QED BY <1>4, <1>5, <1>6, <1>7, <1>8, <1>9

-----------------------------------------------------------------------------
\* What a statement does to the schema keeps its type, its tables, and the dirty
\* mark off the empty database; it does nothing for a replica without the lock.
LEMMA EffectOK ==
    ASSUME IInv, NEW r \in Replicas
    PROVE  /\ Effect(r) \in [version : Versions, dirty : BOOLEAN, tables : SUBSET Versions]
           /\ schema.tables \subseteq Effect(r).tables
           /\ Effect(r).dirty => Effect(r).version # 0
           /\ pc[r] \notin {"mark", "run", "clean"} => Effect(r) = schema
<1> USE VersionsNat DEF IInv
<1>1. schema \in [version : Versions, dirty : BOOLEAN, tables : SUBSET Versions]
  BY DEF TypeOK
<1>2. CASE pc[r] = "mark"
  <2>1. Effect(r) = [schema EXCEPT !.version = @ + 1, !.dirty = TRUE]
    BY <1>2 DEF Effect
  <2>2. release[r] \in Releases /\ release[r].build \in Nat
    BY BuildVersions, StartupAssumption DEF TypeOK
  <2>3. schema.version + 1 \in 0..release[r].build
    <3>1. schema.version < release[r].build /\ schema.version \in Nat
      BY <1>1, <1>2 DEF WithinBuild
    <3> QED BY <2>2, <3>1
  <2>4. schema.version + 1 \in Versions
    BY <2>2, <2>3, BuildVersions
  <2>5. schema.version + 1 # 0
    <3>1. schema.version \in Nat
      BY <1>1
    <3> QED BY <3>1
  <2>6. /\ Effect(r) \in [version : Versions, dirty : BOOLEAN, tables : SUBSET Versions]
        /\ Effect(r).tables = schema.tables
        /\ Effect(r).version = schema.version + 1
    BY <1>1, <2>1, <2>4
  <2> QED BY <1>2, <2>5, <2>6
<1>3. CASE pc[r] = "run"
  <2>1. Effect(r) = [schema EXCEPT !.tables = @ \cup {schema.version}]
    BY <1>3 DEF Effect
  <2> QED BY <1>1, <1>3, <2>1 DEF DirtyAbove
<1>4. CASE pc[r] = "clean"
  <2>1. Effect(r) = [schema EXCEPT !.dirty = FALSE]
    BY <1>4 DEF Effect
  <2> QED BY <1>1, <1>4, <2>1
<1>5. CASE pc[r] \notin {"mark", "run", "clean"}
  <2>1. Effect(r) = schema
    BY <1>5 DEF Effect
  <2> QED BY <1>1, <1>5, <2>1 DEF DirtyAbove
<1> QED BY <1>2, <1>3, <1>4, <1>5

\* Steps of main() that look at the tables at most.
LEMMA PlainIInv ==
    ASSUME IInv, NEW r \in Replicas,
           \/ Connect(r) \/ GetVersion(r) \/ InitMetadataOrFail(r)
           \/ NewWithSourceInstance(r) \/ LockTimesOut(r)
           \/ Configure(r) \/ NewPgxDB(r) \/ NewPgxPatStore(r) \/ NewPgxSessionStore(r)
           \/ NewBrowserHandlers(r) \/ StartServer(r) \/ GivesUp(r)
    PROVE  IInv'
<1> DEFINE Quiet(step) == Goto(r, step) /\ UNCHANGED <<db, schema, lock, setting>>
<1>1. \E step \in Elsewhere : Quiet(step) /\ Seen(step)
  <2> USE StepNames DEF Elsewhere, Locked, Seen, After, Exit
  <2>1. Seen(pc[r])
    BY DEF IInv, StoresSeen
  <2>2. CASE Connect(r)
    <3>1. Quiet("version") BY <2>2 DEF Connect
    <3> QED BY <3>1
  <2>3. CASE GetVersion(r)
    <3>1. Quiet("metadata") BY <2>3 DEF GetVersion
    <3> QED BY <3>1
  <2>4. CASE InitMetadataOrFail(r)
    <3>1. Quiet("open") BY <2>4 DEF InitMetadataOrFail
    <3> QED BY <3>1
  <2>5. CASE NewWithSourceInstance(r)
    <3>1. Quiet("lock") BY <2>5 DEF NewWithSourceInstance
    <3> QED BY <3>1
  <2>6. CASE LockTimesOut(r)
    <3>1. Quiet("exited") BY <2>6 DEF LockTimesOut
    <3> QED BY <3>1
  <2>7. CASE Configure(r)
    <3>1. Quiet("exited") \/ Quiet("userStore") BY <2>7 DEF Configure, Proceed
    <3> QED BY <3>1
  <2>8. CASE NewPgxDB(r)
    <3>1. Quiet("exited") \/ (Quiet("patStore") /\ 1 \in schema.tables)
      BY <2>8 DEF NewPgxDB, OpenStore, TableExists, TableOf
    <3> QED BY <3>1
  <2>9. CASE NewPgxPatStore(r)
    <3>1. Quiet("exited") \/ (Quiet("sessionStore") /\ 3 \in schema.tables)
      BY <2>9 DEF NewPgxPatStore, OpenStore, TableExists, TableOf
    <3>2. pc[r] = "patStore"
      BY <2>9 DEF NewPgxPatStore, OpenStore, Answers
    <3> QED BY <2>1, <3>1, <3>2
  <2>10. CASE NewPgxSessionStore(r)
    <3>1. Quiet("exited") \/ (Quiet("browser") /\ 2 \in schema.tables)
      BY <2>10 DEF NewPgxSessionStore, OpenStore, TableExists, TableOf
    <3>2. pc[r] = "sessionStore"
      BY <2>10 DEF NewPgxSessionStore, OpenStore, Answers
    <3> QED BY <2>1, <3>1, <3>2
  <2>11. CASE NewBrowserHandlers(r)
    <3>1. pc[r] = "browser" /\ (Quiet("exited") \/ Quiet("mount"))
      BY <2>11 DEF NewBrowserHandlers, Proceed
    <3> QED BY <2>1, <3>1
  <2>12. CASE StartServer(r)
    <3>1. pc[r] = "mount" /\ (Quiet("exited") \/ Quiet("serving"))
      BY <2>12 DEF StartServer, Proceed
    <3> QED BY <2>1, <3>1
  <2>13. CASE GivesUp(r)
    <3>1. Quiet("exited") BY <2>13 DEF GivesUp
    <3> QED BY <3>1
  <2> QED BY <2>2, <2>3, <2>4, <2>5, <2>6, <2>7, <2>8, <2>9, <2>10, <2>11, <2>12, <2>13
<1>2. PICK step \in Elsewhere : Quiet(step) /\ Seen(step)
  BY <1>1
<1> QED BY <1>2, MoveIInv DEF setting, IInv, TypeOK, DirtyAbove

\* Under the lock.
LEMMA MigrateIInv ==
    ASSUME IInv, NEW r \in Replicas,
           TakeLock(r) \/ Up(r) \/ MarkDirty(r) \/ RunMigration(r) \/ MarkClean(r) \/ RunFails(r)
    PROVE  IInv'
<1> USE StartupAssumption
<1>1. /\ schema \in [version : Versions, dirty : BOOLEAN, tables : SUBSET Versions]
      /\ lock \in Replicas \cup {None, Orphan}
      /\ release[r] \in Releases
      /\ Versions \subseteq Nat
      /\ release[r].build \in Nat
  BY VersionsNat DEF IInv, TypeOK
<1>2. pc[r] \in Locked => lock = r
  BY DEF IInv, HoldersOnly
<1>3. schema.dirty => schema.version # 0
  BY DEF IInv, DirtyAbove
<1>4. CASE TakeLock(r)
  <2>1. lock = None /\ lock' = r /\ Goto(r, "up") /\ UNCHANGED <<db, schema, setting>>
    BY <1>4 DEF TakeLock, LockFree
  <2>2. "up" \in Locked
    BY DEF Locked
  <2> QED BY <1>1, <1>3, <2>1, <2>2, LockedIInv
<1>5. CASE Up(r)
  <2>1. pc[r] = "up" /\ lock = r /\ UNCHANGED <<db, schema, setting>>
    BY <1>2, <1>5 DEF Up, Answers, Locked
  <2>2. CASE AfterUp(release[r].build) = "mark"
    <3>1. ~schema.dirty /\ schema.version < release[r].build
      BY <1>1, <2>2 DEF AfterUp
    <3>2. lock' = r /\ Goto(r, "mark")
      BY <1>5, <2>1, <2>2 DEF Up
    <3>3. "mark" \in Locked
      BY DEF Locked
    <3> QED BY <1>1, <1>3, <2>1, <3>1, <3>2, <3>3, LockedIInv
  <2>3. CASE AfterUp(release[r].build) # "mark"
    <3>1. AfterUp(release[r].build) \in {"exited", "configure"}
      BY <1>1, <2>3 DEF AfterUp
    <3>2. PICK step \in {"exited", "configure"} : Goto(r, step) /\ lock' = None
      BY <1>5, <2>1, <2>3, <3>1 DEF Up, Release
    <3>3. step \in Elsewhere /\ Seen(step)
      BY StepNames DEF Elsewhere, Locked, Seen
    <3> QED BY <2>1, <3>2, <3>3, MoveIInv DEF setting, IInv, TypeOK, DirtyAbove
  <2> QED BY <2>2, <2>3
<1>6. CASE MarkDirty(r)
  <2>1. /\ pc[r] = "mark" /\ lock = r /\ schema' = Effect(r) /\ lock' = r
        /\ Goto(r, "run") /\ UNCHANGED <<db, setting>>
    BY <1>2, <1>6 DEF MarkDirty, Answers, Locked
  <2>2. schema'.dirty
    BY <1>1, <2>1 DEF Effect
  <2>3. "run" \in Locked
    BY DEF Locked
  <2> QED BY <2>1, <2>2, <2>3, EffectOK, LockedIInv
<1>7. CASE RunMigration(r)
  <2>1. /\ pc[r] = "run" /\ lock = r /\ schema' = Effect(r) /\ lock' = r
        /\ Goto(r, "clean") /\ UNCHANGED <<db, setting>>
    BY <1>2, <1>7 DEF RunMigration, Answers, Locked
  <2>2. schema.dirty
    BY <2>1 DEF IInv, OneMigrator
  <2>3. schema'.dirty
    BY <1>1, <2>1, <2>2 DEF Effect
  <2>4. "clean" \in Locked
    BY DEF Locked
  <2> QED BY <2>1, <2>3, <2>4, EffectOK, LockedIInv
<1>8. CASE MarkClean(r)
  <2>1. pc[r] = "clean" /\ lock = r /\ schema' = Effect(r) /\ UNCHANGED <<db, setting>>
    BY <1>2, <1>8 DEF MarkClean, Answers, Locked
  <2>2. schema' = [schema EXCEPT !.dirty = FALSE]
    BY <2>1 DEF Effect
  <2>3. /\ ~schema'.dirty /\ schema'.version = schema.version /\ schema'.tables = schema.tables
        /\ schema' \in [version : Versions, dirty : BOOLEAN, tables : SUBSET Versions]
    BY <1>1, <2>2
  <2>4. CASE schema.version < release[r].build
    <3>1. Goto(r, "mark") /\ lock' = r
      BY <1>8, <2>1, <2>4 DEF MarkClean
    <3>2. "mark" \in Locked
      BY DEF Locked
    <3> QED BY <2>1, <2>3, <2>4, <3>1, <3>2, LockedIInv
  <2>5. CASE ~(schema.version < release[r].build)
    <3>1. Goto(r, "configure") /\ lock' = None
      BY <1>8, <2>1, <2>5 DEF MarkClean, Release
    <3>2. "configure" \in Elsewhere /\ Seen("configure")
      BY StepNames DEF Elsewhere, Locked, Seen
    <3> QED BY <2>1, <2>3, <3>1, <3>2, MoveIInv DEF setting, IInv, TypeOK
  <2> QED BY <2>4, <2>5
<1>9. CASE RunFails(r)
  <2>1. Goto(r, "exited") /\ lock' = (IF lock = r THEN None ELSE lock) /\ UNCHANGED <<db, schema, setting>>
    BY <1>9 DEF RunFails, Exit, Release
  <2>2. "exited" \in Elsewhere /\ Seen("exited")
    BY StepNames DEF Elsewhere, Locked, Seen
  <2> QED BY <2>1, <2>2, MoveIInv DEF setting, IInv, TypeOK, DirtyAbove
<1> QED BY <1>4, <1>5, <1>6, <1>7, <1>8, <1>9

\* A process crashes, is started again or replaced.
LEMMA ProcessIInv ==
    ASSUME IInv, NEW r \in Replicas, Crash(r) \/ Restart(r) \/ Rollout(r)
    PROVE  IInv'
<1> USE StartupAssumption
<1>1. "exited" \in Elsewhere /\ Seen("exited") /\ "connect" \in Elsewhere /\ Seen("connect")
  BY StepNames DEF Elsewhere, Locked, Seen
<1>2. CASE Crash(r)
  <2>1. Goto(r, "exited") /\ schema' \in {schema, Effect(r)} /\ UNCHANGED <<db, setting>>
    BY <1>2 DEF Crash, Exit
  <2>2. lock' \in {lock, None, Orphan} /\ (lock # r => lock' = lock)
    BY <1>2 DEF Crash
  <2>3. pc[r] \in {"mark", "run", "clean"} => lock = r
    BY DEF IInv, HoldersOnly, Locked
  <2>4. schema' = schema \/ lock = r
    BY <2>1, <2>3, EffectOK
  <2> QED BY <1>1, <2>1, <2>2, <2>4, EffectOK, MoveIInv DEF setting, IInv, TypeOK, DirtyAbove
<1>3. CASE Restart(r)
  BY <1>1, <1>3, MoveIInv DEF Restart, setting, IInv, TypeOK, DirtyAbove
<1>4. CASE Rollout(r)
  <2>1. PICK x \in Releases : release' = [release EXCEPT ![r] = x]
    BY <1>4 DEF Rollout
  <2>2. Goto(r, "connect") /\ UNCHANGED <<db, schema, lock, calm>>
    BY <1>4 DEF Rollout
  <2> QED BY <1>1, <2>1, <2>2, MoveIInv DEF IInv, TypeOK, DirtyAbove
<1> QED BY <1>2, <1>3, <1>4

\* The database, the operator and the calm.
LEMMA AroundIInv ==
    ASSUME IInv,
           OrphanNoticed \/ DbStops \/ DbFallsSilent \/ DbAnswersAgain \/ ForceVersion \/ CalmSets
    PROVE  IInv'
<1> USE StartupAssumption
<1>1. CASE OrphanNoticed
  BY <1>1 DEF OrphanNoticed, IInv, TypeOK, OneMigrator, HoldersOnly, WithinBuild, DirtyAbove,
              StoresSeen, Seen, setting
<1>2. CASE DbFallsSilent \/ DbAnswersAgain \/ CalmSets
  BY <1>2 DEF DbFallsSilent, DbAnswersAgain, CalmSets, IInv, TypeOK, OneMigrator, HoldersOnly,
              WithinBuild, DirtyAbove, StoresSeen, Seen, setting
<1>3. CASE DbStops
  <2>1. /\ db' = "down" /\ lock' = None /\ UNCHANGED setting
        /\ pc' = [r \in Replicas |-> IF pc[r] \in MigrateSteps THEN "exited" ELSE pc[r]]
    BY <1>3 DEF DbStops
  <2>2. /\ schema' \in [version : Versions, dirty : BOOLEAN, tables : SUBSET Versions]
        /\ schema.tables \subseteq schema'.tables
        /\ schema'.dirty => schema'.version # 0
    <3>1. CASE schema' = schema
      BY <3>1 DEF IInv, TypeOK, DirtyAbove
    <3>2. CASE schema' # schema
      <4>1. PICK r \in Replicas : schema' = Effect(r)
        BY <1>3, <3>2 DEF DbStops
      <4> QED BY <4>1, EffectOK
    <3> QED BY <3>1, <3>2
  <2>3. \A r \in Replicas : pc'[r] \notin Locked /\ pc'[r] \in {pc[r], "exited"}
    BY <2>1 DEF Locked, MigrateSteps
  <2>4. TypeOK'
    BY <2>1, <2>2 DEF IInv, TypeOK, setting
  <2>5. StoresSeen'
    BY <2>2, <2>3 DEF IInv, StoresSeen, Seen
  <2> QED BY <2>2, <2>3, <2>4, <2>5 DEF IInv, OneMigrator, HoldersOnly, WithinBuild, DirtyAbove, Locked
<1>4. CASE ForceVersion
  <2>1. /\ schema.dirty /\ lock = None /\ UNCHANGED <<db, lock, pc, setting>>
        /\ schema' \in {[schema EXCEPT !.dirty = FALSE],
                        [schema EXCEPT !.dirty = FALSE, !.version = @ - 1]}
    BY <1>4 DEF ForceVersion
  <2>2. schema \in [version : Versions, dirty : BOOLEAN, tables : SUBSET Versions]
    BY DEF IInv, TypeOK
  <2>3. schema.version \in Versions \ {0} /\ schema.version - 1 \in Versions
    BY <2>1, <2>2, VersionsNat DEF IInv, DirtyAbove
  <2>4. /\ schema' \in [version : Versions, dirty : BOOLEAN, tables : SUBSET Versions]
        /\ ~schema'.dirty /\ schema'.tables = schema.tables
    BY <2>1, <2>2, <2>3
  <2>5. \A r \in Replicas : pc'[r] = pc[r] /\ pc[r] \notin Locked
    BY <2>1 DEF IInv, HoldersOnly
  <2>6. TypeOK'
    BY <2>1, <2>4 DEF IInv, TypeOK, setting
  <2>7. StoresSeen'
    BY <2>4, <2>5 DEF IInv, StoresSeen, Seen
  <2> QED BY <2>4, <2>5, <2>6, <2>7 DEF IInv, OneMigrator, HoldersOnly, WithinBuild, DirtyAbove, Locked
<1> QED BY <1>1, <1>2, <1>3, <1>4

-----------------------------------------------------------------------------
\* Every step preserves the inductive invariant.
LEMMA NextIInv == IInv /\ [Next]_vars => IInv'
<1> SUFFICES ASSUME IInv, [Next]_vars PROVE IInv'
  OBVIOUS
<1>1. CASE UNCHANGED vars
  BY <1>1 DEF vars, setting, IInv, TypeOK, OneMigrator, HoldersOnly, WithinBuild, DirtyAbove,
              StoresSeen, Seen
<1>2. CASE \E r \in Replicas :
             Step(r) \/ RunFails(r) \/ Crash(r) \/ Restart(r) \/ Rollout(r)
  BY <1>2, PlainIInv, MigrateIInv, ProcessIInv DEF Step
<1>3. CASE OrphanNoticed \/ DbStops \/ DbFallsSilent \/ DbAnswersAgain \/ ForceVersion \/ CalmSets
  BY <1>3, AroundIInv
<1> QED BY <1>1, <1>2, <1>3 DEF Next

\* The inductive invariant holds throughout, whatever the fairness.
THEOREM InductiveInvariant == Spec => []IInv
BY InitIInv, NextIInv, PTL DEF Spec

\* Every variable keeps its type; the database never gets to a version that no
\* release knows.
THEOREM TypeCorrect == Spec => []TypeOK
<1>1. IInv => TypeOK
  BY DEF IInv
<1> QED BY <1>1, InductiveInvariant, PTL

\* However many replicas start together, crash and are replaced: one migrates, and
\* an interrupted migration is over before the next begins (runMigrationsOrFail).
THEOREM OneMigratorCorrect == Spec => []OneMigrator
<1>1. IInv => OneMigrator
  BY DEF IInv
<1> QED BY <1>1, InductiveInvariant, PTL

\* A replica that serves has found every table its stores use, whatever operators
\* declare of half-done migrations (the stores' constructors, called by main).
THEOREM ReadyCorrect == Spec => []ServingMeansReady
<1>1. IInv => ServingMeansReady
  BY DEF IInv, StoresSeen, Seen, ServingMeansReady, Needed
<1> QED BY <1>1, InductiveInvariant, PTL

============================================================================
