---------------------------- MODULE ServerStartup ----------------------------
(***************************************************************************)
(* From the start of the process to the first request served: main() of    *)
(* goCloudAuthServer, one step per thing that can fail, run by several     *)
(* replicas against one database, and started again when it ends.          *)
(*                                                                         *)
(* A build is known by its number of migrations, an environment by the     *)
(* step it stops, if it is mistaken.  The stores below are those of this   *)
(* commit, whose migrations are Needed.  golang-migrate (external) runs    *)
(* migrations: it waits for an advisory lock, marks a version dirty,       *)
(* executes its statements, marks it clean, and refuses a dirty version or *)
(* one that it has no file for.                                            *)
(*                                                                         *)
(* The database answers, is down, or is silent: up, and answering nobody.  *)
(* Processes crash anywhere, the liveness probe among the causes: nothing  *)
(* answers /health before the last step.                                   *)
(***************************************************************************)
EXTENDS Naturals

CONSTANTS
    Replicas,
    Releases,    \* what is deployed, old and new: a build and its environment
    Installed,   \* the version of the database before the first start
    None,        \* nobody has the lock
    Orphan       \* the lock's owner is gone, the server has not noticed yet

Needed == 1..3

ASSUME StartupAssumption ==
    /\ Releases \subseteq [build : Nat \ (0..2),
                            flaw : {"none", "configure", "browser", "mount"}]
    /\ Installed \in Nat
    /\ \A x \in Releases : Installed <= x.build
    /\ None \notin Replicas /\ Orphan \notin Replicas /\ None # Orphan

VARIABLES
    db,       \* "up", "down" or "silent"
    schema,   \* the version recorded, whether it is dirty, the migrations executed
    lock,     \* who may migrate
    pc,       \* each replica's next step
    release,  \* what each replica was started with
    calm      \* nothing more goes wrong around the service

vars == <<db, schema, lock, pc, release, calm>>
setting == <<release, calm>>

\* The step after each one.
After == [connect |-> "version", version |-> "metadata", metadata |-> "open", open |-> "lock",
          configure |-> "userStore", userStore |-> "patStore", patStore |-> "sessionStore",
          sessionStore |-> "browser", browser |-> "mount", mount |-> "serving"]

MigrateSteps == {"open", "lock", "up", "mark", "run", "clean"}
Steps == DOMAIN After \cup MigrateSteps
Starting(r) == pc[r] \in Steps

\* The migration whose table each store looks for.
TableOf == [userStore |-> 1, patStore |-> 3, sessionStore |-> 2]

\* Mutant: the stores are opened under a context without a deadline.
HasDeadline_NotStores == {"connect", "metadata", "lock"}

\* The steps that give up after a while: 10 s for the connection, 10 s for the
\* metadata, 10 s for the three stores together, 15 s for the lock.
HasDeadline == {"connect", "metadata", "lock"} \cup DOMAIN TableOf

DbSteps == {"version"} \cup MigrateSteps \cup HasDeadline

Init ==
    /\ db = "up"
    /\ schema = [version |-> Installed, dirty |-> FALSE, tables |-> 1..Installed]
    /\ lock = None
    /\ pc = [r \in Replicas |-> "off"]
    /\ release \in [Replicas -> Releases]
    /\ calm = FALSE

Goto(r, step) == pc' = [pc EXCEPT ![r] = step]
Exit(r) == Goto(r, "exited")
Answers(r, step) == pc[r] = step /\ db = "up"

-----------------------------------------------------------------------------
(* The steps of main() *)

\* database.GetInstance.
Connect(r) ==
    /\ Answers(r, "connect")
    /\ Goto(r, After["connect"])
    /\ UNCHANGED <<db, schema, lock, setting>>

\* Under no deadline.
GetVersion(r) ==
    /\ Answers(r, "version")
    /\ Goto(r, After["version"])
    /\ UNCHANGED <<db, schema, lock, setting>>

\* The version of the application is recorded before its migrations are run.
InitMetadataOrFail(r) ==
    /\ Answers(r, "metadata")
    /\ Goto(r, After["metadata"])
    /\ UNCHANGED <<db, schema, lock, setting>>

\* migrate.NewWithSourceInstance: makes its table while it has the lock, for
\* which it waits under no deadline.
NewWithSourceInstance(r) ==
    /\ Answers(r, "open") /\ lock = None
    /\ Goto(r, After["open"])
    /\ UNCHANGED <<db, schema, lock, setting>>

\* Mutant: the migrations are run without the lock.
LockFree_Always == TRUE
LockFree == lock = None

TakeLock(r) ==
    /\ Answers(r, "lock") /\ LockFree
    /\ lock' = r
    /\ Goto(r, "up")
    /\ UNCHANGED <<db, schema, setting>>

\* After 15 s: who only looks at the version is faster than that.
LockTimesOut(r) ==
    /\ Answers(r, "lock")
    /\ lock = Orphan \/ \E s \in Replicas : lock = s /\ pc[s] \in {"mark", "run", "clean"}
    /\ Exit(r)
    /\ UNCHANGED <<db, schema, lock, setting>>

Release(r) == lock' = IF lock = r THEN None ELSE lock

\* Mutant: nothing to do is an error like the others.
AfterUp_NoChangeFatal(b) ==
    CASE schema.dirty        -> "exited"
      [] schema.version > b  -> "exited"
      [] schema.version = b  -> "exited"
      [] OTHER               -> "mark"

\* Mutant: a version beyond the build's own goes unnoticed.
AfterUp_BeyondOwn(b) ==
    CASE schema.dirty        -> "exited"
      [] schema.version = b  -> "configure"
      [] OTHER               -> "mark"

\* m.Up(): a dirty version is fatal, and so is one without a file in this build;
\* ErrNoChange is not.
AfterUp(b) ==
    CASE schema.dirty        -> "exited"
      [] schema.version > b  -> "exited"
      [] schema.version = b  -> "configure"
      [] OTHER               -> "mark"

Up(r) ==
    /\ Answers(r, "up")
    /\ Goto(r, AfterUp(release[r].build))
    /\ IF AfterUp(release[r].build) = "mark" THEN UNCHANGED lock ELSE Release(r)
    /\ UNCHANGED <<db, schema, setting>>

\* What a replica's statement does to the database, if it gets there.
Effect(r) ==
    CASE pc[r] = "mark"  -> [schema EXCEPT !.version = @ + 1, !.dirty = TRUE]
      [] pc[r] = "run"   -> [schema EXCEPT !.tables = @ \cup {schema.version}]
      [] pc[r] = "clean" -> [schema EXCEPT !.dirty = FALSE]
      [] OTHER           -> schema

MarkDirty(r) ==
    /\ Answers(r, "mark")
    /\ schema' = Effect(r)
    /\ Goto(r, "run")
    /\ UNCHANGED <<db, lock, setting>>

RunMigration(r) ==
    /\ Answers(r, "run")
    /\ schema' = Effect(r)
    /\ Goto(r, "clean")
    /\ UNCHANGED <<db, lock, setting>>

\* The data there are do not suit the statements.
RunFails(r) ==
    /\ Answers(r, "run") /\ ~calm
    /\ Exit(r)
    /\ Release(r)
    /\ UNCHANGED <<db, schema, setting>>

MarkClean(r) ==
    /\ Answers(r, "clean")
    /\ schema' = Effect(r)
    /\ IF schema.version < release[r].build THEN Goto(r, "mark") /\ UNCHANGED lock
                                    ELSE Goto(r, "configure") /\ Release(r)
    /\ UNCHANGED <<db, setting>>

\* Without the database.
Proceed(r, step) ==
    /\ pc[r] = step
    /\ IF release[r].flaw = step THEN Exit(r) ELSE Goto(r, After[step])
    /\ UNCHANGED <<db, schema, lock, setting>>

\* JWT, administrator, HTTP server and its first routes.
Configure(r) == Proceed(r, "configure")

\* Duration of sessions, URL and cookie.
NewBrowserHandlers(r) == Proceed(r, "browser")

\* The transcoder, the last routes, the port.
StartServer(r) == Proceed(r, "mount")

\* Mutant: the table is not looked for.
TableExists_Assumed(store) == TRUE
TableExists(store) == TableOf[store] \in schema.tables

OpenStore(r, store) ==
    /\ Answers(r, store)
    /\ IF TableExists(store) THEN Goto(r, After[store]) ELSE Exit(r)
    /\ UNCHANGED <<db, schema, lock, setting>>

NewPgxDB(r) == OpenStore(r, "userStore")
NewPgxPatStore(r) == OpenStore(r, "patStore")
NewPgxSessionStore(r) == OpenStore(r, "sessionStore")

\* A context's deadline passes, or a statement fails because the database is down.
GivesUp(r) ==
    /\ \/ db = "silent" /\ pc[r] \in HasDeadline
       \/ db = "down" /\ pc[r] \in DbSteps
    /\ Exit(r)
    /\ UNCHANGED <<db, schema, lock, setting>>

Step(r) ==
    \/ Connect(r) \/ GetVersion(r) \/ InitMetadataOrFail(r)
    \/ NewWithSourceInstance(r) \/ TakeLock(r) \/ LockTimesOut(r)
    \/ Up(r) \/ MarkDirty(r) \/ RunMigration(r) \/ MarkClean(r)
    \/ Configure(r) \/ NewPgxDB(r) \/ NewPgxPatStore(r) \/ NewPgxSessionStore(r)
    \/ NewBrowserHandlers(r) \/ StartServer(r)
    \/ GivesUp(r)

-----------------------------------------------------------------------------
(* The database, the operator, the cluster *)

\* The statement under way gets there or not.  The server may take a while to
\* notice that the owner of the lock is gone.
Crash(r) ==
    /\ ~calm
    /\ Starting(r) \/ pc[r] = "serving"
    /\ Exit(r)
    /\ schema' \in {schema, Effect(r)}
    /\ lock' \in IF lock = r THEN {None, Orphan} ELSE {lock}
    /\ UNCHANGED <<db, setting>>

OrphanNoticed ==
    /\ lock = Orphan /\ db = "up"
    /\ lock' = None
    /\ UNCHANGED <<db, schema, pc, setting>>

\* Ends the sessions, with them the migrations.
DbStops ==
    /\ db # "down" /\ ~calm
    /\ db' = "down"
    /\ lock' = None
    /\ pc' = [r \in Replicas |-> IF pc[r] \in MigrateSteps THEN "exited" ELSE pc[r]]
    /\ schema' \in {schema} \cup {Effect(r) : r \in Replicas}
    /\ UNCHANGED setting

DbFallsSilent ==
    /\ db = "up" /\ ~calm
    /\ db' = "silent"
    /\ UNCHANGED <<schema, lock, pc, setting>>

DbAnswersAgain ==
    /\ db # "up"
    /\ db' = "up"
    /\ UNCHANGED <<schema, lock, pc, setting>>

\* "migrate force": the operator declares the version there or not there, rightly
\* or wrongly.
ForceVersion ==
    /\ schema.dirty /\ lock = None /\ db = "up"
    /\ schema' \in {[schema EXCEPT !.dirty = FALSE],
                    [schema EXCEPT !.dirty = FALSE, !.version = @ - 1]}
    /\ UNCHANGED <<db, lock, pc, setting>>

\* The cluster starts a container that ended again.
Restart(r) ==
    /\ pc[r] = "exited"
    /\ Goto(r, "connect")
    /\ UNCHANGED <<db, schema, lock, setting>>

\* A rollout, or a rollback, replaces it.
Rollout(r) ==
    /\ ~calm
    /\ pc[r] \in {"off", "exited", "serving"}
    /\ Goto(r, "connect")
    /\ \E x \in Releases : release' = [release EXCEPT ![r] = x]
    /\ UNCHANGED <<db, schema, lock, calm>>

CalmSets ==
    /\ ~calm
    /\ calm' = TRUE
    /\ UNCHANGED <<db, schema, lock, pc, release>>

Next ==
    \/ \E r \in Replicas :
          Step(r) \/ RunFails(r) \/ Crash(r) \/ Restart(r) \/ Rollout(r)
    \/ OrphanNoticed
    \/ DbStops \/ DbFallsSilent \/ DbAnswersAgain
    \/ ForceVersion
    \/ CalmSets

\* Replicas go on, deadlines pass, containers are started again, and the server
\* finds out about lost clients.  The database need never answer; if it does again
\* and again, nobody waits for ever: PostgreSQL gives a lock to those who wait for
\* it in their order.
Fairness ==
    /\ \A r \in Replicas :
          /\ SF_vars(Step(r)) /\ SF_vars(TakeLock(r))
          /\ WF_vars(Restart(r))
    /\ WF_vars(OrphanNoticed)

Spec == Init /\ [][Next]_vars /\ Fairness

-----------------------------------------------------------------------------
(* Properties *)

\* The versions some release knows.
Versions == (0..Installed) \cup UNION {0..x.build : x \in Releases}

\* Type invariant: the database never gets to a version nobody has deployed.
TypeOK ==
    /\ db \in {"up", "down", "silent"}
    /\ schema \in [version : Versions, dirty : BOOLEAN, tables : SUBSET Versions]
    /\ lock \in Replicas \cup {None, Orphan}
    /\ pc \in [Replicas -> Steps \cup {"off", "serving", "exited"}]
    /\ release \in [Replicas -> Releases]
    /\ calm \in BOOLEAN

\* checkReady looks at nothing but the connection, and checkHealthy at nothing:
\* yet a replica that serves has every table its stores use, whatever was left
\* half done by a crash and declared done by the operator.
ServingMeansReady == \A r \in Replicas : pc[r] = "serving" => Needed \subseteq schema.tables

\* Replicas that start together do not migrate together, and an interrupted
\* migration is over before the next one begins.
OneMigrator ==
    \A r \in Replicas :
        pc[r] \in {"mark", "run", "clean"} =>
            /\ lock = r
            /\ schema.dirty <=> pc[r] \in {"run", "clean"}

\* Every start ends, served or not, in spite of a database that stays silent:
\* only the steps without a deadline may wait for it.
StartsEnd ==
    \A r \in Replicas :
        Starting(r) ~> \/ ~Starting(r)
                       \/ db = "silent" /\ pc[r] \in {"version"} \cup (MigrateSteps \ {"lock"})

Undisturbed == calm /\ db = "up" /\ ~schema.dirty /\ 1..schema.version \subseteq schema.tables
Deployed(r) == pc[r] # "off" /\ release[r].flaw = "none"

\* After outages, crashes and rollouts the service comes back by itself: a replica
\* with a sound environment and no older than the database serves in the end,
\* unless a migration was left half done.
ServesAgain ==
    \A r \in Replicas :
        <>[](Undisturbed /\ Deployed(r) /\ release[r].build >= schema.version)
            => <>[](pc[r] = "serving")
=============================================================================
