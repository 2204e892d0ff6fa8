------------------------------ MODULE Startup -------------------------------
(***************************************************************************)
(* The start of the three programs, as far as they share it: each main     *)
(* opens the database (repository.NewDB), runs the migrations embedded in  *)
(* its binary (pkg/database/migrate.go), the API pings Redis, and only     *)
(* then the program serves.  Every error ends the program with status 1    *)
(* and the container runtime starts it again.  The programs start together *)
(* and may be of different ages while an upgrade is under way.             *)
(*                                                                         *)
(* golang-migrate and MySQL are external: Up takes a session lock or gives *)
(* up, refuses a schema that is dirty or whose version its sources do not  *)
(* know, and marks the schema dirty around every migration.  A lock ends   *)
(* with the session.  Migrator.Close is assumed to leave the database      *)
(* open, as migrate.go 94 and 105 say of it (README.md, A8).               *)
(*                                                                         *)
(* An operator that nothing uses is a faulty variant of the operator       *)
(* after it, kept to show which property would notice (README.md).         *)
(***************************************************************************)
EXTENDS Naturals

CONSTANTS Programs, RedisPingers,
          Oldest, Newest,   \* newest migration in the old and the new binaries
          MaxAttempts,      \* NewDB's maxAttempts
          MaxFaults,        \* bound: outages, kills and failing calls
          None

ASSUME StartupAssumption ==
  /\ RedisPingers \subseteq Programs /\ None \notin Programs
  /\ Oldest \in Nat /\ Newest \in Nat /\ Oldest <= Newest
  /\ MaxAttempts \in Nat \ {0} /\ MaxFaults \in Nat

VARIABLES
  reachable,        \* MySQL answers
  version, dirty,   \* the row of schema_migrations
  applied,          \* the migrations in effect
  lock,             \* the program whose session holds the migration lock
  pc, attempt, seen, \* each program: its place, NewDB's attempt, the version it has reached
  newest,           \* the newest migration in each program's binary
  faults,
  torn              \* history: a program ended between marking and clearing

schema == <<version, dirty, applied>>
vars == <<reachable, schema, lock, pc, attempt, seen, newest, faults, torn>>

PC == {"down", "ping", "lock", "read", "next", "apply", "clear", "check", "redis", "up"}
(* The places at which a program holds a session of MySQL that its start   *)
(* needs.                                                                  *)
InSession == {"lock", "read", "next", "apply", "clear", "check"}

Init ==
  /\ reachable \in BOOLEAN /\ version = 0 /\ dirty = FALSE /\ applied = {} /\ lock = None
  /\ pc = [p \in Programs |-> "down"] /\ attempt = [p \in Programs |-> 1]
  /\ seen = [p \in Programs |-> 0] /\ newest = [p \in Programs |-> Oldest]
  /\ faults = 0 /\ torn = FALSE

Goto(p, label) == pc' = [pc EXCEPT ![p] = label]
Fault == faults < MaxFaults /\ faults' = faults + 1

(* The programs of P end: os.Exit(1), a kill, or a lost session.           *)
End(P) ==
  /\ pc' = [p \in Programs |-> IF p \in P THEN "down" ELSE pc[p]]
  /\ lock' = IF lock \in P THEN None ELSE lock
  /\ torn' = (torn \/ \E p \in P : pc[p] \in {"apply", "clear"})

Start(p) ==
  /\ pc[p] = "down" /\ Goto(p, "ping") /\ attempt' = [attempt EXCEPT ![p] = 1]
  /\ UNCHANGED <<reachable, schema, lock, seen, newest, faults, torn>>

(* NewDB: up to MaxAttempts pings.                                         *)
Ping(p) ==
  /\ pc[p] = "ping"
  /\ \/ reachable /\ Goto(p, "lock") /\ UNCHANGED <<lock, attempt, torn>>
     \/ /\ ~reachable /\ attempt[p] < MaxAttempts
        /\ attempt' = [attempt EXCEPT ![p] = @ + 1] /\ UNCHANGED <<pc, lock, torn>>
     \/ ~reachable /\ attempt[p] = MaxAttempts /\ End({p}) /\ UNCHANGED attempt
  /\ UNCHANGED <<reachable, schema, seen, newest, faults>>

-----------------------------------------------------------------------------
(* Migrator.Up: lock, read, and migration after migration.                 *)
NoLock == TRUE
LockIsFree == lock = None

Lock(p) ==
  /\ pc[p] = "lock" /\ LockIsFree
  /\ lock' = p /\ Goto(p, "read")
  /\ UNCHANGED <<reachable, schema, attempt, seen, newest, faults, torn>>

TimeoutIsNoChange(p) == Goto(p, "check") /\ UNCHANGED <<lock, torn>>
(* Only ErrNoChange is no error.                                           *)
AfterTimeout(p) == End({p})

(* Ten seconds are long for all that a holder does but its migrations.     *)
LockTimesOut(p) ==
  /\ pc[p] = "lock" /\ \E q \in Programs : lock = q /\ pc[q] = "apply"
  /\ AfterTimeout(p)
  /\ UNCHANGED <<reachable, schema, attempt, seen, newest, faults>>

(* A dirty schema, or one that a newer binary has migrated, is an error.   *)
ReadVersion(p) ==
  /\ pc[p] = "read"
  /\ \/ /\ ~dirty /\ version <= newest[p] /\ Goto(p, "next")
        /\ seen' = [seen EXCEPT ![p] = version] /\ UNCHANGED <<lock, torn>>
     \/ (dirty \/ version > newest[p]) /\ End({p}) /\ UNCHANGED seen
  /\ UNCHANGED <<reachable, schema, attempt, newest, faults>>

MarkDirty(p) ==
  /\ pc[p] = "next" /\ seen[p] < newest[p]
  /\ version' = seen[p] + 1 /\ dirty' = TRUE /\ Goto(p, "apply")
  /\ UNCHANGED <<reachable, applied, lock, attempt, seen, newest, faults, torn>>

(* The statements of one migration; they may fail.                         *)
Apply(p) ==
  /\ pc[p] = "apply"
  /\ \/ /\ applied' = applied \cup {seen[p] + 1} /\ Goto(p, "clear")
        /\ UNCHANGED <<lock, faults, torn>>
     \/ Fault /\ End({p}) /\ UNCHANGED applied
  /\ UNCHANGED <<reachable, version, dirty, attempt, seen, newest>>

ClearDirty(p) ==
  /\ pc[p] = "clear" /\ Goto(p, "next")
  /\ version' = seen[p] + 1 /\ dirty' = FALSE /\ seen' = [seen EXCEPT ![p] = @ + 1]
  /\ UNCHANGED <<reachable, applied, lock, attempt, newest, faults, torn>>

KeptLock == lock
Released == None

Unlock(p) ==
  /\ pc[p] = "next" /\ seen[p] = newest[p]
  /\ lock' = Released /\ Goto(p, "check")
  /\ UNCHANGED <<reachable, schema, attempt, seen, newest, faults, torn>>

(* RunMigrations reads the version once more, without the lock, and may    *)
(* meet the mark of a newer program's migration.  The deferred Close comes *)
(* last; an error of the query or of Close ends the program as Kill does.  *)
CheckVersion(p) ==
  /\ pc[p] = "check"
  /\ \/ ~dirty /\ Goto(p, IF p \in RedisPingers THEN "redis" ELSE "up") /\ UNCHANGED <<lock, torn>>
     \/ dirty /\ End({p})
  /\ UNCHANGED <<reachable, schema, attempt, seen, newest, faults>>

-----------------------------------------------------------------------------
PingRedis(p) ==
  /\ pc[p] = "redis"
  /\ \/ Goto(p, "up") /\ UNCHANGED <<lock, faults, torn>>
     \/ Fault /\ End({p})
  /\ UNCHANGED <<reachable, schema, attempt, seen, newest>>

Kill(p) ==
  /\ pc[p] # "down" /\ Fault /\ End({p})
  /\ UNCHANGED <<reachable, schema, attempt, seen, newest>>

(* MySQL stops; a start that was using a session fails with its next call. *)
Outage ==
  /\ reachable /\ Fault /\ reachable' = FALSE
  /\ End({p \in Programs : pc[p] \in InSession})
  /\ UNCHANGED <<schema, attempt, seen, newest>>

Recover ==
  /\ ~reachable /\ reachable' = TRUE
  /\ UNCHANGED <<schema, lock, pc, attempt, seen, newest, faults, torn>>

(* The operator replaces a program's binary by the new one.                *)
Upgrade(p) ==
  /\ newest[p] # Newest /\ newest' = [newest EXCEPT ![p] = Newest] /\ End({p})
  /\ UNCHANGED <<reachable, schema, attempt, seen, faults>>

(* The operator makes schema_migrations say what is in effect.             *)
Repair ==
  /\ torn /\ lock = None /\ torn' = FALSE /\ dirty' = FALSE
  /\ version' = IF version \in applied THEN version ELSE version - 1
  /\ UNCHANGED <<reachable, applied, lock, pc, attempt, seen, newest, faults>>

Step(p) ==
  \/ Start(p) \/ Ping(p) \/ Lock(p) \/ LockTimesOut(p) \/ ReadVersion(p) \/ MarkDirty(p)
  \/ Apply(p) \/ ClearDirty(p) \/ Unlock(p) \/ CheckVersion(p) \/ PingRedis(p)

Next ==
  \/ \E p \in Programs : Step(p) \/ Kill(p) \/ Upgrade(p)
  \/ Outage \/ Recover \/ Repair

(* The runtime starts what has ended, calls return, MySQL comes back, and  *)
(* hands its lock to everyone who waits for it, an old program that takes  *)
(* it at each of its futile starts notwithstanding.                        *)
Spec == Init /\ [][Next]_vars
FairSpec ==
  /\ Spec /\ WF_vars(Recover)
  /\ \A p \in Programs : WF_vars(Step(p)) /\ SF_vars(Lock(p))

-----------------------------------------------------------------------------
(* The row of schema_migrations tells the truth whoever migrates and       *)
(* whatever ends half way: clean, exactly the migrations up to its version *)
(* are in effect; dirty, the last one may be, and a program is at it or    *)
(* one has ended at it (migrate.go 52-57, 121-128).                        *)
SchemaTruthful ==
  /\ ~dirty => applied = 1..version
  /\ dirty =>
       /\ applied \in {1..version, 1..(version - 1)}
       /\ torn \/ \E p \in Programs : lock = p /\ pc[p] \in {"apply", "clear"}

(* A program that serves finds every table its binary was written for,     *)
(* although others start, upgrade, fail and wait for the lock at the same  *)
(* time (cmd/*/main.go: RunMigrations before anything is served).          *)
ServingMeansMigrated ==
  \A p \in Programs : pc[p] \in {"redis", "up"} => 1..newest[p] \subseteq applied

(* When the faults end every program ends up serving, but for two causes:  *)
(* a migration ended half way, which only the operator repairs, or a newer *)
(* program has migrated and this one is still old: an old binary does not  *)
(* start any more (migrate.go 52-57).                                      *)
EveryoneServes ==
  \A p \in Programs : <>[](pc[p] = "up" \/ torn \/ version > newest[p])
=============================================================================
