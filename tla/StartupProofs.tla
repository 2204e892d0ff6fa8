--------------------------- MODULE StartupProofs ----------------------------
(***************************************************************************)
(* Theorems about the start of the programs (Startup), for every number of *)
(* programs and of migrations, whatever fails and is killed.               *)
(***************************************************************************)
EXTENDS Startup, TLAPS

TypeInv ==
  /\ version \in Nat /\ dirty \in BOOLEAN /\ torn \in BOOLEAN
  /\ pc \in [Programs -> PC] /\ lock \in Programs \cup {None}
  /\ seen \in [Programs -> Nat] /\ newest \in [Programs -> Nat]

(* Who works on the schema holds the lock.                                 *)
Migrating(p) == pc[p] \in {"read", "next", "apply", "clear"}
Exclusive == \A p \in Programs : Migrating(p) => lock = p

(* What the row of schema_migrations means, and who answers for the mark:  *)
(* a dirty schema without a program at work is a torn one, and nobody      *)
(* works on a torn one.                                                    *)
Clean == ~dirty => applied = 1..version
Marked ==
  dirty => /\ version >= 1
           /\ applied \in {1..version, 1..(version - 1)}
           /\ torn \/ \E p \in Programs : lock = p /\ pc[p] \in {"apply", "clear"}
Torn == torn => dirty /\ \A p \in Programs : pc[p] \notin {"apply", "clear"}

(* What a migrating program knows of the schema.                           *)
Aware ==
  \A p \in Programs :
    /\ pc[p] = "next" => ~dirty /\ seen[p] = version /\ seen[p] <= newest[p]
    /\ pc[p] = "apply" => dirty /\ version = seen[p] + 1 /\ seen[p] < newest[p]
                            /\ applied = 1..seen[p]
    /\ pc[p] = "clear" => dirty /\ version = seen[p] + 1 /\ seen[p] < newest[p]
                            /\ applied = 1..version

(* A program past its migrations has all of them.                          *)
Migrated ==
  \A p \in Programs : pc[p] \in {"check", "redis", "up"} => 1..newest[p] \subseteq applied

SchemaInv == TypeInv /\ Exclusive /\ Clean /\ Marked /\ Torn /\ Aware /\ Migrated

LEMMA SchemaInit == Init => SchemaInv
<1> SUFFICES ASSUME Init PROVE SchemaInv
  OBVIOUS
<1>1. TypeInv
  BY StartupAssumption DEF Init, TypeInv, PC
<1>2. Clean
  BY DEF Init, Clean
<1>3. Exclusive /\ Marked /\ Torn /\ Aware /\ Migrated
  BY DEF Init, Exclusive, Migrating, Marked, Torn, Aware, Migrated
<1> QED
  BY <1>1, <1>2, <1>3 DEF SchemaInv

(* Programs that end leave the schema as it is; the lock goes with the     *)
(* session of its holder, and torn says whether one was at a migration.    *)
LEMMA EndStep ==
  ASSUME SchemaInv, NEW P \in SUBSET Programs, End(P), UNCHANGED <<schema, seen>>,
         newest' \in [Programs -> Nat],
         \A p \in Programs \ P : newest'[p] = newest[p]
  PROVE  SchemaInv'
<1> USE DEF SchemaInv
<1>1. TypeInv'
  BY DEF TypeInv, End, schema, PC
<1>2. \A p \in Programs : pc'[p] = IF p \in P THEN "down" ELSE pc[p]
  BY DEF End
<1>3. Exclusive'
  BY <1>2 DEF Exclusive, Migrating, End
<1>4. Torn'
  <2>1. CASE torn
    BY <1>2, <2>1 DEF Torn, schema
  <2>2. ASSUME NEW p \in P, pc[p] \in {"apply", "clear"}
        PROVE  dirty /\ \A q \in Programs : pc'[q] \notin {"apply", "clear"}
    <3>1. dirty
      BY <2>2 DEF Aware
    <3>2. \A q \in Programs : q # p => pc[q] \notin {"apply", "clear"}
      BY <2>2 DEF Exclusive, Migrating
    <3> QED
      BY <1>2, <3>1, <3>2
  <2>3. ~torn /\ ~(\E p \in P : pc[p] \in {"apply", "clear"}) => ~torn'
    BY DEF End
  <2> QED
    BY <2>1, <2>2, <2>3 DEF Torn, schema
<1>5. Clean' /\ Marked'
  <2>1. torn' <=> torn \/ \E p \in P : pc[p] \in {"apply", "clear"}
    BY DEF End
  <2>2. ASSUME dirty, ~torn' PROVE \E p \in Programs : lock' = p /\ pc'[p] \in {"apply", "clear"}
    <3>1. PICK p \in Programs : lock = p /\ pc[p] \in {"apply", "clear"}
      BY <2>1, <2>2 DEF Marked
    <3>2. p \notin P
      BY <2>1, <2>2, <3>1
    <3> QED
      BY <1>2, <3>1, <3>2 DEF End
  <2> QED
    BY <2>2 DEF Clean, Marked, schema
<1>6. Aware' /\ Migrated'
  BY <1>2 DEF Aware, Migrated, schema
<1> QED
  BY <1>1, <1>3, <1>4, <1>5, <1>6

LEMMA SchemaStep == SchemaInv /\ [Next]_vars => SchemaInv'
<1> SUFFICES ASSUME SchemaInv, [Next]_vars PROVE SchemaInv'
  OBVIOUS
<1> USE DEF SchemaInv
<1>0. /\ pc \in [Programs -> PC] /\ seen \in [Programs -> Nat] /\ newest \in [Programs -> Nat]
      /\ version \in Nat /\ None \notin Programs
  BY StartupAssumption DEF TypeInv
(* A program moves on and touches nothing of the schema or the lock.       *)
<1>1. ASSUME NEW p \in Programs, NEW label \in PC, Goto(p, label),
             UNCHANGED <<schema, lock, seen, newest, torn>>,
             pc[p] \notin {"apply", "clear"}, label \notin {"read", "next", "apply", "clear"},
             label \in {"check", "redis", "up"} => 1..newest[p] \subseteq applied
      PROVE  SchemaInv'
  <2>1. TypeInv'
    BY <1>0, <1>1 DEF TypeInv, Goto, schema
  <2>2. \A q \in Programs : pc'[q] = IF q = p THEN label ELSE pc[q]
    BY <1>0, <1>1 DEF Goto
  <2>3. Exclusive' /\ Clean' /\ Torn' /\ Aware' /\ Migrated'
    BY <1>1, <2>2 DEF Exclusive, Migrating, Clean, Torn, Aware, Migrated, schema
  <2>4. Marked'
    BY <1>1, <2>2 DEF Marked, schema
  <2> QED
    BY <2>1, <2>3, <2>4
<1>2. ASSUME NEW p \in Programs, Start(p) PROVE SchemaInv'
  BY <1>1, <1>2 DEF Start, PC
<1>3. ASSUME NEW p \in Programs, Ping(p) PROVE SchemaInv'
  <2>1. CASE Goto(p, "lock") /\ UNCHANGED <<lock, attempt, torn>>
    BY <1>1, <1>3, <2>1 DEF Ping, PC
  <2>2. CASE UNCHANGED <<pc, lock, torn>>
    BY <1>3, <2>2
    DEF Ping, TypeInv, Exclusive, Migrating, Clean, Marked, Torn, Aware, Migrated, schema
  <2>3. CASE End({p})
    BY <1>0, <1>3, <2>3, EndStep DEF Ping
  <2> QED
    BY <1>3, <2>1, <2>2, <2>3 DEF Ping
<1>4. ASSUME NEW p \in Programs, Lock(p) PROVE SchemaInv'
  <2>1. \A q \in Programs : pc'[q] = IF q = p THEN "read" ELSE pc[q]
    BY <1>0, <1>4 DEF Lock, Goto
  <2>2. TypeInv'
    BY <1>0, <1>4 DEF Lock, Goto, TypeInv, schema, PC
  <2>3. Exclusive'
    BY <1>0, <1>4, <2>1 DEF Lock, LockIsFree, Exclusive, Migrating
  <2>4. Clean' /\ Torn' /\ Aware' /\ Migrated'
    BY <1>4, <2>1 DEF Lock, Clean, Torn, Aware, Migrated, schema
  <2>5. Marked'
    BY <1>0, <1>4, <2>1 DEF Lock, LockIsFree, Marked, schema
  <2> QED
    BY <2>2, <2>3, <2>4, <2>5
<1>5. ASSUME NEW p \in Programs, LockTimesOut(p) PROVE SchemaInv'
  BY <1>0, <1>5, EndStep DEF LockTimesOut, AfterTimeout
<1>6. ASSUME NEW p \in Programs, ReadVersion(p) PROVE SchemaInv'
  <2>1. CASE End({p}) /\ UNCHANGED seen
    BY <1>0, <1>6, <2>1, EndStep DEF ReadVersion
  <2>2. CASE /\ ~dirty /\ version <= newest[p] /\ Goto(p, "next")
             /\ seen' = [seen EXCEPT ![p] = version] /\ UNCHANGED <<lock, torn>>
    <3>1. \A q \in Programs : /\ pc'[q] = IF q = p THEN "next" ELSE pc[q]
                              /\ seen'[q] = IF q = p THEN version ELSE seen[q]
      BY <1>0, <2>2 DEF Goto
    <3>2. UNCHANGED <<version, dirty, applied, newest>> /\ pc[p] = "read"
      BY <1>6 DEF ReadVersion, schema
    <3>3. TypeInv'
      BY <1>0, <2>2, <3>2 DEF Goto, TypeInv, PC
    <3>4. Exclusive' /\ Clean' /\ Torn' /\ Migrated' /\ Marked'
      BY <2>2, <3>1, <3>2 DEF Exclusive, Migrating, Clean, Torn, Migrated, Marked
    <3>5. Aware'
      BY <2>2, <3>1, <3>2 DEF Aware
    <3> QED
      BY <3>3, <3>4, <3>5
  <2> QED
    BY <1>6, <2>1, <2>2 DEF ReadVersion
<1>7. ASSUME NEW p \in Programs, MarkDirty(p) PROVE SchemaInv'
  <2>1. /\ pc[p] = "next" /\ ~dirty /\ seen[p] = version /\ seen[p] < newest[p]
        /\ applied = 1..version /\ ~torn /\ lock = p
    BY <1>7 DEF MarkDirty, Aware, Clean, Torn, Exclusive, Migrating
  <2>2. /\ version' = version + 1 /\ dirty' = TRUE /\ UNCHANGED <<applied, lock, seen, newest, torn>>
        /\ \A q \in Programs : pc'[q] = IF q = p THEN "apply" ELSE pc[q]
    BY <1>0, <1>7, <2>1 DEF MarkDirty, Goto
  <2>3. \A q \in Programs \ {p} : ~Migrating(q)
    BY <2>1 DEF Exclusive
  <2>4. TypeInv'
    BY <1>0, <1>7, <2>2 DEF MarkDirty, Goto, TypeInv, PC
  <2>5. Exclusive' /\ Clean' /\ Torn' /\ Migrated'
    BY <2>1, <2>2 DEF Exclusive, Migrating, Clean, Torn, Migrated
  <2>6. Marked'
    BY <1>0, <2>1, <2>2 DEF Marked
  <2>7. Aware'
    BY <2>1, <2>2, <2>3 DEF Aware, Migrating
  <2> QED
    BY <2>4, <2>5, <2>6, <2>7
<1>8. ASSUME NEW p \in Programs, Apply(p) PROVE SchemaInv'
  <2>1. CASE End({p}) /\ UNCHANGED applied
    BY <1>0, <1>8, <2>1, EndStep DEF Apply, schema
  <2>2. CASE /\ applied' = applied \cup {seen[p] + 1} /\ Goto(p, "clear")
             /\ UNCHANGED <<lock, faults, torn>>
    <3>1. /\ pc[p] = "apply" /\ dirty /\ version = seen[p] + 1 /\ applied = 1..seen[p]
          /\ ~torn /\ lock = p /\ seen[p] < newest[p] /\ seen[p] \in Nat
      BY <1>0, <1>8 DEF Apply, Aware, Torn, Exclusive, Migrating
    <3>2. applied' = 1..version
      BY <2>2, <3>1
    <3>3. /\ UNCHANGED <<version, dirty, lock, seen, newest, torn>>
          /\ \A q \in Programs : pc'[q] = IF q = p THEN "clear" ELSE pc[q]
      BY <1>0, <1>8, <2>2 DEF Apply, Goto
    <3>4. \A q \in Programs \ {p} : ~Migrating(q)
      BY <3>1 DEF Exclusive
    <3>5. TypeInv'
      BY <1>0, <2>2, <3>3 DEF Goto, TypeInv, PC
    <3>6. Exclusive' /\ Clean' /\ Torn' /\ Marked'
      BY <3>1, <3>2, <3>3 DEF Exclusive, Migrating, Clean, Torn, Marked
    <3>7. Aware'
      BY <3>1, <3>2, <3>3, <3>4 DEF Aware, Migrating
    <3>8. Migrated'
      BY <2>2, <3>3 DEF Migrated
    <3> QED
      BY <3>5, <3>6, <3>7, <3>8
  <2> QED
    BY <1>8, <2>1, <2>2 DEF Apply
<1>9. ASSUME NEW p \in Programs, ClearDirty(p) PROVE SchemaInv'
  <2>1. /\ pc[p] = "clear" /\ dirty /\ version = seen[p] + 1 /\ applied = 1..version
        /\ ~torn /\ lock = p /\ seen[p] < newest[p]
    BY <1>9 DEF ClearDirty, Aware, Torn, Exclusive, Migrating
  <2>2. /\ version' = version /\ dirty' = FALSE /\ UNCHANGED <<applied, lock, newest, torn>>
        /\ \A q \in Programs : /\ pc'[q] = IF q = p THEN "next" ELSE pc[q]
                               /\ seen'[q] = IF q = p THEN seen[p] + 1 ELSE seen[q]
    BY <1>0, <1>9, <2>1 DEF ClearDirty, Goto
  <2>3. \A q \in Programs \ {p} : ~Migrating(q)
    BY <2>1 DEF Exclusive
  <2>4. TypeInv'
    BY <1>0, <1>9, <2>2 DEF ClearDirty, Goto, TypeInv, PC
  <2>5. Exclusive' /\ Clean' /\ Torn' /\ Migrated' /\ Marked'
    BY <2>1, <2>2 DEF Exclusive, Migrating, Clean, Torn, Migrated, Marked
  <2>6. Aware'
    BY <1>0, <2>1, <2>2, <2>3 DEF Aware, Migrating
  <2> QED
    BY <2>4, <2>5, <2>6
<1>10. ASSUME NEW p \in Programs, Unlock(p) PROVE SchemaInv'
  <2>1. /\ pc[p] = "next" /\ ~dirty /\ applied = 1..version /\ version = newest[p] /\ lock = p
    BY <1>10 DEF Unlock, Aware, Clean, Exclusive, Migrating
  <2>2. /\ lock' = None /\ UNCHANGED <<version, dirty, applied, seen, newest, torn>>
        /\ \A q \in Programs : pc'[q] = IF q = p THEN "check" ELSE pc[q]
    BY <1>0, <1>10 DEF Unlock, Released, Goto, schema
  <2>3. \A q \in Programs \ {p} : ~Migrating(q)
    BY <2>1 DEF Exclusive
  <2>4. TypeInv'
    BY <1>0, <1>10, <2>2 DEF Unlock, Goto, TypeInv, PC
  <2>5. Exclusive' /\ Clean' /\ Torn' /\ Marked' /\ Aware'
    BY <2>1, <2>2, <2>3 DEF Exclusive, Migrating, Clean, Torn, Marked, Aware
  <2>6. Migrated'
    BY <2>1, <2>2 DEF Migrated
  <2> QED
    BY <2>4, <2>5, <2>6
<1>11. ASSUME NEW p \in Programs, CheckVersion(p) PROVE SchemaInv'
  <2>1. CASE End({p})
    BY <1>0, <1>11, <2>1, EndStep DEF CheckVersion
  <2>2. CASE Goto(p, IF p \in RedisPingers THEN "redis" ELSE "up") /\ UNCHANGED <<lock, torn>>
    BY <1>1, <1>11, <2>2 DEF CheckVersion, Migrated, PC
  <2> QED
    BY <1>11, <2>1, <2>2 DEF CheckVersion
<1>12. ASSUME NEW p \in Programs, PingRedis(p) PROVE SchemaInv'
  <2>1. CASE End({p})
    BY <1>0, <1>12, <2>1, EndStep DEF PingRedis
  <2>2. CASE Goto(p, "up") /\ UNCHANGED <<lock, torn>>
    BY <1>1, <1>12, <2>2 DEF PingRedis, Migrated, PC
  <2> QED
    BY <1>12, <2>1, <2>2 DEF PingRedis
<1>13. ASSUME NEW p \in Programs, Kill(p) \/ Upgrade(p) PROVE SchemaInv'
  BY <1>0, <1>13, StartupAssumption, EndStep DEF Kill, Upgrade
<1>14. CASE Outage
  BY <1>0, <1>14, EndStep DEF Outage
<1>15. CASE Recover \/ UNCHANGED vars
  BY <1>15 DEF Recover, vars, TypeInv, Exclusive, Migrating, Clean, Marked, Torn, Aware,
               Migrated, schema
<1>16. CASE Repair
  <2>1. /\ dirty /\ version >= 1 /\ applied \in {1..version, 1..(version - 1)}
        /\ dirty' = FALSE /\ torn' = FALSE
        /\ version' = IF version \in applied THEN version ELSE version - 1
        /\ UNCHANGED <<applied, lock, pc, seen, newest>> /\ lock = None
    BY <1>16 DEF Repair, Torn, Marked
  <2>2. version' \in Nat /\ applied = 1..version'
    BY <1>0, <2>1
  <2>3. \A p \in Programs : ~Migrating(p)
    BY <1>0, <2>1 DEF Exclusive
  <2>4. TypeInv' /\ Exclusive' /\ Clean' /\ Marked' /\ Torn' /\ Migrated'
    BY <2>1, <2>2 DEF TypeInv, Exclusive, Migrating, Clean, Marked, Torn, Migrated
  <2>5. Aware'
    BY <2>1, <2>3 DEF Aware, Migrating
  <2> QED
    BY <2>4, <2>5
<1> QED
  BY <1>2, <1>3, <1>4, <1>5, <1>6, <1>7, <1>8, <1>9, <1>10, <1>11, <1>12, <1>13, <1>14,
     <1>15, <1>16 DEF Next, Step

(* Who migrates holds the lock and knows the schema it works on, in every  *)
(* state (migrate.go 46-60).                                               *)
THEOREM SchemaAlways == Spec => []SchemaInv
  BY SchemaInit, SchemaStep, PTL DEF Spec

(* The recorded version is true after any number of starts, kills, torn    *)
(* migrations and repairs: only the holder of the lock writes, it knows    *)
(* what it reads until it lets go, and a torn schema is not worked on.     *)
THEOREM RecordIsTrue == Spec => []SchemaTruthful
<1>1. SchemaInv => SchemaTruthful
  BY DEF SchemaInv, Clean, Marked, SchemaTruthful
<1> QED
  BY <1>1, SchemaAlways, PTL

(* No program serves, or is about to, before every migration of its own    *)
(* binary is in effect, whichever program of whatever age made it.         *)
THEOREM ServesOnItsSchema == Spec => []ServingMeansMigrated
<1>1. SchemaInv => ServingMeansMigrated
  BY DEF SchemaInv, Migrated, ServingMeansMigrated
<1> QED
  BY <1>1, SchemaAlways, PTL
=============================================================================
