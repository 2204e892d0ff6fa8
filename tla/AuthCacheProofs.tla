-------------------------- MODULE AuthCacheProofs --------------------------
(***************************************************************************)
(* Proofs about AuthCache, for any number of requests and administrators,  *)
(* any TTL and any MaxLag, up to any MaxTime, whether calls fail or not.   *)
(***************************************************************************)
EXTENDS AuthCache, TLAPS

Running == PC \ ({"idle"} \cup Ended)

(* The staleness of what is in the cache, and of what a request read: an   *)
(* entry was filled from a row that was read while the client was active,  *)
(* and a request acts on an entry that had not expired when it was read.   *)
ActiveNow == active => lastOn = now
FillFresh ==
  \A r \in Reqs : pc[r] = "fill" => since[r] <= lastOn /\ now <= since[r] + MaxLag
EntryFresh ==
  \A k \in Keys : expires[k] # 0 => now < expires[k] /\ expires[k] <= lastOn + MaxLag + TTL
FoundFresh ==
  \A r \in Reqs : pc[r] \in {"check", "accepted"} =>
    since[r] < lastOn + MaxLag + TTL /\ now <= since[r] + MaxLag
FreshInv == ActiveNow /\ FillFresh /\ EntryFresh /\ FoundFresh

(* A request that runs while the client is inactive is known to.           *)
SawInv ==
  /\ \A r \in Reqs : pc[r] \in Running /\ ~active => r \in sawOff
  /\ RejectedForCause

(* After a clean switching off nothing can fill the cache any more.        *)
CleanInv ==
  off = "clean" =>
    /\ ~active
    /\ \A a \in Admins : apc[a] = "idle"
    /\ \A r \in Reqs : pc[r] # "fill"
    /\ \A k \in Keys : expires[k] = 0

AuthInv == TypeOK /\ FreshInv /\ SawInv /\ CleanInv

-----------------------------------------------------------------------------
(* Type correctness.                                                       *)

LEMMA TypeStart == Init => TypeOK
<1> SUFFICES ASSUME Init PROVE TypeOK
  OBVIOUS
<1>1. now = 1 /\ lastOn = 1 /\ active \in BOOLEAN /\ now \in 1..MaxTime /\ lastOn \in 1..now
  BY AuthCacheAssumption DEF Init
<1>2. expires \in [Keys -> 0..(MaxTime + TTL)] /\ since \in [Reqs -> 0..MaxTime]
  BY AuthCacheAssumption DEF Init
<1>3. /\ pc \in [Reqs -> PC] /\ key \in [Reqs -> Keys] /\ good \in [Reqs -> BOOLEAN]
      /\ apc \in [Admins -> {"idle", "update", "evict"}] /\ want \in [Admins -> BOOLEAN]
  BY DEF Init, PC, Keys
<1>4. off \in {"no", "leaky", "clean"} /\ sawOff \subseteq Reqs /\ late \subseteq Reqs
  BY DEF Init
<1> QED BY <1>1, <1>2, <1>3, <1>4 DEF TypeOK

LEMMA TypeStep == TypeOK /\ [Next]_vars => TypeOK'
<1> SUFFICES ASSUME TypeOK, [Next]_vars PROVE TypeOK'
  OBVIOUS
<1>0. /\ TTL \in Nat \ {0} /\ MaxLag \in Nat /\ MaxTime \in Nat \ {0} /\ MayFail \in BOOLEAN
      /\ now \in 1..MaxTime /\ now + TTL \in 0..(MaxTime + TTL)
  BY AuthCacheAssumption DEF TypeOK
<1>1. CASE Tick
  <2>1. now' \in 1..MaxTime /\ lastOn' \in 1..now'
    BY <1>0, <1>1 DEF Tick, TypeOK
  <2>2. expires' \in [Keys -> 0..(MaxTime + TTL)]
    BY <1>0, <1>1 DEF Tick, TypeOK
  <2> QED BY <1>1, <2>1, <2>2 DEF Tick, TypeOK, request, admin
<1>2. ASSUME NEW r \in Reqs, Start(r) \/ End(r) PROVE TypeOK'
  <2>1. CASE Start(r)
    <3>1. sawOff' \subseteq Reqs /\ late' \subseteq Reqs
      BY <2>1 DEF Start, TypeOK
    <3>2. key' \in [Reqs -> Keys] /\ good' \in [Reqs -> BOOLEAN] /\ pc' \in [Reqs -> PC]
      BY <2>1 DEF Start, Goto, TypeOK, PC
    <3> QED BY <2>1, <3>1, <3>2 DEF Start, TypeOK, admin
  <2>2. CASE End(r)
    <3>1. sawOff' \subseteq Reqs /\ late' \subseteq Reqs
      BY <2>2 DEF End, TypeOK
    <3>2. /\ key' \in [Reqs -> Keys] /\ good' \in [Reqs -> BOOLEAN] /\ pc' \in [Reqs -> PC]
          /\ since' \in [Reqs -> 0..MaxTime]
      BY <1>0, <2>2 DEF End, Goto, TypeOK, PC, Keys
    <3> QED BY <2>2, <3>1, <3>2 DEF End, TypeOK, admin
  <2> QED BY <1>2, <2>1, <2>2
<1>3. ASSUME NEW r \in Reqs, Get(r) \/ Fill(r) PROVE TypeOK'
  BY <1>0, <1>3
  DEF Get, Fill, Goto, FoundGoesTo, AfterHit, TypeOK, PC, admin, history
<1>4. ASSUME NEW r \in Reqs, Table(r) \/ Check(r) PROVE TypeOK'
  BY <1>0, <1>4 DEF Table, Check, Goto, ErrorGoesTo, TypeOK, PC, admin, history
<1>5. ASSUME NEW a \in Admins, Put(a) \/ Update(a) PROVE TypeOK'
  <2>1. CASE Put(a)
    BY <1>0, <2>1 DEF Put, AdminGoto, TypeOK, request
  <2>2. CASE Update(a)
    <3>1. active' \in BOOLEAN /\ apc' \in [Admins -> {"idle", "update", "evict"}]
          /\ lastOn' \in 1..now
      BY <1>0, <2>2 DEF Update, AdminGoto, TypeOK
    <3> QED BY <2>2, <3>1 DEF Update, TypeOK, request
  <2> QED BY <1>5, <2>1, <2>2
<1>6. ASSUME NEW a \in Admins, Evict(a) PROVE TypeOK'
  <2>1. expires' \in [Keys -> 0..(MaxTime + TTL)]
    BY <1>0, <1>6 DEF Evict, Evicted, TypeOK
  <2>2. off' \in {"no", "leaky", "clean"}
    BY <1>6 DEF Evict
  <2> QED BY <1>6, <2>1, <2>2 DEF Evict, AdminGoto, TypeOK, request
<1>7. CASE UNCHANGED vars
  BY <1>7 DEF vars, request, admin, history, TypeOK
<1> QED BY <1>1, <1>2, <1>3, <1>4, <1>5, <1>6, <1>7 DEF Next, Step

-----------------------------------------------------------------------------
(* How stale what is read can be.                                          *)

LEMMA FreshStart == Init => FreshInv
BY DEF Init, FreshInv, ActiveNow, FillFresh, EntryFresh, FoundFresh

LEMMA FreshStep == TypeOK /\ TypeOK' /\ FreshInv /\ [Next]_vars => FreshInv'
<1> SUFFICES ASSUME TypeOK, TypeOK', FreshInv, [Next]_vars PROVE FreshInv'
  OBVIOUS
<1>0. /\ TTL \in Nat \ {0} /\ MaxLag \in Nat
      /\ now \in Nat /\ lastOn \in Nat /\ lastOn <= now
      /\ active \in BOOLEAN
      /\ expires \in [Keys -> Nat] /\ since \in [Reqs -> Nat]
      /\ pc \in [Reqs -> PC] /\ key \in [Reqs -> Keys]
      /\ ActiveNow /\ FillFresh /\ EntryFresh /\ FoundFresh
  BY AuthCacheAssumption DEF TypeOK, FreshInv
<1>1. CASE Tick
  <2>1. now' = now + 1 /\ active' = active /\ UNCHANGED <<pc, since>>
        /\ lastOn' = (IF active THEN now + 1 ELSE lastOn)
    BY <1>1 DEF Tick, request
  <2>2. lastOn <= lastOn' /\ lastOn' \in Nat /\ ActiveNow'
    BY <1>0, <2>1 DEF ActiveNow
  <2>3. \A r \in Reqs : pc[r] \in {"fill", "check", "accepted"} => now' <= since[r] + MaxLag
    BY <1>0, <1>1, <2>1 DEF Tick
  <2>4. FillFresh'
    BY <1>0, <2>1, <2>2, <2>3 DEF FillFresh
  <2>5. FoundFresh'
    BY <1>0, <2>1, <2>2, <2>3 DEF FoundFresh
  <2>6. EntryFresh'
    <3>1. \A k \in Keys : expires'[k] = (IF expires[k] = now + 1 THEN 0 ELSE expires[k])
      BY <1>1 DEF Tick
    <3> QED BY <1>0, <2>1, <2>2, <3>1 DEF EntryFresh
  <2> QED BY <2>2, <2>4, <2>5, <2>6 DEF FreshInv
<1>2. ASSUME NEW r \in Reqs, Step(r) PROVE FreshInv'
  <2>1. UNCHANGED <<now, active, lastOn>>
    BY <1>2 DEF Step, Start, Get, Table, Fill, Check, End, history
  <2>2. ActiveNow'
    BY <1>0, <2>1 DEF ActiveNow
  <2>3. CASE Start(r) \/ End(r)
    <3>1. pc'[r] \in {"idle", "get"} /\ expires' = expires
          /\ \A q \in Reqs \ {r} : pc'[q] = pc[q] /\ since'[q] = since[q]
      BY <1>0, <2>3 DEF Start, End, Goto
    <3> QED
      BY <1>0, <2>1, <2>2, <3>1 DEF FreshInv, FillFresh, EntryFresh, FoundFresh
  <2>4. CASE Get(r)
    <3>1. /\ \A q \in Reqs \ {r} : pc'[q] = pc[q] /\ since'[q] = since[q]
          /\ since'[r] = now /\ expires' = expires /\ pc'[r] # "fill"
          /\ pc'[r] \in {"check", "accepted"} => expires[key[r]] # 0
      BY <1>0, <2>4 DEF Get, Goto, AfterHit, FoundGoesTo
    <3>2. FillFresh' /\ EntryFresh'
      BY <1>0, <2>1, <3>1 DEF FillFresh, EntryFresh
    <3>3. pc'[r] \in {"check", "accepted"} => now < lastOn + MaxLag + TTL
      <4>1. key[r] \in Keys /\ expires[key[r]] \in Nat
        BY <1>0
      <4> QED BY <1>0, <3>1, <4>1 DEF EntryFresh
    <3>4. FoundFresh'
      BY <1>0, <2>1, <3>1, <3>3 DEF FoundFresh
    <3> QED BY <2>2, <3>2, <3>4 DEF FreshInv
  <2>5. CASE Table(r)
    <3>1. /\ \A q \in Reqs \ {r} : pc'[q] = pc[q] /\ since'[q] = since[q]
          /\ since'[r] = now /\ expires' = expires
          /\ pc'[r] \in {"fill", "invalid", "error"} /\ (pc'[r] = "fill" => active)
      BY <1>0, <2>5 DEF Table, Goto, ErrorGoesTo
    <3>2. FillFresh'
      BY <1>0, <2>1, <3>1 DEF FillFresh, ActiveNow
    <3>3. EntryFresh' /\ FoundFresh'
      BY <1>0, <2>1, <3>1 DEF EntryFresh, FoundFresh
    <3> QED BY <2>2, <3>2, <3>3 DEF FreshInv
  <2>6. CASE Fill(r)
    <3>1. /\ \A q \in Reqs \ {r} : pc'[q] = pc[q]
          /\ since' = since /\ pc[r] = "fill" /\ pc'[r] \in {"check", "accepted"}
      BY <1>0, <2>6 DEF Fill, Goto, FoundGoesTo
    <3>2. \/ expires' = [expires EXCEPT ![key[r]] = now + TTL]
          \/ expires' = expires
      BY <2>6 DEF Fill
    <3>3. since[r] <= lastOn /\ now <= since[r] + MaxLag /\ since[r] \in Nat
      BY <1>0, <3>1 DEF FillFresh
    <3>4. FillFresh' /\ FoundFresh'
      BY <1>0, <2>1, <3>1, <3>3 DEF FillFresh, FoundFresh
    <3>5. EntryFresh'
      BY <1>0, <2>1, <3>2, <3>3 DEF EntryFresh
    <3> QED BY <2>2, <3>4, <3>5 DEF FreshInv
  <2>7. CASE Check(r)
    <3>1. /\ \A q \in Reqs \ {r} : pc'[q] = pc[q]
          /\ since' = since /\ expires' = expires /\ pc[r] = "check"
          /\ pc'[r] \in {"accepted", "invalid"}
      BY <1>0, <2>7 DEF Check, Goto
    <3> QED
      BY <1>0, <2>1, <2>2, <3>1 DEF FreshInv, FillFresh, EntryFresh, FoundFresh
  <2> QED BY <1>2, <2>3, <2>4, <2>5, <2>6, <2>7 DEF Step
<1>3. ASSUME NEW a \in Admins, Put(a) \/ Update(a) \/ Evict(a) PROVE FreshInv'
  <2>1. /\ UNCHANGED <<now, pc, since>>
        /\ lastOn' = lastOn \/ lastOn' = now
        /\ active' => (active' = active /\ lastOn' = lastOn) \/ lastOn' = now
        /\ \A k \in Keys : expires'[k] \in {0, expires[k]}
    <3>1. CASE Put(a)
      BY <3>1 DEF Put, request
    <3>2. CASE Update(a)
      BY <3>2 DEF Update, request
    <3>3. CASE Evict(a)
      BY <3>3 DEF Evict, Evicted, request
    <3> QED BY <1>3, <3>1, <3>2, <3>3
  <2>2. lastOn <= lastOn' /\ lastOn' \in Nat
    BY <1>0, <2>1
  <2>3. ActiveNow'
    BY <1>0, <2>1, <1>3 DEF ActiveNow, Put, Update, Evict
  <2>4. FillFresh' /\ FoundFresh'
    BY <1>0, <2>1, <2>2 DEF FillFresh, FoundFresh
  <2>5. EntryFresh'
    BY <1>0, <2>1, <2>2 DEF EntryFresh
  <2> QED BY <2>3, <2>4, <2>5 DEF FreshInv
<1>4. CASE UNCHANGED vars
  BY <1>0, <1>4
  DEF vars, request, admin, history, FreshInv, ActiveNow, FillFresh, EntryFresh, FoundFresh
<1> QED BY <1>1, <1>2, <1>3, <1>4 DEF Next

-----------------------------------------------------------------------------
(* What a refused request has seen.                                        *)

LEMMA SawStart == Init => SawInv
BY DEF Init, SawInv, Running, PC, Ended, RejectedForCause

LEMMA SawStep == TypeOK /\ SawInv /\ [Next]_vars => SawInv'
<1> SUFFICES ASSUME TypeOK, SawInv, [Next]_vars PROVE SawInv'
  OBVIOUS
<1>0. pc \in [Reqs -> PC] /\ good \in [Reqs -> BOOLEAN] /\ active \in BOOLEAN
      /\ sawOff \subseteq Reqs
  BY DEF TypeOK
<1>1. CASE Tick \/ (\E a \in Admins : Put(a) \/ Evict(a)) \/ UNCHANGED vars
  <2>1. UNCHANGED <<active, pc, good, sawOff>>
    BY <1>1 DEF Tick, Put, Evict, vars, request, history
  <2> QED BY <2>1 DEF SawInv, RejectedForCause
<1>2. CASE \E a \in Admins : Update(a)
  <2>1. /\ UNCHANGED <<pc, good>>
        /\ sawOff' = IF active' THEN sawOff
                     ELSE sawOff \cup {r \in Reqs : pc[r] \notin {"idle"} \cup Ended}
    BY <1>2 DEF Update, request
  <2> QED BY <1>0, <2>1 DEF SawInv, RejectedForCause, Running
<1>3. ASSUME NEW r \in Reqs, Start(r) PROVE SawInv'
  <2>1. /\ pc' = [pc EXCEPT ![r] = "get"] /\ active' = active
        /\ sawOff' = (IF active THEN sawOff ELSE sawOff \cup {r})
        /\ \A q \in Reqs \ {r} : good'[q] = good[q]
    BY <1>0, <1>3 DEF Start, Goto
  <2> QED BY <1>0, <2>1 DEF SawInv, RejectedForCause
<1>4. ASSUME NEW r \in Reqs, Get(r) \/ Table(r) \/ Fill(r) \/ Check(r) PROVE SawInv'
  <2>1. UNCHANGED <<active, good, sawOff>> /\ pc[r] \in Running
        /\ \A q \in Reqs \ {r} : pc'[q] = pc[q]
    BY <1>0, <1>4 DEF Get, Table, Fill, Check, Goto, history, Running, PC, Ended
  <2>2. pc'[r] = "invalid" /\ good[r] => ~active
    <3>1. CASE Get(r)
      BY <1>0, <3>1 DEF Get, Goto, FoundGoesTo
    <3>2. CASE Table(r)
      BY <1>0, <3>2 DEF Table, Goto, ErrorGoesTo
    <3>3. CASE Fill(r)
      BY <1>0, <3>3 DEF Fill, Goto, FoundGoesTo
    <3>4. CASE Check(r)
      BY <1>0, <3>4 DEF Check, Goto
    <3> QED BY <1>4, <3>1, <3>2, <3>3, <3>4
  <2> QED BY <1>0, <2>1, <2>2 DEF SawInv, RejectedForCause
<1>5. ASSUME NEW r \in Reqs, End(r) PROVE SawInv'
  <2>1. /\ pc' = [pc EXCEPT ![r] = "idle"] /\ active' = active /\ sawOff' = sawOff \ {r}
        /\ \A q \in Reqs \ {r} : good'[q] = good[q]
    BY <1>0, <1>5 DEF End, Goto
  <2> QED BY <1>0, <2>1 DEF SawInv, RejectedForCause, Running
<1> QED BY <1>1, <1>2, <1>3, <1>4, <1>5 DEF Next, Step

-----------------------------------------------------------------------------
(* What a clean switching off leaves.                                      *)

LEMMA CleanStart == Init => CleanInv
BY DEF Init, CleanInv

LEMMA CleanStep == TypeOK /\ CleanInv /\ [Next]_vars => CleanInv'
<1> SUFFICES ASSUME TypeOK, CleanInv, [Next]_vars, off' = "clean"
             PROVE  /\ ~active'
                    /\ \A a \in Admins : apc'[a] = "idle"
                    /\ \A r \in Reqs : pc'[r] # "fill"
                    /\ \A k \in Keys : expires'[k] = 0
  BY DEF CleanInv
<1>0. pc \in [Reqs -> PC] /\ key \in [Reqs -> Keys]
      /\ apc \in [Admins -> {"idle", "update", "evict"}]
  BY DEF TypeOK
<1>1. CASE Tick \/ UNCHANGED vars
  <2>1. UNCHANGED <<off, active, apc, pc>>
        /\ \A k \in Keys : expires'[k] \in {0, expires[k]}
    BY <1>1 DEF Tick, vars, request, admin, history
  <2> QED BY <2>1 DEF CleanInv
<1>2. ASSUME NEW r \in Reqs, Step(r)
      PROVE  /\ ~active'
             /\ \A a \in Admins : apc'[a] = "idle"
             /\ \A q \in Reqs : pc'[q] # "fill"
             /\ \A k \in Keys : expires'[k] = 0
  <2>1. UNCHANGED <<off, active, apc>>
    BY <1>2 DEF Step, Start, Get, Table, Fill, Check, End, admin, history
  <2>2. /\ ~active /\ \A a \in Admins : apc[a] = "idle"
        /\ \A q \in Reqs : pc[q] # "fill"
        /\ \A k \in Keys : expires[k] = 0
    BY <2>1 DEF CleanInv
  <2>3. ~Fill(r)
    BY <2>2 DEF Fill
  <2>4. expires' = expires
    BY <1>2, <2>3 DEF Step, Start, Get, AfterHit, Table, Check, End
  <2>5. pc'[r] # "fill" /\ \A q \in Reqs \ {r} : pc'[q] = pc[q]
    <3>1. CASE Start(r) \/ Check(r) \/ End(r)
      BY <1>0, <3>1 DEF Start, Check, End, Goto
    <3>2. CASE Get(r)
      BY <1>0, <3>2 DEF Get, Goto, FoundGoesTo
    <3>3. CASE Table(r)
      BY <1>0, <2>2, <3>3 DEF Table, Goto, ErrorGoesTo
    <3> QED BY <1>2, <2>3, <3>1, <3>2, <3>3 DEF Step
  <2> QED BY <2>1, <2>2, <2>4, <2>5
<1>3. ASSUME NEW a \in Admins, Put(a) \/ Update(a)
      PROVE  FALSE
  BY <1>3 DEF Put, Update, CleanInv
<1>4. ASSUME NEW a \in Admins, Evict(a)
      PROVE  /\ ~active'
             /\ \A b \in Admins : apc'[b] = "idle"
             /\ \A r \in Reqs : pc'[r] # "fill"
             /\ \A k \in Keys : expires'[k] = 0
  <2>1. PICK done \in BOOLEAN :
           /\ expires' = IF done THEN Evicted ELSE expires
           /\ off' = IF active \/ \E b \in Admins \ {a} : apc[b] # "idle" THEN "no"
                     ELSE IF done /\ \A r \in Reqs : pc[r] # "fill" THEN "clean"
                     ELSE "leaky"
    BY <1>4 DEF Evict
  <2>2. ~active /\ done /\ (\A b \in Admins \ {a} : apc[b] = "idle")
        /\ \A r \in Reqs : pc[r] # "fill"
    BY <2>1
  <2>3. UNCHANGED <<active, pc>> /\ apc' = [apc EXCEPT ![a] = "idle"]
    BY <1>4 DEF Evict, AdminGoto, request
  <2> QED BY <1>0, <2>1, <2>2, <2>3 DEF Evicted
<1> QED BY <1>1, <1>2, <1>3, <1>4 DEF Next

-----------------------------------------------------------------------------
LEMMA AuthAlways == Spec => []AuthInv
<1>1. Init => AuthInv
  BY TypeStart, FreshStart, SawStart, CleanStart DEF AuthInv
<1>2. AuthInv /\ [Next]_vars => AuthInv'
  BY TypeStep, FreshStep, SawStep, CleanStep DEF AuthInv
<1> QED BY <1>1, <1>2, PTL DEF Spec

(* The authenticator's state keeps its type: of each of its requests, of   *)
(* the cache entries and of the PUTs that run.                             *)
THEOREM AuthTypes == Spec => []TypeOK
<1>1. AuthInv => TypeOK
  BY DEF AuthInv
<1> QED BY <1>1, AuthAlways, PTL

(* For every TTL, a deactivated client is let in for less than TTL plus    *)
(* twice the longest delay of a request after it was last active, however  *)
(* fills, hits, evictions and failures of any number of requests and PUTs  *)
(* interleave (auth.go 49-69, 201-208).                                    *)
THEOREM StalenessIsBounded == Spec => []StalenessBounded
<1>1. AuthInv => StalenessBounded
  <2> SUFFICES ASSUME AuthInv, NEW r \in Reqs, pc[r] = "accepted"
               PROVE  now < lastOn + TTL + 2 * MaxLag
    BY DEF StalenessBounded
  <2>1. now \in Nat /\ lastOn \in Nat /\ since[r] \in Nat /\ TTL \in Nat /\ MaxLag \in Nat
    BY AuthCacheAssumption DEF AuthInv, TypeOK
  <2>2. since[r] < lastOn + MaxLag + TTL /\ now <= since[r] + MaxLag
    BY DEF AuthInv, FreshInv, FoundFresh
  <2> QED BY <2>1, <2>2
<1> QED BY <1>1, AuthAlways, PTL

(* Right credentials are called invalid only when the client was inactive  *)
(* at some time during the request (auth.go 60-65, 74).                    *)
THEOREM RejectionsHaveCause == Spec => []RejectedForCause
<1>1. AuthInv => RejectedForCause
  BY DEF AuthInv, SawInv
<1> QED BY <1>1, AuthAlways, PTL

(* A PUT whose eviction succeeded while no request was about to fill keeps *)
(* the client out of the cache until the next PUT (auth.go 104).           *)
THEOREM CleanOffLasts == Spec => []CleanOffHolds
<1>1. AuthInv => CleanOffHolds
  BY DEF AuthInv, CleanInv, CleanOffHolds
<1> QED BY <1>1, AuthAlways, PTL
=============================================================================
