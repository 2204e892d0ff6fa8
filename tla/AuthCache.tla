----------------------------- MODULE AuthCache -----------------------------
(***************************************************************************)
(* Authentication of one client (internal/auth/auth.go) against the        *)
(* clients table and the Redis cache, while administrators switch the      *)
(* client on and off (PUT /admin/clients/:id/status, cmd/api/main.go).     *)
(* A request is one action per call that reaches Redis or MySQL, so a      *)
(* cache fill can overtake an eviction.                                    *)
(*                                                                         *)
(* An operator that nothing uses is a faulty variant of the operator       *)
(* after it, kept to show which property would notice (README.md).         *)
(***************************************************************************)
EXTENDS Naturals

CONSTANTS Reqs,      \* concurrent authentications
          Admins,    \* concurrent PUT requests
          TTL,       \* cacheTTL
          MaxLag,    \* the longest a request sits between two of its steps
          MayFail,   \* whether calls to Redis and MySQL fail
          MaxTime    \* bound: the last tick explored

ASSUME AuthCacheAssumption ==
  /\ TTL \in Nat \ {0} /\ MaxLag \in Nat /\ MaxTime \in Nat \ {0} /\ MayFail \in BOOLEAN

(* The two cache entries of the client: by API key and by SMTP user.       *)
Keys == {"apikey", "smtp"}

VARIABLES
  now,
  active,        \* clients.is_active
  expires,       \* cache key -> when its entry goes, 0 = no entry
  pc, key, good, \* each request: where it is, its kind, a right password
  since,         \* when it last read the cache or the table
  apc, want,     \* each administrator's PUT: where it is, is_active asked for
  lastOn,        \* history: the last time the client was active
  sawOff,        \* history: requests during which it was inactive at some time
  off,           \* history: whether the last PUT switched the client off
  late           \* history: requests that started when it had, none running

admin == <<apc, want>>
request == <<pc, key, good, since>>
history == <<lastOn, sawOff, off, late>>
vars == <<now, active, expires, request, admin, history>>

PC == {"idle", "get", "table", "fill", "check", "accepted", "invalid", "error"}
Ended == {"accepted", "invalid", "error"}

Init ==
  /\ now = 1 /\ active = TRUE /\ expires = [k \in Keys |-> 0]
  /\ pc = [r \in Reqs |-> "idle"] /\ key = [r \in Reqs |-> "apikey"]
  /\ good = [r \in Reqs |-> TRUE] /\ since = [r \in Reqs |-> 0]
  /\ apc = [a \in Admins |-> "idle"] /\ want = [a \in Admins |-> TRUE]
  /\ lastOn = 1 /\ sawOff = {} /\ off = "no" /\ late = {}

(* Time passes; no request waits longer than MaxLag to act on what it read *)
(* last, whether that fills the cache, checks the password or lets it in.  *)
Tick ==
  /\ now < MaxTime /\ now' = now + 1
  /\ \A r \in Reqs : pc[r] \in {"fill", "check", "accepted"} => now < since[r] + MaxLag
  /\ expires' = [k \in Keys |-> IF expires[k] = now + 1 THEN 0 ELSE expires[k]]
  /\ lastOn' = IF active THEN now + 1 ELSE lastOn
  /\ UNCHANGED <<active, request, admin, sawOff, off, late>>

Goto(r, label) == pc' = [pc EXCEPT ![r] = label]

-----------------------------------------------------------------------------
(* ValidateAPIKey or ValidateSmtpCredentials is called.  The API key is    *)
(* the client's own; a password may be wrong.                              *)
Start(r) ==
  /\ pc[r] = "idle" /\ Goto(r, "get")
  /\ \E k \in Keys, g \in BOOLEAN :
       /\ k = "apikey" => g
       /\ key' = [key EXCEPT ![r] = k] /\ good' = [good EXCEPT ![r] = g]
  /\ sawOff' = IF active THEN sawOff ELSE sawOff \cup {r}
  /\ late' = IF off # "no" THEN late \cup {r} ELSE late
  /\ UNCHANGED <<now, active, expires, since, admin, lastOn, off>>

(* What a client found, in the cache or in the table, still has to pass:   *)
(* the API key is its own proof, the password goes through bcrypt.         *)
FoundGoesTo(k) == IF k = "apikey" THEN "accepted" ELSE "check"

RenewOnTop(k) == [expires EXCEPT ![k] = @ + TTL]
KeepAlive(k) == [expires EXCEPT ![k] = now + TTL]
(* A hit leaves the entry and its TTL alone.                               *)
AfterHit(k) == expires

(* getFromCache; any error counts as a miss.                               *)
Get(r) ==
  /\ pc[r] = "get"
  /\ \/ /\ expires[key[r]] # 0
        /\ Goto(r, FoundGoesTo(key[r])) /\ expires' = AfterHit(key[r])
     \/ /\ (expires[key[r]] = 0 \/ MayFail)
        /\ Goto(r, "table") /\ UNCHANGED expires
  /\ since' = [since EXCEPT ![r] = now]
  /\ UNCHANGED <<now, active, key, good, admin, history>>

ErrorIsInvalid == "invalid"
(* An error that is not ErrNotFound: "authentication service unavailable". *)
ErrorGoesTo == "error"

(* GetByAPIKey, GetBySMTPUsername: WHERE ... AND is_active = 1             *)
Table(r) ==
  /\ pc[r] = "table"
  /\ \/ active /\ Goto(r, "fill")
     \/ ~active /\ Goto(r, "invalid")
     \/ MayFail /\ Goto(r, ErrorGoesTo)
  /\ since' = [since EXCEPT ![r] = now]
  /\ UNCHANGED <<now, active, expires, key, good, admin, history>>

(* writeToCache, its errors ignored.                                       *)
Fill(r) ==
  /\ pc[r] = "fill"
  /\ \/ expires' = [expires EXCEPT ![key[r]] = now + TTL]
     \/ MayFail /\ UNCHANGED expires
  /\ Goto(r, FoundGoesTo(key[r]))
  /\ UNCHANGED <<now, active, key, good, since, admin, history>>

(* bcrypt.CompareHashAndPassword                                           *)
Check(r) ==
  /\ pc[r] = "check"
  /\ Goto(r, IF good[r] THEN "accepted" ELSE "invalid")
  /\ UNCHANGED <<now, active, expires, key, good, since, admin, history>>

End(r) ==
  /\ pc[r] \in Ended /\ Goto(r, "idle")
  /\ key' = [key EXCEPT ![r] = "apikey"] /\ good' = [good EXCEPT ![r] = TRUE]
  /\ since' = [since EXCEPT ![r] = 0]
  /\ sawOff' = sawOff \ {r} /\ late' = late \ {r}
  /\ UNCHANGED <<now, active, expires, admin, lastOn, off>>

-----------------------------------------------------------------------------
AdminGoto(a, label) == apc' = [apc EXCEPT ![a] = label]

(* PUT status: the row is read (GetByID).                                  *)
Put(a) ==
  /\ apc[a] = "idle" /\ AdminGoto(a, "update")
  /\ \E on \in BOOLEAN : want' = [want EXCEPT ![a] = on]
  /\ off' = "no"
  /\ UNCHANGED <<now, active, expires, request, lastOn, sawOff, late>>

(* Update; when it fails the handler answers 500 and evicts nothing.       *)
Update(a) ==
  /\ apc[a] = "update"
  /\ \E done, ok \in BOOLEAN :
       /\ ok => done
       /\ (ok \/ MayFail)
       /\ active' = IF done THEN want[a] ELSE active
       /\ AdminGoto(a, IF ok THEN "evict" ELSE "idle")
  /\ lastOn' = IF active' THEN now ELSE lastOn
  /\ sawOff' = IF active' THEN sawOff
               ELSE sawOff \cup {r \in Reqs : pc[r] \notin {"idle"} \cup Ended}
  /\ UNCHANGED <<now, expires, request, want, off, late>>

EvictOne == [expires EXCEPT !["apikey"] = 0]
(* The two keys InvalidateCache deletes.                                   *)
Evicted == [k \in Keys |-> 0]

(* InvalidateCache, its error ignored; then 200.                           *)
Evict(a) ==
  /\ apc[a] = "evict" /\ AdminGoto(a, "idle")
  /\ \E done \in BOOLEAN :
       /\ (done \/ MayFail)
       /\ expires' = IF done THEN Evicted ELSE expires
       /\ off' = IF active \/ \E b \in Admins \ {a} : apc[b] # "idle" THEN "no"
                 ELSE IF done /\ \A r \in Reqs : pc[r] # "fill" THEN "clean"
                 ELSE "leaky"
  /\ UNCHANGED <<now, active, request, want, lastOn, sawOff, late>>

Step(r) == Start(r) \/ Get(r) \/ Table(r) \/ Fill(r) \/ Check(r) \/ End(r)

Next == \/ Tick
        \/ \E r \in Reqs : Step(r)
        \/ \E a \in Admins : Put(a) \/ Update(a) \/ Evict(a)

Spec == Init /\ [][Next]_vars

-----------------------------------------------------------------------------
TypeOK ==
  /\ now \in 1..MaxTime /\ lastOn \in 1..now /\ active \in BOOLEAN
  /\ expires \in [Keys -> 0..(MaxTime + TTL)]
  /\ pc \in [Reqs -> PC] /\ key \in [Reqs -> Keys] /\ good \in [Reqs -> BOOLEAN]
  /\ since \in [Reqs -> 0..MaxTime]
  /\ apc \in [Admins -> {"idle", "update", "evict"}] /\ want \in [Admins -> BOOLEAN]
  /\ off \in {"no", "leaky", "clean"} /\ sawOff \subseteq Reqs /\ late \subseteq Reqs

(* A deactivated client is let in for less than the TTL of an entry, plus  *)
(* the time a fill and a check may take, after it was last active: however *)
(* fills, hits, evictions and failures interleave, no entry is renewed     *)
(* from a stale one (auth.go 49-69, 201-208).                              *)
StalenessBounded ==
  \A r \in Reqs : pc[r] = "accepted" => now < lastOn + TTL + 2 * MaxLag

(* A request with right credentials is called invalid only if the client   *)
(* was inactive at some time while it ran: a database that fails is not    *)
(* reported as a wrong key, and a client switched on again is not refused  *)
(* for an answer it got while it was off (auth.go 60-65, 74).  This is what *)
(* the authenticator answers; AuthPlain makes a 535 of either error.       *)
RejectedForCause ==
  \A r \in Reqs : pc[r] = "invalid" /\ good[r] => r \in sawOff

(* A PUT that switched the client off keeps it out of the cache, by either *)
(* credential, until another PUT runs: unless the eviction failed, or a    *)
(* request that had read the row before was still to fill (auth.go 104).   *)
CleanOffHolds == off = "clean" => \A k \in Keys : expires[k] = 0

-----------------------------------------------------------------------------
(* "Evict cached credentials so the new status takes effect immediately"   *)
(* (cmd/api/main.go 377): a request that starts after the PUT that         *)
(* switched the client off has answered is not accepted, while no other    *)
(* PUT runs.                                                               *)
OffImmediately ==
  \A r \in late : off # "no" => pc[r] # "accepted"
=============================================================================
