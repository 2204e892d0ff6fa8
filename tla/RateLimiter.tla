---------------------------- MODULE RateLimiter ----------------------------
(***************************************************************************)
(* The rate limiter of internal/ratelimit/ratelimit.go for one client (the *)
(* keys of two clients are disjoint).  CheckAll reads the clock of the     *)
(* server that calls it and then sends a Lua script to Redis, which runs   *)
(* atomically but later: the stamp a script works with may be old when it  *)
(* runs, stamps of two requests may reach Redis in the other order, and a  *)
(* script whose answer is lost is sent again with the same arguments.      *)
(*                                                                         *)
(* An operator that nothing uses is a faulty variant of the operator       *)
(* after it, kept to show which property would notice (README.md).         *)
(***************************************************************************)
EXTENDS Integers, FiniteSets

CONSTANTS Reqs,        \* calls of CheckAll, one uuid each
          Window,      \* hwindow
          MonthLen,    \* ticks of a calendar month
          Buffer,      \* what secondsUntilEndOfMonth adds (5 minutes)
          HourLimit, MonthLimit,  \* the client's limits
          MaxDelay,    \* the most a stamp lags behind when its script runs
          Ahead,       \* the most a server's clock is ahead of Redis's
          MaxTime      \* bound: the last tick explored

ASSUME RateLimiterAssumption ==
  /\ {Window, MonthLen} \subseteq Nat \ {0}
  /\ {Buffer, HourLimit, MonthLimit, MaxDelay, Ahead, MaxTime} \subseteq Nat
  /\ MaxDelay + Ahead <= Buffer
  /\ IsFiniteSet(Reqs)

VARIABLES
  now,              \* Redis's clock
  phase,            \* request -> new, sent, granted, denied, failed
  stamp,            \* request -> now_ms, the score it has in the sorted set
  at,               \* history: when a script last counted it, -1 for never
  hset, hexp,       \* members of the hourly key; when the key expires
  mcount, mexp      \* the monthly keys (0 = no key); when they expire

redis == <<hset, hexp, mcount, mexp>>
vars == <<now, phase, stamp, at, redis>>

Phases == {"new", "sent", "granted", "denied", "failed"}

Months == 0..((MaxTime + Ahead) \div MonthLen)

(* firstOfNextMonth; the month names the monthly key.                      *)
MonthOf(t) == t \div MonthLen
EndOfMonth(t) == (MonthOf(t) + 1) * MonthLen

BareMonthTTL(t) == 1
(* secondsUntilEndOfMonth                                                  *)
MonthTTL(t) == EndOfMonth(t) + Buffer - t

Init == /\ now = 0
        /\ phase = [r \in Reqs |-> "new"]
        /\ stamp = [r \in Reqs |-> 0] /\ at = [r \in Reqs |-> -1]
        /\ hset = {} /\ hexp = 0
        /\ mcount = [m \in Months |-> 0] /\ mexp = [m \in Months |-> 0]

(* Keys whose time has come are gone.                                      *)
Tick ==
  /\ now < MaxTime /\ now' = now + 1
  /\ hset' = IF hexp = now + 1 THEN {} ELSE hset
  /\ mcount' = [m \in Months |-> IF mexp[m] = now + 1 THEN 0 ELSE mcount[m]]
  /\ UNCHANGED <<phase, stamp, at, hexp, mexp>>

(* CheckAll: the server reads its clock and sends the script.              *)
Send(r) ==
  /\ phase[r] = "new"
  /\ \E t \in now..(now + Ahead) : stamp' = [stamp EXCEPT ![r] = t]
  /\ phase' = [phase EXCEPT ![r] = "sent"]
  /\ UNCHANGED <<now, at, redis>>

LiveEager(t) == {r \in hset : stamp[r] > t - Window + 1}
(* The members ZREMRANGEBYSCORE 0 (now_ms - window) leaves.                *)
Live(t) == {r \in hset : stamp[r] > t - Window}

HourFullLate(live) == Cardinality(live) > HourLimit
HourFull(live) == Cardinality(live) >= HourLimit

MonthFullLate(m) == mcount[m] > MonthLimit
MonthFull(m) == mcount[m] >= MonthLimit

(* The answer reaches the caller, is lost and the script sent again, or is *)
(* lost for good (the handler then answers with an error).                 *)
Answer(r, code) ==
  \E next \in {code, "sent", "failed"} : phase' = [phase EXCEPT ![r] = next]

Counted(r) == at' = [at EXCEPT ![r] = now]

CommitHourFirst(r) ==
  LET live == Live(stamp[r])
      m    == MonthOf(stamp[r])
  IN  /\ phase[r] = "sent" /\ now - stamp[r] <= MaxDelay
      /\ ~HourFull(live)
      /\ hset' = live \cup {r} /\ hexp' = now + Window + 1
      /\ IF MonthFull(m) THEN Answer(r, "denied") /\ UNCHANGED <<at, mcount, mexp>>
         ELSE /\ mcount' = [mcount EXCEPT ![m] = @ + 1]
              /\ mexp' = IF mcount[m] = 0
                         THEN [mexp EXCEPT ![m] = now + MonthTTL(stamp[r])] ELSE mexp
              /\ Answer(r, "granted") /\ Counted(r)
      /\ UNCHANGED <<now, stamp>>

(* checkAllScript, neither limit reached: both increments.                 *)
Grant(r) ==
  LET live == Live(stamp[r])
      m    == MonthOf(stamp[r])
  IN  /\ phase[r] = "sent" /\ now - stamp[r] <= MaxDelay
      /\ ~HourFull(live) /\ ~MonthFull(m)
      /\ hset' = live \cup {r} /\ hexp' = now + Window + 1
      /\ mcount' = [mcount EXCEPT ![m] = @ + 1]
      /\ mexp' = IF mcount[m] = 0
                 THEN [mexp EXCEPT ![m] = now + MonthTTL(stamp[r])] ELSE mexp
      /\ Answer(r, "granted") /\ Counted(r)
      /\ UNCHANGED <<now, stamp>>

(* One of the limits is reached: only the outdated members go.             *)
Deny(r) ==
  LET live == Live(stamp[r]) IN
  /\ phase[r] = "sent" /\ now - stamp[r] <= MaxDelay
  /\ HourFull(live) \/ MonthFull(MonthOf(stamp[r]))
  /\ hset' = live
  /\ Answer(r, "denied")
  /\ UNCHANGED <<now, stamp, at, hexp, mcount, mexp>>

(* The script never ran: connection refused, context done.                 *)
Fail(r) == /\ phase[r] = "sent"
           /\ phase' = [phase EXCEPT ![r] = "failed"]
           /\ UNCHANGED <<now, stamp, at, redis>>

Next == Tick \/ \E r \in Reqs : Send(r) \/ Grant(r) \/ Deny(r) \/ Fail(r)

Spec == Init /\ [][Next]_vars

-----------------------------------------------------------------------------
(* GetCurrentUsage on a server with Redis's clock: ZCOUNT (now-window+1)   *)
HourlyUsed == Cardinality({r \in hset : stamp[r] >= now - Window + 1})

Granted == {r \in Reqs : phase[r] = "granted"}

TypeOK ==
  /\ now \in 0..MaxTime
  /\ phase \in [Reqs -> Phases]
  /\ stamp \in [Reqs -> 0..(MaxTime + Ahead)] /\ at \in [Reqs -> -1..MaxTime]
  /\ hset \subseteq Reqs /\ hexp \in Nat
  /\ mcount \in [Months -> 0..MonthLimit] /\ mexp \in [Months -> Nat]

(* The sliding window: at no time have more than HourLimit requests been   *)
(* let through during the last Window ticks of Redis's clock, less what    *)
(* the stamps may be wrong by (ratelimit.go 55-88, 173).                   *)
HourlyLimitKept ==
  Cardinality({r \in Granted : at[r] > now - (Window - MaxDelay - Ahead)}) <= HourLimit

(* No calendar month lets more than MonthLimit requests through, by the    *)
(* month of their stamps: the key outlives every script that may still     *)
(* count in it (202, 322-326).                                             *)
MonthlyLimitKept ==
  \A m \in Months :
    Cardinality({r \in Granted : MonthOf(stamp[r]) = m}) <= MonthLimit

(* "a successful hourly increment is never left dangling if the monthly    *)
(* limit happens to be exceeded" (115-117): a member of the hourly key was *)
(* counted by a script that passed both limits, and is in its month's      *)
(* counter as long as that key lives.                                      *)
NothingDangles ==
  /\ \A r \in hset : at[r] # -1
  /\ \A m \in Months :
    mexp[m] > now =>
      Cardinality({r \in hset : MonthOf(stamp[r]) = m}) <= mcount[m]

(* The dashboard counts every request let through in the window, and never *)
(* shows more than the limit (271-286).                                    *)
UsageTruthful ==
  /\ HourlyUsed <= HourLimit
  /\ Cardinality({r \in Granted : stamp[r] > now + Ahead - Window}) <= HourlyUsed
=============================================================================
