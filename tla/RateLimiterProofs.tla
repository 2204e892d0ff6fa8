------------------------- MODULE RateLimiterProofs -------------------------
(***************************************************************************)
(* Proofs about RateLimiter, for any finite set of requests, any limits,   *)
(* windows, months and clock errors that RateLimiterAssumption allows, and *)
(* any MaxTime.                                                            *)
(***************************************************************************)
EXTENDS RateLimiter, FiniteSetTheorems, TLAPS

Ever == {r \in Reqs : at[r] # -1}
EverIn(m) == {r \in Ever : MonthOf(stamp[r]) = m}
End(m) == (m + 1) * MonthLen

(* A script ran after its stamp was taken, but not much later.             *)
ClockInv ==
  \A r \in Reqs :
    /\ phase[r] = "new" => at[r] = -1
    /\ phase[r] = "granted" => at[r] # -1
    /\ phase[r] # "new" => stamp[r] <= now + Ahead
    /\ at[r] # -1 => at[r] <= now /\ stamp[r] <= at[r] + Ahead /\ at[r] <= stamp[r] + MaxDelay

(* What the hourly key has lost, by a script or because it expired, was    *)
(* outdated by then.                                                       *)
HourInv ==
  /\ Cardinality(hset) <= HourLimit
  /\ hset \subseteq Ever
  /\ \A r \in hset : at[r] + Window + 1 <= hexp
  /\ \A r \in Ever \ hset : stamp[r] + Window <= now + Ahead

(* A monthly key that counted something lives until no script can count in *)
(* its month any more, so that until then it has counted everything.       *)
MonthInv ==
  \A m \in Months :
    /\ mcount[m] > 0 => End(m) + MaxDelay <= mexp[m]
    /\ now < mexp[m] \/ now < End(m) + MaxDelay => Cardinality(EverIn(m)) <= mcount[m]
    /\ Cardinality(EverIn(m)) <= MonthLimit

LimiterInv == TypeOK /\ ClockInv /\ HourInv /\ MonthInv

-----------------------------------------------------------------------------
(* Calendar months.                                                        *)

LEMMA DivFacts ==
  ASSUME NEW M \in Nat \ {0}, NEW t \in Nat
  PROVE  t \div M \in Nat /\ (t \div M) * M <= t /\ t < ((t \div M) + 1) * M
<1>1. t \div M \in Nat
  OBVIOUS
<1>2. (t \div M) * M <= t
  OBVIOUS
<1>3. t < ((t \div M) + 1) * M
  OBVIOUS
<1> QED BY <1>1, <1>2, <1>3

LEMMA DivMonotone ==
  ASSUME NEW M \in Nat \ {0}, NEW s \in Nat, NEW t \in Nat, s <= t
  PROVE  s \div M <= t \div M
<1> DEFINE a == s \div M
           b == t \div M
<1>1. a \in Nat /\ b \in Nat /\ a * M <= s /\ t < (b + 1) * M
  BY DivFacts
<1>2. \A m \in Nat, n \in Nat : m * M < n * M => m < n
  OBVIOUS
<1> HIDE DEF a, b
<1>3. a * M < (b + 1) * M
  <2>1. a * M \in Nat /\ (b + 1) * M \in Nat
    BY <1>1
  <2> QED BY <1>1, <2>1
<1>4. a < b + 1
  BY <1>1, <1>2, <1>3
<1>5. a <= b
  BY <1>1, <1>4
<1> QED BY <1>5 DEF a, b

(* A stamp lies in a month that the model has, before the month's end.     *)
LEMMA MonthFacts ==
  ASSUME NEW t \in 0..(MaxTime + Ahead)
  PROVE  /\ MonthOf(t) \in Months
         /\ EndOfMonth(t) = End(MonthOf(t)) /\ t < End(MonthOf(t))
<1>1. t \in Nat /\ MonthLen \in Nat \ {0} /\ MaxTime + Ahead \in Nat
  BY RateLimiterAssumption
<1>2. t \div MonthLen \in Nat /\ t < ((t \div MonthLen) + 1) * MonthLen
  BY <1>1, DivFacts
<1>3. t \div MonthLen <= (MaxTime + Ahead) \div MonthLen
  BY <1>1, DivMonotone
<1>4. (MaxTime + Ahead) \div MonthLen \in Nat
  BY <1>1, DivFacts
<1> QED BY <1>2, <1>3, <1>4 DEF MonthOf, EndOfMonth, End, Months

LEMMA EndType == ASSUME NEW m \in Months PROVE m \in Nat /\ End(m) \in Nat
<1>1. MonthLen \in Nat \ {0} /\ MaxTime + Ahead \in Nat
  BY RateLimiterAssumption
<1>2. (MaxTime + Ahead) \div MonthLen \in Nat
  BY <1>1, DivFacts
<1>3. m \in Nat
  BY <1>2 DEF Months
<1> QED BY <1>1, <1>3 DEF End

(* The sets of requests counted are finite.                                *)
LEMMA Finite ==
  ASSUME NEW S, S \subseteq Reqs
  PROVE  IsFiniteSet(S) /\ Cardinality(S) \in Nat
BY FS_Subset, FS_CardinalityType, RateLimiterAssumption

LEMMA Fewer ==
  ASSUME NEW S, NEW T, S \subseteq T, T \subseteq Reqs
  PROVE  Cardinality(S) <= Cardinality(T)
BY Finite, FS_Subset

LEMMA OneMore ==
  ASSUME NEW S, S \subseteq Reqs, NEW r \in Reqs
  PROVE  Cardinality(S \cup {r}) <= Cardinality(S) + 1
BY Finite, FS_AddElement

-----------------------------------------------------------------------------
(* What the two scripts and the others do.                                 *)

LEMMA Numbers ==
  /\ Window \in Nat \ {0} /\ MonthLen \in Nat \ {0}
  /\ Buffer \in Nat /\ HourLimit \in Nat /\ MonthLimit \in Nat /\ MaxDelay \in Nat
  /\ Ahead \in Nat /\ MaxTime \in Nat /\ MaxDelay + Ahead <= Buffer
BY RateLimiterAssumption

LEMMA AnswerFacts ==
  ASSUME TypeOK, NEW r \in Reqs, NEW code \in {"granted", "denied"}, Answer(r, code)
  PROVE  /\ phase' \in [Reqs -> Phases]
         /\ phase'[r] \in {code, "sent", "failed"}
         /\ \A q \in Reqs \ {r} : phase'[q] = phase[q]
<1>1. PICK next \in {code, "sent", "failed"} : phase' = [phase EXCEPT ![r] = next]
  BY DEF Answer
<1>2. phase \in [Reqs -> Phases] /\ next \in Phases
  BY DEF TypeOK, Phases
<1> QED BY <1>1, <1>2

(* checkAllScript when it counts.                                          *)
LEMMA GrantFacts ==
  ASSUME TypeOK, ClockInv, NEW r \in Reqs, Grant(r)
  PROVE  /\ at[r] <= now /\ now - stamp[r] <= MaxDelay /\ stamp[r] <= now + Ahead
         /\ UNCHANGED <<now, stamp>>
         /\ at' = [at EXCEPT ![r] = now]
         /\ hset' = Live(stamp[r]) \cup {r} /\ hexp' = now + Window + 1
         /\ Cardinality(Live(stamp[r])) < HourLimit
         /\ \E m \in Months :
              /\ m = MonthOf(stamp[r]) /\ stamp[r] < End(m) /\ mcount[m] < MonthLimit
              /\ mcount' = [mcount EXCEPT ![m] = @ + 1]
              /\ mexp' = IF mcount[m] = 0
                         THEN [mexp EXCEPT ![m] = now + (End(m) + Buffer - stamp[r])] ELSE mexp
         /\ phase' \in [Reqs -> Phases] /\ phase'[r] \in {"granted", "sent", "failed"}
         /\ \A q \in Reqs \ {r} : phase'[q] = phase[q]
<1>1. /\ now \in Nat /\ stamp \in [Reqs -> 0..(MaxTime + Ahead)] /\ at \in [Reqs -> -1..MaxTime]
      /\ hset \subseteq Reqs /\ mcount \in [Months -> 0..MonthLimit]
  BY Numbers DEF TypeOK
<1>2. phase[r] = "sent" /\ now - stamp[r] <= MaxDelay /\ UNCHANGED <<now, stamp>>
      /\ Answer(r, "granted") /\ at' = [at EXCEPT ![r] = now]
      /\ hset' = Live(stamp[r]) \cup {r} /\ hexp' = now + Window + 1
      /\ ~(Cardinality(Live(stamp[r])) >= HourLimit)
  BY DEF Grant, Counted, HourFull
<1>3. stamp[r] <= now + Ahead /\ at[r] <= now
  BY <1>1, <1>2, Numbers DEF ClockInv
<1>4. Cardinality(Live(stamp[r])) < HourLimit
  BY <1>1, <1>2, Finite, Numbers DEF Live
<1>5. PICK m \in Months : m = MonthOf(stamp[r]) /\ stamp[r] < End(m)
                          /\ EndOfMonth(stamp[r]) = End(m)
  BY <1>1, MonthFacts
<1>6. /\ ~(mcount[m] >= MonthLimit)
      /\ mcount' = [mcount EXCEPT ![m] = @ + 1]
      /\ mexp' = IF mcount[m] = 0
                 THEN [mexp EXCEPT ![m] = now + (End(m) + Buffer - stamp[r])] ELSE mexp
  BY <1>5 DEF Grant, MonthFull, MonthTTL
<1>7. mcount[m] < MonthLimit
  BY <1>1, <1>6, Numbers
<1>8. /\ phase' \in [Reqs -> Phases] /\ phase'[r] \in {"granted", "sent", "failed"}
      /\ \A q \in Reqs \ {r} : phase'[q] = phase[q]
  BY <1>2, AnswerFacts
<1> QED BY <1>2, <1>3, <1>4, <1>5, <1>6, <1>7, <1>8

LEMMA DenyFacts ==
  ASSUME TypeOK, NEW r \in Reqs, Deny(r)
  PROVE  /\ UNCHANGED <<now, stamp, at, hexp, mcount, mexp>> /\ hset' = Live(stamp[r])
         /\ phase[r] = "sent" /\ phase' \in [Reqs -> Phases]
         /\ phase'[r] \in {"denied", "sent", "failed"}
         /\ \A q \in Reqs \ {r} : phase'[q] = phase[q]
BY AnswerFacts DEF Deny

-----------------------------------------------------------------------------
LEMMA TypeStart == Init => TypeOK
<1> SUFFICES ASSUME Init PROVE TypeOK
  OBVIOUS
<1>1. now \in 0..MaxTime /\ phase \in [Reqs -> Phases]
  BY Numbers DEF Init, Phases
<1>2. stamp \in [Reqs -> 0..(MaxTime + Ahead)] /\ at \in [Reqs -> -1..MaxTime]
  BY Numbers DEF Init
<1>3. hset \subseteq Reqs /\ hexp \in Nat
  BY DEF Init
<1>4. mcount \in [Months -> 0..MonthLimit] /\ mexp \in [Months -> Nat]
  BY Numbers DEF Init
<1> QED BY <1>1, <1>2, <1>3, <1>4 DEF TypeOK

LEMMA TypeStep == TypeOK /\ ClockInv /\ [Next]_vars => TypeOK'
<1> SUFFICES ASSUME TypeOK, ClockInv, [Next]_vars PROVE TypeOK'
  OBVIOUS
<1>1. /\ now \in 0..MaxTime /\ phase \in [Reqs -> Phases]
      /\ stamp \in [Reqs -> 0..(MaxTime + Ahead)] /\ at \in [Reqs -> -1..MaxTime]
      /\ hset \subseteq Reqs /\ hexp \in Nat
      /\ mcount \in [Months -> 0..MonthLimit] /\ mexp \in [Months -> Nat]
  BY DEF TypeOK
<1>2. CASE Tick
  <2>1. now' \in 0..MaxTime /\ hset' \subseteq Reqs /\ UNCHANGED <<phase, stamp, at, hexp, mexp>>
    BY <1>1, <1>2, Numbers DEF Tick
  <2>2. mcount' \in [Months -> 0..MonthLimit]
    BY <1>1, <1>2, Numbers DEF Tick
  <2> QED BY <1>1, <2>1, <2>2 DEF TypeOK
<1>3. ASSUME NEW r \in Reqs, Send(r) PROVE TypeOK'
  <2>1. PICK t \in now..(now + Ahead) : stamp' = [stamp EXCEPT ![r] = t]
    BY <1>3 DEF Send
  <2>2. t \in 0..(MaxTime + Ahead)
    BY <1>1, <2>1, Numbers
  <2>3. phase' = [phase EXCEPT ![r] = "sent"] /\ UNCHANGED <<now, at, hset, hexp, mcount, mexp>>
    BY <1>3 DEF Send, redis
  <2> QED BY <1>1, <2>1, <2>2, <2>3 DEF TypeOK, Phases
<1>4. ASSUME NEW r \in Reqs, Grant(r) PROVE TypeOK'
  <2>1. /\ now - stamp[r] <= MaxDelay /\ stamp[r] <= now + Ahead
        /\ UNCHANGED <<now, stamp>>
        /\ at' = [at EXCEPT ![r] = now]
        /\ hset' = Live(stamp[r]) \cup {r} /\ hexp' = now + Window + 1
        /\ phase' \in [Reqs -> Phases]
    BY <1>4, GrantFacts
  <2>2. PICK m \in Months :
          /\ stamp[r] < End(m) /\ mcount[m] < MonthLimit
          /\ mcount' = [mcount EXCEPT ![m] = @ + 1]
          /\ mexp' = IF mcount[m] = 0
                     THEN [mexp EXCEPT ![m] = now + (End(m) + Buffer - stamp[r])] ELSE mexp
    BY <1>4, GrantFacts
  <2>3. at' \in [Reqs -> -1..MaxTime]
    BY <1>1, <2>1, Numbers
  <2>4. hset' \subseteq Reqs /\ hexp' \in Nat
    BY <1>1, <2>1, Numbers DEF Live
  <2>5. mcount' \in [Months -> 0..MonthLimit]
    <3>1. mcount[m] + 1 \in 0..MonthLimit
      BY <1>1, <2>2, Numbers
    <3> QED BY <1>1, <2>2, <3>1
  <2>6. mexp' \in [Months -> Nat]
    <3>1. now + (End(m) + Buffer - stamp[r]) \in Nat
      <4>1. now \in Nat /\ stamp[r] \in Nat /\ End(m) \in Nat /\ Buffer \in Nat
        BY <1>1, EndType, Numbers
      <4> QED BY <2>2, <4>1
    <3> QED BY <1>1, <2>2, <3>1
  <2> QED BY <1>1, <2>1, <2>3, <2>4, <2>5, <2>6 DEF TypeOK
<1>5. ASSUME NEW r \in Reqs, Deny(r) PROVE TypeOK'
  <2>1. /\ UNCHANGED <<now, stamp, at, hexp, mcount, mexp>> /\ hset' = Live(stamp[r])
        /\ phase' \in [Reqs -> Phases]
    BY <1>5, DenyFacts
  <2> QED BY <1>1, <2>1 DEF TypeOK, Live
<1>6. ASSUME NEW r \in Reqs, Fail(r) PROVE TypeOK'
  BY <1>1, <1>6 DEF Fail, TypeOK, Phases, redis
<1>7. CASE UNCHANGED vars
  BY <1>1, <1>7 DEF vars, redis, TypeOK
<1> QED BY <1>2, <1>3, <1>4, <1>5, <1>6, <1>7 DEF Next

-----------------------------------------------------------------------------
LEMMA ClockStart == Init => ClockInv
BY DEF Init, ClockInv

LEMMA ClockStep == TypeOK /\ ClockInv /\ [Next]_vars => ClockInv'
<1> SUFFICES ASSUME TypeOK, ClockInv, [Next]_vars PROVE ClockInv'
  OBVIOUS
<1>1. /\ now \in Nat /\ phase \in [Reqs -> Phases]
      /\ stamp \in [Reqs -> Nat] /\ at \in [Reqs -> Int]
      /\ MaxDelay \in Nat /\ Ahead \in Nat
  BY Numbers DEF TypeOK
<1>2. CASE Tick
  BY <1>1, <1>2 DEF Tick, ClockInv
<1>3. ASSUME NEW r \in Reqs, Send(r) PROVE ClockInv'
  <2>1. PICK t \in now..(now + Ahead) : stamp' = [stamp EXCEPT ![r] = t]
    BY <1>3 DEF Send
  <2>2. phase[r] = "new" /\ phase' = [phase EXCEPT ![r] = "sent"] /\ UNCHANGED <<now, at>>
    BY <1>3 DEF Send
  <2>3. at[r] = -1
    BY <2>2 DEF ClockInv
  <2> QED BY <1>1, <2>1, <2>2, <2>3 DEF ClockInv
<1>4. ASSUME NEW r \in Reqs, Grant(r) PROVE ClockInv'
  <2>1. /\ now - stamp[r] <= MaxDelay /\ stamp[r] <= now + Ahead
        /\ UNCHANGED <<now, stamp>>
        /\ at' = [at EXCEPT ![r] = now]
        /\ phase'[r] \in {"granted", "sent", "failed"}
        /\ \A q \in Reqs \ {r} : phase'[q] = phase[q]
    BY <1>4, GrantFacts
  <2>2. at'[r] = now /\ now # -1 /\ \A q \in Reqs \ {r} : at'[q] = at[q]
    BY <1>1, <2>1
  <2> QED BY <1>1, <2>1, <2>2 DEF ClockInv
<1>5. ASSUME NEW r \in Reqs, Deny(r) \/ Fail(r) PROVE ClockInv'
  <2>1. /\ UNCHANGED <<now, stamp, at>> /\ phase[r] = "sent"
        /\ phase'[r] \in {"denied", "sent", "failed"}
        /\ \A q \in Reqs \ {r} : phase'[q] = phase[q]
    BY <1>1, <1>5, DenyFacts DEF Fail
  <2> QED BY <1>1, <2>1 DEF ClockInv
<1>6. CASE UNCHANGED vars
  BY <1>6 DEF vars, ClockInv
<1> QED BY <1>2, <1>3, <1>4, <1>5, <1>6 DEF Next

-----------------------------------------------------------------------------
LEMMA HourStart == Init => HourInv
<1> SUFFICES ASSUME Init PROVE HourInv
  OBVIOUS
<1>1. hset = {} /\ \A r \in Reqs : at[r] = -1
  BY DEF Init
<1>2. Cardinality({}) <= HourLimit
  BY FS_EmptySet, Numbers
<1>3. Ever = {}
  BY <1>1 DEF Ever
<1> QED BY <1>1, <1>2, <1>3 DEF HourInv

LEMMA HourStep == TypeOK /\ ClockInv /\ HourInv /\ [Next]_vars => HourInv'
<1> SUFFICES ASSUME TypeOK, ClockInv, HourInv, [Next]_vars PROVE HourInv'
  OBVIOUS
<1>1. /\ now \in Nat /\ stamp \in [Reqs -> Nat] /\ at \in [Reqs -> Int] /\ hexp \in Nat
      /\ phase \in [Reqs -> Phases] /\ hset \subseteq Reqs
      /\ Cardinality(hset) <= HourLimit /\ hset \subseteq Ever
      /\ (\A r \in hset : at[r] + Window + 1 <= hexp)
      /\ \A r \in Ever \ hset : stamp[r] + Window <= now + Ahead
  BY Numbers DEF TypeOK, HourInv
<1>2. CASE Tick
  <2>1. now' = now + 1 /\ UNCHANGED <<stamp, at, hexp>> /\ Ever' = Ever
        /\ hset' = (IF hexp = now + 1 THEN {} ELSE hset)
    BY <1>2 DEF Tick, Ever
  <2>2. Cardinality(hset') <= HourLimit
    BY <1>1, <2>1, FS_EmptySet, Numbers
  <2>3. \A r \in Ever \ hset' : stamp[r] + Window <= now + 1 + Ahead
    <3> SUFFICES ASSUME NEW r \in Ever \ hset' PROVE stamp[r] + Window <= now + 1 + Ahead
      OBVIOUS
    <3>1. r \in Reqs /\ at[r] \in Int /\ stamp[r] \in Nat /\ at[r] # -1
      BY <1>1 DEF Ever
    <3>2. CASE r \in hset
      <4>1. hexp = now + 1 /\ at[r] + Window + 1 <= hexp
        BY <1>1, <2>1, <3>2
      <4>2. stamp[r] <= at[r] + Ahead
        BY <3>1 DEF ClockInv
      <4> QED BY <1>1, <3>1, <4>1, <4>2, Numbers
    <3>3. CASE r \notin hset
      BY <1>1, <3>1, <3>3, Numbers
    <3> QED BY <3>2, <3>3
  <2>4. hset' \subseteq Ever /\ \A r \in hset' : at[r] + Window + 1 <= hexp
    BY <1>1, <2>1
  <2> QED BY <2>1, <2>2, <2>3, <2>4 DEF HourInv
<1>3. ASSUME NEW r \in Reqs, Send(r) PROVE HourInv'
  <2>1. phase[r] = "new" /\ UNCHANGED <<now, at, hset, hexp>>
        /\ \A q \in Reqs \ {r} : stamp'[q] = stamp[q]
    BY <1>1, <1>3 DEF Send, redis
  <2>2. r \notin Ever /\ Ever' = Ever /\ Ever \subseteq Reqs
    BY <2>1 DEF ClockInv, Ever
  <2> QED BY <1>1, <2>1, <2>2 DEF HourInv
<1>4. ASSUME NEW r \in Reqs, Grant(r) PROVE HourInv'
  <2>1. /\ stamp[r] <= now + Ahead /\ UNCHANGED <<now, stamp>>
        /\ at' = [at EXCEPT ![r] = now]
        /\ hset' = Live(stamp[r]) \cup {r} /\ hexp' = now + Window + 1
        /\ Cardinality(Live(stamp[r])) < HourLimit
    BY <1>4, GrantFacts
  <2>2. Live(stamp[r]) \subseteq hset /\ Live(stamp[r]) \subseteq Reqs
        /\ \A q \in hset \ Live(stamp[r]) : stamp[q] + Window <= stamp[r]
    BY <1>1, Numbers DEF Live
  <2>3. Cardinality(hset') <= HourLimit
    <3>1. Cardinality(hset') <= Cardinality(Live(stamp[r])) + 1
      BY <2>1, <2>2, OneMore
    <3>2. Cardinality(Live(stamp[r])) \in Nat /\ Cardinality(hset') \in Nat
      BY <2>1, <2>2, Finite
    <3> QED BY <2>1, <3>1, <3>2, Numbers
  <2>4. at'[r] = now /\ now # -1 /\ (\A q \in Reqs \ {r} : at'[q] = at[q])
        /\ Ever' = Ever \cup {r}
    BY <1>1, <2>1 DEF Ever
  <2>5. \A q \in Reqs : q \in Ever => at[q] <= now /\ at[q] \in Int
    BY <1>1 DEF ClockInv, Ever
  <2>6. \A q \in hset' : at'[q] + Window + 1 <= hexp'
    BY <1>1, <2>1, <2>2, <2>4, <2>5, Numbers
  <2>7. \A q \in Ever' \ hset' : stamp'[q] + Window <= now' + Ahead
    <3> SUFFICES ASSUME NEW q \in Ever \ hset' PROVE stamp[q] + Window <= now + Ahead
      BY <2>1, <2>4
    <3>1. q \in Reqs /\ stamp[q] \in Nat /\ stamp[r] \in Nat
      BY <1>1 DEF Ever
    <3>2. CASE q \in hset
      <4>1. stamp[q] + Window <= stamp[r]
        BY <2>1, <2>2, <3>2
      <4> QED BY <1>1, <2>1, <3>1, <4>1, Numbers
    <3>3. CASE q \notin hset
      BY <1>1, <3>3
    <3> QED BY <3>2, <3>3
  <2>8. hset' \subseteq Ever'
    BY <1>1, <2>1, <2>2, <2>4
  <2> QED BY <2>3, <2>6, <2>7, <2>8 DEF HourInv
<1>5. ASSUME NEW r \in Reqs, Deny(r) PROVE HourInv'
  <2>1. /\ UNCHANGED <<now, stamp, at, hexp>> /\ hset' = Live(stamp[r]) /\ phase[r] = "sent"
    BY <1>5, DenyFacts
  <2>2. Live(stamp[r]) \subseteq hset
        /\ \A q \in hset \ Live(stamp[r]) : stamp[q] + Window <= stamp[r]
    BY <1>1, Numbers DEF Live
  <2>3. stamp[r] <= now + Ahead /\ Ever' = Ever
    BY <2>1 DEF ClockInv, Ever
  <2>4. Cardinality(hset') <= HourLimit
    <3>1. Cardinality(hset') <= Cardinality(hset)
      BY <1>1, <2>1, <2>2, Fewer
    <3>2. Cardinality(hset) \in Nat /\ Cardinality(hset') \in Nat
      BY <1>1, <2>1, <2>2, Finite
    <3> QED BY <1>1, <3>1, <3>2, Numbers
  <2>5. \A q \in Ever \ hset' : stamp[q] + Window <= now + Ahead
    <3> SUFFICES ASSUME NEW q \in Ever \ hset' PROVE stamp[q] + Window <= now + Ahead
      OBVIOUS
    <3>1. q \in Reqs /\ stamp[q] \in Nat /\ stamp[r] \in Nat
      BY <1>1 DEF Ever
    <3>2. CASE q \in hset
      <4>1. stamp[q] + Window <= stamp[r]
        BY <2>1, <2>2, <3>2
      <4> QED BY <1>1, <2>3, <3>1, <4>1, Numbers
    <3>3. CASE q \notin hset
      BY <1>1, <3>3
    <3> QED BY <3>2, <3>3
  <2> QED BY <1>1, <2>1, <2>2, <2>3, <2>4, <2>5 DEF HourInv
<1>6. CASE (\E r \in Reqs : Fail(r)) \/ UNCHANGED vars
  <2>1. UNCHANGED <<now, stamp, at, hset, hexp>>
    BY <1>6 DEF Fail, vars, redis
  <2> QED BY <2>1 DEF HourInv, Ever
<1> QED BY <1>2, <1>3, <1>4, <1>5, <1>6 DEF Next

-----------------------------------------------------------------------------
LEMMA MonthStart == Init => MonthInv
<1> SUFFICES ASSUME Init, NEW m \in Months
             PROVE  mcount[m] = 0 /\ EverIn(m) = {}
  BY FS_EmptySet, Numbers DEF MonthInv
<1> QED BY DEF Init, EverIn, Ever

LEMMA MonthStep == TypeOK /\ ClockInv /\ MonthInv /\ [Next]_vars => MonthInv'
<1> SUFFICES ASSUME TypeOK, ClockInv, MonthInv, [Next]_vars PROVE MonthInv'
  OBVIOUS
<1>1. /\ now \in Nat /\ stamp \in [Reqs -> Nat] /\ at \in [Reqs -> Int]
      /\ mcount \in [Months -> 0..MonthLimit] /\ mexp \in [Months -> Nat]
  BY Numbers DEF TypeOK
<1>2. \A m \in Months : /\ EverIn(m) \subseteq Reqs /\ Cardinality(EverIn(m)) \in Nat
                        /\ m \in Nat /\ End(m) \in Nat
                        /\ mcount[m] \in Nat /\ mexp[m] \in Nat
  BY <1>1, Finite, EndType, Numbers DEF EverIn, Ever
<1>3. CASE Tick
  <2>1. now' = now + 1 /\ UNCHANGED <<stamp, at, mexp>>
        /\ \A m \in Months : /\ EverIn(m)' = EverIn(m)
                             /\ mcount'[m] = IF mexp[m] = now + 1 THEN 0 ELSE mcount[m]
    BY <1>3 DEF Tick, EverIn, Ever
  <2> SUFFICES ASSUME NEW m \in Months
               PROVE  /\ mcount'[m] > 0 => End(m) + MaxDelay <= mexp[m]
                      /\ (now + 1 < mexp[m] \/ now + 1 < End(m) + MaxDelay)
                           => Cardinality(EverIn(m)) <= mcount'[m]
                      /\ Cardinality(EverIn(m)) <= MonthLimit
    BY <2>1 DEF MonthInv
  <2>2. /\ mcount[m] > 0 => End(m) + MaxDelay <= mexp[m]
        /\ now < mexp[m] \/ now < End(m) + MaxDelay => Cardinality(EverIn(m)) <= mcount[m]
        /\ Cardinality(EverIn(m)) <= MonthLimit
    BY DEF MonthInv
  <2>3. CASE mexp[m] = now + 1
    <3>1. mcount'[m] = 0
      BY <2>1, <2>3
    <3>2. now + 1 < End(m) + MaxDelay => mcount[m] = 0
      BY <1>1, <1>2, <2>2, <2>3, Numbers
    <3>3. now + 1 < End(m) + MaxDelay => now < End(m) + MaxDelay
      BY <1>1, <1>2, Numbers
    <3> QED BY <1>1, <1>2, <2>2, <2>3, <3>1, <3>2, <3>3
  <2>4. CASE mexp[m] # now + 1
    <3>1. mcount'[m] = mcount[m]
      BY <2>1, <2>4
    <3> QED BY <1>1, <1>2, <2>2, <3>1, Numbers
  <2> QED BY <2>3, <2>4
<1>4. ASSUME NEW r \in Reqs, Send(r) PROVE MonthInv'
  <2>1. phase[r] = "new" /\ UNCHANGED <<now, at, mcount, mexp>>
        /\ \A q \in Reqs \ {r} : stamp'[q] = stamp[q]
    BY <1>1, <1>4 DEF Send, redis
  <2>2. at[r] = -1
    BY <2>1 DEF ClockInv
  <2>3. \A m \in Months : EverIn(m)' = EverIn(m)
    BY <2>1, <2>2 DEF EverIn, Ever
  <2> QED BY <2>1, <2>3 DEF MonthInv
<1>5. ASSUME NEW r \in Reqs, Grant(r) PROVE MonthInv'
  <2>1. /\ now - stamp[r] <= MaxDelay /\ stamp[r] <= now + Ahead
        /\ UNCHANGED <<now, stamp>> /\ at' = [at EXCEPT ![r] = now]
    BY <1>5, GrantFacts
  <2>2. PICK m \in Months :
          /\ m = MonthOf(stamp[r]) /\ stamp[r] < End(m) /\ mcount[m] < MonthLimit
          /\ mcount' = [mcount EXCEPT ![m] = @ + 1]
          /\ mexp' = IF mcount[m] = 0
                     THEN [mexp EXCEPT ![m] = now + (End(m) + Buffer - stamp[r])] ELSE mexp
    BY <1>5, GrantFacts
  <2>3. at'[r] = now /\ now # -1 /\ \A q \in Reqs \ {r} : at'[q] = at[q]
    BY <1>1, <2>1
  <2>4. ASSUME NEW n \in Months, n # m
        PROVE  EverIn(n)' = EverIn(n) /\ mcount'[n] = mcount[n] /\ mexp'[n] = mexp[n]
    <3>1. mcount'[n] = mcount[n] /\ mexp'[n] = mexp[n]
      BY <1>1, <2>2, <2>4
    <3>2. MonthOf(stamp[r]) # n
      BY <2>2, <2>4
    <3>3. EverIn(n)' = EverIn(n)
      BY <2>1, <2>3, <3>2 DEF EverIn, Ever
    <3> QED BY <3>1, <3>3
  <2>5. stamp[r] \in Nat /\ mcount'[m] = mcount[m] + 1 /\ EverIn(m)' = EverIn(m) \cup {r}
    <3>1. EverIn(m)' = EverIn(m) \cup {r}
      BY <2>1, <2>2, <2>3 DEF EverIn, Ever
    <3> QED BY <1>1, <2>2, <3>1
  <2>6. Cardinality(EverIn(m)) <= mcount[m]
    <3>1. now < End(m) + MaxDelay
      BY <1>1, <1>2, <2>1, <2>2, <2>5, Numbers
    <3> QED BY <3>1 DEF MonthInv
  <2>7. Cardinality(EverIn(m)') <= mcount[m] + 1
    <3>1. Cardinality(EverIn(m) \cup {r}) <= Cardinality(EverIn(m)) + 1
      BY <1>2, OneMore
    <3>2. Cardinality(EverIn(m) \cup {r}) \in Nat
      BY <1>2, Finite
    <3> QED BY <1>2, <2>5, <2>6, <3>1, <3>2
  <2>8. End(m) + MaxDelay <= mexp'[m]
    <3>1. CASE mcount[m] = 0
      <4>1. mexp'[m] = now + (End(m) + Buffer - stamp[r])
        BY <1>1, <2>2, <3>1
      <4> QED BY <1>1, <1>2, <2>1, <2>5, <4>1, Numbers
    <3>2. CASE mcount[m] # 0
      <4>1. mexp'[m] = mexp[m] /\ mcount[m] > 0
        BY <1>2, <2>2, <3>2
      <4> QED BY <4>1 DEF MonthInv
    <3> QED BY <3>1, <3>2
  <2>9. Cardinality(EverIn(m)') <= MonthLimit
    <3>1. Cardinality(EverIn(m)') \in Nat
      BY <1>2, <2>5, Finite
    <3> QED BY <1>2, <2>2, <2>7, <3>1, Numbers
  <2> SUFFICES ASSUME NEW n \in Months
               PROVE  /\ mcount'[n] > 0 => End(n) + MaxDelay <= mexp'[n]
                      /\ (now < mexp'[n] \/ now < End(n) + MaxDelay)
                           => Cardinality(EverIn(n)') <= mcount'[n]
                      /\ Cardinality(EverIn(n)') <= MonthLimit
    BY <2>1 DEF MonthInv, End
  <2>10. CASE n = m
    BY <2>5, <2>7, <2>8, <2>9, <2>10
  <2>11. CASE n # m
    BY <2>4, <2>11 DEF MonthInv
  <2> QED BY <2>10, <2>11
<1>6. CASE (\E r \in Reqs : Deny(r) \/ Fail(r)) \/ UNCHANGED vars
  <2>1. UNCHANGED <<now, stamp, at, mcount, mexp>>
    BY <1>6 DEF Deny, Fail, vars, redis
  <2> QED BY <2>1 DEF MonthInv, EverIn, Ever
<1> QED BY <1>3, <1>4, <1>5, <1>6 DEF Next

-----------------------------------------------------------------------------
(* The invariant the results below follow from holds in every state,        *)
(* however late and often scripts run (ratelimit.go 115-180).               *)
THEOREM LimiterAlways == Spec => []LimiterInv
<1>1. Init => LimiterInv
  BY TypeStart, ClockStart, HourStart, MonthStart DEF LimiterInv
<1>2. LimiterInv /\ [Next]_vars => LimiterInv'
  BY TypeStep, ClockStep, HourStep, MonthStep DEF LimiterInv
<1> QED BY <1>1, <1>2, PTL DEF Spec

(* Every variable of the limiter keeps its type (ratelimit.go 38-110).     *)
THEOREM LimiterTypes == Spec => []TypeOK
<1>1. LimiterInv => TypeOK
  BY DEF LimiterInv
<1> QED BY <1>1, LimiterAlways, PTL

LEMMA HourlyOfInv == LimiterInv => HourlyLimitKept
<1> DEFINE recent == {r \in Granted : at[r] > now - (Window - MaxDelay - Ahead)}
<1> SUFFICES ASSUME LimiterInv PROVE Cardinality(recent) <= HourLimit
  BY DEF HourlyLimitKept
<1>1. /\ now \in Nat /\ stamp \in [Reqs -> Nat] /\ at \in [Reqs -> Int] /\ hset \subseteq Reqs
      /\ Cardinality(hset) <= HourLimit
  BY Numbers DEF LimiterInv, TypeOK, HourInv
<1>2. recent \subseteq hset
  <2> SUFFICES ASSUME NEW r \in recent, r \notin hset PROVE FALSE
    OBVIOUS
  <2>1. r \in Reqs /\ phase[r] = "granted" /\ at[r] > now - (Window - MaxDelay - Ahead)
    BY DEF Granted
  <2>2. at[r] # -1 /\ at[r] <= stamp[r] + MaxDelay
    BY <2>1 DEF LimiterInv, ClockInv
  <2>3. stamp[r] + Window <= now + Ahead
    BY <2>1, <2>2 DEF LimiterInv, HourInv, Ever
  <2>4. stamp[r] \in Nat /\ at[r] \in Int
    BY <1>1, <2>1
  <2> QED BY <1>1, <2>1, <2>2, <2>3, <2>4, Numbers
<1>3. Cardinality(recent) <= Cardinality(hset)
  BY <1>1, <1>2, Fewer
<1>4. Cardinality(recent) \in Nat /\ Cardinality(hset) \in Nat
  BY <1>1, <1>2, Finite
<1> QED BY <1>1, <1>3, <1>4, Numbers

LEMMA MonthlyOfInv == LimiterInv => MonthlyLimitKept
<1> SUFFICES ASSUME LimiterInv, NEW m \in Months
             PROVE  Cardinality({r \in Granted : MonthOf(stamp[r]) = m}) <= MonthLimit
  BY DEF MonthlyLimitKept
<1> DEFINE let == {r \in Granted : MonthOf(stamp[r]) = m}
<1>1. let \subseteq EverIn(m) /\ EverIn(m) \subseteq Reqs
  BY DEF LimiterInv, ClockInv, EverIn, Ever, Granted
<1>2. Cardinality(let) <= Cardinality(EverIn(m))
  BY <1>1, Fewer
<1>3. Cardinality(let) \in Nat /\ Cardinality(EverIn(m)) \in Nat
  BY <1>1, Finite
<1>4. Cardinality(EverIn(m)) <= MonthLimit
  BY DEF LimiterInv, MonthInv
<1> QED BY <1>2, <1>3, <1>4, Numbers

LEMMA NothingOfInv == LimiterInv => NothingDangles
<1> SUFFICES ASSUME LimiterInv PROVE NothingDangles
  OBVIOUS
<1>1. hset \subseteq Ever
  BY DEF LimiterInv, HourInv
<1>2. \A r \in hset : at[r] # -1
  BY <1>1 DEF Ever
<1>3. ASSUME NEW m \in Months, mexp[m] > now
      PROVE  Cardinality({r \in hset : MonthOf(stamp[r]) = m}) <= mcount[m]
  <2> DEFINE held == {r \in hset : MonthOf(stamp[r]) = m}
  <2>1. held \subseteq EverIn(m) /\ EverIn(m) \subseteq Reqs
    BY <1>1 DEF EverIn, Ever
  <2>2. Cardinality(held) <= Cardinality(EverIn(m))
    BY <2>1, Fewer
  <2>3. Cardinality(held) \in Nat /\ Cardinality(EverIn(m)) \in Nat
    BY <2>1, Finite
  <2>4. mcount[m] \in Nat /\ mexp[m] \in Nat /\ now \in Nat
    BY Numbers DEF LimiterInv, TypeOK
  <2>5. now < mexp[m]
    BY <1>3, <2>4
  <2>6. Cardinality(EverIn(m)) <= mcount[m]
    BY <2>5 DEF LimiterInv, MonthInv
  <2> QED BY <2>2, <2>3, <2>4, <2>6
<1> QED BY <1>2, <1>3 DEF NothingDangles

LEMMA UsageOfInv == LimiterInv => UsageTruthful
<1> DEFINE shown == {r \in hset : stamp[r] >= now - Window + 1}
           let   == {r \in Granted : stamp[r] > now + Ahead - Window}
<1> SUFFICES ASSUME LimiterInv
             PROVE  /\ Cardinality(shown) <= HourLimit
                    /\ Cardinality(let) <= Cardinality(shown)
  BY DEF UsageTruthful, HourlyUsed
<1>1. /\ now \in Nat /\ stamp \in [Reqs -> Nat] /\ hset \subseteq Reqs
      /\ Cardinality(hset) <= HourLimit
  BY Numbers DEF LimiterInv, TypeOK, HourInv
<1>2. shown \subseteq hset /\ shown \subseteq Reqs
  BY <1>1
<1>3. let \subseteq shown
  <2> SUFFICES ASSUME NEW r \in let PROVE r \in shown
    OBVIOUS
  <2>1. r \in Reqs /\ phase[r] = "granted" /\ stamp[r] > now + Ahead - Window
        /\ stamp[r] \in Nat
    BY <1>1 DEF Granted
  <2>2. r \in Ever
    BY <2>1 DEF LimiterInv, ClockInv, Ever
  <2>3. r \in hset
    <3> SUFFICES ASSUME r \notin hset PROVE FALSE
      OBVIOUS
    <3>1. stamp[r] + Window <= now + Ahead
      BY <2>2 DEF LimiterInv, HourInv
    <3> QED BY <1>1, <2>1, <3>1, Numbers
  <2>4. stamp[r] >= now - Window + 1
    BY <1>1, <2>1, Numbers
  <2> QED BY <2>3, <2>4
<1>4. Cardinality(let) <= Cardinality(shown) /\ Cardinality(shown) <= Cardinality(hset)
  BY <1>1, <1>2, <1>3, Fewer
<1>5. Cardinality(shown) \in Nat /\ Cardinality(hset) \in Nat
  BY <1>1, <1>2, Finite
<1> QED BY <1>1, <1>4, <1>5, Numbers

(* Whatever order stamps reach Redis in, however late and however often a  *)
(* script is sent, no more than HourLimit requests pass in a window, less  *)
(* the clock error (ratelimit.go 55-88, 173).                              *)
THEOREM HourlyLimitHolds == Spec => []HourlyLimitKept
BY LimiterAlways, HourlyOfInv, PTL

(* The monthly key outlives every script that may still count in its       *)
(* month, so no month lets more than MonthLimit through (202, 322-326).    *)
THEOREM MonthlyLimitHolds == Spec => []MonthlyLimitKept
BY LimiterAlways, MonthlyOfInv, PTL

(* An hourly increment is never left without its monthly one (115-117).    *)
THEOREM IncrementsArePaired == Spec => []NothingDangles
BY LimiterAlways, NothingOfInv, PTL

(* What the dashboard shows counts everything let through in the window    *)
(* and stays within the limit (271-286).                                   *)
THEOREM UsageIsTruthful == Spec => []UsageTruthful
BY LimiterAlways, UsageOfInv, PTL
=============================================================================
