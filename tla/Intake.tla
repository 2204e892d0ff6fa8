------------------------------- MODULE Intake -------------------------------
(***************************************************************************)
(* How a message enters the service: the SMTP sessions of cmd/smtp/main.go *)
(* and the send handler of cmd/api/main.go.  Both pass the rate limiter,   *)
(* create the email_logs row, push the job and answer, one action per call *)
(* that reaches Redis or MySQL; each such call may fail, with or without   *)
(* its effect, and each of the two processes may be killed at any moment.  *)
(* go-smtp is external: it calls NewSession at EHLO, Logout at the end of  *)
(* a session, Reset after RSET and after every DATA, and lets RCPT and     *)
(* DATA through only after MAIL and RCPT were accepted.                    *)
(*                                                                         *)
(* An operator that nothing uses is a faulty variant of the operator       *)
(* after it, kept to show which property would notice (README.md).         *)
(***************************************************************************)
EXTENDS Integers, Sequences, FiniteSets, SequencesExt

CONSTANTS Conns,          \* SMTP connections
          Reqs,           \* API requests
          Clients, Addrs,
          Listed,         \* blacklisted_emails: <<client, address>>
          MaxConns,       \* SMTP_MAX_CONNECTIONS, greater than 0
          MaxRecipients,  \* per message, SMTP only
          Limit,          \* messages the limiter grants each client
          MaxPushes,      \* LPUSHes go-redis makes of one push, when answers are lost
          MaxRcpts,       \* bound: addresses in one API request
          None            \* no client, no address, no message

ASSUME IntakeAssumption ==
  /\ Conns \cap Reqs = {} /\ None \notin Clients \cup Addrs
  /\ Listed \subseteq Clients \X Addrs
  /\ {MaxConns, MaxRecipients, Limit, MaxPushes, MaxRcpts} \subseteq Nat \ {0}

Senders == Conns \cup Reqs

VARIABLES
  connCount,  \* smtpBackend.connCount
  pc,         \* each connection and each request
  client,     \* who it was authenticated as
  from, to,   \* smtpSession.from and .to; req.From and req.To
  id,         \* logID: the row it created, by its place in rows
  used,       \* messages the limiter granted to a client
  rows,       \* email_logs, in the order of creation
  jobs,       \* every job ever pushed to queue:emails, a bag of payloads
  asked,      \* the envelope as the sender and go-smtp know it
  blind,      \* history: senders with a blacklist lookup that failed
  acked,      \* history: rows whose sender was told 250 or 202
  excused     \* history: rows a failed call or a kill left without an answer

envelope == <<client, from, to, id>>
stores == <<used, rows, jobs>>
history == <<asked, blind, acked, excused>>
vars == <<connCount, pc, envelope, stores, history>>

Envelope == [client : Clients \cup {None}, from : Addrs \cup {None}, to : Seq(Addrs)]
Blank == [client |-> None, from |-> None, to |-> <<>>]

(* What a sender is doing.  "closed" and "refusing" are connections with   *)
(* no session.                                                             *)
Serving == {"ready", "check", "read", "create", "push"}
PC == Serving \cup {"closed", "refusing"}

Init ==
  /\ connCount = 0 /\ pc = [s \in Senders |-> "closed"]
  /\ client = [s \in Senders |-> None] /\ from = [s \in Senders |-> None]
  /\ to = [s \in Senders |-> <<>>] /\ id = [s \in Senders |-> 0]
  /\ used = [k \in Clients |-> 0] /\ rows = <<>> /\ jobs = EmptyBag
  /\ asked = [s \in Senders |-> Blank] /\ acked = {} /\ excused = {}
  /\ blind = {}

Goto(s, label) == pc' = [pc EXCEPT ![s] = label]

-----------------------------------------------------------------------------
(* Connections.                                                            *)

TooManyLate(cur) == cur > MaxConns + 1
(* The counter as this NewSession's own AddInt64 left it.                  *)
TooMany(cur) == cur > MaxConns

(* NewSession: add one, and compare what the addition returned.            *)
NewSession(c) ==
  /\ pc[c] = "closed"
  /\ connCount' = connCount + 1
  /\ Goto(c, IF TooMany(connCount + 1) THEN "refusing" ELSE "ready")
  /\ UNCHANGED <<envelope, stores, history>>

UncountNothing == connCount
Uncount == connCount - 1

(* NewSession, a refused connection: subtract one, answer 421.             *)
Refuse(c) ==
  /\ pc[c] = "refusing"
  /\ connCount' = Uncount /\ Goto(c, "closed")
  /\ UNCHANGED <<envelope, stores, history>>

Forget(s) ==
  /\ client' = [client EXCEPT ![s] = None] /\ from' = [from EXCEPT ![s] = None]
  /\ to' = [to EXCEPT ![s] = <<>>] /\ id' = [id EXCEPT ![s] = 0]
  /\ asked' = [asked EXCEPT ![s] = Blank] /\ blind' = blind \ {s}

(* Logout: the session ends between two commands.                          *)
Logout(c) ==
  /\ pc[c] = "ready"
  /\ connCount' = connCount - 1 /\ Goto(c, "closed") /\ Forget(c)
  /\ UNCHANGED <<stores, acked, excused>>

-----------------------------------------------------------------------------
(* The envelope of an SMTP session.  A refusal changes nothing and is left *)
(* out: 530 without a client, 553 and 550 for a listed address, 452.       *)

(* AuthPlain; go-smtp lets a session authenticate once.                    *)
AuthPlain(c) ==
  /\ pc[c] = "ready" /\ client[c] = None
  /\ \E k \in Clients : /\ client' = [client EXCEPT ![c] = k]
                        /\ asked' = [asked EXCEPT ![c].client = k]
  /\ UNCHANGED <<connCount, pc, from, to, id, stores, blind, acked, excused>>

PassesAlways(k, a) == TRUE
(* IsBlacklisted(k, a) is false.                                           *)
Passes(k, a) == <<k, a>> \notin Listed

(* A lookup that fails lets the address through.                           *)
LetThrough(s, k, a) ==
  \/ Passes(k, a) /\ UNCHANGED blind
  \/ blind' = blind \cup {s}

Mail(c) ==
  /\ pc[c] = "ready" /\ client[c] # None
  /\ \E a \in Addrs :
       /\ LetThrough(c, client[c], a)
       /\ from' = [from EXCEPT ![c] = a]
       /\ asked' = [asked EXCEPT ![c].from = a]
  /\ UNCHANGED <<connCount, pc, client, to, id, stores, acked, excused>>

HasRoom(c) == Len(to[c]) < MaxRecipients

Rcpt(c) ==
  /\ pc[c] = "ready" /\ asked[c].from # None /\ HasRoom(c)
  /\ \E a \in Addrs :
       /\ LetThrough(c, client[c], a)
       /\ to' = [to EXCEPT ![c] = Append(@, a)]
       /\ asked' = [asked EXCEPT ![c].to = Append(@, a)]
  /\ UNCHANGED <<connCount, pc, client, from, id, stores, acked, excused>>

ClearedFromOnly(c) == to[c]
(* Reset forgets the recipients as well as the sender.                     *)
Cleared(c) == <<>>

(* Reset, which go-smtp calls when it has forgotten the envelope itself.   *)
ResetSession(c) ==
  /\ from' = [from EXCEPT ![c] = None] /\ to' = [to EXCEPT ![c] = Cleared(c)]
  /\ id' = [id EXCEPT ![c] = 0]
  /\ asked' = [asked EXCEPT ![c].from = None, ![c].to = <<>>]
  /\ blind' = blind \ {c}

(* RSET or a second EHLO.                                                  *)
Reset(c) ==
  /\ pc[c] = "ready" /\ asked[c].from # None /\ ResetSession(c)
  /\ UNCHANGED <<connCount, pc, client, stores, acked, excused>>

-----------------------------------------------------------------------------
(* A message.  The end of a message is a reply followed by Reset (SMTP),   *)
(* or the end of the request (API).                                        *)
Done(s) ==
  /\ UNCHANGED connCount
  /\ IF s \in Conns
     THEN Goto(s, "ready") /\ ResetSession(s) /\ UNCHANGED client
     ELSE Goto(s, "closed") /\ Forget(s)

(* Data is called; go-smtp wants a recipient first.                        *)
Data(c) ==
  /\ pc[c] = "ready" /\ asked[c].to # <<>>
  /\ Goto(c, "check")
  /\ UNCHANGED <<connCount, envelope, stores, history>>

(* An authenticated request with at least one To; an absent From is        *)
(* replaced by the domain's own, here one of Addrs.                        *)
Requests == [client : Clients, from : Addrs, to : BoundedSeq(Addrs, MaxRcpts) \ {<<>>}]

(* POST /v1/email/send                                                     *)
Send(r) ==
  /\ pc[r] = "closed" /\ Goto(r, "check")
  /\ \E e \in Requests :
       /\ client' = [client EXCEPT ![r] = e.client]
       /\ from' = [from EXCEPT ![r] = e.from] /\ to' = [to EXCEPT ![r] = e.to]
       /\ asked' = [asked EXCEPT ![r] = e]
  /\ UNCHANGED <<connCount, id, stores, blind, acked, excused>>

HasQuotaLate(k) == used[k] <= Limit
HasQuota(k) == used[k] < Limit

Granted(k) == [used EXCEPT ![k] = @ + 1]

(* limiter.CheckAll.  It refuses without counting, and its answer may be   *)
(* lost after it counted; either way the sender gets an error.             *)
CheckAll(s) ==
  /\ pc[s] = "check"
  /\ \/ /\ HasQuota(client[s]) /\ used' = Granted(client[s])
        /\ \/ Goto(s, "read") /\ UNCHANGED <<connCount, envelope, asked, blind>>
           \/ Done(s)
     \/ UNCHANGED used /\ Done(s)
  /\ UNCHANGED <<rows, jobs, acked, excused>>

(* SMTP: the body is read; 451 when that fails, 552 when it is too long.   *)
ReadBody(c) ==
  /\ pc[c] = "read"
  /\ \/ Goto(c, "create") /\ UNCHANGED <<connCount, envelope, asked, blind>>
     \/ Done(c)
  /\ UNCHANGED <<stores, acked, excused>>

(* API: the blacklist is asked about To[0] alone, and now only; 422.       *)
CheckFirst(r) ==
  /\ pc[r] = "read"
  /\ \/ /\ LetThrough(r, client[r], Head(to[r]))
        /\ Goto(r, "create") /\ UNCHANGED <<connCount, envelope, asked>>
     \/ ~Passes(client[r], Head(to[r])) /\ Done(r)
  /\ UNCHANGED <<stores, acked, excused>>

Row(s) == [client |-> client[s], from |-> from[s], to |-> Head(to[s])]

IgnoresCreate(ok) == TRUE
(* A row that could not be recorded ends the message: 451, 500.            *)
CreateCounts(ok) == ok

(* emailLogs.Create                                                        *)
Create(s) ==
  /\ pc[s] = "create"
  /\ \E done, ok \in BOOLEAN :
       /\ ok => done
       /\ rows' = IF done THEN Append(rows, Row(s)) ELSE rows
       /\ excused' = IF done /\ ~ok THEN excused \cup {Len(rows) + 1} ELSE excused
       /\ IF CreateCounts(ok)
          THEN /\ Goto(s, "push") /\ id' = [id EXCEPT ![s] = Len(rows) + 1]
               /\ UNCHANGED <<connCount, client, from, to, asked, blind>>
          ELSE Done(s)
  /\ UNCHANGED <<used, jobs, acked>>

JobOwnId(s) == [id |-> Cardinality(DOMAIN jobs) + 1, client |-> client[s], from |-> from[s],
                to |-> to[s]]
Job(s) == [id |-> id[s], client |-> client[s], from |-> from[s], to |-> to[s]]

Copies(job) == IF BagIn(job, jobs) THEN jobs[job] ELSE 0
Pushed(job) == jobs (+) SetToBag({job})

(* The answer to an LPUSH is lost, and go-redis pushes the payload again.  *)
PushAgain(s) ==
  /\ pc[s] = "push" /\ Copies(Job(s)) < MaxPushes - 1
  /\ jobs' = Pushed(Job(s))
  /\ UNCHANGED <<connCount, pc, envelope, used, rows, history>>

AckAlways(ok) == TRUE
(* Only a push that succeeded is answered 250 or 202.                      *)
AckWhen(ok) == ok

(* The last LPUSH of emailQueue.Push, then the answer.                     *)
Push(s) ==
  /\ pc[s] = "push"
  /\ \E done, ok \in BOOLEAN :
       /\ ok => done
       /\ jobs' = IF done THEN Pushed(Job(s)) ELSE jobs
       /\ acked' = IF AckWhen(ok) THEN acked \cup {id[s]} ELSE acked
       /\ excused' = IF ok THEN excused ELSE excused \cup {id[s]}
  /\ Done(s)
  /\ UNCHANGED <<used, rows>>

-----------------------------------------------------------------------------
(* A process is killed and started again: what its handlers had in hand is *)
(* gone, and so is the connection counter.                                 *)
Crash(S) ==
  /\ \E s \in S : pc[s] # "closed"
  /\ pc' = [s \in Senders |-> IF s \in S THEN "closed" ELSE pc[s]]
  /\ client' = [s \in Senders |-> IF s \in S THEN None ELSE client[s]]
  /\ from' = [s \in Senders |-> IF s \in S THEN None ELSE from[s]]
  /\ to' = [s \in Senders |-> IF s \in S THEN <<>> ELSE to[s]]
  /\ id' = [s \in Senders |-> IF s \in S THEN 0 ELSE id[s]]
  /\ asked' = [s \in Senders |-> IF s \in S THEN Blank ELSE asked[s]]
  /\ blind' = blind \ S
  /\ connCount' = IF S = Conns THEN 0 ELSE connCount
  /\ excused' = excused \cup {id[s] : s \in {x \in S : pc[x] = "push"}}
  /\ UNCHANGED <<stores, acked>>

Message(s) == CheckAll(s) \/ Create(s) \/ PushAgain(s) \/ Push(s)

Next ==
  \/ \E c \in Conns : \/ NewSession(c) \/ Refuse(c) \/ Logout(c)
                      \/ AuthPlain(c) \/ Mail(c) \/ Rcpt(c) \/ Reset(c)
                      \/ Data(c) \/ ReadBody(c)
  \/ \E r \in Reqs : Send(r) \/ CheckFirst(r)
  \/ \E s \in Senders : Message(s)
  \/ Crash(Conns) \/ Crash(Reqs)

Spec == Init /\ [][Next]_vars

-----------------------------------------------------------------------------
TypeOK ==
  /\ connCount \in Nat /\ pc \in [Senders -> PC]
  /\ client \in [Senders -> Clients \cup {None}]
  /\ from \in [Senders -> Addrs \cup {None}] /\ to \in [Senders -> Seq(Addrs)]
  /\ id \in [Senders -> 0..Len(rows)]
  /\ used \in [Clients -> 0..Limit]
  /\ rows \in Seq([client : Clients, from : Addrs, to : Addrs])
  /\ IsABag(jobs)
  /\ DOMAIN jobs \subseteq [id : Nat, client : Clients, from : Addrs, to : Seq(Addrs)]
  /\ asked \in [Senders -> Envelope]
  /\ blind \subseteq Senders /\ acked \subseteq 1..Len(rows) /\ excused \subseteq 1..Len(rows)

Sessions == {c \in Conns : pc[c] \in Serving}

(* Never more than MaxConns sessions, although NewSession adds first and   *)
(* compares afterwards, without a lock (cmd/smtp/main.go 146-156).         *)
SessionsBounded == Cardinality(Sessions) <= MaxConns

(* The counter is the number of sessions and of connections about to be    *)
(* refused: it neither drifts up until nobody gets in, nor down until the  *)
(* limit is void, whatever sessions begin and end (149-152, 304-307).      *)
CountExact ==
  connCount = Cardinality(Sessions) + Cardinality({c \in Conns : pc[c] = "refusing"})

(* What the service said it accepted is recorded and queued.               *)
AckedIsQueued ==
  \A i \in acked : i \in DOMAIN rows /\ \E j \in DOMAIN jobs : j.id = i

(* Every job has a row of its own for the worker and the webhook to        *)
(* update, of the same tenant, sender and first recipient; a row has no    *)
(* jobs but the copies of one, as many as go-redis pushes at most (Create  *)
(* before Push, main.go 145-170; smtp/main.go 257-283).                    *)
JobHasRow ==
  \A j \in DOMAIN jobs :
    /\ j.id \in DOMAIN rows
    /\ rows[j.id] = [client |-> j.client, from |-> j.from, to |-> Head(j.to)]
    /\ \A i \in DOMAIN jobs : i.id = j.id => i = j
    /\ jobs[j] <= MaxPushes

(* A row stays "queued" without a job only if its own Create or Push was   *)
(* answered with an error, or the process was killed between the two.      *)
OrphansExcused ==
  \A i \in DOMAIN rows :
    \/ i \in excused \/ \E j \in DOMAIN jobs : j.id = i
    \/ \E s \in Senders : pc[s] = "push" /\ id[s] = i

(* A message carries the envelope its sender gave for it, and nothing of   *)
(* the message before it on the same connection (299-302).                 *)
EnvelopeKept ==
  \A s \in Senders : pc[s] \in {"create", "push"} =>
    asked[s] = [client |-> client[s], from |-> from[s], to |-> to[s]]

(* A listed address gets into a message only past a lookup that failed, or *)
(* as a recipient after the first of an API request, which the API never   *)
(* looks up (smtp/main.go 180-211, api/main.go 140-143).                   *)
ListedStopped ==
  \A s \in Senders \ blind : pc[s] \in {"create", "push"} =>
    /\ <<client[s], Head(to[s])>> \notin Listed
    /\ s \in Conns => \A a \in {from[s]} \cup Range(to[s]) : <<client[s], a>> \notin Listed
=============================================================================
